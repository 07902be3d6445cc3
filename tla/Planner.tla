------------------------------ MODULE Planner ------------------------------
(***************************************************************************)
(* How a route is planned: which workers run it, in which order and where  *)
(* the layer boundaries fall (engine/planner.cpp, engine/search.cpp and    *)
(* the planning part of place_route in engine/placement.cpp).              *)
(*                                                                         *)
(* The planners are pure, so the module is their operators and a two-step  *)
(* behaviour: a world (a model, the workers' greetings and a request) is   *)
(* chosen in Init, and PlaceRoute plans for it.  Sizes are in an abstract  *)
(* unit of memory, a byte; times are integers in a unit that makes a       *)
(* stage's time its bytes times the worker's speed, and every time is      *)
(* doubled, because a one-way link time is half of a measured round trip.  *)
(*                                                                         *)
(* A model is [layers, header, embed, out, per, kv]: per[l] is what layer  *)
(* l - 1 holds, out is 0 when the output head is tied to the embedding and *)
(* kv what one layer needs for one position.  A candidate is what its      *)
(* greeting and the discovery say of it: [key, suits, maxContext, offered, *)
(* speed, prefill, rtt, relayed, cached, links].  links maps the keys of   *)
(* the workers its node measured to [rtt, relayed, pace], pace being the   *)
(* time one row takes (0: bandwidth unknown).  A plan is a sequence of     *)
(* stages [provider, begin, end]; None stands for std::nullopt.            *)
(***************************************************************************)
EXTENDS Integers, SequencesExt

CONSTANTS
    World,          \* the (model, candidates, request) triples to plan for
    Reserve,        \* the 1 GiB a worker always keeps back
    Pad,            \* llama.cpp's padding of a context, 256 positions
    DefaultSpeed,   \* default_search_speed_us_per_gib
    Exhaustive,     \* up to this many workers every order is tried (4)
    LegacyLimit     \* candidates the first-fit planner looks at (8)

None == <<>>

RoundUp(n, unit) == ((n + unit - 1) \div unit) * unit

\* allocated_positions: the whole context is padded, then each sequence's share.
AllocatedPositions(context, sessions) ==
    IF context = 0 \/ sessions = 0 THEN 0
    ELSE RoundUp(RoundUp(context * sessions, Pad) \div sessions, Pad)

KvBytes(m, begin, end, q) ==
    AllocatedPositions(q.context, q.sessions) * q.sessions * (end - begin) * m.kv

LayerSum(m, begin, end) == FoldFunctionOnSet(+, 0, m.per, (begin + 1)..end)

\* stage_model_bytes: the first stage also owns the embedding, the last one the
\* output head, which is the embedding again when the head is tied.
StageModelBytes(m, begin, end) ==
    m.header + LayerSum(m, begin, end)
    + (IF begin = 0 \/ (end = m.layers /\ m.out = 0) THEN m.embed ELSE 0)
    + (IF end = m.layers THEN m.out ELSE 0)

\* decode_bytes: a token reads one row of the embedding, not all of it.
DecodeBytes(m, begin, end) ==
    LET bytes == StageModelBytes(m, begin, end)
    IN  IF begin = 0 /\ m.embed < bytes THEN bytes - m.embed ELSE bytes

\* usable_bytes: the offer less max(1 GiB, 15%).
UsableBytes(offered) ==
    LET share == (offered * 15) \div 100
        kept == IF share > Reserve THEN share ELSE Reserve
    IN  IF offered > kept THEN offered - kept ELSE 0

StageFits(m, offered, begin, end, q) ==
    /\ UsableBytes(offered) > 0 /\ KvBytes(m, begin, end, q) # 0
    /\ StageModelBytes(m, begin, end) + KvBytes(m, begin, end, q) <= UsableBytes(offered)

-----------------------------------------------------------------------------
(* The first-fit planner.                                                  *)

\* The first plan a list of attempts finds, tried in order.
FirstOf(options, Try(_)) ==
    FoldLeft(LAMBDA found, option: IF found # None THEN found ELSE Try(option), None, options)

\* A variant that charges the header once more than the stages hold it.
CountIsHopelessHeader(m, offers, q, count) ==
    LET usable == SortSeq([i \in DOMAIN offers |-> UsableBytes(offers[i])], >)
    IN  FoldLeft(+, 0, SubSeq(usable, 1, count))
            < StageModelBytes(m, 0, m.layers) + KvBytes(m, 0, m.layers, q) + m.header * count

\* count_is_hopeless: the `count' roomiest workers together cannot hold the model.
CountIsHopeless(m, offers, q, count) ==
    LET usable == SortSeq([i \in DOMAIN offers |-> UsableBytes(offers[i])], >)
    IN  FoldLeft(+, 0, SubSeq(usable, 1, count))
            < StageModelBytes(m, 0, m.layers) + KvBytes(m, 0, m.layers, q) + m.header * (count - 1)

\* Injective sequences of `count' members of S in lexicographic order: what the
\* nested loops of choose() and std::next_permutation go through.
Before(a, b) == \E i \in DOMAIN a : a[i] < b[i] /\ \A j \in 1..(i - 1) : a[j] = b[j]
Orders(S, count) ==
    SetToSortSeq({ o \in [1..count -> S] : IsInjective(o) }, Before)

\* Ends of the stage that begins at `begin', the one in proportion to its share
\* of the offers first, then by distance from it, the shorter one first.
EndsByWish(m, offers, order, slot, begin) ==
    LET count == Len(order)
        last == m.layers - (count - slot)
        offered == FoldLeft(LAMBDA sum, w: sum + offers[w], 0, SubSeq(order, slot, count))
        share == begin + (2 * (m.layers - begin) * offers[order[slot]] + offered) \div (2 * offered)
        wanted == IF share < begin + 1 THEN begin + 1 ELSE IF share > last THEN last ELSE share
        Away(end) == IF end > wanted THEN end - wanted ELSE wanted - end
    IN  SetToSortSeq((begin + 1)..last,
            LAMBDA a, b: Away(a) < Away(b) \/ (Away(a) = Away(b) /\ a < b))

\* split: the stages of `order' from `slot' on over the layers from `begin' on,
\* or None.
RECURSIVE Split(_, _, _, _, _, _)
Split(m, offers, q, order, slot, begin) ==
    LET stage(end) == [provider |-> order[slot], begin |-> begin, end |-> end]
        fits(end) == StageFits(m, offers[order[slot]], begin, end, q)
    IN  IF slot = Len(order)
        THEN IF fits(m.layers) THEN <<stage(m.layers)>> ELSE None
        ELSE FirstOf(EndsByWish(m, offers, order, slot, begin), LAMBDA end:
                IF ~fits(end) THEN None
                ELSE LET rest == Split(m, offers, q, order, slot + 1, end)
                     IN  IF rest = None THEN None ELSE <<stage(end)>> \o rest)

\* plan_stages: the fewest stages that fit; head 0 stands for no head.
PlanStages(m, offers, q, minimum, head) ==
    IF offers = <<>> \/ minimum > Len(offers) THEN None
    ELSE LET most == IF Len(offers) < m.layers THEN Len(offers) ELSE m.layers
             Leads(order) == head = 0 \/ order[1] = head
         IN  FirstOf([i \in 1..(most - minimum + 1) |-> minimum + i - 1], LAMBDA count:
                IF CountIsHopeless(m, offers, q, count) THEN None
                ELSE FirstOf(SelectSeq(Orders(DOMAIN offers, count), Leads),
                             LAMBDA order: Split(m, offers, q, order, 1, 0)))

\* plan_from_cache: only ranges the workers already hold, the longest first.
RECURSIVE ExtendCached(_, _, _, _, _)
ExtendCached(m, cs, q, limits, stages) ==
    LET begin == IF stages = <<>> THEN 0 ELSE stages[Len(stages)].end
        free == DOMAIN cs \ { stages[i].provider : i \in DOMAIN stages }
        options == { s \in [provider : free, begin : {begin}, end : (begin + 1)..m.layers] :
                        /\ <<s.begin, s.end>> \in cs[s.provider].cached
                        /\ limits.head # 0 /\ begin = 0 => s.provider = limits.head }
        Longer(a, b) == a.end > b.end \/ (a.end = b.end /\ a.provider > b.provider)
    IN  IF begin = m.layers
        THEN IF Len(stages) >= limits.minimum THEN stages ELSE None
        ELSE IF Len(stages) >= limits.maximum THEN None
        ELSE FirstOf(SetToSortSeq(options, Longer), LAMBDA s:
                IF StageFits(m, cs[s.provider].offered, s.begin, s.end, q)
                THEN ExtendCached(m, cs, q, limits, Append(stages, s)) ELSE None)
PlanFromCache(m, cs, q, limits) == ExtendCached(m, cs, q, limits, <<>>)

-----------------------------------------------------------------------------
(* The bounded search.                                                     *)

\* whole_overlap: a tied head is folded into the first and the last layer, and
\* a single stage holds it once.
WholeOverlap(m, prefix) == m.header + prefix[m.layers + 1] - StageModelBytes(m, 0, m.layers)

\* sizes_of: prefix[l + 1] is the bytes of layers [0, l) with the embedding folded
\* into layer 0 and the head into the last one, which makes a stage's size additive.
SizesOf(m, q) ==
    LET Add(prefix, l) == Append(prefix, prefix[l] + StageModelBytes(m, l - 1, l) - m.header)
        prefix == FoldLeft(Add, <<0>>, [l \in 1..m.layers |-> l])
    IN  [header |-> m.header, embedding |-> m.embed, layers |-> m.layers, prefix |-> prefix,
         overlap |-> IF m.layers > 1 THEN WholeOverlap(m, prefix) ELSE 0,
         kv |-> KvBytes(m, 0, 1, q)]

SizeModel(z, begin, end) ==
    z.header + z.prefix[end + 1] - z.prefix[begin + 1]
    - (IF begin = 0 /\ end = z.layers THEN z.overlap ELSE 0)
SizeDecode(z, begin, end) ==
    LET bytes == SizeModel(z, begin, end)
    IN  IF begin = 0 /\ z.embedding < bytes THEN bytes - z.embedding ELSE bytes

\* The self-check of sizes_of, on the whole model and on the halves.
Additive(z, m) ==
    LET Same(begin, end) == SizeModel(z, begin, end) = StageModelBytes(m, begin, end)
        middle == m.layers \div 2
    IN  Same(0, m.layers) /\ (middle > 0 => Same(0, middle) /\ Same(middle, m.layers))

\* The rule of stage_fits on the folded sizes.
Fits(z, offered, begin, end) ==
    /\ UsableBytes(offered) > 0
    /\ SizeModel(z, begin, end) + z.kv * (end - begin) <= UsableBytes(offered)

SpeedOf(c) == IF c.speed > 0 THEN c.speed ELSE DefaultSpeed
RttOf(c, q) == c.rtt + (IF c.relayed THEN q.relay ELSE 0)
ComputeMs(z, c, begin, end) == SizeDecode(z, begin, end) * SpeedOf(c)

\* measured_rtt: what either end measured, the sender's own number first.
MeasuredBy(cs, from, to) ==
    LET a == cs[from] b == cs[to]
    IN  IF b.key \in DOMAIN a.links THEN {a.links[b.key]}
        ELSE IF a.key \in DOMAIN b.links THEN {b.links[a.key]} ELSE {}

\* measured_mib_per_s: the better of the two ends' bandwidths, here the shorter
\* time per row (0: neither end knows).
Pace(cs, from, to) ==
    LET ends == { d \in {<<cs[from], cs[to]>>, <<cs[to], cs[from]>>} : d[2].key \in DOMAIN d[1].links }
        known == { d[1].links[d[2].key].pace : d \in ends } \ {0}
    IN  IF known = {} THEN 0 ELSE CHOOSE x \in known : \A y \in known : x <= y

\* link_one_way_ms, doubled: the head's own measurement, else the workers' own,
\* else through the planning node.
LinkMs(cs, from, to, q) ==
    IF q.head # 0 /\ from = q.head THEN RttOf(cs[to], q)
    ELSE IF q.head # 0 /\ to = q.head THEN RttOf(cs[from], q)
    ELSE LET known == MeasuredBy(cs, from, to)
             link == CHOOSE l \in known : TRUE
         IN  IF known = {} THEN RttOf(cs[from], q) + RttOf(cs[to], q)
             ELSE link.rtt + (IF link.relayed THEN q.relay ELSE 0)

\* links_ms, doubled: a token crosses every link of the ring once.
LinksMs(cs, order, q) ==
    IF Len(order) < 2 THEN 0
    ELSE FoldLeft(+, 0, [i \in DOMAIN order |->
            LinkMs(cs, order[i], order[(i % Len(order)) + 1], q)])

\* search_token_ms, doubled.
TokenMs(m, cs, plan, q) ==
    FoldLeft(+, 0, [i \in DOMAIN plan |->
        2 * DecodeBytes(m, plan[i].begin, plan[i].end) * SpeedOf(cs[plan[i].provider])])
    + LinksMs(cs, [i \in DOMAIN plan |-> plan[i].provider], q)

\* search_first_token_ms, doubled: the first chunk passes every stage and hop,
\* each later one adds the slowest of them.  0: something is not measured.
FirstTokenMs(m, cs, plan, q) ==
    LET n == Len(plan)
        chunk == IF q.chunk = 0 \/ q.chunk > q.prompt THEN q.prompt ELSE q.chunk
        chunks == (q.prompt + chunk - 1) \div chunk
        rows == q.prompt \div chunks
        At(i) == cs[plan[i].provider]
        Hop(i) == Pace(cs, plan[i].provider, plan[i + 1].provider)
        work == [i \in 1..n |-> 2 * rows * At(i).prefill * DecodeBytes(m, plan[i].begin, plan[i].end)]
                \o [i \in 1..(n - 1) |-> 2 * rows * Hop(i) * q.row]
        slowest == FoldLeft(LAMBDA a, b: IF a > b THEN a ELSE b, 0, work)
        FromPlanner(w) == IF q.head # 0 /\ w = q.head THEN 0 ELSE RttOf(cs[w], q)
    IN  IF q.prompt = 0 \/ plan = <<>> THEN 0
        ELSE IF \/ \E i \in 1..n : At(i).prefill = 0
                \/ \E i \in 1..(n - 1) : Hop(i) = 0 \/ q.row = 0
        THEN 0
        ELSE FoldLeft(+, 0, work)
             + FoldLeft(+, 0, [i \in 1..(n - 1) |-> LinkMs(cs, plan[i].provider, plan[i + 1].provider, q)])
             + (chunks - 1) * slowest
             + FromPlanner(plan[1].provider) + FromPlanner(plan[n].provider)

\* first_token_rank: 2 within the limit, 1 unknown, 0 known to exceed it.
FirstTokenRank(ms, q) ==
    IF q.limit = 0 THEN 2 ELSE IF ms = 0 THEN 1 ELSE IF ms <= q.limit THEN 2 ELSE 0

\* Equal times prefer even stages: larger than any sum of their squares, so the
\* squares only break ties.
Even == 1000000

\* One stage of the dynamic program: the ends worker w reaches from the ends
\* already reached, each with the least cost and the begin it came from.  Only a
\* stage that fits is extended, and the last one ends with the last layer.
ReachedBy(z, w, reached, last, final) ==
    LET Cost(c, e) == LET ms == ComputeMs(z, w, c.end, e) IN c.cost + Even * ms + ms * ms
        Stops(b, e) == \E x \in (IF final THEN e ELSE b + 1)..e : ~Fits(z, w.offered, b, x)
        tried == { p \in reached \X (IF final THEN {z.layers} ELSE 1..last) :
                    p[1].end < p[2] /\ ~Stops(p[1].end, p[2]) }
        cells == { [end |-> p[2], begin |-> p[1].end, cost |-> Cost(p[1], p[2])] : p \in tried }
    IN  { c \in cells : \A o \in cells :
            o.end = c.end => c.cost < o.cost \/ (c.cost = o.cost /\ c.begin <= o.begin) }

\* best_split: the split of one ordered group that takes the least time.
BestSplit(z, cs, order) ==
    LET n == Len(order)
        Stage(rows, w) == Append(rows,
            ReachedBy(z, cs[w], rows[Len(rows)], z.layers - (n - Len(rows)), Len(rows) = n))
        rows == FoldLeft(Stage, <<{[end |-> 0, begin |-> 0, cost |-> 0]}>>, order)
        Back(plan, s) ==
            LET end == IF plan = <<>> THEN z.layers ELSE plan[1].begin
                cell == CHOOSE c \in rows[s + 1] : c.end = end
            IN  <<[provider |-> order[s], begin |-> cell.begin, end |-> end]>> \o plan
    IN  IF rows[n + 1] = {} THEN None
        ELSE FoldLeft(Back, <<>>, [i \in 1..n |-> n + 1 - i])

\* search_pool: the head, then in turn the closest, the roomiest, the fastest
\* and those that hold layers, up to the pool's limit.
SearchPool(cs, q) ==
    LET Ranked(Value(_)) == SetToSortSeq(DOMAIN cs, LAMBDA a, b:
            Value(cs[a]) < Value(cs[b]) \/ (Value(cs[a]) = Value(cs[b]) /\ a < b))
        lists == << Ranked(LAMBDA c: RttOf(c, q)), Ranked(LAMBDA c: 0 - c.offered),
                    Ranked(SpeedOf), Ranked(LAMBDA c: IF c.cached = {} THEN 1 ELSE 0) >>
        limit == IF q.pool < Len(cs) THEN q.pool ELSE Len(cs)
        Take(pool, turn) ==
            LET left == SelectSeq(lists[((turn - 1) % 4) + 1], LAMBDA c: ~Contains(pool, c))
            IN  IF Len(pool) >= limit \/ left = <<>> THEN pool ELSE Append(pool, left[1])
    IN  FoldLeft(Take, IF q.head # 0 THEN <<q.head>> ELSE <<>>,
                 [turn \in 1..(4 * Len(cs)) |-> turn])

\* Groups of `count' pool members, by increasing pool positions.
Groups(pool, count) ==
    LET Increasing(p) == \A i \in 1..(count - 1) : p[i] < p[i + 1]
        picks == SetToSortSeq({ p \in [1..count -> DOMAIN pool] : Increasing(p) }, Before)
    IN  [i \in DOMAIN picks |-> [k \in 1..count |-> pool[picks[i][k]]]]

\* The memory bound: the group's workers together hold the model once, a header
\* per stage and all of the KV.  Floating point keeps the fraction of the 15%
\* that UsableBytes truncates, hence the twentieths.
GroupHolds(z, cs, group) ==
    LET In20ths(offered) ==
            IF 3 * offered > 20 * Reserve THEN 17 * offered ELSE 20 * (offered - Reserve)
    IN  FoldLeft(LAMBDA sum, w: sum + (IF In20ths(cs[w].offered) > 0 THEN In20ths(cs[w].offered) ELSE 0),
                 0, group)
            >= 20 * (SizeModel(z, 0, z.layers) - z.header + z.header * Len(group) + z.kv * z.layers)

\* A variant that takes the way through the planning node for a bound although
\* the workers measured a shorter one.
LinkBoundAlways(cs, group, q) ==
    IF Len(group) < 2 THEN 0
    ELSE FoldLeft(LAMBDA sum, w: sum + (IF w = q.head THEN 0 ELSE RttOf(cs[w], q)), 0, group)

\* link_bound, doubled: half of what the links cost through the planning node,
\* unless a worker of the group measured links of its own.
LinkBound(cs, group, q) ==
    IF Len(group) < 2 \/ \E i \in DOMAIN group : DOMAIN cs[group[i]].links # {} THEN 0
    ELSE FoldLeft(LAMBDA sum, w: sum + (IF w = q.head THEN 0 ELSE RttOf(cs[w], q)), 0, group)

\* The time bound: all weights at the group's fastest speed, plus its links.
TimeBound(z, cs, group, q) ==
    LET speeds == { SpeedOf(cs[group[i]]) : i \in DOMAIN group }
        fastest == CHOOSE v \in speeds : \A o \in speeds : v <= o
    IN  2 * SizeDecode(z, 0, z.layers) * fastest + LinkBound(cs, group, q)

\* The orders tried for one group: every one of a small group, else the fastest,
\* the roomiest and the closest first.  The head always leads.
GroupOrders(cs, group, q) ==
    LET rest == SelectSeq(group, LAMBDA w: w # q.head)
        lead == IF q.head # 0 THEN <<q.head>> ELSE <<>>
        By(Value(_)) == [i \in DOMAIN rest |->
            SetToSortSeq(DOMAIN rest, LAMBDA a, b:
                \/ Value(cs[rest[a]]) < Value(cs[rest[b]])
                \/ Value(cs[rest[a]]) = Value(cs[rest[b]]) /\ a < b)[i]]
        Of(positions) == [i \in DOMAIN rest |-> rest[positions[i]]]
        rules == << Of(By(SpeedOf)), Of(By(LAMBDA c: 0 - c.offered)), Of(By(LAMBDA c: RttOf(c, q))) >>
        orders == IF Len(rest) <= Exhaustive THEN Orders(ToSet(rest), Len(rest))
                  ELSE FoldLeft(LAMBDA kept, o: IF Contains(kept, o) THEN kept ELSE Append(kept, o),
                                <<>>, rules)
    IN  [i \in DOMAIN orders |-> lead \o orders[i]]

Nothing == [plan |-> None, token |-> 0, first |-> 0, rank |-> -1, evaluated |-> 0,
            exhaustive |-> TRUE, fromCache |-> FALSE]

\* One order: the links alone may already be too slow; its best split is kept
\* when its first token ranks higher or it decodes faster.
Evaluate(m, z, cs, q, best, order) ==
    IF best.evaluated >= q.budget THEN [best EXCEPT !.exhaustive = FALSE]
    ELSE LET counted == [best EXCEPT !.evaluated = @ + 1]
             plan == BestSplit(z, cs, order)
             token == TokenMs(m, cs, plan, q)
             first == FirstTokenMs(m, cs, plan, q)
             rank == FirstTokenRank(first, q)
         IN  IF best.rank = 2 /\ LinksMs(cs, order, q) >= best.token THEN counted
             ELSE IF plan = None THEN counted
             ELSE IF rank > best.rank \/ (rank = best.rank /\ token < best.token)
             THEN [counted EXCEPT !.plan = plan, !.token = token, !.first = first, !.rank = rank]
             ELSE counted

\* One group: nothing is evaluated for one that cannot hold the model or cannot
\* beat the best plan, once that has the top rank.
TryGroup(m, z, cs, q, best, group) ==
    IF \/ q.head # 0 /\ ~Contains(group, q.head)
       \/ ~GroupHolds(z, cs, group)
       \/ best.rank = 2 /\ TimeBound(z, cs, group, q) >= best.token
    THEN best
    ELSE LET others == Len(SelectSeq(group, LAMBDA w: w # q.head))
             looked == [best EXCEPT !.exhaustive = @ /\ others <= Exhaustive]
         IN  FoldLeft(LAMBDA found, order: Evaluate(m, z, cs, q, found, order),
                      looked, GroupOrders(cs, group, q))

\* A variant that takes the layers on disk however slow they are.
ReuseWinsAlways(best, reuse, reuseMs, reuseFirst, q) ==
    reuse # None /\ (best.plan = None \/ FirstTokenRank(reuseFirst, q) >= best.rank)

\* A plan from layers on disk wins when it is nearly as fast.
ReuseWins(best, reuse, reuseMs, reuseFirst, q) ==
    /\ reuse # None
    /\ \/ best.plan = None
       \/ FirstTokenRank(reuseFirst, q) >= best.rank
          /\ reuseMs * 100 <= best.token * (100 + q.tolerance)

\* The best plan among all groups of every size the request allows.
BestOfGroups(m, z, cs, q, pool, largest) ==
    FoldLeft(LAMBDA found, count:
                FoldLeft(LAMBDA f, group: TryGroup(m, z, cs, q, f, group), found, Groups(pool, count)),
             [Nothing EXCEPT !.exhaustive = (Len(pool) = Len(cs))],
             [i \in 1..(largest - q.minimum + 1) |-> q.minimum + i - 1])

\* The plan from the layers the pool's workers hold, named as in cs.
HeldPlan(m, cs, q, pool, largest) ==
    LET held == PlanFromCache(m, [i \in DOMAIN pool |-> cs[pool[i]]], q,
                    [minimum |-> q.minimum, maximum |-> largest, head |-> IF q.head = 0 THEN 0 ELSE 1])
    IN  [i \in DOMAIN held |-> [held[i] EXCEPT !.provider = pool[@]]]

OrReuse(m, cs, q, best, reuse) ==
    LET reuseMs == TokenMs(m, cs, reuse, q)
        reuseFirst == FirstTokenMs(m, cs, reuse, q)
        complete == best.exhaustive /\ best.evaluated < q.budget
    IN  IF ~ReuseWins(best, reuse, reuseMs, reuseFirst, q) THEN [best EXCEPT !.exhaustive = complete]
        ELSE [best EXCEPT !.plan = reuse, !.token = reuseMs, !.first = reuseFirst,
                          !.fromCache = TRUE, !.exhaustive = complete]

\* search_plan.
SearchPlan(m, cs, q) ==
    LET z == SizesOf(m, q)
        pool == SearchPool(cs, q)
        bounds == {q.maximum, Len(pool), m.layers}
        largest == CHOOSE n \in bounds : \A o \in bounds : n <= o
    IN  IF ~Additive(z, m) THEN [Nothing EXCEPT !.exhaustive = FALSE]
        ELSE OrReuse(m, cs, q, BestOfGroups(m, z, cs, q, pool, largest),
                               HeldPlan(m, cs, q, pool, largest))

-----------------------------------------------------------------------------
(* The planning loop of place_route for one model.                         *)

\* context_ladder: a fixed context, or from the manifest's floor up to what the
\* model was trained for, doubling.
ContextLadder(floor, trained, q) ==
    LET top == IF trained > floor THEN trained ELSE floor
        steps == { floor * x : x \in {1, 2, 4, 8} }
    IN  IF q.context # 0 THEN <<q.context>>
        ELSE IF ~q.largest THEN <<floor>>
        ELSE SetToSortSeq({ c \in steps : c < top } \cup {floor, top}, <)

\* The pool: what unusable() lets through, the closest and roomiest first; a
\* requested head leads it.  Link costs count in steps of 25 ms.
PlanPool(cs, q, context) ==
    LET able == { i \in DOMAIN cs : cs[i].suits /\ cs[i].maxContext >= context }
        Cost(i) == (cs[i].rtt \div 25) + (IF cs[i].relayed THEN 1 ELSE 0)
        sorted == SetToSortSeq(able, LAMBDA a, b:
            \/ Cost(a) < Cost(b)
            \/ Cost(a) = Cost(b) /\ cs[a].offered > cs[b].offered
            \/ Cost(a) = Cost(b) /\ cs[a].offered = cs[b].offered /\ cs[a].key < cs[b].key)
        IsHead(i) == cs[i].key = q.headKey
        order == SelectSeq(sorted, IsHead) \o SelectSeq(sorted, LAMBDA i: ~IsHead(i))
    IN  [i \in DOMAIN order |-> cs[order[i]]]

\* The first-fit plan takes the place of the one found when that is none or slower.
WithFloor(m, cs, q, found, legacy) ==
    LET legacyMs == TokenMs(m, cs, legacy, q)
        rank == FirstTokenRank(FirstTokenMs(m, cs, legacy, q), q)
        foundRank == FirstTokenRank(found.first, q)
        floor == /\ legacy # None /\ Len(legacy) <= q.maximum
                 /\ \/ found.plan = None
                    \/ /\ ~found.fromCache
                       /\ rank > foundRank \/ (rank = foundRank /\ legacyMs < found.token)
    IN  [search |-> found, legacy |-> legacy,
         plan |-> IF floor THEN legacy ELSE found.plan,
         token |-> IF floor THEN legacyMs ELSE found.token,
         fromCache |-> found.fromCache /\ ~floor]

\* The search for one context, with the first-fit planner as its floor.
PlanAt(m, cs, q) ==
    LET near == IF Len(cs) < LegacyLimit THEN Len(cs) ELSE LegacyLimit
        offers == [i \in 1..near |-> cs[i].offered]
    IN  WithFloor(m, cs, q, SearchPlan(m, cs, q), PlanStages(m, offers, q, q.minimum, q.head))

\* A requested head must be there, and enough workers.
LookAt(w, cs, q) ==
    LET led == w.request.headKey = 0 \/ (cs # <<>> /\ cs[1].key = w.request.headKey)
    IN  [q |-> q, cs |-> cs,
         fit |-> IF led /\ Len(cs) >= w.request.minimum THEN PlanAt(w.model, cs, q)
                 ELSE [search |-> Nothing, legacy |-> None, plan |-> None, token |-> 0,
                       fromCache |-> FALSE]]
Look(w, context) ==
    LookAt(w, PlanPool(w.candidates, w.request, context),
           [w.request EXCEPT !.context = context, !.head = IF w.request.headKey = 0 THEN 0 ELSE 1])

\* A larger context is kept while it needs no more stages.
Keep(acc, look) ==
    LET worse == \/ look.fit.plan = None
                 \/ acc.looked # None /\ Len(look.fit.plan) > Len(acc.looked[1].fit.plan)
    IN  IF acc.stop THEN acc
        ELSE IF worse THEN [acc EXCEPT !.stop = acc.looked # None]
        ELSE [acc EXCEPT !.looked = <<look>>]

\* The contexts in turn.
PlanRoute(w) ==
    LET ladder == ContextLadder(w.floor, w.trained, w.request)
        best == FoldLeft(LAMBDA acc, context: Keep(acc, Look(w, context)),
                         [looked |-> None, stop |-> FALSE], ladder)
    IN  IF best.looked # None THEN best.looked[1] ELSE Look(w, ladder[1])

-----------------------------------------------------------------------------
VARIABLES
    world,      \* the model, the workers' greetings and the request
    answer      \* what was planned, None before

vars == <<world, answer>>

Init == world \in World /\ answer = None

PlaceRoute ==
    /\ answer = None
    /\ answer' = <<PlanRoute(world)>>
    /\ UNCHANGED world

Next == PlaceRoute

Spec == Init /\ [][Next]_vars

-----------------------------------------------------------------------------
(* What a plan promises, stated over every plan there is.                  *)

Planned == answer # None
Chosen == answer[1]

\* All plans of `count' stages for the workers cs: an order of distinct workers
\* and increasing boundaries.
PlansOf(m, cs, q, count) ==
    LET orders == { o \in [1..count -> DOMAIN cs] : IsInjective(o) /\ (q.head = 0 \/ o[1] = q.head) }
        cuts == { c \in [0..count -> 0..m.layers] :
                    c[0] = 0 /\ c[count] = m.layers /\ \A i \in 1..count : c[i - 1] < c[i] }
    IN  { p \in { [i \in 1..count |-> [provider |-> o[i], begin |-> c[i - 1], end |-> c[i]]] :
                    o \in orders, c \in cuts } :
            \A i \in 1..count : StageFits(m, cs[p[i].provider].offered, p[i].begin, p[i].end, q) }
AllPlans(m, cs, q) == UNION { PlansOf(m, cs, q, count) : count \in q.minimum..q.maximum }

\* search.hpp, "complete: every group and order was evaluated: exact": when the
\* search says so, no plan is faster than the one found, and no plan exists when
\* none was found, whatever groups and orders its bounds left out.  With a
\* first-token limit the plans compared are each order's best split.  What it
\* found, and what was chosen, tiles the layers with distinct workers, the head
\* first, each stage fitting its worker, within the stage limits.
SearchIsExact ==
    /\ Planned => {Chosen.fit.plan, Chosen.fit.search.plan} \ {None}
                    \subseteq AllPlans(world.model, Chosen.cs, Chosen.q)
    /\ Planned /\ Chosen.fit.search.exhaustive /\ ~Chosen.fit.search.fromCache =>
        LET m == world.model
            cs == Chosen.cs
            q == Chosen.q
            found == Chosen.fit.search
            Orders1(n) == { o \in [1..n -> DOMAIN cs] : IsInjective(o) /\ (q.head = 0 \/ o[1] = q.head) }
            rivals == IF q.limit = 0 THEN AllPlans(m, cs, q)
                      ELSE { BestSplit(SizesOf(m, q), cs, o) :
                                o \in UNION { Orders1(n) : n \in q.minimum..q.maximum } } \ {None}
            Rank(p) == FirstTokenRank(FirstTokenMs(m, cs, p, q), q)
        IN  IF found.plan = None THEN rivals = {}
            ELSE \A p \in rivals :
                    \/ Rank(p) < Rank(found.plan)
                    \/ Rank(p) = Rank(found.plan) /\ found.token <= TokenMs(m, cs, p, q)

\* A plan from layers on disk downloads nothing, and costs at most the tolerated
\* share over the fastest plan there is.
CacheNearlyAsFast ==
    Planned /\ Chosen.fit.fromCache =>
        /\ \A i \in DOMAIN Chosen.fit.plan :
             <<Chosen.fit.plan[i].begin, Chosen.fit.plan[i].end>>
                \in Chosen.cs[Chosen.fit.plan[i].provider].cached
        /\ Chosen.fit.search.exhaustive /\ Chosen.q.limit = 0 =>
             \A p \in AllPlans(world.model, Chosen.cs, Chosen.q) :
                Chosen.fit.token * 100
                    <= TokenMs(world.model, Chosen.cs, p, Chosen.q) * (100 + Chosen.q.tolerance)

\* plan_stages finds a plan whenever the workers it looks at can hold the model,
\* with the fewest stages they can do it in, each of which fits: count_is_hopeless
\* never skips a count that works.
FewestStages ==
    Planned /\ Chosen.fit.search # Nothing =>
        LET m == world.model
            n == IF Len(Chosen.cs) < LegacyLimit THEN Len(Chosen.cs) ELSE LegacyLimit
            near == SubSeq(Chosen.cs, 1, n)
            Possible(count) == PlansOf(m, near, Chosen.q, count) # {}
            counts == { c \in Chosen.q.minimum..n : Possible(c) }
        IN  IF counts = {} THEN Chosen.fit.legacy = None
            ELSE /\ Chosen.fit.legacy # None /\ \A c \in counts : Len(Chosen.fit.legacy) <= c
                 /\ Chosen.fit.legacy \in PlansOf(m, near, Chosen.q, Len(Chosen.fit.legacy))
=============================================================================
