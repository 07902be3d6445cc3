----------------------------- MODULE Placement -----------------------------
(***************************************************************************)
(* Clients that look for somewhere to run a chat (engine/dan_client.cpp,   *)
(* selection.cpp) and place routes on workers they compete for             *)
(* (place_route in engine/placement.cpp).                                  *)
(*                                                                         *)
(* A client discovers ready replicas, estimates them beside a preview of a *)
(* new route and picks one (SelectPlan).  A new route is placed by         *)
(* greeting every worker, planning over those that said they are free,     *)
(* reserving the planned ones in parallel and loading them; what was       *)
(* granted is given back when another worker refuses.  What a worker does  *)
(* with a reservation is LeaseOps; here it is a thread per connection that *)
(* handles one request at a time and gives back what it holds when it sees *)
(* the connection closed, which may be much later than the client closed   *)
(* it (`gone'), or when it ends the connection itself (`cut'), which the   *)
(* client finds out with its next request.  The planner (module Planner)   *)
(* is abstracted to any `Need' workers of the pool (their order matters to *)
(* no one here), the replica to a session counter.                         *)
(***************************************************************************)
EXTENDS LeaseOps, Integers, Sequences, FiniteSets, SequencesExt

CONSTANTS
    Client, Worker,
    Need,           \* stages the model needs
    MaxAttempts,    \* bound on PlacementRequest::attempts
    LeaseTicks,     \* PlacementRequest::lease_ms, in ticks
    Policies,       \* what the callers may have asked for: see SelectPlan
    FullRounds,     \* looks for a session while a fitting replica is full (8)
    Sessions,       \* sessions of the ready replica
    ReplicaTier, ReplicaMs, ReplicaFirst,   \* its owner's measurements
    NewTier, NewMs, NewFirst, NewMeasured,  \* the preview of a new route
    MaxFaults       \* bound: refusals, late answers, failed loads, deaths in a behaviour

ASSUME PlacementConstants ==
    /\ IsFiniteSet(Worker) /\ Need \in 1..Cardinality(Worker)
    /\ MaxAttempts \in Nat \ {0}
    /\ \A p \in Policies, c \in Client : p[c].attempts \in 1..MaxAttempts
    /\ LeaseTicks \in 1..MaxLease
    /\ Route = Client \X (1..(2 * MaxAttempts))
    /\ Stage = 1..Need

VARIABLES
    lease,      \* each worker's lease
    link,       \* link[c][w]: the client's end of its connection to w
    gone,       \* connections the client closed and the worker has not seen closed
    pc,         \* where each client is
    policy,     \* its options
    plans,      \* the estimates it chooses among: ready ones first
    looked,     \* looked_again
    full,       \* a fitting replica was full when the client last looked
    plan,       \* the workers of the route being placed, in ring order
    result,     \* run_all's result per planned stage
    tries,      \* route ids used so far
    attempt,    \* attempts of this place_route
    round,      \* place_route calls so far
    free,       \* the replica's free sessions
    up,         \* the replica's owner answers
    faults      \* faults so far

vars == <<lease, link, gone, pc, policy, plans, looked, full, plan, result, tries, attempt, round, free, up, faults>>
clientVars == <<policy, plans, looked, full, tries, attempt, round, free, up>>

\* One more thing goes wrong.
Fault == faults < MaxFaults /\ faults' = faults + 1

NoLink == [open |-> FALSE, hello |-> "none", recheck |-> FALSE, cut |-> FALSE, req |-> "",
           held |-> NoRoute]
RouteOf(c) == <<c, tries[c]>>
Goto(c, to) == pc' = [pc EXCEPT ![c] = to]

Init ==
    /\ lease = [w \in Worker |-> Available]
    /\ link = [c \in Client |-> [w \in Worker |-> NoLink]]
    /\ gone = {}
    /\ pc = [c \in Client |-> "look"]
    /\ policy \in Policies
    /\ plans = [c \in Client |-> <<>>]
    /\ looked = [c \in Client |-> 0]
    /\ full = [c \in Client |-> FALSE]
    /\ plan = [c \in Client |-> <<>>]
    /\ result = [c \in Client |-> <<>>]
    /\ tries = [c \in Client |-> 0]
    /\ attempt = [c \in Client |-> 0]
    /\ round = [c \in Client |-> 0]
    /\ free = Sessions
    /\ up = TRUE
    /\ faults = 0

-----------------------------------------------------------------------------
(* The selection policy (selection.cpp).  An estimate is [tier, ms, first, *)
(* providers, measured, ready]; a policy is [tokenMax, firstMax,           *)
(* firstTarget, most, wait, accept, only, attempts, discover, checks].     *)

\* assess_plan, with the speed margin already in the policy's limits.
AssessPlan(e, p) ==
    IF e.providers = 0 \/ e.providers > p.most THEN "ineligible"
    ELSE IF ~e.measured \/ e.ms = 0 \/ e.first = 0 THEN "unverified"
    ELSE IF e.ms > p.tokenMax \/ e.first > p.firstMax THEN "below"
    ELSE "meets"

\* better: tier, then a quick first token, then speed (unknown last), then what
\* is ready.
Better(a, b, p) ==
    LET Quick(e) == e.first # 0 /\ e.first <= p.firstTarget
    IN  IF a.tier # b.tier THEN a.tier > b.tier
        ELSE IF Quick(a) # Quick(b) THEN Quick(a)
        ELSE IF a.ms # b.ms THEN a.ms # 0 /\ (b.ms = 0 \/ a.ms < b.ms)
        ELSE a.ready /\ ~b.ready

\* keep(): the first of the best, 0 when there is none.
BestOf(es, p, S) ==
    IF S = {} THEN 0
    ELSE CHOOSE i \in S : \A j \in S \ {i} : Better(es[i], es[j], p) \/ (i < j /\ ~Better(es[j], es[i], p))

\* select_plan: with ready-first, a ready plan that meets the target wins over a
\* better one that has to be loaded; a slower one is offered when none qualifies.
SelectPlan(es, p) ==
    LET meets == { i \in DOMAIN es : AssessPlan(es[i], p) = "meets" }
        slower == { i \in DOMAIN es : AssessPlan(es[i], p) \in {"below", "unverified"} }
        ready == BestOf(es, p, { i \in meets : es[i].ready })
        chosen == IF p.wait \/ ready = 0 THEN BestOf(es, p, meets) ELSE ready
    IN  [chosen |-> chosen, fallback |-> IF chosen # 0 THEN 0 ELSE BestOf(es, p, slower)]

\* ready_estimate: the sessions in use share the GPUs.
ReadyEstimate ==
    [tier |-> ReplicaTier, ms |-> ReplicaMs * (Sessions - free + 1), first |-> ReplicaFirst,
     providers |-> 1, measured |-> ReplicaMs # 0 /\ ReplicaFirst # 0, ready |-> TRUE]

\* new_estimate.
NewEstimate ==
    [tier |-> NewTier, ms |-> NewMs, first |-> NewFirst, providers |-> Need,
     measured |-> NewMeasured /\ NewFirst # 0, ready |-> FALSE]

FreeNow == { w \in Worker : Expire(lease[w]).state = "available" }
Feasible(p, es) == \E i \in DOMAIN es : AssessPlan(es[i], p) # "ineligible"

-----------------------------------------------------------------------------
(* Choosing (dan_client).                                                  *)

\* usable_replicas: the replica fits but has no free session.
FullReplica(p) == p.discover /\ up /\ free = 0

\* gather: ready replicas first; new routes are previewed unless a ready one
\* settles it.
Gather(c) ==
    /\ pc[c] = "look"
    /\ LET p == policy[c]
           ready == IF p.discover /\ up /\ free > 0 THEN <<ReadyEstimate>> ELSE <<>>
           first == SelectPlan(ready, p)
           settled == first.chosen # 0 \/ (p.accept /\ first.fallback # 0 /\ ~p.wait)
           fresh == IF settled \/ p.only \/ Cardinality(FreeNow) < Need THEN <<>> ELSE <<NewEstimate>>
       IN  plans' = [plans EXCEPT ![c] = ready \o fresh]
    /\ full' = [full EXCEPT ![c] = FullReplica(policy[c])]
    /\ Goto(c, "choose")
    /\ UNCHANGED <<lease, link, gone, policy, looked, plan, result, tries, attempt, round, free, up, faults>>

\* The pick of the selection loop, 0 when nothing is left to try.
Pick(c) ==
    LET p == policy[c]
        selection == SelectPlan(plans[c], p)
        ready == SelectSeq(plans[c], LAMBDA e: e.ready)
        among == SelectPlan(ready, p)
    IN  IF selection.chosen # 0 THEN selection.chosen
        ELSE IF ~p.accept THEN 0
        ELSE IF ~p.wait /\ among.fallback # 0 THEN among.fallback ELSE selection.fallback

\* Nothing could run: look again, more often while a fitting replica is full.
LookAgain(c) ==
    /\ pc[c] = "choose" /\ Pick(c) = 0
    /\ policy[c].discover /\ ~Feasible(policy[c], plans[c])
    /\ looked[c] < (IF full[c] THEN FullRounds ELSE 1)
    /\ looked' = [looked EXCEPT ![c] = @ + 1]
    /\ Goto(c, "look")
    /\ UNCHANGED <<lease, link, gone, policy, plans, full, plan, result, tries, attempt, round, free, up, faults>>

\* Nothing suits, or nothing was found again: the client gives up.
NothingToPick(c) ==
    /\ pc[c] = "choose" /\ Pick(c) = 0
    /\ \/ ~policy[c].discover
       \/ Feasible(policy[c], plans[c])
       \/ looked[c] >= (IF full[c] THEN FullRounds ELSE 1)
    /\ Goto(c, "failed")
    /\ plans' = [plans EXCEPT ![c] = <<>>]
    /\ UNCHANGED <<lease, link, gone, policy, looked, full, plan, result, tries, attempt, round, free, up, faults>>

\* open_ready connects; a replica that is gone is dropped and the rest chosen from.
OpenReady(c) ==
    /\ pc[c] = "choose" /\ Pick(c) # 0
    /\ plans[c][Pick(c)].ready
    /\ IF up THEN Goto(c, "opened") /\ plans' = [plans EXCEPT ![c] = <<>>]
       ELSE UNCHANGED pc /\ plans' = [plans EXCEPT ![c][Pick(c)].providers = 0]
    /\ UNCHANGED <<lease, link, gone, policy, looked, full, plan, result, tries, attempt, round, free, up, faults>>

\* create_session on the replica: refused when it filled up meanwhile, and then
\* the client ends with that error.
CreateSession(c) ==
    /\ pc[c] = "opened"
    /\ IF up /\ free > 0 THEN Goto(c, "chatting") /\ free' = free - 1
       ELSE Goto(c, "failed") /\ UNCHANGED free
    /\ UNCHANGED <<lease, link, gone, policy, plans, looked, full, plan, result, tries, attempt, round, up, faults>>

\* The chat ends and its session is free again.
EndChat(c) ==
    /\ pc[c] = "chatting"
    /\ free' = IF up THEN free + 1 ELSE free
    /\ Goto(c, "left")
    /\ UNCHANGED <<lease, link, gone, policy, plans, looked, full, plan, result, tries, attempt, round, up, faults>>

\* The replica dissolves.
ReplicaEnds ==
    /\ up /\ Fault
    /\ up' = FALSE /\ free' = 0
    /\ UNCHANGED <<lease, link, gone, pc, policy, plans, looked, full, plan, result, tries, attempt, round>>

\* The pick is a new route: place_route is called.
BeginPlacing(c) ==
    /\ pc[c] = "choose" /\ Pick(c) # 0
    /\ ~plans[c][Pick(c)].ready
    /\ Goto(c, "greet")
    /\ plans' = [plans EXCEPT ![c] = <<>>]
    /\ round' = [round EXCEPT ![c] = 1]
    /\ attempt' = [attempt EXCEPT ![c] = 1]
    /\ link' = [link EXCEPT ![c] = [w \in Worker |-> [NoLink EXCEPT !.recheck = TRUE]]]
    /\ UNCHANGED <<lease, gone, policy, looked, full, plan, result, tries, free, up, faults>>

-----------------------------------------------------------------------------
(* place_route.                                                            *)

\* A connection the client's end of which is closed: the worker's thread still
\* has the request and the reservation that came over it.  One with neither, and
\* one that the worker has ended, changes nothing when it ends and is dropped at once.
Left(c, w) == [w |-> w, req |-> link[c][w].req, route |-> RouteOf(c), held |-> link[c][w].held,
               stage |-> IF \E i \in DOMAIN plan[c] : plan[c][i] = w
                         THEN CHOOSE i \in DOMAIN plan[c] : plan[c][i] = w ELSE NoStage]
Closed(c, W) == gone \cup { Left(c, w) : w \in { x \in W : ~link[c][x].cut /\
                    (link[c][x].req = "reserve" \/ link[c][x].held # NoRoute) } }

\* open_worker: the greeting says what the worker's lease is at that moment; one
\* that cannot be reached is left out.
Greet(c, w) ==
    /\ pc[c] = "greet" /\ link[c][w].recheck
    /\ \/ /\ link' = [link EXCEPT ![c][w] = [NoLink EXCEPT !.open = TRUE,
                    !.hello = IF w \in FreeNow THEN "available" ELSE "busy"]]
          /\ UNCHANGED faults
       \/ Fault /\ link' = [link EXCEPT ![c][w] = NoLink]
    /\ UNCHANGED <<lease, gone, pc, plan, result, clientVars>>

Pool(c) == { w \in Worker : link[c][w].open /\ link[c][w].hello = "available" }
Greeted(c) == pc[c] = "greet" /\ \A w \in Worker : ~link[c][w].recheck
PlansOf(pool) == { SetToSeq(S) : S \in { T \in SUBSET pool : Cardinality(T) = Need } }

\* A plan over the pool, and its reservations go out to all its workers at once.
PlanAndReserve(c) ==
    /\ Greeted(c)
    /\ \E p \in PlansOf(Pool(c)) :
         /\ plan' = [plan EXCEPT ![c] = p]
         /\ link' = [link EXCEPT ![c] = [w \in Worker |->
                IF \E i \in 1..Need : p[i] = w THEN [@[w] EXCEPT !.req = "reserve"] ELSE @[w]]]
    /\ result' = [result EXCEPT ![c] = [i \in 1..Need |-> ""]]
    /\ tries' = [tries EXCEPT ![c] = @ + 1]
    /\ Goto(c, "reserve")
    /\ UNCHANGED <<lease, gone, policy, plans, looked, full, attempt, round, free, up, faults>>

\* The end of place_route by an exception: every connection closes with it.
\* dan_client looks once more, then gives up.
Throw(c) ==
    /\ gone' = Closed(c, Worker)
    /\ plan' = [plan EXCEPT ![c] = <<>>]
    /\ result' = [result EXCEPT ![c] = <<>>]
    /\ IF round[c] = 1 /\ policy[c].discover
       THEN /\ link' = [link EXCEPT ![c] = [w \in Worker |-> [NoLink EXCEPT !.recheck = TRUE]]]
            /\ round' = [round EXCEPT ![c] = 2]
            /\ attempt' = [attempt EXCEPT ![c] = 1]
            /\ Goto(c, "greet")
       ELSE /\ link' = [link EXCEPT ![c] = [w \in Worker |-> NoLink]]
            /\ Goto(c, "failed")
            /\ UNCHANGED <<round, attempt>>
    /\ UNCHANGED <<lease, policy, plans, looked, full, tries, free, up, faults>>

NoPlan(c) == Greeted(c) /\ PlansOf(Pool(c)) = {} /\ Throw(c)

\* check_route, which only an owner that forms a replica asks for: a link of the
\* plan is too slow, that worker is left out and the next attempt plans without it.
LeaveOut(c, w) ==
    /\ Greeted(c) /\ policy[c].checks
    /\ PlansOf(Pool(c)) # {} /\ w \in Pool(c)
    /\ IF attempt[c] = policy[c].attempts THEN Throw(c)
       ELSE /\ attempt' = [attempt EXCEPT ![c] = @ + 1]
            /\ gone' = Closed(c, {w})
            /\ link' = [link EXCEPT ![c][w] = NoLink]
            /\ UNCHANGED <<lease, pc, policy, plans, looked, full, plan, result, tries, round, free, up, faults>>

\* The stage of worker w's outstanding request.
StageAt(c, w) == CHOOSE i \in 1..Need : plan[c][i] = w

\* An answer that comes after the client gave up waiting for it is never read.
Reply(c, w, r) == result' = [result EXCEPT ![c][StageAt(c, w)] = IF @ = "" THEN r ELSE @]

\* Both ends of the connection are open.
Up(c, w) == link[c][w].open /\ ~link[c][w].cut

\* The worker handles a reservation: the first one wins, others are told busy.
HandleReserve(c, w) ==
    /\ Up(c, w) /\ link[c][w].req = "reserve"
    /\ IF CanReserve(lease[w], LeaseTicks)
       THEN /\ lease' = [lease EXCEPT ![w] = Reserve(RouteOf(c), StageAt(c, w), LeaseTicks)]
            /\ link' = [link EXCEPT ![c][w].req = "", ![c][w].held = RouteOf(c)]
            /\ Reply(c, w, "ok")
       ELSE /\ link' = [link EXCEPT ![c][w].req = ""]
            /\ Reply(c, w, "busy")
            /\ UNCHANGED lease
    /\ UNCHANGED <<gone, pc, plan, clientVars, faults>>

\* A refusal for another reason, or no answer within the timeout: the request
\* may still be handled after the client gave it up.
ReserveFails(c, w) ==
    /\ Fault
    /\ link[c][w].open /\ link[c][w].req = "reserve"
    /\ result[c][StageAt(c, w)] = ""
    /\ Reply(c, w, "error")
    /\ \/ link' = [link EXCEPT ![c][w].req = ""]
       \/ UNCHANGED link
    /\ UNCHANGED <<lease, gone, pc, plan, clientVars>>

Answered(c) == \A i \in DOMAIN result[c] : result[c][i] # ""

\* A variant that keeps what was granted for the next attempt.
UndoKeeping(c) ==
    /\ pc[c] = "reserve" /\ Answered(c) /\ \E i \in 1..Need : result[c][i] # "ok"
    /\ LET refused == { plan[c][i] : i \in { k \in 1..Need : result[c][k] # "ok" } }
           busy == { plan[c][i] : i \in { k \in 1..Need : result[c][k] = "busy" } }
       IN  /\ gone' = Closed(c, refused)
           /\ link' = [link EXCEPT ![c] = [w \in Worker |->
                IF w \in refused THEN [NoLink EXCEPT !.recheck = w \in busy] ELSE @[w]]]
           /\ UNCHANGED lease
    /\ Goto(c, "again")
    /\ plan' = [plan EXCEPT ![c] = <<>>]
    /\ result' = [result EXCEPT ![c] = <<>>]
    /\ UNCHANGED <<clientVars, faults>>

\* Some worker refused: its connection is closed, a busy one is asked again in
\* the next attempt; the others give their reservation back on request, or are
\* left to notice the end of the connection (`lost'): so the ones that had ended it
\* themselves.
Undo(c) ==
    /\ pc[c] = "reserve" /\ Answered(c) /\ \E i \in 1..Need : result[c][i] # "ok"
    /\ LET refused == { plan[c][i] : i \in { k \in 1..Need : result[c][k] # "ok" } }
           busy == { plan[c][i] : i \in { k \in 1..Need : result[c][k] = "busy" } }
           ended == { plan[c][i] : i \in { k \in 1..Need : link[c][plan[c][k]].cut } } \ refused
       IN  \E lost \in SUBSET ({ plan[c][i] : i \in 1..Need } \ refused) :
           LET granted == { plan[c][i] : i \in 1..Need } \ (refused \cup lost)
           IN  /\ ended \subseteq lost
               /\ (lost = ended /\ UNCHANGED faults) \/ (lost # ended /\ Fault)
               /\ gone' = Closed(c, refused \cup lost)
               /\ link' = [link EXCEPT ![c] = [w \in Worker |->
                    IF w \in refused \cup lost THEN [NoLink EXCEPT !.recheck = w \in busy]
                    ELSE IF w \in granted THEN [@[w] EXCEPT !.held = NoRoute] ELSE @[w]]]
               /\ lease' = [w \in Worker |-> IF w \in granted THEN Release(lease[w], RouteOf(c)) ELSE lease[w]]
    /\ Goto(c, "again")
    /\ plan' = [plan EXCEPT ![c] = <<>>]
    /\ result' = [result EXCEPT ![c] = <<>>]
    /\ UNCHANGED clientVars

\* After a short sleep the next attempt starts, or none is left.
NextAttempt(c) ==
    /\ pc[c] = "again"
    /\ IF attempt[c] = policy[c].attempts THEN Throw(c)
       ELSE /\ attempt' = [attempt EXCEPT ![c] = @ + 1]
            /\ Goto(c, "greet")
            /\ UNCHANGED <<lease, link, gone, policy, plans, looked, full, plan, result, tries, round, free, up, faults>>

\* Every worker agreed: all ranges are loaded in parallel.
AssignAll(c) ==
    /\ pc[c] = "reserve" /\ Answered(c) /\ \A i \in 1..Need : result[c][i] = "ok"
    /\ Goto(c, "load")
    /\ result' = [result EXCEPT ![c] = [i \in 1..Need |-> ""]]
    /\ link' = [link EXCEPT ![c] = [w \in Worker |->
                IF \E i \in 1..Need : plan[c][i] = w THEN [@[w] EXCEPT !.req = "assign"] ELSE @[w]]]
    /\ UNCHANGED <<lease, gone, plan, clientVars, faults>>

\* The end of serve_connection on the worker's side: what the connection holds is
\* given back; the client's request `left' is not answered any more.
EndsHere(c, w, left) ==
    /\ lease' = [lease EXCEPT ![w] = Release(@, link[c][w].held)]
    /\ link' = [link EXCEPT ![c][w].cut = TRUE, ![c][w].held = NoRoute, ![c][w].req = left]

\* A variant that loads whatever became of the reservation.
HandleAssignLate(c, w) ==
    /\ Up(c, w) /\ link[c][w].req = "assign"
    /\ lease' = [lease EXCEPT ![w] = IF @.route = RouteOf(c) THEN BeginLoading(@) ELSE @]
    /\ link' = [link EXCEPT ![c][w].req = "loading"]
    /\ UNCHANGED <<result, gone, pc, plan, clientVars, faults>>

\* The worker begins to load the stage it reserved; if the lease lapsed, it
\* refuses and ends the connection.
HandleAssign(c, w) ==
    /\ Up(c, w) /\ link[c][w].req = "assign"
    /\ IF CanBeginLoading(lease[w], RouteOf(c), StageAt(c, w))
       THEN /\ lease' = [lease EXCEPT ![w] = BeginLoading(@)]
            /\ link' = [link EXCEPT ![c][w].req = "loading"]
            /\ UNCHANGED result
       ELSE /\ EndsHere(c, w, "")
            /\ Reply(c, w, "error")
    /\ UNCHANGED <<gone, pc, plan, clientVars, faults>>

\* The stage is ready; or it could not be loaded, the lease is given back and the
\* connection ends.
LoadEnds(c, w) ==
    /\ Up(c, w) /\ link[c][w].req = "loading"
    /\ \/ /\ lease' = [lease EXCEPT ![w] = Serving(@, RouteOf(c))]
          /\ Reply(c, w, "ok")
          /\ link' = [link EXCEPT ![c][w].req = ""]
          /\ UNCHANGED faults
       \/ /\ Fault
          /\ EndsHere(c, w, "")
          /\ Reply(c, w, "error")
    /\ UNCHANGED <<gone, pc, plan, clientVars>>

\* The route is placed: its connections are kept, the others close.
Placed(c) ==
    /\ pc[c] = "load" /\ Answered(c) /\ \A i \in 1..Need : result[c][i] = "ok"
    /\ LET rest == Worker \ { plan[c][i] : i \in 1..Need }
       IN  /\ gone' = Closed(c, rest)
           /\ link' = [link EXCEPT ![c] = [w \in Worker |-> IF w \in rest THEN NoLink ELSE @[w]]]
    /\ Goto(c, "placed")
    /\ UNCHANGED <<lease, plan, result, clientVars, faults>>

\* "No replanning after this point": a stage that could not be loaded ends the
\* placement.
LoadFailed(c) ==
    /\ pc[c] = "load" /\ Answered(c) /\ \E i \in 1..Need : result[c][i] # "ok"
    /\ Throw(c)

\* The chat is over, or the client dies: all its connections close.
Leave(c) ==
    /\ \/ pc[c] = "placed" /\ UNCHANGED faults
       \/ pc[c] \in {"greet", "reserve", "again", "load"} /\ Fault
    /\ gone' = Closed(c, Worker)
    /\ link' = [link EXCEPT ![c] = [w \in Worker |-> NoLink]]
    /\ plan' = [plan EXCEPT ![c] = <<>>]
    /\ result' = [result EXCEPT ![c] = <<>>]
    /\ Goto(c, "left")
    /\ UNCHANGED <<lease, clientVars>>

-----------------------------------------------------------------------------
(* The ends of connections.                                                *)

\* A worker does not wait for ever (receive timeouts): it ends a connection that is
\* idle before a reservation (reserve_idle_ms) or after its stage was ready
\* (serving_idle_ms), and one whose reservation lapsed (lease_ms).  While it loads,
\* nothing ends it.
GoesIdle(c, w) ==
    /\ Up(c, w) /\ link[c][w].req # "loading"
    /\ link[c][w].held # NoRoute /\ lease[w].state = "reserved" => lease[w].left = 0
    /\ EndsHere(c, w, link[c][w].req)
    /\ UNCHANGED <<gone, pc, plan, result, clientVars, faults>>

\* A worker stops at any moment and starts again with nothing reserved.
WorkerDies(w) ==
    /\ Fault
    /\ lease' = [lease EXCEPT ![w] = Available]
    /\ link' = [c \in Client |-> [link[c] EXCEPT ![w] =
                IF Up(c, w) THEN [@ EXCEPT !.cut = TRUE, !.held = NoRoute] ELSE @]]
    /\ gone' = { g \in gone : g.w # w }
    /\ UNCHANGED <<pc, plan, result, clientVars>>

\* A request over a connection that the worker ended fails.
RequestFails(c, w) ==
    /\ link[c][w].cut /\ link[c][w].req # ""
    /\ Reply(c, w, "error")
    /\ link' = [link EXCEPT ![c][w].req = ""]
    /\ UNCHANGED <<lease, gone, pc, plan, clientVars, faults>>

\* A reservation that was under way when the client gave up on it is granted.
HandleLate(g) ==
    /\ g \in gone /\ g.req = "reserve"
    /\ IF CanReserve(lease[g.w], LeaseTicks)
       THEN /\ lease' = [lease EXCEPT ![g.w] = Reserve(g.route, g.stage, LeaseTicks)]
            /\ gone' = (gone \ {g}) \cup {[g EXCEPT !.req = "", !.held = g.route]}
       ELSE /\ gone' = (gone \ {g}) \cup {[g EXCEPT !.req = ""]}
            /\ UNCHANGED lease
    /\ UNCHANGED <<link, pc, plan, result, clientVars, faults>>

\* A variant that gives back a reservation but not a stage in use.
EndOfConnectionReserved(g) ==
    /\ g \in gone /\ g.req # "reserve"
    /\ gone' = gone \ {g}
    /\ lease' = [lease EXCEPT ![g.w] = IF @.state = "reserved" THEN Release(@, g.held) ELSE @]
    /\ UNCHANGED <<link, pc, plan, result, clientVars, faults>>

\* The thread sees the connection closed and gives back what it holds.
EndOfConnection(g) ==
    /\ g \in gone /\ g.req # "reserve"
    /\ gone' = gone \ {g}
    /\ lease' = [lease EXCEPT ![g.w] = Release(@, g.held)]
    /\ UNCHANGED <<link, pc, plan, result, clientVars, faults>>

\* Time passes for every reservation.
Tick ==
    /\ \E w \in Worker : lease[w].state = "reserved" /\ lease[w].left > 0
    /\ lease' = [w \in Worker |-> Elapse(lease[w])]
    /\ UNCHANGED <<link, gone, pc, plan, result, clientVars, faults>>

ClientStep(c) ==
    \/ Gather(c) \/ LookAgain(c) \/ NothingToPick(c) \/ OpenReady(c) \/ CreateSession(c)
    \/ BeginPlacing(c) \/ PlanAndReserve(c) \/ NoPlan(c) \/ Undo(c)
    \/ NextAttempt(c) \/ AssignAll(c) \/ Placed(c) \/ LoadFailed(c)
    \/ \E w \in Worker : Greet(c, w) \/ RequestFails(c, w)

WorkerStep ==
    \/ \E c \in Client, w \in Worker : HandleReserve(c, w) \/ HandleAssign(c, w) \/ LoadEnds(c, w)
    \/ \E g \in gone : HandleLate(g) \/ EndOfConnection(g)

Next ==
    \/ \E c \in Client : ClientStep(c) \/ EndChat(c) \/ Leave(c)
    \/ WorkerStep
    \/ \E c \in Client, w \in Worker : LeaveOut(c, w) \/ ReserveFails(c, w) \/ GoesIdle(c, w)
    \/ \E w \in Worker : WorkerDies(w)
    \/ ReplicaEnds \/ Tick

\* Threads run and sockets are read; nothing forces a chat to end, a fault, an
\* idle connection or the clock.  Attempts, rounds and faults are bounded, so
\* behaviours are finite and fairness of the whole is enough.
Spec == Init /\ [][Next]_vars /\ WF_vars((\E c \in Client : ClientStep(c)) \/ WorkerStep)

-----------------------------------------------------------------------------
TypeOK ==
    /\ lease \in [Worker -> Leases]
    /\ pc \in [Client -> {"look", "choose", "opened", "chatting", "greet", "reserve", "again",
                           "load", "placed", "left", "failed"}]
    /\ free \in 0..Sessions
    /\ \A c \in Client : attempt[c] <= MaxAttempts /\ tries[c] <= 2 * MaxAttempts

Holds(c, w) == lease[w].state # "available" /\ lease[w].route[1] = c

\* A route that place_route reports has had every stage ready, and each planned
\* worker serves that stage of that route for as long as it keeps the connection; a
\* worker that ended it, since the client sent nothing for too long or it died, has
\* the route no more.  So a command of the client reaches the stage it was planned
\* for or fails, and never a worker that another client has meanwhile
\* (placement.cpp, "the connection holds the lease").
PlacedWhole ==
    \A c \in Client : pc[c] = "placed" =>
        \A i \in 1..Need :
            LET w == plan[c][i]
                l == lease[w]
            IN  /\ result[c][i] = "ok"
                /\ IF link[c][w].cut THEN ~(l.state # "available" /\ l.route = RouteOf(c))
                   ELSE l.state = "serving" /\ l.route = RouteOf(c) /\ l.stage = i

\* Not so: every stage of a route that was placed is still served.  A stage that
\* was ready early waits for the slowest one with nothing to do, and its worker
\* ends an idle connection (serving_idle_ms).
PlacedServes ==
    \A c \in Client : pc[c] = "placed" =>
        \A i \in 1..Need : lease[plan[c][i]].state = "serving" /\ lease[plan[c][i]].route = RouteOf(c)

\* Nobody holds while it waits: a client that plans again, sleeps or gave up has
\* no reservation left except on a connection it closed, which the worker gives
\* back when it notices.  Two clients that each got half of the workers therefore
\* never wait for each other.
NothingHeldBetweenAttempts ==
    \A c \in Client : pc[c] \in {"greet", "again", "failed", "left"} =>
        \A w \in Worker : Holds(c, w) => \E g \in gone : g.w = w /\ g.held = lease[w].route

\* Every client's search ends, with a chat or giving up after its rounds, and
\* what a client that left, died or gave up held becomes free again, however late
\* its last requests are handled.
SettlesAndFrees ==
    \A c \in Client : []<>(\/ pc[c] \in {"chatting", "placed"}
                           \/ pc[c] \in {"left", "failed"} /\ \A w \in Worker : ~Holds(c, w))
=============================================================================
