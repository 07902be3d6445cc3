-------------------------- MODULE PlacementProofs --------------------------
(***************************************************************************)
(* That a placed route has all of its stages and that nobody holds a       *)
(* worker while it waits for others, for every number of clients, workers, *)
(* stages, attempts and faults.                                            *)
(*                                                                         *)
(* The argument rests on three facts that no single action shows.  A route *)
(* id is used for one attempt only, so that what a worker still does for a *)
(* connection that was closed can never touch the lease of a later attempt *)
(* of the same client (GoneOK).  A lease that is not free has an owner     *)
(* which will give it back: a client's connection that knows it holds it,  *)
(* or one that was closed (LeaseOK).  And a worker that has begun to load  *)
(* a client's stage keeps exactly this lease until the client's connection *)
(* ends, on either side (LinkOK).                                          *)
(***************************************************************************)
EXTENDS Placement, FiniteSetTheorems, TLAPS

Reqs == {"", "reserve", "assign", "loading"}
Results == {"", "ok", "busy", "error"}
Links == [open : BOOLEAN, hello : {"none", "available", "busy"}, recheck : BOOLEAN,
          cut : BOOLEAN, req : Reqs, held : Route \cup {NoRoute}]
Ends == [w : Worker, req : Reqs, route : Route, held : Route \cup {NoRoute},
         stage : Stage \cup {NoStage}]

\* The phases in which a client has a plan; those before its first route.
Planned == {"reserve", "load", "placed"}
Choosing == {"look", "choose", "opened", "chatting"}
Phases == Planned \cup Choosing \cup {"greet", "again", "left", "failed"}

\* What each variable ranges over, as far as the argument needs it.
Shape ==
    /\ lease \in [Worker -> Leases]
    /\ link \in [Client -> [Worker -> Links]]
    /\ gone \subseteq Ends
    /\ pc \in [Client -> Phases]
    /\ policy \in Policies
    /\ tries \in [Client -> Nat]
    /\ attempt \in [Client -> Nat]
    /\ round \in [Client -> Nat]
    /\ plan \in [Client -> {<<>>} \cup [1..Need -> Worker]]
    /\ result \in [Client -> {<<>>} \cup [1..Need -> Results]]

\* Each attempt uses at most one route id, and a client places at most twice.
Counted(c) ==
    /\ tries[c] <= 2 * MaxAttempts
    /\ pc[c] \in Choosing => tries[c] = 0
    /\ pc[c] \in {"greet", "reserve", "again", "load"} =>
        /\ round[c] \in {1, 2} /\ attempt[c] \in 1..policy[c].attempts
        /\ tries[c] <= (IF round[c] = 2 THEN MaxAttempts ELSE 0)
                       + (IF pc[c] = "greet" THEN attempt[c] - 1 ELSE attempt[c])

\* A client has a plan of different workers exactly while it reserves, loads or
\* runs its route.
ClientOK(c) ==
    /\ Counted(c)
    /\ IF pc[c] \in Planned
       THEN /\ tries[c] >= 1
            /\ plan[c] \in [1..Need -> Worker]
            /\ result[c] \in [1..Need -> Results]
            /\ \A i, j \in 1..Need : plan[c][i] = plan[c][j] => i = j
       ELSE plan[c] = <<>> /\ result[c] = <<>>

\* Client c's plan has worker w for stage i.
PlannedAt(c, w, i) == pc[c] \in Planned /\ i \in 1..Need /\ plan[c][i] = w

\* Worker w has the lease of client c's stage i.
Has(c, w, i) == lease[w].route = RouteOf(c) /\ lease[w].stage = i

\* What a connection has under way, with what the client knows of it.
LinkOK(c, w) ==
    LET k == link[c][w]
    IN  /\ k.held \in {NoRoute, RouteOf(c)}
        /\ (\A i \in 1..Need : ~PlannedAt(c, w, i)) => k.req = "" /\ k.held = NoRoute
        /\ k.req \in {"assign", "loading"} => pc[c] = "load"
        /\ k.req = "reserve" => pc[c] = "reserve"
        /\ k.cut => k.held = NoRoute
        /\ \A i \in 1..Need : PlannedAt(c, w, i) =>
            /\ k.open
            /\ k.req = "reserve" => result[c][i] # "ok"
            /\ k.req \in {"assign", "loading"} => result[c][i] = ""
            /\ k.req = "loading" /\ ~k.cut => lease[w].state = "loading" /\ Has(c, w, i)
            /\ pc[c] = "load" /\ result[c][i] = "ok" => k.cut \/ (lease[w].state = "serving" /\ Has(c, w, i))
            /\ pc[c] = "placed" => k.req = "" /\ result[c][i] = "ok"
                                  /\ (k.cut \/ (lease[w].state = "serving" /\ Has(c, w, i)))

\* A connection that was closed belongs to an attempt that is over.
GoneOK(g) ==
    /\ g.held \in {NoRoute, g.route}
    /\ \A c \in Client : g.route[1] = c =>
        /\ g.route[2] <= tries[c]
        /\ pc[c] \in Planned => g.route[2] < tries[c]

\* A lease that is not free is held over a connection, open or closed, that
\* gives it back.
LeaseOK(w) ==
    lease[w].state # "available" =>
        \/ \E g \in gone : g.w = w /\ g.held = lease[w].route
        \/ \E c \in Client : lease[w].route = RouteOf(c) /\ link[c][w].held = lease[w].route

PlacementInv ==
    /\ Shape
    /\ \A c \in Client : ClientOK(c)
    /\ \A c \in Client, w \in Worker : LinkOK(c, w)
    /\ \A g \in gone : GoneOK(g)
    /\ \A w \in Worker : LeaseOK(w) /\ (lease[w].state # "available" => lease[w].route \in Route)

-----------------------------------------------------------------------------
(* Facts about the operators.                                              *)

\* A plan over a pool of workers is a sequence of `Need' different ones of them.
LEMMA PlanShape ==
    ASSUME NEW pool \in SUBSET Worker, NEW p \in PlansOf(pool)
    PROVE  /\ p \in [1..Need -> Worker] /\ (\A i \in 1..Need : p[i] \in pool)
           /\ \A i, j \in 1..Need : p[i] = p[j] => i = j
<1>1. PICK S \in SUBSET pool : Cardinality(S) = Need /\ p = SetToSeq(S)
  BY DEF PlansOf
<1>2. IsFiniteSet(S)
  BY <1>1, FS_Subset, PlacementConstants
<1>3. ExistsBijection(1..Need, S)
  BY <1>1, <1>2, FS_CardinalityType, FS_NatBijection, FS_CountingElements
<1>4. PICK f \in [1..Cardinality(S) -> S] : IsInjective(f)
  BY <1>1, <1>3 DEF ExistsBijection, Bijection, Injection, IsInjective
<1>5. SetToSeq(S) \in [1..Cardinality(S) -> S] /\ IsInjective(SetToSeq(S))
  BY <1>4 DEF SetToSeq
<1> QED
  BY <1>1, <1>5 DEF IsInjective

\* A route id names its client and one of its attempts.
LEMMA RouteFacts ==
    ASSUME NEW c \in Client, Shape, ClientOK(c)
    PROVE  /\ RouteOf(c)[1] = c /\ RouteOf(c)[2] = tries[c]
           /\ tries[c] \in Nat
           /\ pc[c] \in Planned => RouteOf(c) \in Route /\ RouteOf(c) # NoRoute
BY PlacementConstants, LeaseConstants DEF Shape, ClientOK, Counted, RouteOf, Planned

LEMMA FreeLease == Available \in Leases /\ Available.state = "available"
BY LeaseConstants DEF Available, Leases, States

\* The stage of a planned worker is the one the plan has it for.
LEMMA StageFacts ==
    ASSUME NEW c \in Client, NEW w \in Worker, Shape, ClientOK(c), LinkOK(c, w),
           link[c][w].req # "" \/ link[c][w].held # NoRoute
    PROVE  /\ StageAt(c, w) \in 1..Need
           /\ PlannedAt(c, w, StageAt(c, w))
           /\ \A i \in 1..Need : PlannedAt(c, w, i) => i = StageAt(c, w)
           /\ \A j \in 1..Need : plan[c][j] = w <=> j = StageAt(c, w)
<1>1. PICK i \in 1..Need : PlannedAt(c, w, i)
  BY DEF LinkOK
<1>2. StageAt(c, w) \in 1..Need /\ plan[c][StageAt(c, w)] = w
  BY <1>1 DEF PlannedAt, StageAt
<1> QED
  BY <1>1, <1>2 DEF PlannedAt, ClientOK

\* Record g is what client c's connection leaves behind; G has a closed connection
\* over which worker w gave its lease to route r.
LeftBy(c, g) == pc[c] \in Planned /\ g.route = RouteOf(c) /\ g.held = link[c][g.w].held
Keeps(G, w, r) == \E g \in G : g.w = w /\ g.held = r

\* What a closed connection leaves behind.
LEMMA LeftFacts ==
    ASSUME NEW c \in Client, NEW W \in SUBSET Worker, Shape, ClientOK(c),
           \A w \in Worker : LinkOK(c, w)
    PROVE  /\ gone \subseteq Closed(c, W)
           /\ Closed(c, W) \subseteq Ends
           /\ \A g \in Closed(c, W) : g \in gone \/ LeftBy(c, g)
           /\ \A w \in W : link[c][w].held # NoRoute => Keeps(Closed(c, W), w, link[c][w].held)
           /\ (\A w \in W : link[c][w].req = "" /\ link[c][w].held = NoRoute) => Closed(c, W) = gone
<1> DEFINE L == { x \in W : ~link[c][x].cut /\ (link[c][x].req = "reserve" \/ link[c][x].held # NoRoute) }
<1>1. Closed(c, W) = gone \cup { Left(c, w) : w \in L }
  BY DEF Closed
<1>2. ASSUME NEW w \in L
      PROVE  /\ Left(c, w) \in Ends /\ Left(c, w).w = w /\ pc[c] \in Planned
             /\ Left(c, w).route = RouteOf(c) /\ Left(c, w).held = link[c][w].held
  <2>1. LinkOK(c, w) /\ w \in Worker /\ link[c][w] \in Links
    BY DEF Shape
  <2>2. PICK i \in 1..Need : PlannedAt(c, w, i)
    BY <1>2, <2>1 DEF LinkOK
  <2>3. pc[c] \in Planned /\ RouteOf(c) \in Route
    BY <2>2, RouteFacts DEF PlannedAt
  <2>4. plan[c] \in [1..Need -> Worker]
    BY <2>3 DEF ClientOK
  <2>5. i \in DOMAIN plan[c] /\ plan[c][i] = w
    BY <2>2, <2>4 DEF PlannedAt
  <2>6. Left(c, w).stage \in 1..Need
    BY <2>4, <2>5 DEF Left
  <2> QED
    BY <2>1, <2>3, <2>6, PlacementConstants DEF Left, Ends, Links
<1> HIDE DEF L
<1>3. \A g \in Closed(c, W) \ gone : \E w \in L : g = Left(c, w)
  BY <1>1
<1>4. gone \subseteq Closed(c, W) /\ Closed(c, W) \subseteq Ends
  BY <1>1, <1>2 DEF Shape
<1>5. \A g \in Closed(c, W) : g \in gone \/ LeftBy(c, g)
  <2> SUFFICES ASSUME NEW g \in Closed(c, W), g \notin gone PROVE LeftBy(c, g)
    OBVIOUS
  <2>1. PICK w \in L : g = Left(c, w)
    BY <1>3
  <2> QED
    BY <2>1, <1>2 DEF L, LeftBy
<1>6. \A w \in W : link[c][w].held # NoRoute => Keeps(Closed(c, W), w, link[c][w].held)
  <2> TAKE w \in W
  <2> HAVE link[c][w].held # NoRoute
  <2>0. LinkOK(c, w)
    OBVIOUS
  <2>1. w \in L
    BY <2>0 DEF L, LinkOK
  <2> QED
    BY <2>1, <1>1, <1>2 DEF Keeps
<1>7. (\A w \in W : link[c][w].req = "" /\ link[c][w].held = NoRoute) => Closed(c, W) = gone
  BY <1>1 DEF L
<1> QED
  BY <1>4, <1>5, <1>6, <1>7

\* The lease is the same, but for the time it has left.
SameLease(w) ==
    /\ lease'[w].state = lease[w].state
    /\ lease'[w].route = lease[w].route
    /\ lease'[w].stage = lease[w].stage

\* What is known of a connection stays true while the client, the connection and a
\* lease in the client's use are left alone.
LEMMA LinkKept ==
    ASSUME NEW d \in Client, NEW w \in Worker, LinkOK(d, w),
           pc'[d] = pc[d], plan'[d] = plan[d], tries'[d] = tries[d],
           \A i \in 1..Need : plan[d][i] = w => result'[d][i] = result[d][i],
           link'[d][w] = link[d][w],
           \/ SameLease(w)
           \/ ~(lease[w].state \in {"loading", "serving"} /\ lease[w].route = RouteOf(d))
    PROVE  LinkOK(d, w)'
BY DEF LinkOK, PlannedAt, Has, RouteOf, SameLease

\* Nothing is under way over the connections of a client without a plan.
LEMMA LinkIdle ==
    ASSUME NEW d \in Client, NEW w \in Worker,
           link'[d][w].req = "", link'[d][w].held = NoRoute,
           \A i \in 1..Need : ~PlannedAt(d, w, i)'
    PROVE  LinkOK(d, w)'
BY DEF LinkOK

LEMMA IdleLink ==
    ASSUME NEW d \in Client, NEW w \in Worker, LinkOK(d, w), pc[d] \notin Planned
    PROVE  link[d][w].req = "" /\ link[d][w].held = NoRoute
BY DEF LinkOK, PlannedAt

\* A connection that knows it holds a lease is one of a client with a plan.
LEMMA HeldLink ==
    ASSUME NEW d \in Client, NEW w \in Worker, LinkOK(d, w), link[d][w].held # NoRoute
    PROVE  link[d][w].held = RouteOf(d) /\ pc[d] \in Planned
BY DEF LinkOK, PlannedAt

\* A lease keeps its owner while the owner's connection keeps it or is closed.
LEMMA LeaseKept ==
    ASSUME NEW w \in Worker, LeaseOK(w),
           lease'[w].state # "available" =>
                lease[w].state # "available" /\ lease'[w].route = lease[w].route,
           gone \subseteq gone',
           \A d \in Client : lease[w].route = RouteOf(d) /\ link[d][w].held = lease[w].route =>
                \/ tries'[d] = tries[d] /\ link'[d][w].held = link[d][w].held
                \/ Keeps(gone', w, lease[w].route)
                \/ lease'[w].state = "available"
    PROVE  LeaseOK(w)'
BY DEF LeaseOK, RouteOf, Keeps

\* A lease that is left alone keeps its owner while no closed connection is forgotten.
LEMMA LeaseStays ==
    ASSUME NEW w \in Worker, LeaseOK(w), lease'[w] = lease[w], UNCHANGED <<link, tries>>,
           lease[w].state # "available" =>
                (Keeps(gone, w, lease[w].route) => Keeps(gone', w, lease[w].route))
    PROVE  LeaseOK(w)'
BY DEF LeaseOK, RouteOf, Keeps

\* A closed connection's attempt stays over.
LEMMA GoneKept ==
    ASSUME NEW g \in gone, GoneOK(g), Shape, g \in Ends,
           \A d \in Client : tries'[d] = tries[d] /\ (pc'[d] \in Planned => pc[d] \in Planned)
    PROVE  GoneOK(g)'
BY DEF GoneOK, Shape

\* A client in its choosing, or with nothing left, whose workers nobody touches.
LEMMA Quiet ==
    ASSUME PlacementInv, NEW c \in Client, NEW to \in Phases \ Planned,
           pc' = [pc EXCEPT ![c] = to], pc[c] \notin Planned,
           UNCHANGED <<lease, link, gone, plan, result, tries, policy>>,
           round' \in [Client -> Nat], attempt' \in [Client -> Nat],
           \A d \in Client \ {c} : round'[d] = round[d] /\ attempt'[d] = attempt[d],
           Counted(c)'
    PROVE  PlacementInv'
<1> USE DEF PlacementInv
<1>1. Shape'
  BY DEF Shape, Phases
<1>2. ASSUME NEW d \in Client PROVE ClientOK(d)'
  BY DEF ClientOK, Counted, Shape
<1>3. ASSUME NEW d \in Client, NEW w \in Worker PROVE LinkOK(d, w)'
  <2>1. CASE d = c
    <3>1. link'[d][w].req = "" /\ link'[d][w].held = NoRoute
      BY <2>1, IdleLink
    <3> QED
      BY <2>1, <3>1, LinkIdle DEF Shape, PlannedAt
  <2>2. CASE d # c
    BY <2>2, LinkKept DEF Shape, SameLease
  <2> QED
    BY <2>1, <2>2
<1>4. ASSUME NEW g \in gone' PROVE GoneOK(g)'
  BY DEF GoneOK, Shape
<1>5. ASSUME NEW w \in Worker
      PROVE LeaseOK(w)' /\ (lease[w].state # "available" => lease[w].route \in Route)'
  BY DEF LeaseOK, RouteOf, Keeps
<1> QED
  BY <1>1, <1>2, <1>3, <1>4, <1>5

\* The steps of the choice, up to the placement.
LEMMA ChoiceSteps ==
    ASSUME PlacementInv, NEW c \in Client,
           Gather(c) \/ LookAgain(c) \/ NothingToPick(c) \/ OpenReady(c) \/ CreateSession(c) \/ EndChat(c)
    PROVE  PlacementInv'
<1> USE DEF PlacementInv
<1>1. pc \in [Client -> Phases] /\ ClientOK(c) /\ round \in [Client -> Nat] /\ attempt \in [Client -> Nat]
  BY DEF Shape
<1>2. \E to \in {"look", "choose", "opened", "chatting", "left", "failed"} : pc' = [pc EXCEPT ![c] = to]
  BY <1>1 DEF Gather, LookAgain, NothingToPick, OpenReady, CreateSession, EndChat, Goto
<1>3. pc[c] \in Choosing
  BY DEF Gather, LookAgain, NothingToPick, OpenReady, CreateSession, EndChat, Choosing
<1>4. UNCHANGED <<lease, link, gone, plan, result, tries, policy, round, attempt>>
  BY DEF Gather, LookAgain, NothingToPick, OpenReady, CreateSession, EndChat
<1>5. Counted(c)'
  BY <1>1, <1>2, <1>3, <1>4, PlacementConstants DEF ClientOK, Counted, Choosing, Planned
<1>6. PICK to \in Phases \ Planned : pc' = [pc EXCEPT ![c] = to]
  BY <1>2 DEF Phases, Planned, Choosing
<1> QED
  BY <1>1, <1>3, <1>4, <1>5, <1>6, Quiet DEF Choosing, Planned

\* A connection over which nothing is under way.
IdleEnd(k) == k \in Links /\ k.req = "" /\ k.held = NoRoute

\* A client without a plan any more, all of whose connections are closed.
LEMMA ClosesAll ==
    ASSUME PlacementInv, NEW c \in Client, NEW to \in Phases \ Planned, NEW K, IdleEnd(K),
           pc' = [pc EXCEPT ![c] = to],
           gone' = Closed(c, Worker),
           plan' = [plan EXCEPT ![c] = <<>>], result' = [result EXCEPT ![c] = <<>>],
           link' = [link EXCEPT ![c] = [w \in Worker |-> K]],
           UNCHANGED <<lease, tries, policy>>,
           round' \in [Client -> Nat], attempt' \in [Client -> Nat],
           \A d \in Client \ {c} : round'[d] = round[d] /\ attempt'[d] = attempt[d],
           Counted(c)'
    PROVE  PlacementInv'
<1>i. /\ Shape /\ (\A d \in Client : ClientOK(d))
      /\ \A d \in Client, w \in Worker : LinkOK(d, w)
  BY DEF PlacementInv, Shape
<1>g. \A g \in gone : GoneOK(g)
  BY DEF PlacementInv
<1>w. \A w \in Worker : LeaseOK(w) /\ (lease[w].state # "available" => lease[w].route \in Route)
  BY DEF PlacementInv
<1>f. /\ gone \subseteq gone' /\ gone' \subseteq Ends
      /\ \A g \in gone' : g \in gone \/ LeftBy(c, g)
      /\ \A w \in Worker : link[c][w].held # NoRoute => Keeps(gone', w, link[c][w].held)
  BY <1>i, LeftFacts
<1>1. Shape'
  <2>1. link' \in [Client -> [Worker -> Links]]
    BY <1>i DEF Shape, IdleEnd
  <2>2. /\ plan' \in [Client -> {<<>>} \cup [1..Need -> Worker]]
        /\ result' \in [Client -> {<<>>} \cup [1..Need -> Results]]
    BY <1>i DEF Shape
  <2>3. pc' \in [Client -> Phases]
    BY <1>i DEF Shape
  <2> QED
    BY <1>f, <1>i, <2>1, <2>2, <2>3 DEF Shape
<1>2. ASSUME NEW d \in Client PROVE ClientOK(d)'
  BY <1>i DEF ClientOK, Counted, Shape
<1>3. ASSUME NEW d \in Client, NEW w \in Worker PROVE LinkOK(d, w)'
  <2>1. CASE d = c
    <3>1. link'[c][w] = K /\ pc'[c] = to
      BY <1>i DEF Shape
    <3> QED
      BY <2>1, <3>1, LinkIdle DEF IdleEnd, PlannedAt
  <2>2. CASE d # c
    <3>1. LinkOK(d, w) /\ link'[d] = link[d] /\ pc'[d] = pc[d] /\ plan'[d] = plan[d] /\ result'[d] = result[d]
      BY <2>2, <1>i DEF Shape
    <3> QED
      BY <3>1, LinkKept DEF SameLease
  <2> QED
    BY <2>1, <2>2
<1>4. ASSUME NEW g \in gone' PROVE GoneOK(g)'
  <2>1. CASE g \in gone
    BY <2>1, <1>g, <1>i, GoneKept DEF Shape
  <2>2. CASE g \notin gone
    <3>1. g.route = RouteOf(c) /\ g.held = link[c][g.w].held /\ g \in Ends /\ pc'[c] \notin Planned
      BY <2>2, <1>f, <1>i DEF Shape, LeftBy
    <3>2. g.held \in {NoRoute, g.route}
      <4>1. g.w \in Worker
        BY <3>1 DEF Ends
      <4>2. LinkOK(c, g.w)
        BY <4>1, <1>i
      <4> QED
        BY <3>1, <4>2 DEF LinkOK
    <3>3. RouteOf(c)[1] = c /\ RouteOf(c)[2] = tries[c] /\ tries'[c] = tries[c] /\ tries[c] \in Nat
      BY <1>i, RouteFacts
    <3>4. g.route[1] = c /\ g.route[2] <= tries'[c]
      BY <3>1, <3>3
    <3> QED
      BY <3>1, <3>2, <3>4, Zenon DEF GoneOK
  <2> QED
    BY <2>1, <2>2
<1>5. ASSUME NEW w \in Worker
      PROVE LeaseOK(w)' /\ (lease[w].state # "available" => lease[w].route \in Route)'
  <2>1. CASE lease[w].state = "available"
    BY <2>1 DEF LeaseOK
  <2>2. CASE lease[w].state # "available"
    <3>1. lease[w].route \in Route /\ lease[w].route # NoRoute
      BY <2>2, <1>w, LeaseConstants
    <3>2. \A d \in Client \ {c} : link'[d] = link[d]
      BY <1>i DEF Shape
    <3>3. \A d \in Client : lease[w].route = RouteOf(d) /\ link[d][w].held = lease[w].route =>
                \/ tries'[d] = tries[d] /\ link'[d][w].held = link[d][w].held
                \/ Keeps(gone', w, lease[w].route)
      <4> TAKE d \in Client
      <4>1. CASE d = c
        BY <4>1, <3>1, <1>f
      <4>2. CASE d # c
        BY <4>2, <3>2
      <4> QED
        BY <4>1, <4>2
    <3>4. LeaseOK(w)'
      BY <3>3, <1>f, <1>w, LeaseKept
    <3> QED
      BY <3>1, <3>4
  <2> QED
    BY <2>1, <2>2
<1> QED
  BY <1>1, <1>2, <1>3, <1>4, <1>5 DEF PlacementInv

\* Every way out of place_route.
LEMMA ThrowStep ==
    ASSUME PlacementInv, NEW c \in Client, pc[c] \in {"greet", "reserve", "again", "load"}, Throw(c)
    PROVE  PlacementInv'
<1> USE DEF PlacementInv
<1>1. Shape /\ ClientOK(c)
  OBVIOUS
<1>2. policy[c].attempts \in 1..MaxAttempts /\ MaxAttempts \in Nat
  BY <1>1, PlacementConstants DEF Shape
<1>3. CASE round[c] = 1 /\ policy[c].discover
  <2>1. /\ pc' = [pc EXCEPT ![c] = "greet"]
        /\ round' = [round EXCEPT ![c] = 2] /\ attempt' = [attempt EXCEPT ![c] = 1]
        /\ link' = [link EXCEPT ![c] = [w \in Worker |-> [NoLink EXCEPT !.recheck = TRUE]]]
    BY <1>3 DEF Throw, Goto
  <2>2. Counted(c)'
    BY <1>1, <1>2, <1>3, <2>1 DEF Throw, ClientOK, Counted, Shape, Choosing
  <2>3. "greet" \in Phases \ Planned
    BY DEF Phases, Planned
  <2> DEFINE K == [NoLink EXCEPT !.recheck = TRUE]
  <2>4. IdleEnd(K)
    BY DEF NoLink, Links, Reqs, IdleEnd
  <2>5. link' = [link EXCEPT ![c] = [w \in Worker |-> K]]
    BY <2>1
  <2> HIDE DEF K
  <2> QED
    BY <1>1, <2>1, <2>2, <2>3, <2>4, <2>5, ClosesAll DEF Throw, Shape
<1>4. CASE ~(round[c] = 1 /\ policy[c].discover)
  <2>1. /\ pc' = [pc EXCEPT ![c] = "failed"] /\ UNCHANGED <<round, attempt>>
        /\ link' = [link EXCEPT ![c] = [w \in Worker |-> NoLink]]
    BY <1>4 DEF Throw, Goto
  <2>2. Counted(c)'
    BY <1>1, <1>2, <1>4, <2>1 DEF Throw, ClientOK, Counted, Shape, Choosing
  <2>3. "failed" \in Phases \ Planned
    BY DEF Phases, Planned
  <2>5. IdleEnd(NoLink)
    BY DEF NoLink, Links, Reqs, IdleEnd
  <2> QED
    BY <1>1, <2>1, <2>2, <2>3, <2>5, ClosesAll DEF Throw, Shape
<1> QED
  BY <1>3, <1>4

\* The client leaves or dies.
LEMMA LeaveStep ==
    ASSUME PlacementInv, NEW c \in Client, Leave(c)
    PROVE  PlacementInv'
<1> USE DEF PlacementInv
<1>1. Shape /\ ClientOK(c)
  OBVIOUS
<1>2. pc' = [pc EXCEPT ![c] = "left"] /\ UNCHANGED <<round, attempt, tries, policy, lease>>
  BY DEF Leave, Goto, clientVars
<1>3. Counted(c)'
  BY <1>1, <1>2 DEF ClientOK, Counted, Shape, Choosing
<1>4. "left" \in Phases \ Planned
  BY DEF Phases, Planned
<1>6. IdleEnd(NoLink)
  BY DEF NoLink, Links, Reqs, IdleEnd
<1> QED
  BY <1>1, <1>2, <1>3, <1>4, <1>6, ClosesAll DEF Leave, Shape

\* place_route is called.
LEMMA BeginStep ==
    ASSUME PlacementInv, NEW c \in Client, BeginPlacing(c)
    PROVE  PlacementInv'
<1> USE DEF PlacementInv
<1>1. Shape /\ ClientOK(c) /\ pc[c] = "choose"
  BY DEF BeginPlacing
<1>2. pc[c] \notin Planned
  BY <1>1 DEF Planned
<1>3. /\ pc' = [pc EXCEPT ![c] = "greet"]
      /\ round' = [round EXCEPT ![c] = 1] /\ attempt' = [attempt EXCEPT ![c] = 1]
      /\ UNCHANGED <<lease, gone, plan, result, tries, policy>>
      /\ link' = [link EXCEPT ![c] = [w \in Worker |-> [NoLink EXCEPT !.recheck = TRUE]]]
  BY DEF BeginPlacing, Goto
<1>4. gone' = Closed(c, Worker)
  <2>1. \A w \in Worker : link[c][w].req = "" /\ link[c][w].held = NoRoute
    BY <1>2, IdleLink
  <2> QED
    BY <1>3, <2>1, LeftFacts
<1>5. plan' = [plan EXCEPT ![c] = <<>>] /\ result' = [result EXCEPT ![c] = <<>>]
  BY <1>1, <1>2, <1>3 DEF ClientOK, Shape
<1>6. policy[c].attempts \in 1..MaxAttempts /\ MaxAttempts \in Nat
  BY <1>1, PlacementConstants DEF Shape
<1>7. Counted(c)'
  BY <1>1, <1>3, <1>6 DEF ClientOK, Counted, Shape, Choosing
<1>8. "greet" \in Phases \ Planned
  BY DEF Phases, Planned
<1> DEFINE K == [NoLink EXCEPT !.recheck = TRUE]
<1>9. IdleEnd(K)
  BY DEF NoLink, Links, Reqs, IdleEnd
<1>10. link' = [link EXCEPT ![c] = [w \in Worker |-> K]]
  BY <1>3
<1> HIDE DEF K
<1> QED
  BY <1>1, <1>3, <1>4, <1>5, <1>7, <1>8, <1>9, <1>10, ClosesAll DEF Shape

\* One connection that the client has no plan for is opened again, dropped or ended.
LEMMA Relinks ==
    ASSUME PlacementInv, NEW c \in Client, NEW w \in Worker,
           \A i \in 1..Need : ~PlannedAt(c, w, i),
           NEW K, IdleEnd(K), link' = [link EXCEPT ![c][w] = K],
           UNCHANGED <<lease, gone, pc, plan, result, tries, policy, round>>,
           attempt' \in [Client -> Nat],
           \A d \in Client \ {c} : attempt'[d] = attempt[d],
           Counted(c)'
    PROVE  PlacementInv'
<1>i. /\ Shape /\ (\A d \in Client : ClientOK(d))
      /\ \A d \in Client, v \in Worker : LinkOK(d, v)
  BY DEF PlacementInv
<1>g. \A g \in gone : GoneOK(g)
  BY DEF PlacementInv
<1>w. \A v \in Worker : LeaseOK(v) /\ (lease[v].state # "available" => lease[v].route \in Route)
  BY DEF PlacementInv
<1>l. link' \in [Client -> [Worker -> Links]]
  BY <1>i DEF Shape, IdleEnd
<1>m. link'[c][w] = K /\ \A d \in Client, v \in Worker : d # c \/ v # w => link'[d][v] = link[d][v]
  BY <1>i DEF Shape
<1>1. Shape'
  BY <1>i, <1>l DEF Shape
<1>2. ASSUME NEW d \in Client PROVE ClientOK(d)'
  BY <1>i DEF ClientOK, Counted, Shape
<1>3. ASSUME NEW d \in Client, NEW v \in Worker PROVE LinkOK(d, v)'
  <2>1. CASE d = c /\ v = w
    BY <2>1, <1>m, LinkIdle DEF IdleEnd, PlannedAt
  <2>2. CASE d # c \/ v # w
    BY <2>2, <1>i, <1>m, LinkKept DEF SameLease
  <2> QED
    BY <2>1, <2>2
<1>4. ASSUME NEW g \in gone' PROVE GoneOK(g)'
  BY <1>g, <1>i, GoneKept DEF Shape
<1>5. ASSUME NEW v \in Worker
      PROVE LeaseOK(v)' /\ (lease[v].state # "available" => lease[v].route \in Route)'
  <2>1. CASE lease[v].state = "available"
    BY <2>1 DEF LeaseOK
  <2>2. CASE lease[v].state # "available"
    <3>1. lease[v].route \in Route /\ lease[v].route # NoRoute /\ LeaseOK(v)
      BY <2>2, <1>w, LeaseConstants
    <3>0. link[c][w].held = NoRoute
      BY <1>i DEF LinkOK
    <3>2. \A d \in Client : link[d][v].held = lease[v].route => d # c \/ v # w
      BY <3>0, <3>1
    <3>3. LeaseOK(v)'
      BY <3>1, <3>2, <1>m, LeaseKept
    <3> QED
      BY <3>1, <3>3
  <2> QED
    BY <2>1, <2>2
<1> QED
  BY <1>1, <1>2, <1>3, <1>4, <1>5 DEF PlacementInv

LEMMA GreetStep ==
    ASSUME PlacementInv, NEW c \in Client, NEW w \in Worker, Greet(c, w)
    PROVE  PlacementInv'
<1>1. Shape /\ ClientOK(c)
  BY DEF PlacementInv
<1>2. pc[c] \notin Planned /\ UNCHANGED <<lease, gone, pc, plan, result, tries, policy, round, attempt>>
  BY DEF Greet, Planned, clientVars
<1>3. Counted(c)'
  BY <1>1, <1>2 DEF ClientOK, Counted
<1>4. PICK K : IdleEnd(K) /\ link' = [link EXCEPT ![c][w] = K]
  <2> DEFINE A == [NoLink EXCEPT !.open = TRUE, !.hello = IF w \in FreeNow THEN "available" ELSE "busy"]
  <2>1. IdleEnd(A) /\ IdleEnd(NoLink)
    BY DEF NoLink, Links, Reqs, IdleEnd
  <2>2. link' = [link EXCEPT ![c][w] = A] \/ link' = [link EXCEPT ![c][w] = NoLink]
    BY DEF Greet
  <2> QED
    BY <2>1, <2>2
<1> QED
  BY <1>1, <1>2, <1>3, <1>4, Relinks DEF Shape, PlannedAt

LEMMA LeaveOutStep ==
    ASSUME PlacementInv, NEW c \in Client, NEW w \in Worker, LeaveOut(c, w)
    PROVE  PlacementInv'
<1>1. Shape /\ ClientOK(c) /\ pc[c] = "greet"
  BY DEF PlacementInv, LeaveOut, Greeted
<1>2. CASE attempt[c] = policy[c].attempts
  BY <1>1, <1>2, ThrowStep DEF LeaveOut
<1>3. CASE attempt[c] # policy[c].attempts
  <2>1. /\ attempt' = [attempt EXCEPT ![c] = @ + 1] /\ gone' = Closed(c, {w})
        /\ link' = [link EXCEPT ![c][w] = NoLink]
        /\ UNCHANGED <<lease, pc, plan, result, tries, policy, round>>
    BY <1>3 DEF LeaveOut
  <2>2. pc[c] \notin Planned
    BY <1>1 DEF Planned
  <2>3. gone' = gone
    <3>1. \A v \in Worker : LinkOK(c, v)
      BY DEF PlacementInv
    <3>2. \A v \in {w} : link[c][v].req = "" /\ link[c][v].held = NoRoute
      BY <2>2, <3>1, IdleLink
    <3>3. {w} \in SUBSET Worker
      OBVIOUS
    <3> QED
      BY <1>1, <2>1, <3>1, <3>2, <3>3, LeftFacts
  <2>4. policy[c].attempts \in 1..MaxAttempts /\ MaxAttempts \in Nat
    BY <1>1, PlacementConstants DEF Shape
  <2>5. Counted(c)'
    BY <1>1, <1>3, <2>1, <2>4 DEF ClientOK, Counted, Shape, Choosing
  <2>6. IdleEnd(NoLink)
    BY DEF NoLink, Links, Reqs, IdleEnd
  <2>7. /\ attempt' \in [Client -> Nat] /\ round' \in [Client -> Nat]
        /\ \A d \in Client \ {c} : attempt'[d] = attempt[d] /\ round'[d] = round[d]
    BY <1>1, <2>1 DEF Shape
  <2> QED
    BY <1>1, <2>1, <2>2, <2>3, <2>5, <2>7, <2>6, Relinks DEF PlannedAt
<1> QED
  BY <1>2, <1>3

LEMMA NextAttemptStep ==
    ASSUME PlacementInv, NEW c \in Client, NextAttempt(c)
    PROVE  PlacementInv'
<1>1. Shape /\ ClientOK(c) /\ pc[c] = "again"
  BY DEF PlacementInv, NextAttempt
<1>2. CASE attempt[c] = policy[c].attempts
  BY <1>1, <1>2, ThrowStep DEF NextAttempt
<1>3. CASE attempt[c] # policy[c].attempts
  <2>1. /\ attempt' = [attempt EXCEPT ![c] = @ + 1] /\ pc' = [pc EXCEPT ![c] = "greet"]
        /\ UNCHANGED <<lease, link, gone, plan, result, tries, policy, round>>
    BY <1>3 DEF NextAttempt, Goto
  <2>2. pc[c] \notin Planned /\ "greet" \in Phases \ Planned
    BY <1>1 DEF Planned, Phases
  <2>4. policy[c].attempts \in 1..MaxAttempts /\ MaxAttempts \in Nat
    BY <1>1, PlacementConstants DEF Shape
  <2>5. Counted(c)'
    BY <1>1, <1>3, <2>1, <2>4 DEF ClientOK, Counted, Shape, Choosing
  <2>7. /\ attempt' \in [Client -> Nat] /\ round' \in [Client -> Nat]
        /\ \A d \in Client \ {c} : attempt'[d] = attempt[d] /\ round'[d] = round[d]
    BY <1>1, <2>1 DEF Shape
  <2> QED
    BY <1>1, <2>1, <2>2, <2>5, <2>7, Quiet
<1> QED
  BY <1>2, <1>3

\* A worker handles a request of client c's connection, or the client stops waiting
\* for it: what has to be shown is about this worker's lease and this connection.
LEMMA Handled ==
    ASSUME PlacementInv, NEW c \in Client, NEW w \in Worker, NEW i \in 1..Need, PlannedAt(c, w, i),
           UNCHANGED <<gone, pc, plan, tries, policy, round, attempt>>,
           lease' \in [Worker -> Leases],
           \A v \in Worker \ {w} : lease'[v] = lease[v],
           \/ lease'[w] = lease[w]
           \/ lease[w].state \notin {"loading", "serving"}
           \/ lease[w].route = RouteOf(c),
           link' \in [Client -> [Worker -> Links]],
           \A d \in Client, v \in Worker : d # c \/ v # w => link'[d][v] = link[d][v],
           result' \in [Client -> {<<>>} \cup [1..Need -> Results]],
           result'[c] \in [1..Need -> Results],
           \A d \in Client \ {c} : result'[d] = result[d],
           \A j \in 1..Need : j # i => result'[c][j] = result[c][j],
           LinkOK(c, w)', LeaseOK(w)',
           lease'[w].state # "available" => lease'[w].route \in Route
    PROVE  PlacementInv'
<1>i. /\ Shape /\ (\A d \in Client : ClientOK(d))
      /\ \A d \in Client, v \in Worker : LinkOK(d, v)
  BY DEF PlacementInv
<1>g. \A g \in gone : GoneOK(g)
  BY DEF PlacementInv
<1>w. \A v \in Worker : LeaseOK(v) /\ (lease[v].state # "available" => lease[v].route \in Route)
  BY DEF PlacementInv
<1>1. Shape'
  BY <1>i DEF Shape
<1>2. ASSUME NEW d \in Client PROVE ClientOK(d)'
  <2>1. CASE d = c
    BY <2>1, <1>i DEF ClientOK, Counted, PlannedAt
  <2>2. CASE d # c
    BY <2>2, <1>i DEF ClientOK, Counted
  <2> QED
    BY <2>1, <2>2
<1>3. ASSUME NEW d \in Client, NEW v \in Worker PROVE LinkOK(d, v)'
  <2>1. CASE d = c /\ v = w
    BY <2>1
  <2>2. CASE d = c /\ v # w
    <3>1. \A j \in 1..Need : plan[c][j] = v => j # i
      BY <2>2 DEF PlannedAt
    <3>2. SameLease(v) /\ link'[c][v] = link[c][v]
      BY <2>2 DEF SameLease
    <3> QED
      BY <2>2, <3>1, <3>2, <1>i, LinkKept
  <2>3. CASE d # c
    <3>1. link'[d][v] = link[d][v] /\ result'[d] = result[d]
      BY <2>3
    <3>2. SameLease(v) \/ ~(lease[v].state \in {"loading", "serving"} /\ lease[v].route = RouteOf(d))
      <4>1. RouteOf(c) # RouteOf(d)
        BY <2>3 DEF RouteOf
      <4> QED
        BY <4>1 DEF SameLease
    <3> QED
      BY <3>1, <3>2, <1>i, LinkKept
  <2> QED
    BY <2>1, <2>2, <2>3
<1>4. ASSUME NEW g \in gone' PROVE GoneOK(g)'
  BY <1>g, <1>i, GoneKept DEF Shape
<1>5. ASSUME NEW v \in Worker
      PROVE LeaseOK(v)' /\ (lease[v].state # "available" => lease[v].route \in Route)'
  <2>1. CASE v = w
    BY <2>1
  <2>2. CASE v # w
    <3>1. lease'[v] = lease[v] /\ \A d \in Client : link'[d][v] = link[d][v]
      BY <2>2
    <3> QED
      BY <3>1, <1>w, LeaseKept
  <2> QED
    BY <2>1, <2>2
<1> QED
  BY <1>1, <1>2, <1>3, <1>4, <1>5 DEF PlacementInv

\* What the handlers of a worker start from.
LEMMA Requested ==
    ASSUME PlacementInv, NEW c \in Client, NEW w \in Worker, link[c][w].req # ""
    PROVE  /\ StageAt(c, w) \in 1..Need /\ PlannedAt(c, w, StageAt(c, w))
           /\ \A j \in 1..Need : PlannedAt(c, w, j) => j = StageAt(c, w)
           /\ Shape /\ ClientOK(c) /\ LinkOK(c, w) /\ pc[c] \in Planned
           /\ result[c] \in [1..Need -> Results]
           /\ RouteOf(c) \in Route /\ RouteOf(c) # NoRoute
           /\ link[c][w] \in Links /\ lease[w] \in Leases
<1>1. Shape /\ ClientOK(c) /\ LinkOK(c, w)
  BY DEF PlacementInv
<1>2. /\ StageAt(c, w) \in 1..Need /\ PlannedAt(c, w, StageAt(c, w))
      /\ \A j \in 1..Need : PlannedAt(c, w, j) => j = StageAt(c, w)
  BY <1>1, StageFacts
<1>3. pc[c] \in Planned
  BY <1>2 DEF PlannedAt
<1>4. link[c][w] \in Links /\ lease[w] \in Leases
  BY <1>1 DEF Shape
<1>5. result[c] \in [1..Need -> Results]
  BY <1>1, <1>3 DEF ClientOK
<1>6. RouteOf(c) \in Route /\ RouteOf(c) # NoRoute
  BY <1>1, <1>3, RouteFacts
<1> QED
  BY <1>1, <1>2, <1>3, <1>4, <1>5, <1>6

\* The client learns r, if it still waits.
LEMMA Replied ==
    ASSUME Shape, NEW c \in Client, NEW w \in Worker, NEW r \in Results,
           result[c] \in [1..Need -> Results], StageAt(c, w) \in 1..Need, Reply(c, w, r)
    PROVE  /\ result' \in [Client -> {<<>>} \cup [1..Need -> Results]]
           /\ result'[c] \in [1..Need -> Results]
           /\ \A d \in Client \ {c} : result'[d] = result[d]
           /\ \A j \in 1..Need : j # StageAt(c, w) => result'[c][j] = result[c][j]
           /\ result'[c][StageAt(c, w)] = IF result[c][StageAt(c, w)] = "" THEN r ELSE result[c][StageAt(c, w)]
BY DEF Shape, Reply

LEMMA HandleReserveStep ==
    ASSUME PlacementInv, NEW c \in Client, NEW w \in Worker, HandleReserve(c, w)
    PROVE  PlacementInv'
<1> DEFINE i == StageAt(c, w)
<1>q. /\ link[c][w].req = "reserve" /\ ~link[c][w].cut
      /\ UNCHANGED <<gone, pc, plan, tries, policy, round, attempt>>
  BY DEF HandleReserve, clientVars, Up
<1>r. /\ i \in 1..Need /\ PlannedAt(c, w, i) /\ (\A j \in 1..Need : PlannedAt(c, w, j) => j = i)
      /\ Shape /\ ClientOK(c) /\ LinkOK(c, w)
      /\ result[c] \in [1..Need -> Results]
      /\ RouteOf(c) \in Route /\ RouteOf(c) # NoRoute
      /\ link[c][w] \in Links /\ lease[w] \in Leases
  BY <1>q, Requested
<1> HIDE DEF i
<1>p. pc[c] = "reserve" /\ link[c][w].held \in {NoRoute, RouteOf(c)}
  BY <1>q, <1>r DEF LinkOK
<1>1. CASE CanReserve(lease[w], LeaseTicks)
  <2>1. /\ lease' = [lease EXCEPT ![w] = Reserve(RouteOf(c), i, LeaseTicks)]
        /\ link' = [link EXCEPT ![c][w].req = "", ![c][w].held = RouteOf(c)]
        /\ Reply(c, w, "ok")
    BY <1>1 DEF HandleReserve, i
  <2>2. Reserve(RouteOf(c), i, LeaseTicks) \in Leases
    BY <1>r, PlacementConstants DEF Reserve, Leases, States
  <2>3. lease' \in [Worker -> Leases] /\ lease'[w] = Reserve(RouteOf(c), i, LeaseTicks)
        /\ \A v \in Worker \ {w} : lease'[v] = lease[v]
    BY <1>r, <2>1, <2>2 DEF Shape
  <2>4. lease[w].state \notin {"loading", "serving"}
    BY <1>1, <1>r DEF CanReserve, Expire, Available
  <2>5. /\ link' \in [Client -> [Worker -> Links]]
        /\ link'[c][w].req = "" /\ link'[c][w].held = RouteOf(c)
        /\ link'[c][w].open = link[c][w].open /\ link'[c][w].cut = link[c][w].cut
        /\ \A d \in Client, v \in Worker : d # c \/ v # w => link'[d][v] = link[d][v]
    BY <1>r, <2>1 DEF Shape, Links, Reqs
  <2>6. /\ result' \in [Client -> {<<>>} \cup [1..Need -> Results]]
        /\ result'[c] \in [1..Need -> Results]
        /\ \A d \in Client \ {c} : result'[d] = result[d]
        /\ \A j \in 1..Need : j # i => result'[c][j] = result[c][j]
    BY <1>r, <2>1, Replied DEF i, Results
  <2>7. LinkOK(c, w)'
    BY <1>q, <1>r, <1>p, <2>5 DEF LinkOK, PlannedAt, RouteOf
  <2>8. LeaseOK(w)' /\ lease'[w].route \in Route
    <3>1. lease'[w].route = RouteOf(c)
      BY <2>3 DEF Reserve
    <3>2. RouteOf(c)' = RouteOf(c)
      BY <1>q DEF RouteOf
    <3> QED
      BY <1>r, <2>5, <3>1, <3>2 DEF LeaseOK
  <2> QED
    BY <1>q, <1>r, <2>3, <2>4, <2>5, <2>6, <2>7, <2>8, Handled
<1>2. CASE ~CanReserve(lease[w], LeaseTicks)
  <2>1. /\ UNCHANGED lease /\ link' = [link EXCEPT ![c][w].req = ""] /\ Reply(c, w, "busy")
    BY <1>2 DEF HandleReserve
  <2>5. /\ link' \in [Client -> [Worker -> Links]]
        /\ link'[c][w].req = "" /\ link'[c][w].held = link[c][w].held
        /\ link'[c][w].open = link[c][w].open /\ link'[c][w].cut = link[c][w].cut
        /\ \A d \in Client, v \in Worker : d # c \/ v # w => link'[d][v] = link[d][v]
    BY <1>r, <2>1 DEF Shape, Links, Reqs
  <2>6. /\ result' \in [Client -> {<<>>} \cup [1..Need -> Results]]
        /\ result'[c] \in [1..Need -> Results]
        /\ \A d \in Client \ {c} : result'[d] = result[d]
        /\ \A j \in 1..Need : j # i => result'[c][j] = result[c][j]
    BY <1>r, <2>1, Replied DEF i, Results
  <2>7. LinkOK(c, w)'
    BY <1>q, <1>r, <1>p, <2>5 DEF LinkOK, PlannedAt, RouteOf
  <2>8. LeaseOK(w)' /\ (lease'[w].state # "available" => lease'[w].route \in Route)
    <3>1. LeaseOK(w) /\ (lease[w].state # "available" => lease[w].route \in Route)
      BY DEF PlacementInv
    <3>2. \A d \in Client : link'[d][w].held = link[d][w].held
      BY <2>5
    <3> QED
      BY <1>q, <2>1, <3>1, <3>2, LeaseKept
  <2>9. lease' \in [Worker -> Leases] /\ lease'[w] = lease[w] /\ \A v \in Worker \ {w} : lease'[v] = lease[v]
    BY <1>r, <2>1 DEF Shape
  <2> QED
    BY <1>q, <1>r, <2>5, <2>6, <2>7, <2>8, <2>9, Handled
<1> QED
  BY <1>1, <1>2

LEMMA ReserveFailsStep ==
    ASSUME PlacementInv, NEW c \in Client, NEW w \in Worker, ReserveFails(c, w)
    PROVE  PlacementInv'
<1> DEFINE i == StageAt(c, w)
<1>q. link[c][w].req = "reserve" /\ UNCHANGED <<gone, pc, plan, tries, policy, round, attempt>>
  BY DEF ReserveFails, clientVars
<1>r. /\ i \in 1..Need /\ PlannedAt(c, w, i) /\ (\A j \in 1..Need : PlannedAt(c, w, j) => j = i)
      /\ Shape /\ ClientOK(c) /\ LinkOK(c, w)
      /\ result[c] \in [1..Need -> Results]
      /\ RouteOf(c) \in Route /\ RouteOf(c) # NoRoute
      /\ link[c][w] \in Links /\ lease[w] \in Leases
  BY <1>q, Requested
<1> HIDE DEF i
<1>p. pc[c] = "reserve" /\ link[c][w].held \in {NoRoute, RouteOf(c)} /\ result[c][i] = ""
  BY <1>q, <1>r DEF LinkOK, ReserveFails, i
<1>1. ASSUME NEW e \in {"", "reserve"}, link' \in [Client -> [Worker -> Links]],
             link'[c][w].req = e, link'[c][w].held = link[c][w].held,
             link'[c][w].open = link[c][w].open, link'[c][w].cut = link[c][w].cut,
             \A d \in Client, v \in Worker : d # c \/ v # w => link'[d][v] = link[d][v]
      PROVE  PlacementInv'
  <2>1. UNCHANGED lease /\ Reply(c, w, "error")
    BY DEF ReserveFails
  <2>5. \A d \in Client : link'[d][w].held = link[d][w].held
    BY <1>1
  <2>6. /\ result' \in [Client -> {<<>>} \cup [1..Need -> Results]]
        /\ result'[c] \in [1..Need -> Results]
        /\ \A d \in Client \ {c} : result'[d] = result[d]
        /\ \A j \in 1..Need : j # i => result'[c][j] = result[c][j]
    BY <1>r, <2>1, Replied DEF i, Results
  <2>a. result'[c][i] = "error"
    BY <1>r, <1>p, <2>1, Replied DEF i, Results
  <2>7. LinkOK(c, w)'
    BY <1>q, <1>r, <1>p, <1>1, <2>a DEF LinkOK, PlannedAt, RouteOf
  <2>8. LeaseOK(w)' /\ (lease'[w].state # "available" => lease'[w].route \in Route)
    <3>1. LeaseOK(w) /\ (lease[w].state # "available" => lease[w].route \in Route)
      BY DEF PlacementInv
    <3>2. \A d \in Client : link'[d][w].held = link[d][w].held
      BY <2>5
    <3> QED
      BY <1>q, <2>1, <3>1, <3>2, LeaseKept
  <2>9. lease' \in [Worker -> Leases] /\ lease'[w] = lease[w] /\ \A v \in Worker \ {w} : lease'[v] = lease[v]
    BY <1>r, <2>1 DEF Shape
  <2> QED
    BY <1>q, <1>r, <1>1, <2>6, <2>7, <2>8, <2>9, Handled
<1>2. CASE link' = [link EXCEPT ![c][w].req = ""]
  <2>5. /\ link' \in [Client -> [Worker -> Links]]
        /\ link'[c][w].req = "" /\ link'[c][w].held = link[c][w].held
        /\ link'[c][w].open = link[c][w].open /\ link'[c][w].cut = link[c][w].cut
        /\ \A d \in Client, v \in Worker : d # c \/ v # w => link'[d][v] = link[d][v]
    BY <1>r, <1>2 DEF Shape, Links, Reqs
  <2> QED
    BY <2>5, <1>1
<1>3. CASE UNCHANGED link
  BY <1>3, <1>1, <1>q, <1>r DEF Shape
<1> QED
  BY <1>2, <1>3 DEF ReserveFails

\* The worker ends a planned connection: what the connection held is free again, and
\* the client has its answer, an error or none.
LEMMA Ended ==
    ASSUME PlacementInv, NEW c \in Client, NEW w \in Worker, NEW i \in 1..Need, PlannedAt(c, w, i),
           NEW q \in {"", link[c][w].req}, EndsHere(c, w, q),
           UNCHANGED <<gone, pc, plan, tries, policy, round, attempt>>,
           result' \in [Client -> {<<>>} \cup [1..Need -> Results]],
           result'[c] \in [1..Need -> Results],
           \A d \in Client \ {c} : result'[d] = result[d],
           \A j \in 1..Need : j # i => result'[c][j] = result[c][j],
           \/ result'[c][i] = result[c][i]
           \/ result'[c][i] = "error" /\ q = "" /\ pc[c] = "load"
    PROVE  PlacementInv'
<1>i. /\ Shape /\ ClientOK(c) /\ LinkOK(c, w) /\ LeaseOK(w) /\ pc[c] \in Planned
      /\ lease[w].state # "available" => lease[w].route \in Route
      /\ link[c][w] \in Links /\ lease[w] \in Leases
  BY DEF PlacementInv, Shape, PlannedAt
<1>1. /\ link' \in [Client -> [Worker -> Links]]
      /\ link'[c][w].req = q /\ link'[c][w].held = NoRoute
      /\ link'[c][w].open = link[c][w].open /\ link'[c][w].cut
      /\ \A d \in Client, v \in Worker : d # c \/ v # w => link'[d][v] = link[d][v]
  BY <1>i DEF Shape, Links, Reqs, EndsHere
<1>2. Available \in Leases /\ Available.state = "available"
  BY FreeLease
<1>3. /\ lease' \in [Worker -> Leases] /\ (\A v \in Worker \ {w} : lease'[v] = lease[v])
      /\ lease'[w] = Release(lease[w], link[c][w].held)
  BY <1>i, <1>2 DEF Shape, EndsHere, Release
<1>4. link[c][w].held \in {NoRoute, RouteOf(c)}
  BY <1>i DEF LinkOK
<1>5. \/ lease'[w] = lease[w] /\ (lease[w].state = "available" \/ lease[w].route # link[c][w].held)
      \/ lease'[w].state = "available" /\ lease[w].route = RouteOf(c)
  BY <1>i, <1>2, <1>3, <1>4, LeaseConstants DEF Release
<1>6. LinkOK(c, w)'
  <2>1. \A j \in 1..Need : PlannedAt(c, w, j)' => j = i
    BY <1>i DEF PlannedAt, ClientOK
  <2>2. PlannedAt(c, w, i)'
    BY DEF PlannedAt
  <2> QED
    BY <1>i, <1>1, <2>1, <2>2 DEF LinkOK
<1>7. LeaseOK(w)'
  <2>1. CASE lease'[w].state = "available"
    BY <2>1 DEF LeaseOK
  <2>2. CASE lease'[w].state # "available"
    <3>1. lease'[w] = lease[w] /\ lease[w].route # link[c][w].held
      BY <2>2, <1>5
    <3>2. \A d \in Client : link[d][w].held = lease[w].route => link'[d][w] = link[d][w]
      BY <3>1, <1>1
    <3> QED
      BY <3>1, <3>2, <1>i, LeaseKept
  <2> QED
    BY <2>1, <2>2
<1>8. lease'[w].state # "available" => lease'[w].route \in Route
  BY <1>i, <1>5
<1> QED
  BY <1>i, <1>1, <1>3, <1>5, <1>6, <1>7, <1>8, Handled

LEMMA HandleAssignStep ==
    ASSUME PlacementInv, NEW c \in Client, NEW w \in Worker, HandleAssign(c, w)
    PROVE  PlacementInv'
<1> DEFINE i == StageAt(c, w)
<1>q. link[c][w].req = "assign" /\ UNCHANGED <<gone, pc, plan, tries, policy, round, attempt>>
  BY DEF HandleAssign, clientVars
<1>r. /\ i \in 1..Need /\ PlannedAt(c, w, i) /\ (\A j \in 1..Need : PlannedAt(c, w, j) => j = i)
      /\ Shape /\ ClientOK(c) /\ LinkOK(c, w)
      /\ result[c] \in [1..Need -> Results]
      /\ RouteOf(c) \in Route /\ RouteOf(c) # NoRoute
      /\ link[c][w] \in Links /\ lease[w] \in Leases
  BY <1>q, Requested
<1> HIDE DEF i
<1>p. pc[c] = "load" /\ link[c][w].held \in {NoRoute, RouteOf(c)} /\ result[c][i] = ""
  BY <1>q, <1>r DEF LinkOK
<1>1. CASE CanBeginLoading(lease[w], RouteOf(c), i)
  <2>1. /\ lease' = [lease EXCEPT ![w] = BeginLoading(@)]
        /\ link' = [link EXCEPT ![c][w].req = "loading"]
        /\ UNCHANGED result
    BY <1>1 DEF HandleAssign, i
  <2>2. BeginLoading(lease[w]) \in Leases
    BY <1>r, LeaseConstants DEF BeginLoading, Leases, States
  <2>3. lease' \in [Worker -> Leases] /\ lease'[w] = BeginLoading(lease[w])
        /\ \A v \in Worker \ {w} : lease'[v] = lease[v]
    BY <1>r, <2>1, <2>2 DEF Shape
  <2>4. /\ lease[w].state = "reserved" /\ lease[w].route = RouteOf(c) /\ lease[w].stage = i
        /\ lease'[w].state = "loading" /\ lease'[w].route = RouteOf(c) /\ lease'[w].stage = i
    BY <1>1, <1>r, <2>3 DEF CanBeginLoading, Expire, Available, BeginLoading
  <2>5. /\ link' \in [Client -> [Worker -> Links]]
        /\ link'[c][w].req = "loading" /\ link'[c][w].held = link[c][w].held
        /\ link'[c][w].open = link[c][w].open /\ link'[c][w].cut = link[c][w].cut
        /\ \A d \in Client, v \in Worker : d # c \/ v # w => link'[d][v] = link[d][v]
    BY <1>r, <2>1 DEF Shape, Links, Reqs
  <2>6. /\ result' \in [Client -> {<<>>} \cup [1..Need -> Results]]
        /\ result'[c] \in [1..Need -> Results]
        /\ \A d \in Client \ {c} : result'[d] = result[d]
        /\ \A j \in 1..Need : j # i => result'[c][j] = result[c][j]
    BY <1>r, <2>1 DEF Shape
  <2>7. LinkOK(c, w)'
    BY <1>q, <1>r, <1>p, <2>1, <2>4, <2>5 DEF LinkOK, PlannedAt, RouteOf, Has
  <2>8. LeaseOK(w)' /\ (lease'[w].state # "available" => lease'[w].route \in Route)
    <3>1. LeaseOK(w) /\ (lease[w].state # "available" => lease[w].route \in Route)
      BY DEF PlacementInv
    <3>2. \A d \in Client : link'[d][w].held = link[d][w].held
      BY <2>5
    <3> QED
      BY <1>q, <2>4, <3>1, <3>2, LeaseKept
  <2> QED
    BY <1>q, <1>r, <2>3, <2>4, <2>5, <2>6, <2>7, <2>8, Handled
<1>2. CASE ~CanBeginLoading(lease[w], RouteOf(c), i)
  <2>1. EndsHere(c, w, "") /\ Reply(c, w, "error")
    BY <1>2 DEF HandleAssign, i
  <2>6. /\ result' \in [Client -> {<<>>} \cup [1..Need -> Results]]
        /\ result'[c] \in [1..Need -> Results]
        /\ \A d \in Client \ {c} : result'[d] = result[d]
        /\ \A j \in 1..Need : j # i => result'[c][j] = result[c][j]
    BY <1>r, <2>1, Replied DEF i, Results
  <2>a. result'[c][i] = "error"
    BY <1>r, <1>p, <2>1, Replied DEF i, Results
  <2> QED
    BY <1>q, <1>r, <1>p, <2>1, <2>6, <2>a, Ended
<1> QED
  BY <1>1, <1>2

LEMMA LoadEndsStep ==
    ASSUME PlacementInv, NEW c \in Client, NEW w \in Worker, LoadEnds(c, w)
    PROVE  PlacementInv'
<1> DEFINE i == StageAt(c, w)
<1>q. /\ link[c][w].req = "loading" /\ ~link[c][w].cut
      /\ UNCHANGED <<gone, pc, plan, tries, policy, round, attempt>>
  BY DEF LoadEnds, clientVars, Up
<1>r. /\ i \in 1..Need /\ PlannedAt(c, w, i) /\ (\A j \in 1..Need : PlannedAt(c, w, j) => j = i)
      /\ Shape /\ ClientOK(c) /\ LinkOK(c, w)
      /\ result[c] \in [1..Need -> Results]
      /\ RouteOf(c) \in Route /\ RouteOf(c) # NoRoute
      /\ link[c][w] \in Links /\ lease[w] \in Leases
  BY <1>q, Requested
<1> HIDE DEF i
<1>p. /\ pc[c] = "load" /\ link[c][w].held \in {NoRoute, RouteOf(c)} /\ result[c][i] = ""
      /\ lease[w].state = "loading" /\ lease[w].route = RouteOf(c) /\ lease[w].stage = i
  BY <1>q, <1>r DEF LinkOK, Has
<1>1. CASE lease' = [lease EXCEPT ![w] = Serving(@, RouteOf(c))] /\ Reply(c, w, "ok")
             /\ link' = [link EXCEPT ![c][w].req = ""]
  <2>1. /\ lease' = [lease EXCEPT ![w] = Serving(@, RouteOf(c))]
        /\ link' = [link EXCEPT ![c][w].req = ""] /\ Reply(c, w, "ok")
    BY <1>1
  <2>2. Serving(lease[w], RouteOf(c)) \in Leases
    BY <1>r DEF Serving, Leases, States
  <2>3. lease' \in [Worker -> Leases] /\ lease'[w] = Serving(lease[w], RouteOf(c))
        /\ \A v \in Worker \ {w} : lease'[v] = lease[v]
    BY <1>r, <2>1, <2>2 DEF Shape
  <2>4. lease'[w].state = "serving" /\ lease'[w].route = RouteOf(c) /\ lease'[w].stage = i
    BY <1>p, <1>r, <2>3 DEF Serving, Leases
  <2>5. /\ link' \in [Client -> [Worker -> Links]]
        /\ link'[c][w].req = "" /\ link'[c][w].held = link[c][w].held
        /\ link'[c][w].open = link[c][w].open /\ link'[c][w].cut = link[c][w].cut
        /\ \A d \in Client, v \in Worker : d # c \/ v # w => link'[d][v] = link[d][v]
    BY <1>r, <2>1 DEF Shape, Links, Reqs
  <2>6. /\ result' \in [Client -> {<<>>} \cup [1..Need -> Results]]
        /\ result'[c] \in [1..Need -> Results]
        /\ \A d \in Client \ {c} : result'[d] = result[d]
        /\ \A j \in 1..Need : j # i => result'[c][j] = result[c][j]
    BY <1>r, <2>1, Replied DEF i, Results
  <2>a. result'[c][i] = "ok"
    BY <1>r, <1>p, <2>1, Replied DEF i, Results
  <2>7. LinkOK(c, w)'
    BY <1>q, <1>r, <1>p, <2>4, <2>5, <2>a DEF LinkOK, PlannedAt, RouteOf, Has
  <2>8. LeaseOK(w)' /\ (lease'[w].state # "available" => lease'[w].route \in Route)
    <3>1. LeaseOK(w) /\ (lease[w].state # "available" => lease[w].route \in Route)
      BY DEF PlacementInv
    <3>2. \A d \in Client : link'[d][w].held = link[d][w].held
      BY <2>5
    <3> QED
      BY <1>q, <1>p, <2>4, <3>1, <3>2, LeaseKept
  <2> QED
    BY <1>q, <1>r, <1>p, <2>3, <2>4, <2>5, <2>6, <2>7, <2>8, Handled
<1>2. CASE EndsHere(c, w, "") /\ Reply(c, w, "error")
  <2>6. /\ result' \in [Client -> {<<>>} \cup [1..Need -> Results]]
        /\ result'[c] \in [1..Need -> Results]
        /\ \A d \in Client \ {c} : result'[d] = result[d]
        /\ \A j \in 1..Need : j # i => result'[c][j] = result[c][j]
    BY <1>r, <1>2, Replied DEF i, Results
  <2>a. result'[c][i] = "error"
    BY <1>r, <1>p, <1>2, Replied DEF i, Results
  <2> QED
    BY <1>q, <1>r, <1>p, <1>2, <2>6, <2>a, Ended
<1> QED
  BY <1>1, <1>2 DEF LoadEnds

LEMMA GoesIdleStep ==
    ASSUME PlacementInv, NEW c \in Client, NEW w \in Worker, GoesIdle(c, w)
    PROVE  PlacementInv'
<1>i. /\ Shape /\ ClientOK(c) /\ LinkOK(c, w) /\ link[c][w] \in Links /\ lease[w] \in Leases
      /\ lease[w].state # "available" => lease[w].route \in Route
  BY DEF PlacementInv, Shape
<1>q. /\ UNCHANGED <<gone, pc, plan, result, tries, policy, round, attempt>>
      /\ EndsHere(c, w, link[c][w].req)
  BY DEF GoesIdle, clientVars
<1>1. CASE \E i \in 1..Need : PlannedAt(c, w, i)
  <2>1. PICK i \in 1..Need : PlannedAt(c, w, i)
    BY <1>1
  <2>2. result[c] \in [1..Need -> Results] /\ result' \in [Client -> {<<>>} \cup [1..Need -> Results]]
    BY <2>1, <1>i, <1>q DEF ClientOK, PlannedAt, Shape
  <2> QED
    BY <2>1, <2>2, <1>q, Ended
<1>2. CASE \A i \in 1..Need : ~PlannedAt(c, w, i)
  <2> DEFINE K == [link[c][w] EXCEPT !.cut = TRUE]
  <2>1. link[c][w].req = "" /\ link[c][w].held = NoRoute
    BY <1>2, <1>i DEF LinkOK
  <2>2. IdleEnd(K) /\ K = [link[c][w] EXCEPT !.cut = TRUE, !.held = NoRoute, !.req = ""]
    BY <2>1, <1>i DEF IdleEnd, Links
  <2>3. link' = [link EXCEPT ![c][w] = K]
    <3>1. /\ link'[c][w] = [link[c][w] EXCEPT !.cut = TRUE, !.held = NoRoute, !.req = ""]
          /\ link' = [link EXCEPT ![c] = [link[c] EXCEPT ![w] = link'[c][w]]]
      BY <2>1, <1>q, <1>i DEF EndsHere, Shape
    <3>2. link'[c][w] = K
      BY <3>1, <2>2
    <3> HIDE DEF K
    <3> QED
      BY <3>1, <3>2
  <2>4. UNCHANGED lease
    BY <2>1, <1>q, <1>i, LeaseConstants DEF EndsHere, Release, Shape
  <2>5. Counted(c)' /\ attempt' \in [Client -> Nat]
    BY <1>q, <1>i DEF ClientOK, Counted, Shape
  <2> HIDE DEF K
  <2> QED
    BY <1>2, <1>q, <2>2, <2>3, <2>4, <2>5, Relinks
<1> QED
  BY <1>1, <1>2

LEMMA RequestFailsStep ==
    ASSUME PlacementInv, NEW c \in Client, NEW w \in Worker, RequestFails(c, w)
    PROVE  PlacementInv'
<1> DEFINE i == StageAt(c, w)
<1>q. /\ link[c][w].req # "" /\ link[c][w].cut
      /\ UNCHANGED <<lease, gone, pc, plan, tries, policy, round, attempt>>
  BY DEF RequestFails, clientVars
<1>r. /\ i \in 1..Need /\ PlannedAt(c, w, i) /\ (\A j \in 1..Need : PlannedAt(c, w, j) => j = i)
      /\ Shape /\ ClientOK(c) /\ LinkOK(c, w) /\ pc[c] \in Planned
      /\ result[c] \in [1..Need -> Results]
      /\ link[c][w] \in Links /\ lease[w] \in Leases
  BY <1>q, Requested
<1> HIDE DEF i
<1>p. pc[c] # "placed" /\ link[c][w].held = NoRoute
  BY <1>q, <1>r DEF LinkOK
<1>1. Reply(c, w, "error") /\ link' = [link EXCEPT ![c][w].req = ""]
  BY DEF RequestFails
<1>2. /\ link' \in [Client -> [Worker -> Links]]
      /\ link'[c][w].req = "" /\ link'[c][w].held = NoRoute
      /\ link'[c][w].open = link[c][w].open /\ link'[c][w].cut
      /\ \A d \in Client, v \in Worker : d # c \/ v # w => link'[d][v] = link[d][v]
  BY <1>r, <1>1, <1>p, <1>q DEF Shape, Links, Reqs
<1>3. /\ result' \in [Client -> {<<>>} \cup [1..Need -> Results]]
      /\ result'[c] \in [1..Need -> Results]
      /\ \A d \in Client \ {c} : result'[d] = result[d]
      /\ \A j \in 1..Need : j # i => result'[c][j] = result[c][j]
  BY <1>r, <1>1, Replied DEF i, Results
<1>4. LinkOK(c, w)'
  BY <1>r, <1>q, <1>p, <1>2 DEF LinkOK, PlannedAt
<1>5. LeaseOK(w)' /\ (lease'[w].state # "available" => lease'[w].route \in Route)
  <2>1. LeaseOK(w) /\ (lease[w].state # "available" => lease[w].route \in Route)
    BY DEF PlacementInv
  <2>2. \A d \in Client : link'[d][w].held = link[d][w].held
    BY <1>2, <1>p
  <2> QED
    BY <1>q, <2>1, <2>2, LeaseKept
<1>6. lease' \in [Worker -> Leases] /\ lease'[w] = lease[w] /\ \A v \in Worker \ {w} : lease'[v] = lease[v]
  BY <1>r, <1>q DEF Shape
<1> QED
  BY <1>q, <1>r, <1>2, <1>3, <1>4, <1>5, <1>6, Handled

\* A worker that starts again has no lease, and every connection to it is ended.
LEMMA WorkerDiesStep ==
    ASSUME PlacementInv, NEW w \in Worker, WorkerDies(w)
    PROVE  PlacementInv'
<1>i. /\ Shape /\ (\A d \in Client : ClientOK(d))
      /\ \A d \in Client, v \in Worker : LinkOK(d, v)
  BY DEF PlacementInv
<1>g. \A g \in gone : GoneOK(g)
  BY DEF PlacementInv
<1>v. \A v \in Worker : LeaseOK(v) /\ (lease[v].state # "available" => lease[v].route \in Route)
  BY DEF PlacementInv
<1>q. /\ UNCHANGED <<pc, plan, result, tries, policy, round, attempt>>
      /\ gone' = { g \in gone : g.w # w }
  BY DEF WorkerDies, clientVars
<1>0. Available \in Leases /\ Available.state = "available"
  BY FreeLease
<1>1. /\ lease' \in [Worker -> Leases] /\ lease'[w].state = "available"
      /\ \A v \in Worker \ {w} : lease'[v] = lease[v]
  BY <1>0, <1>i DEF WorkerDies, Shape
<1>2. /\ \A d \in Client, v \in Worker \ {w} : link'[d][v] = link[d][v]
      /\ \A d \in Client : link'[d][w] = IF Up(d, w) THEN [link[d][w] EXCEPT !.cut = TRUE, !.held = NoRoute]
                                         ELSE link[d][w]
      /\ link' = [d \in Client |-> link'[d]]
      /\ \A d \in Client : link'[d] = [v \in Worker |-> link'[d][v]]
  BY <1>i DEF WorkerDies, Shape
<1>3. ASSUME NEW d \in Client
      PROVE  /\ link'[d][w] \in Links /\ link'[d][w].open = link[d][w].open
             /\ link'[d][w].req = link[d][w].req
             /\ link'[d][w].held = NoRoute \/ (~link[d][w].open /\ link'[d][w] = link[d][w])
             /\ link'[d][w].open => link'[d][w].cut
  <2>1. link[d][w] \in Links /\ LinkOK(d, w)
    BY <1>i DEF Shape
  <2>2. link[d][w].cut => link[d][w].held = NoRoute
    BY <2>1 DEF LinkOK
  <2>3. CASE Up(d, w)
    <3>1. link'[d][w] = [link[d][w] EXCEPT !.cut = TRUE, !.held = NoRoute]
      BY <2>3, <1>2
    <3>2. /\ link'[d][w] \in Links /\ link'[d][w].req = link[d][w].req
          /\ link'[d][w].held = NoRoute /\ link'[d][w].cut = TRUE
      BY <3>1, <2>1 DEF Links
    <3>3. link'[d][w].open = link[d][w].open
      BY <3>1, <2>1 DEF Links
    <3> QED
      BY <3>2, <3>3
  <2>4. CASE ~Up(d, w)
    BY <2>1, <2>2, <2>4, <1>2 DEF Up
  <2> QED
    BY <2>3, <2>4
<1>4. Shape'
  <2>1. \A d \in Client, v \in Worker : link'[d][v] \in Links
    BY <1>2, <1>3, <1>i DEF Shape
  <2>2. \A d \in Client : link'[d] \in [Worker -> Links]
    BY <2>1, <1>2
  <2>3. link' \in [Client -> [Worker -> Links]]
    BY <2>2, <1>2
  <2> QED
    BY <2>3, <1>1, <1>q, <1>i DEF Shape
<1>5. ASSUME NEW d \in Client PROVE ClientOK(d)'
  BY <1>i, <1>q DEF ClientOK, Counted
<1>6. ASSUME NEW d \in Client, NEW v \in Worker PROVE LinkOK(d, v)'
  <2>1. CASE v # w
    <3>1. SameLease(v) /\ link'[d][v] = link[d][v]
      BY <2>1, <1>1, <1>2 DEF SameLease
    <3> QED
      BY <3>1, <1>q, <1>i, LinkKept
  <2>2. CASE v = w
    <3>1. /\ LinkOK(d, w) /\ link'[d][w].open = link[d][w].open /\ link'[d][w].req = link[d][w].req
          /\ link'[d][w].held = NoRoute \/ (~link[d][w].open /\ link'[d][w] = link[d][w])
          /\ link'[d][w].open => link'[d][w].cut
      BY <1>3, <1>i
    <3>2. \A i \in 1..Need : PlannedAt(d, w, i)' <=> PlannedAt(d, w, i)
      BY <1>q DEF PlannedAt
    <3>3. RouteOf(d)' = RouteOf(d)
      BY <1>q DEF RouteOf
    <3>4. /\ \A i \in 1..Need : PlannedAt(d, w, i) => link[d][w].open
          /\ ~link[d][w].open => link[d][w].held = NoRoute /\ link[d][w].req = ""
      BY <3>1 DEF LinkOK
    <3> QED
      BY <2>2, <3>1, <3>2, <3>3, <3>4, <1>q DEF LinkOK
  <2> QED
    BY <2>1, <2>2
<1>7. ASSUME NEW g \in gone' PROVE GoneOK(g)'
  BY <1>g, <1>q DEF GoneOK
<1>8. ASSUME NEW v \in Worker
      PROVE LeaseOK(v)' /\ (lease[v].state # "available" => lease[v].route \in Route)'
  <2>1. CASE v = w
    BY <2>1, <1>1 DEF LeaseOK
  <2>2. CASE v # w
    <3>1. lease'[v] = lease[v] /\ LeaseOK(v) /\ \A d \in Client : link'[d][v] = link[d][v]
      BY <2>2, <1>1, <1>2, <1>v
    <3>2. \A g \in gone : g.w = v => g \in gone'
      BY <2>2, <1>q
    <3> QED
      BY <3>1, <3>2, <1>q, <1>v DEF LeaseOK, RouteOf
  <2> QED
    BY <2>1, <2>2
<1> QED
  BY <1>4, <1>5, <1>6, <1>7, <1>8 DEF PlacementInv

\* A plan is made under a new route id.
LEMMA PlanStep ==
    ASSUME PlacementInv, NEW c \in Client, PlanAndReserve(c)
    PROVE  PlacementInv'
<1>i. /\ Shape /\ (\A d \in Client : ClientOK(d))
      /\ \A d \in Client, v \in Worker : LinkOK(d, v)
  BY DEF PlacementInv
<1>g. \A g \in gone : GoneOK(g)
  BY DEF PlacementInv
<1>w. \A v \in Worker : LeaseOK(v) /\ (lease[v].state # "available" => lease[v].route \in Route)
  BY DEF PlacementInv
<1>p. pc[c] = "greet" /\ pc[c] \notin Planned
  BY DEF PlanAndReserve, Greeted, Planned
<1>q. /\ UNCHANGED <<lease, gone, policy, attempt, round>>
      /\ tries' = [tries EXCEPT ![c] = @ + 1] /\ pc' = [pc EXCEPT ![c] = "reserve"]
  BY DEF PlanAndReserve, Goto
<1>r. result' = [result EXCEPT ![c] = [i \in 1..Need |-> ""]]
  BY DEF PlanAndReserve
<1>t. /\ pc' \in [Client -> Phases] /\ tries' \in [Client -> Nat]
      /\ pc'[c] = "reserve" /\ tries'[c] = tries[c] + 1 /\ tries[c] \in Nat
      /\ \A d \in Client \ {c} : pc'[d] = pc[d] /\ tries'[d] = tries[d]
  BY <1>i, <1>q DEF Shape, Phases, Planned
<1>u. Counted(c)' /\ tries'[c] >= 1
  <2>1. policy[c].attempts \in 1..MaxAttempts /\ MaxAttempts \in Nat
    BY <1>i, PlacementConstants DEF Shape
  <2> QED
    BY <1>i, <1>t, <1>p, <1>q, <2>1 DEF ClientOK, Counted, Shape, Choosing
<1>v. \A d \in Client \ {c} : Counted(d)'
  BY <1>i, <1>t, <1>q DEF ClientOK, Counted
<1>a. PICK p \in PlansOf(Pool(c)) :
        /\ plan' = [plan EXCEPT ![c] = p]
        /\ link' = [link EXCEPT ![c] = [w \in Worker |->
                IF \E i \in 1..Need : p[i] = w THEN [@[w] EXCEPT !.req = "reserve"] ELSE @[w]]]
  BY DEF PlanAndReserve
<1>b. /\ p \in [1..Need -> Worker] /\ (\A i, j \in 1..Need : p[i] = p[j] => i = j)
      /\ \A i \in 1..Need : link[c][p[i]].open
  <2>1. Pool(c) \in SUBSET Worker /\ \A v \in Pool(c) : link[c][v].open
    BY DEF Pool
  <2> QED
    BY <2>1, <1>a, PlanShape
<1>e. result'[c] \in [1..Need -> Results] /\ \A i \in 1..Need : result'[c][i] = ""
  BY <1>i, <1>r DEF Shape, Results
<1>c. /\ plan'[c] = p
      /\ \A d \in Client \ {c} : /\ pc'[d] = pc[d] /\ tries'[d] = tries[d] /\ plan'[d] = plan[d]
                                 /\ result'[d] = result[d] /\ link'[d] = link[d]
  BY <1>i, <1>q, <1>r, <1>a DEF Shape
<1>d. ASSUME NEW v \in Worker
      PROVE  /\ link'[c][v] \in Links /\ link'[c][v].held = NoRoute
             /\ link'[c][v].req \in {"", "reserve"}
             /\ \A i \in 1..Need : p[i] = v => link'[c][v].open
             /\ (\A i \in 1..Need : p[i] # v) => link'[c][v].req = ""
  <2>1. link[c][v] \in Links /\ link[c][v].req = "" /\ link[c][v].held = NoRoute
    BY <1>i, <1>p, IdleLink DEF Shape
  <2>2. link'[c][v] = IF \E i \in 1..Need : p[i] = v THEN [link[c][v] EXCEPT !.req = "reserve"] ELSE link[c][v]
    BY <1>i, <1>a DEF Shape
  <2>3. \A i \in 1..Need : p[i] = v => link[c][v].open
    BY <1>b
  <2>4. /\ link'[c][v] \in Links /\ link'[c][v].held = NoRoute /\ link'[c][v].req \in {"", "reserve"}
        /\ (\A i \in 1..Need : p[i] # v) => link'[c][v].req = ""
    BY <2>1, <2>2 DEF Links, Reqs
  <2>5. link'[c][v].open = link[c][v].open
    BY <2>1, <2>2 DEF Links
  <2> QED
    BY <2>3, <2>4, <2>5
<1>1. Shape'
  <2>1. link' \in [Client -> [Worker -> Links]]
    <3>1. link'[c] = [w \in Worker |-> link'[c][w]]
      BY <1>i, <1>a DEF Shape
    <3>2. link'[c] \in [Worker -> Links]
      BY <3>1, <1>d
    <3> QED
      BY <3>2, <1>i, <1>a DEF Shape
  <2>2. result' \in [Client -> {<<>>} \cup [1..Need -> Results]]
    BY <1>i, <1>r DEF Shape, Results
  <2>3. plan' \in [Client -> {<<>>} \cup [1..Need -> Worker]]
    BY <1>i, <1>a, <1>b DEF Shape
  <2> QED
    BY <1>i, <1>q, <1>t, <2>1, <2>2, <2>3 DEF Shape
<1>2. ASSUME NEW d \in Client PROVE ClientOK(d)'
  <2>1. CASE d # c
    BY <2>1, <1>i, <1>v, <1>t, <1>c DEF ClientOK
  <2>2. CASE d = c
    BY <2>2, <1>b, <1>c, <1>e, <1>t, <1>u DEF ClientOK, Planned
  <2> QED
    BY <2>1, <2>2
<1>3. ASSUME NEW d \in Client, NEW v \in Worker PROVE LinkOK(d, v)'
  <2>1. CASE d # c
    BY <2>1, <1>i, <1>q, <1>c, LinkKept DEF SameLease
  <2>2. CASE d = c
    BY <2>2, <1>c, <1>d, <1>e, <1>t DEF LinkOK, PlannedAt, Planned
  <2> QED
    BY <2>1, <2>2
<1>4. ASSUME NEW g \in gone' PROVE GoneOK(g)'
  <2>1. GoneOK(g) /\ g \in Ends
    BY <1>g, <1>i, <1>q DEF Shape
  <2>2. ASSUME NEW d \in Client, g.route[1] = d
        PROVE  g.route[2] <= tries'[d] /\ (pc'[d] \in Planned => g.route[2] < tries'[d])
    <3>1. g.route[2] <= tries[d] /\ (pc[d] \in Planned => g.route[2] < tries[d])
      BY <2>1, <2>2 DEF GoneOK
    <3>2. g.route[2] \in Nat
      BY <2>1, PlacementConstants DEF Ends
    <3>3. CASE d # c
      BY <3>3, <3>1, <1>t
    <3>4. CASE d = c
      BY <3>4, <3>1, <3>2, <1>t
    <3> QED
      BY <3>3, <3>4
  <2> QED
    BY <2>1, <2>2 DEF GoneOK
<1>5. ASSUME NEW v \in Worker
      PROVE LeaseOK(v)' /\ (lease[v].state # "available" => lease[v].route \in Route)'
  <2>1. CASE lease[v].state = "available"
    BY <2>1, <1>q DEF LeaseOK
  <2>2. CASE lease[v].state # "available"
    <3>1. lease[v].route \in Route /\ lease[v].route # NoRoute /\ LeaseOK(v)
      BY <2>2, <1>w, LeaseConstants
    <3>2. \A d \in Client : link[d][v].held = lease[v].route => d # c
      BY <3>1, <1>i, <1>p, IdleLink
    <3>3. LeaseOK(v)'
      BY <3>1, <3>2, <1>c, <1>q, LeaseKept
    <3> QED
      BY <3>1, <3>3, <1>q
  <2> QED
    BY <2>1, <2>2
<1> QED
  BY <1>1, <1>2, <1>3, <1>4, <1>5 DEF PlacementInv

\* A client with a plan goes on to load it, or to use it; its connections outside
\* the plan may be dropped.
LEMMA Advances ==
    ASSUME PlacementInv, NEW c \in Client, NEW to \in Planned,
           pc[c] \in {"reserve", "load"}, to = "load" => pc[c] = "reserve",
           pc' = [pc EXCEPT ![c] = to],
           UNCHANGED <<lease, gone, plan, tries, policy, attempt, round>>,
           result' \in [Client -> {<<>>} \cup [1..Need -> Results]],
           result'[c] \in [1..Need -> Results],
           \A d \in Client \ {c} : result'[d] = result[d] /\ link'[d] = link[d],
           link' \in [Client -> [Worker -> Links]],
           \A v \in Worker : LinkOK(c, v)',
           \A v \in Worker : link[c][v].held # NoRoute => link'[c][v].held = link[c][v].held
    PROVE  PlacementInv'
<1>i. /\ Shape /\ (\A d \in Client : ClientOK(d))
      /\ \A d \in Client, v \in Worker : LinkOK(d, v)
  BY DEF PlacementInv
<1>g. \A g \in gone : GoneOK(g)
  BY DEF PlacementInv
<1>w. \A v \in Worker : LeaseOK(v) /\ (lease[v].state # "available" => lease[v].route \in Route)
  BY DEF PlacementInv
<1>p. pc[c] \in Planned /\ pc'[c] = to /\ \A d \in Client \ {c} : pc'[d] = pc[d]
  BY <1>i DEF Planned, Shape
<1>1. Shape'
  BY <1>i DEF Shape, Phases
<1>2. ASSUME NEW d \in Client PROVE ClientOK(d)'
  <2>1. CASE d # c
    BY <2>1, <1>i, <1>p DEF ClientOK, Counted
  <2>2. CASE d = c
    <3>1. Counted(c)'
      BY <1>i, <1>p DEF ClientOK, Counted, Shape, Choosing, Planned
    <3> QED
      BY <2>2, <1>i, <1>p, <3>1 DEF ClientOK
  <2> QED
    BY <2>1, <2>2
<1>3. ASSUME NEW d \in Client, NEW v \in Worker PROVE LinkOK(d, v)'
  <2>1. CASE d # c
    BY <2>1, <1>i, <1>p, LinkKept DEF SameLease
  <2>2. CASE d = c
    BY <2>2
  <2> QED
    BY <2>1, <2>2
<1>4. ASSUME NEW g \in gone' PROVE GoneOK(g)'
  BY <1>g, <1>i, <1>p, GoneKept DEF Shape
<1>5. ASSUME NEW v \in Worker
      PROVE LeaseOK(v)' /\ (lease[v].state # "available" => lease[v].route \in Route)'
  <2>1. CASE lease[v].state = "available"
    BY <2>1 DEF LeaseOK
  <2>2. CASE lease[v].state # "available"
    <3>1. lease[v].route \in Route /\ lease[v].route # NoRoute /\ LeaseOK(v)
      BY <2>2, <1>w, LeaseConstants
    <3>3. LeaseOK(v)'
      BY <3>1, LeaseKept
    <3> QED
      BY <3>1, <3>3
  <2> QED
    BY <2>1, <2>2
<1> QED
  BY <1>1, <1>2, <1>3, <1>4, <1>5 DEF PlacementInv

LEMMA AssignAllStep ==
    ASSUME PlacementInv, NEW c \in Client, AssignAll(c)
    PROVE  PlacementInv'
<1>1. Shape /\ ClientOK(c) /\ pc[c] = "reserve" /\ \A v \in Worker : LinkOK(c, v)
  BY DEF PlacementInv, AssignAll
<1>2. /\ pc' = [pc EXCEPT ![c] = "load"]
      /\ UNCHANGED <<lease, gone, plan, tries, policy, attempt, round>>
      /\ result' = [result EXCEPT ![c] = [i \in 1..Need |-> ""]]
      /\ link' = [link EXCEPT ![c] = [w \in Worker |->
                IF \E i \in 1..Need : plan[c][i] = w THEN [@[w] EXCEPT !.req = "assign"] ELSE @[w]]]
  BY DEF AssignAll, Goto, clientVars
<1>3. /\ result' \in [Client -> {<<>>} \cup [1..Need -> Results]]
      /\ result'[c] \in [1..Need -> Results] /\ \A i \in 1..Need : result'[c][i] = ""
      /\ \A d \in Client \ {c} : result'[d] = result[d]
  BY <1>1, <1>2 DEF Shape, Results
<1>4. ASSUME NEW v \in Worker
      PROVE  /\ link'[c][v] \in Links /\ link'[c][v].held = link[c][v].held
             /\ link'[c][v].open = link[c][v].open /\ link'[c][v].cut = link[c][v].cut
             /\ IF \E i \in 1..Need : plan[c][i] = v THEN link'[c][v].req = "assign"
                ELSE link'[c][v].req = link[c][v].req
  <2>1. link[c][v] \in Links
    BY <1>1 DEF Shape
  <2>2. link'[c][v] = IF \E i \in 1..Need : plan[c][i] = v THEN [link[c][v] EXCEPT !.req = "assign"] ELSE link[c][v]
    BY <1>1, <1>2 DEF Shape
  <2> QED
    BY <2>1, <2>2 DEF Links, Reqs
<1>5. link' \in [Client -> [Worker -> Links]] /\ \A d \in Client \ {c} : link'[d] = link[d]
  <2>1. link'[c] = [w \in Worker |-> link'[c][w]]
    BY <1>1, <1>2 DEF Shape
  <2>2. link'[c] \in [Worker -> Links]
    BY <2>1, <1>4
  <2> QED
    BY <2>2, <1>1, <1>2 DEF Shape
<1>6. ASSUME NEW v \in Worker PROVE LinkOK(c, v)'
  <2>1. pc'[c] = "load" /\ RouteOf(c)' = RouteOf(c) /\ LinkOK(c, v)
    BY <1>1, <1>2 DEF Shape, RouteOf
  <2>2. link[c][v].held \in {NoRoute, RouteOf(c)} /\ link'[c][v].held = link[c][v].held /\ UNCHANGED plan
    BY <1>2, <1>4, <2>1 DEF LinkOK
  <2>3. CASE \E i \in 1..Need : plan[c][i] = v
    <3>1. link[c][v].open /\ (link[c][v].cut => link[c][v].held = NoRoute)
      BY <2>1, <2>3, <1>1 DEF LinkOK, PlannedAt, Planned
    <3> QED
      BY <2>1, <2>2, <2>3, <3>1, <1>3, <1>4 DEF LinkOK, PlannedAt, Planned
  <2>4. CASE \A i \in 1..Need : plan[c][i] # v
    <3>1. link[c][v].req = "" /\ link[c][v].held = NoRoute
      BY <2>1, <2>4 DEF LinkOK, PlannedAt
    <3> QED
      BY <2>1, <2>2, <2>4, <3>1, <1>4 DEF LinkOK, PlannedAt
  <2> QED
    BY <2>3, <2>4
<1>7. "load" \in Planned /\ pc[c] \in {"reserve", "load"}
  BY <1>1 DEF Planned
<1>8. /\ pc' = [pc EXCEPT ![c] = "load"] /\ pc[c] = "reserve"
      /\ UNCHANGED <<lease, gone, plan, tries, policy, attempt, round>>
  BY <1>1, <1>2
<1>9. \A d \in Client \ {c} : result'[d] = result[d] /\ link'[d] = link[d]
  BY <1>3, <1>5
<1>10. \A v \in Worker : link[c][v].held # NoRoute => link'[c][v].held = link[c][v].held
  BY <1>4
<1> QED
  BY <1>3, <1>5, <1>6, <1>7, <1>8, <1>9, <1>10, Advances

LEMMA PlacedStep ==
    ASSUME PlacementInv, NEW c \in Client, Placed(c)
    PROVE  PlacementInv'
<1> DEFINE rest == Worker \ { plan[c][i] : i \in 1..Need }
<1>1. /\ Shape /\ ClientOK(c) /\ pc[c] = "load" /\ (\A v \in Worker : LinkOK(c, v))
      /\ \A i \in 1..Need : result[c][i] = "ok"
  BY DEF PlacementInv, Placed
<1>2. /\ pc' = [pc EXCEPT ![c] = "placed"] /\ gone' = Closed(c, rest)
      /\ UNCHANGED <<lease, plan, result, tries, policy, attempt, round>>
      /\ link' = [link EXCEPT ![c] = [w \in Worker |-> IF w \in rest THEN NoLink ELSE @[w]]]
  BY DEF Placed, Goto, clientVars
<1>a. \A v \in Worker : v \notin rest <=> \E i \in 1..Need : plan[c][i] = v
  OBVIOUS
<1>b. rest \in SUBSET Worker
  OBVIOUS
<1> HIDE DEF rest
<1>3. ASSUME NEW v \in rest PROVE link[c][v].req = "" /\ link[c][v].held = NoRoute
  <2>1. v \in Worker /\ LinkOK(c, v) /\ \A i \in 1..Need : plan[c][i] # v
    BY <1>1, <1>a, <1>b
  <2> QED
    BY <2>1 DEF LinkOK, PlannedAt
<1>4. gone' = gone
  BY <1>1, <1>2, <1>3, <1>b, LeftFacts
<1>5. /\ result' \in [Client -> {<<>>} \cup [1..Need -> Results]]
      /\ result'[c] \in [1..Need -> Results]
      /\ \A d \in Client \ {c} : result'[d] = result[d]
  BY <1>1, <1>2 DEF Shape, ClientOK, Planned
<1>6. IdleEnd(NoLink)
  BY DEF NoLink, Links, Reqs, IdleEnd
<1>7. /\ link' \in [Client -> [Worker -> Links]] /\ \A d \in Client \ {c} : link'[d] = link[d]
      /\ \A v \in Worker : link'[c][v] = IF v \in rest THEN NoLink ELSE link[c][v]
  BY <1>1, <1>2, <1>6 DEF Shape, IdleEnd
<1>8. ASSUME NEW v \in Worker
      PROVE  LinkOK(c, v)' /\ (link[c][v].held # NoRoute => link'[c][v].held = link[c][v].held)
  <2>1. /\ pc'[c] = "placed" /\ RouteOf(c)' = RouteOf(c) /\ LinkOK(c, v) /\ link[c][v] \in Links
        /\ result' = result
    BY <1>1, <1>2 DEF Shape, RouteOf
  <2>2. CASE v \in rest
    <3>1. link'[c][v].req = "" /\ link'[c][v].held = NoRoute /\ link[c][v].held = NoRoute
      BY <2>2, <1>3, <1>6, <1>7 DEF IdleEnd
    <3>2. \A i \in 1..Need : ~PlannedAt(c, v, i)'
      BY <2>2, <1>2, <1>a DEF PlannedAt
    <3> QED
      BY <2>1, <3>1, <3>2 DEF LinkOK
  <2>3. CASE v \notin rest
    <3>1. link'[c][v] = link[c][v]
      BY <2>3, <1>7
    <3>2. PICK i \in 1..Need : plan[c][i] = v
      BY <2>3, <1>a
    <3>3. PlannedAt(c, v, i) /\ \A j \in 1..Need : plan[c][j] = v => j = i
      BY <3>2, <1>1 DEF PlannedAt, ClientOK, Planned
    <3>4. /\ link[c][v].req = "" /\ link[c][v].open /\ (link[c][v].cut => link[c][v].held = NoRoute)
          /\ link[c][v].cut \/ (lease[v].state = "serving" /\ Has(c, v, i))
      BY <2>1, <3>3, <1>1 DEF LinkOK, Links, Reqs
    <3>5. Has(c, v, i)' <=> Has(c, v, i)
      BY <2>1, <1>2 DEF Has
    <3>6. \A j \in 1..Need : PlannedAt(c, v, j)' => j = i
      BY <3>3, <1>2 DEF PlannedAt
    <3>7. link[c][v].held \in {NoRoute, RouteOf(c)} /\ PlannedAt(c, v, i)'
      BY <2>1, <3>2, <1>2 DEF LinkOK, PlannedAt, Planned
    <3> QED
      BY <2>1, <3>1, <3>4, <3>5, <3>6, <3>7, <1>1, <1>2 DEF LinkOK
  <2> QED
    BY <2>2, <2>3
<1>9. "placed" \in Planned
  BY DEF Planned
<1> QED
  BY <1>1, <1>2, <1>4, <1>5, <1>7, <1>8, <1>9, Advances

\* The reservations of an attempt that failed are undone.
LEMMA UndoStep ==
    ASSUME PlacementInv, NEW c \in Client, Undo(c)
    PROVE  PlacementInv'
<1>i. /\ Shape /\ (\A d \in Client : ClientOK(d))
      /\ \A d \in Client, v \in Worker : LinkOK(d, v)
  BY DEF PlacementInv
<1>g. \A g \in gone : GoneOK(g)
  BY DEF PlacementInv
<1>w. \A v \in Worker : LeaseOK(v) /\ (lease[v].state # "available" => lease[v].route \in Route)
  BY DEF PlacementInv
<1> DEFINE planned == { plan[c][i] : i \in 1..Need }
           refused == { plan[c][i] : i \in { k \in 1..Need : result[c][k] # "ok" } }
           busy == { plan[c][i] : i \in { k \in 1..Need : result[c][k] = "busy" } }
<1>a. PICK lost \in SUBSET (planned \ refused) :
        /\ gone' = Closed(c, refused \cup lost)
        /\ link' = [link EXCEPT ![c] = [w \in Worker |->
             IF w \in refused \cup lost THEN [NoLink EXCEPT !.recheck = w \in busy]
             ELSE IF w \in planned \ (refused \cup lost) THEN [@[w] EXCEPT !.held = NoRoute] ELSE @[w]]]
        /\ lease' = [w \in Worker |->
             IF w \in planned \ (refused \cup lost) THEN Release(lease[w], RouteOf(c)) ELSE lease[w]]
  BY DEF Undo
<1>p. /\ pc[c] = "reserve" /\ pc[c] \in Planned /\ pc' = [pc EXCEPT ![c] = "again"]
      /\ plan' = [plan EXCEPT ![c] = <<>>] /\ result' = [result EXCEPT ![c] = <<>>]
      /\ UNCHANGED <<tries, policy, attempt, round>>
  BY DEF Undo, Goto, clientVars, Planned
<1> DEFINE shut == refused \cup lost
           given == planned \ shut
<1>b. /\ plan[c] \in [1..Need -> Worker] /\ RouteOf(c) \in Route /\ RouteOf(c) # NoRoute
      /\ \A i, j \in 1..Need : plan[c][i] = plan[c][j] => i = j
  BY <1>i, <1>p, RouteFacts DEF ClientOK
<1>c. shut \in SUBSET Worker /\ given \in SUBSET Worker
  <2>a. \A i \in 1..Need : plan[c][i] \in Worker
    BY <1>b
  <2>b. planned \in SUBSET Worker
    BY <2>a
  <2>c. refused \in SUBSET Worker
    BY <2>a
  <2>1. planned \in SUBSET Worker /\ refused \in SUBSET Worker
    BY <2>b, <2>c
  <2> HIDE DEF planned, refused
  <2> QED
    BY <2>1, <1>a
<1>d. \A v \in Worker : (v \in shut \/ v \in given) <=> \E i \in 1..Need : plan[c][i] = v
  BY <1>a
<1>e. \A i \in 1..Need : plan[c][i] \in given => result[c][i] = "ok"
  BY <1>b
<1>f. /\ gone' = Closed(c, shut)
      /\ \A v \in Worker : v \in shut =>
            link'[c][v] = [NoLink EXCEPT !.recheck = v \in busy]
      /\ \A v \in given : link'[c][v] = [link[c][v] EXCEPT !.held = NoRoute]
      /\ \A v \in Worker : v \notin shut /\ v \notin given => link'[c][v] = link[c][v]
      /\ \A d \in Client \ {c} : link'[d] = link[d]
      /\ \A v \in given : lease'[v] = Release(lease[v], RouteOf(c))
      /\ \A v \in Worker : v \notin given => lease'[v] = lease[v]
  BY <1>a, <1>c, <1>i DEF Shape
<1>h. /\ DOMAIN link' = Client /\ link' = [d \in Client |-> link'[d]] /\ link'[c] = [v \in Worker |-> link'[c][v]]
      /\ lease' = [v \in Worker |-> lease'[v]]
  BY <1>a, <1>i DEF Shape
<1> HIDE DEF planned, refused, busy, shut, given
<1>j. ASSUME NEW v \in Worker PROVE IdleEnd(link'[c][v])
  <2>1. link[c][v] \in Links /\ LinkOK(c, v)
    BY <1>i DEF Shape
  <2>2. CASE v \in shut
    <3>1. v \in busy \/ v \notin busy
      OBVIOUS
    <3>2. (v \in busy) \in BOOLEAN
      OBVIOUS
    <3> QED
      BY <2>2, <3>2, <1>f DEF NoLink, Links, Reqs, IdleEnd
  <2>3. CASE v \in given /\ v \notin shut
    <3>1. PICK i \in 1..Need : plan[c][i] = v
      BY <2>3, <1>d
    <3>2. PlannedAt(c, v, i) /\ result[c][i] = "ok"
      BY <2>3, <3>1, <1>e, <1>p DEF PlannedAt
    <3>3. link[c][v].req = ""
      BY <2>1, <3>2, <1>p DEF LinkOK, Links, Reqs
    <3>4. link'[c][v] = [link[c][v] EXCEPT !.held = NoRoute]
      BY <2>3, <1>f
    <3> QED
      BY <2>1, <3>3, <3>4 DEF IdleEnd, Links
  <2>4. CASE v \notin given /\ v \notin shut
    <3>1. link[c][v].req = "" /\ link[c][v].held = NoRoute
      BY <2>1, <2>4, <1>d DEF LinkOK, PlannedAt
    <3> QED
      BY <2>1, <2>4, <3>1, <1>f DEF IdleEnd
  <2> QED
    BY <2>2, <2>3, <2>4
<1>k. /\ gone \subseteq gone' /\ gone' \subseteq Ends
      /\ \A g \in gone' : g \in gone \/ LeftBy(c, g)
      /\ \A v \in shut : link[c][v].held # NoRoute => Keeps(gone', v, link[c][v].held)
  BY <1>i, <1>c, <1>f, LeftFacts
<1>m. /\ pc'[c] = "again" /\ pc' \in [Client -> Phases] /\ pc'[c] \notin Planned
      /\ \A d \in Client \ {c} : pc'[d] = pc[d] /\ plan'[d] = plan[d] /\ result'[d] = result[d]
  BY <1>i, <1>p DEF Shape, Phases, Planned
<1>n. ASSUME NEW v \in Worker
      PROVE  /\ lease'[v] \in Leases
             /\ lease'[v] = lease[v] \/ (lease[v].route = RouteOf(c) /\ lease'[v] = Available)
             /\ v \in given /\ lease[v].route = RouteOf(c) => lease'[v].state = "available"
  <2>1. Available \in Leases /\ Available.state = "available" /\ lease[v] \in Leases
    BY <1>i, LeaseConstants DEF Shape, Available, Leases, States
  <2> QED
    BY <2>1, <1>f DEF Release
<1>1. Shape'
  <2>1. link' \in [Client -> [Worker -> Links]]
    <3>1. link'[c] \in [Worker -> Links]
      BY <1>h, <1>j DEF IdleEnd
    <3>2. \A d \in Client : link'[d] \in [Worker -> Links]
      BY <3>1, <1>f, <1>i DEF Shape
    <3> QED
      BY <3>2, <1>h
  <2>2. lease' \in [Worker -> Leases]
    BY <1>h, <1>n
  <2>3. /\ plan' \in [Client -> {<<>>} \cup [1..Need -> Worker]]
        /\ result' \in [Client -> {<<>>} \cup [1..Need -> Results]]
    BY <1>i, <1>p DEF Shape
  <2> QED
    BY <2>1, <2>2, <2>3, <1>i, <1>k, <1>m, <1>p DEF Shape
<1>2. ASSUME NEW d \in Client PROVE ClientOK(d)'
  <2>1. CASE d # c
    BY <2>1, <1>i, <1>m, <1>p DEF ClientOK, Counted
  <2>2. CASE d = c
    <3>1. Counted(c)'
      BY <1>i, <1>m, <1>p DEF ClientOK, Counted, Choosing
    <3>2. plan'[c] = <<>> /\ result'[c] = <<>>
      BY <1>i, <1>p DEF Shape
    <3> QED
      BY <2>2, <3>1, <3>2, <1>m DEF ClientOK
  <2> QED
    BY <2>1, <2>2
<1>3. ASSUME NEW d \in Client, NEW v \in Worker PROVE LinkOK(d, v)'
  <2>1. CASE d = c
    BY <2>1, <1>j, <1>m, LinkIdle DEF IdleEnd, PlannedAt
  <2>2. CASE d # c
    <3>1. SameLease(v) \/ lease[v].route # RouteOf(d)
      <4>1. RouteOf(c) # RouteOf(d)
        BY <2>2 DEF RouteOf
      <4> QED
        BY <4>1, <1>n DEF SameLease
    <3>2. link'[d][v] = link[d][v]
      BY <2>2, <1>f
    <3> QED
      BY <2>2, <3>1, <3>2, <1>i, <1>m, <1>p, LinkKept
  <2> QED
    BY <2>1, <2>2
<1>4. ASSUME NEW g \in gone' PROVE GoneOK(g)'
  <2>1. CASE g \in gone
    BY <2>1, <1>g, <1>i, <1>m, <1>p, GoneKept DEF Shape
  <2>2. CASE g \notin gone
    <3>1. g.route = RouteOf(c) /\ g.held = link[c][g.w].held /\ g \in Ends
      BY <2>2, <1>k DEF LeftBy
    <3>2. g.held \in {NoRoute, g.route}
      <4>1. g.w \in Worker
        BY <3>1 DEF Ends
      <4>2. LinkOK(c, g.w)
        BY <4>1, <1>i
      <4> QED
        BY <3>1, <4>2 DEF LinkOK
    <3>3. RouteOf(c)[1] = c /\ RouteOf(c)[2] = tries[c] /\ tries'[c] = tries[c] /\ tries[c] \in Nat
      BY <1>i, <1>p, RouteFacts
    <3>4. g.route[1] = c /\ g.route[2] <= tries'[c]
      BY <3>1, <3>3
    <3> QED
      BY <1>m, <3>1, <3>2, <3>4, Zenon DEF GoneOK
  <2> QED
    BY <2>1, <2>2
<1>5. ASSUME NEW v \in Worker
      PROVE LeaseOK(v)' /\ (lease[v].state # "available" => lease[v].route \in Route)'
  <2>1. CASE lease'[v].state = "available"
    BY <2>1 DEF LeaseOK
  <2>2. CASE lease'[v].state # "available"
    <3>0. lease'[v] = lease[v]
      BY <2>2, <1>n DEF Available
    <3>1. lease[v].route \in Route /\ lease[v].route # NoRoute /\ LeaseOK(v)
      BY <2>2, <3>0, <1>w, LeaseConstants
    <3>2. ASSUME NEW d \in Client, lease[v].route = RouteOf(d) /\ link[d][v].held = lease[v].route
          PROVE  \/ tries'[d] = tries[d] /\ link'[d][v].held = link[d][v].held
                 \/ Keeps(gone', v, lease[v].route)
      <4>1. CASE d # c
        BY <4>1, <1>f, <1>p
      <4>2. CASE d = c
        <5>1. \E i \in 1..Need : plan[c][i] = v
          <6>1. LinkOK(c, v) /\ link[c][v].held # NoRoute
            BY <3>1, <3>2, <4>2, <1>i
          <6> QED
            BY <6>1 DEF LinkOK, PlannedAt
        <5>2. v \in shut
          BY <5>1, <1>d, <1>n, <2>2, <3>2, <4>2
        <5> QED
          BY <5>2, <3>1, <3>2, <4>2, <1>k
      <4> QED
        BY <4>1, <4>2
    <3>3. LeaseOK(v)'
      BY <3>0, <3>1, <3>2, <1>k, LeaseKept
    <3> QED
      BY <3>0, <3>1, <3>3
  <2> QED
    BY <2>1, <2>2
<1> QED
  BY <1>1, <1>2, <1>3, <1>4, <1>5 DEF PlacementInv

\* What workers do for closed connections: the lease of one worker and the record
\* of the connection change.
LEMMA LateFrame ==
    ASSUME PlacementInv, NEW w \in Worker,
           UNCHANGED <<link, pc, plan, result, tries, policy, round, attempt>>,
           lease' \in [Worker -> Leases], \A v \in Worker \ {w} : lease'[v] = lease[v],
           gone' \subseteq Ends, \A h \in gone' : GoneOK(h)',
           \A d \in Client : pc[d] \in Planned /\ lease[w].state \in {"loading", "serving"}
                             /\ lease[w].route = RouteOf(d) => lease'[w] = lease[w],
           \A v \in Worker : LeaseOK(v)',
           lease'[w].state # "available" => lease'[w].route \in Route
    PROVE  PlacementInv'
<1>i. /\ Shape /\ (\A d \in Client : ClientOK(d))
      /\ \A d \in Client, v \in Worker : LinkOK(d, v)
  BY DEF PlacementInv
<1>w. \A v \in Worker : lease[v].state # "available" => lease[v].route \in Route
  BY DEF PlacementInv
<1>1. Shape'
  BY <1>i DEF Shape
<1>2. ASSUME NEW d \in Client PROVE ClientOK(d)'
  BY <1>i DEF ClientOK, Counted
<1>3. ASSUME NEW d \in Client, NEW v \in Worker PROVE LinkOK(d, v)'
  <2>1. CASE pc[d] \notin Planned
    BY <2>1, <1>i, IdleLink, LinkIdle DEF PlannedAt
  <2>2. CASE pc[d] \in Planned
    <3>1. SameLease(v) \/ ~(lease[v].state \in {"loading", "serving"} /\ lease[v].route = RouteOf(d))
      BY <2>2 DEF SameLease
    <3> QED
      BY <3>1, <1>i, LinkKept
  <2> QED
    BY <2>1, <2>2
<1>4. ASSUME NEW v \in Worker
      PROVE LeaseOK(v)' /\ (lease[v].state # "available" => lease[v].route \in Route)'
  BY <1>w
<1> QED
  BY <1>1, <1>2, <1>3, <1>4 DEF PlacementInv

\* A closed connection's reservation is never the one of the client's present plan.
LEMMA GoneHeld ==
    ASSUME PlacementInv, NEW g \in gone, NEW d \in Client, pc[d] \in Planned
    PROVE  g.held # RouteOf(d)
<1>1. Shape /\ ClientOK(d) /\ GoneOK(g)
  BY DEF PlacementInv
<1>2. /\ RouteOf(d)[1] = d /\ RouteOf(d)[2] = tries[d] /\ tries[d] \in Nat /\ RouteOf(d) # NoRoute
  BY <1>1, RouteFacts
<1>3. SUFFICES ASSUME g.held = RouteOf(d) PROVE FALSE
  OBVIOUS
<1>4. g.route = RouteOf(d)
  BY <1>1, <1>2, <1>3 DEF GoneOK
<1>5. g.route[1] = d /\ g.route[2] = tries[d]
  BY <1>2, <1>4
<1>6. g.route[2] < tries[d]
  BY <1>1, <1>5 DEF GoneOK
<1> QED
  BY <1>2, <1>5, <1>6

LEMMA EndOfConnectionStep ==
    ASSUME PlacementInv, NEW g \in gone, EndOfConnection(g)
    PROVE  PlacementInv'
<1>i. /\ Shape /\ (\A h \in gone : GoneOK(h)) /\ g \in Ends /\ gone \subseteq Ends
  BY DEF PlacementInv, Shape
<1>v. \A v \in Worker : LeaseOK(v) /\ (lease[v].state # "available" => lease[v].route \in Route)
  BY DEF PlacementInv
<1> DEFINE w == g.w
<1>1. w \in Worker
  BY <1>i DEF Ends
<1>2. /\ UNCHANGED <<link, pc, plan, result, tries, policy, round, attempt>>
      /\ gone' = gone \ {g} /\ lease' = [lease EXCEPT ![w] = Release(@, g.held)]
  BY DEF EndOfConnection, clientVars
<1>h. \A h \in gone, v \in Worker : h.w = v /\ h = g => v = w
  OBVIOUS
<1> HIDE DEF w
<1>3. Available \in Leases /\ Available.state = "available" /\ lease[w] \in Leases
  BY <1>1, <1>i, LeaseConstants DEF Shape, Available, Leases, States
<1>4. /\ lease' \in [Worker -> Leases] /\ (\A v \in Worker \ {w} : lease'[v] = lease[v])
      /\ lease'[w] = Release(lease[w], g.held)
  BY <1>1, <1>2, <1>3, <1>i DEF Shape, Release
<1>5. /\ lease'[w] = lease[w] \/ (lease[w].route = g.held /\ lease'[w] = Available)
      /\ lease[w].state # "available" /\ lease[w].route = g.held => lease'[w].state = "available"
  BY <1>3, <1>4 DEF Release
<1>6. ASSUME NEW h \in gone' PROVE GoneOK(h)'
  <2>1. h \in gone /\ GoneOK(h) /\ h \in Ends
    BY <1>2, <1>i
  <2> QED
    BY <2>1, <1>2, <1>i, GoneKept
<1>7. \A d \in Client : pc[d] \in Planned /\ lease[w].state \in {"loading", "serving"}
                        /\ lease[w].route = RouteOf(d) => lease'[w] = lease[w]
  BY <1>5, GoneHeld
<1>8. ASSUME NEW v \in Worker PROVE LeaseOK(v)'
  <2>1. CASE lease'[v].state = "available"
    BY <2>1 DEF LeaseOK
  <2>2. CASE lease'[v].state # "available"
    <3>1. lease'[v] = lease[v] /\ LeaseOK(v)
      BY <2>2, <1>3, <1>4, <1>5, <1>v
    <3>2. CASE \E h \in gone : h.w = v /\ h.held = lease[v].route
      <4>1. PICK h \in gone : h.w = v /\ h.held = lease[v].route
        BY <3>2
      <4>2. h # g
        BY <4>1, <1>h, <1>5, <2>2, <3>1
      <4> QED
        BY <4>1, <4>2, <3>1, <1>2 DEF LeaseOK
    <3>3. CASE ~(\E h \in gone : h.w = v /\ h.held = lease[v].route)
      BY <3>1, <3>3, <2>2, <1>2 DEF LeaseOK, RouteOf
    <3> QED
      BY <3>2, <3>3
  <2> QED
    BY <2>1, <2>2
<1>9. gone' \subseteq Ends /\ (lease'[w].state # "available" => lease'[w].route \in Route)
  BY <1>1, <1>2, <1>3, <1>5, <1>i, <1>v
<1> QED
  BY <1>1, <1>2, <1>4, <1>6, <1>7, <1>8, <1>9, LateFrame

LEMMA HandleLateStep ==
    ASSUME PlacementInv, NEW g \in gone, HandleLate(g)
    PROVE  PlacementInv'
<1>i. /\ Shape /\ (\A h \in gone : GoneOK(h)) /\ g \in Ends /\ gone \subseteq Ends
  BY DEF PlacementInv, Shape
<1>v. \A v \in Worker : LeaseOK(v) /\ (lease[v].state # "available" => lease[v].route \in Route)
  BY DEF PlacementInv
<1> DEFINE w == g.w
           R == Reserve(g.route, g.stage, LeaseTicks)
<1>1. w \in Worker /\ g.route \in Route /\ g.held \in {NoRoute, g.route} /\ GoneOK(g)
  BY <1>i DEF Ends, GoneOK
<1>2. UNCHANGED <<link, pc, plan, result, tries, policy, round, attempt>>
  BY DEF HandleLate, clientVars
<1>r. R \in Leases /\ R.route = g.route
  BY <1>i, <1>1, PlacementConstants DEF Reserve, Leases, States, Ends
<1>o. ASSUME NEW n \in Ends, n.w = g.w, n.route = g.route, n.held \in {NoRoute, g.route},
             n.held = g.held \/ g.held = NoRoute \/ n.held = g.route,
             gone' = (gone \ {g}) \cup {n}
      PROVE  /\ gone' \subseteq Ends /\ (\A h \in gone' : GoneOK(h)')
             /\ \A v \in Worker, r \in Route : Keeps(gone, v, r) => Keeps(gone', v, r)
  <2>1. GoneOK(n)
    BY <1>1, <1>o DEF GoneOK
  <2>2. ASSUME NEW h \in gone' PROVE GoneOK(h)'
    <3>1. CASE h = n
      BY <3>1, <2>1, <1>2 DEF GoneOK
    <3>2. CASE h # n
      BY <3>2, <1>o, <1>i, <1>2, GoneKept
    <3> QED
      BY <3>1, <3>2
  <2>3. ASSUME NEW v \in Worker, NEW r \in Route, Keeps(gone, v, r) PROVE Keeps(gone', v, r)
    <3>1. PICK h \in gone : h.w = v /\ h.held = r
      BY <2>3 DEF Keeps
    <3>2. CASE h # g
      BY <3>1, <3>2, <1>o DEF Keeps
    <3>3. CASE h = g
      <4>1. n.w = v /\ n.held = r /\ n \in gone'
        BY <3>1, <3>3, <1>o, <1>1, LeaseConstants
      <4> QED
        BY <4>1 DEF Keeps
    <3> QED
      BY <3>2, <3>3
  <2> QED
    BY <1>o, <1>i, <2>2, <2>3
<1> HIDE DEF w, R
<1>3. CASE CanReserve(lease[w], LeaseTicks)
  <2> DEFINE n == [g EXCEPT !.req = "", !.held = g.route]
  <2>1. lease' = [lease EXCEPT ![w] = R] /\ gone' = (gone \ {g}) \cup {n}
    BY <1>3 DEF HandleLate, w, R
  <2>2. n \in Ends /\ n.w = g.w /\ n.route = g.route /\ n.held = g.route
    BY <1>i, <1>1 DEF Ends, Reqs
  <2> HIDE DEF n
  <2>3. /\ gone' \subseteq Ends /\ (\A h \in gone' : GoneOK(h)')
        /\ \A v \in Worker, r \in Route : Keeps(gone, v, r) => Keeps(gone', v, r)
    BY <1>o, <2>1, <2>2
  <2>4. /\ lease' \in [Worker -> Leases] /\ (\A v \in Worker \ {w} : lease'[v] = lease[v]) /\ lease'[w] = R
    BY <1>1, <1>r, <2>1, <1>i DEF Shape, w
  <2>5. lease[w].state \notin {"loading", "serving"}
    BY <1>3 DEF CanReserve, Expire, Available
  <2>6. ASSUME NEW v \in Worker PROVE LeaseOK(v)'
    <3>1. CASE v = w
      <4>1. Keeps(gone', v, lease'[v].route)
        BY <3>1, <2>1, <2>2, <2>4, <1>r DEF Keeps, w
      <4> QED
        BY <4>1 DEF LeaseOK, Keeps
    <3>2. CASE v # w
      <4>1. lease'[v] = lease[v] /\ LeaseOK(v) /\ (lease[v].state # "available" => lease[v].route \in Route)
        BY <3>2, <2>4, <1>v
      <4> QED
        BY <4>1, <2>3, <1>2, LeaseStays
    <3> QED
      BY <3>1, <3>2
  <2> QED
    BY <1>1, <1>2, <1>r, <2>3, <2>4, <2>5, <2>6, LateFrame DEF w
<1>4. CASE ~CanReserve(lease[w], LeaseTicks)
  <2> DEFINE n == [g EXCEPT !.req = ""]
  <2>1. UNCHANGED lease /\ gone' = (gone \ {g}) \cup {n}
    BY <1>4 DEF HandleLate, w
  <2>2. n \in Ends /\ n.w = g.w /\ n.route = g.route /\ n.held = g.held
    BY <1>i, <1>1 DEF Ends, Reqs
  <2> HIDE DEF n
  <2>3. /\ gone' \subseteq Ends /\ (\A h \in gone' : GoneOK(h)')
        /\ \A v \in Worker, r \in Route : Keeps(gone, v, r) => Keeps(gone', v, r)
    BY <1>o, <1>1, <2>1, <2>2
  <2>4. lease' \in [Worker -> Leases] /\ lease'[w] = lease[w] /\ (\A v \in Worker \ {w} : lease'[v] = lease[v])
    BY <2>1, <1>i DEF Shape
  <2>6. ASSUME NEW v \in Worker PROVE LeaseOK(v)'
    BY <1>v, <2>1, <2>3, <1>2, LeaseStays
  <2> QED
    BY <1>1, <1>2, <1>v, <2>3, <2>4, <2>6, LateFrame DEF w
<1> QED
  BY <1>3, <1>4

LEMMA TickStep ==
    ASSUME PlacementInv, Tick
    PROVE  PlacementInv'
<1>i. /\ Shape /\ (\A d \in Client : ClientOK(d))
      /\ \A d \in Client, v \in Worker : LinkOK(d, v)
  BY DEF PlacementInv
<1>g. \A g \in gone : GoneOK(g)
  BY DEF PlacementInv
<1>w. \A v \in Worker : LeaseOK(v) /\ (lease[v].state # "available" => lease[v].route \in Route)
  BY DEF PlacementInv
<1>q. /\ UNCHANGED <<link, gone, pc, plan, result, tries, policy, round, attempt>>
      /\ lease' = [v \in Worker |-> Elapse(lease[v])]
  BY DEF Tick, clientVars
<1>l. ASSUME NEW v \in Worker PROVE lease'[v] \in Leases /\ SameLease(v)
  <2>1. lease[v] \in Leases /\ lease'[v] = Elapse(lease[v])
    BY <1>i, <1>q DEF Shape
  <2> QED
    BY <2>1, LeaseConstants DEF Leases, Elapse, SameLease
<1>1. Shape'
  <2>1. lease' \in [Worker -> Leases]
    BY <1>l, <1>q
  <2> QED
    BY <2>1, <1>i, <1>q DEF Shape
<1>2. ASSUME NEW d \in Client PROVE ClientOK(d)'
  BY <1>i, <1>q DEF ClientOK, Counted
<1>3. ASSUME NEW d \in Client, NEW v \in Worker PROVE LinkOK(d, v)'
  BY <1>i, <1>q, <1>l, LinkKept
<1>4. ASSUME NEW g \in gone' PROVE GoneOK(g)'
  BY <1>g, <1>q DEF GoneOK
<1>5. ASSUME NEW v \in Worker
      PROVE LeaseOK(v)' /\ (lease[v].state # "available" => lease[v].route \in Route)'
  BY <1>w, <1>l, <1>q, LeaseKept DEF SameLease
<1> QED
  BY <1>1, <1>2, <1>3, <1>4, <1>5 DEF PlacementInv

\* Steps that touch nothing the invariant speaks of.
LEMMA ElsewhereStep ==
    ASSUME PlacementInv, UNCHANGED <<lease, link, gone, pc, policy, plan, result, tries, attempt, round>>
    PROVE  PlacementInv'
<1>i. /\ Shape /\ (\A d \in Client : ClientOK(d)) /\ (\A g \in gone : GoneOK(g))
      /\ \A d \in Client, v \in Worker : LinkOK(d, v)
      /\ \A v \in Worker : LeaseOK(v) /\ (lease[v].state # "available" => lease[v].route \in Route)
  BY DEF PlacementInv
<1>1. Shape' /\ \A d \in Client : ClientOK(d)'
  BY <1>i DEF Shape, ClientOK, Counted
<1>2. \A d \in Client, v \in Worker : LinkOK(d, v)'
  BY <1>i, LinkKept DEF SameLease
<1>3. \A g \in gone' : GoneOK(g)'
  BY <1>i DEF GoneOK
<1>4. \A v \in Worker : LeaseOK(v)'
  BY <1>i, LeaseStays
<1> QED
  BY <1>1, <1>2, <1>3, <1>4, <1>i DEF PlacementInv

LEMMA InitInv ==
    Init => PlacementInv
<1> SUFFICES ASSUME Init PROVE PlacementInv
  OBVIOUS
<1>0. IdleEnd(NoLink) /\ Available \in Leases
  BY LeaseConstants DEF NoLink, Links, Reqs, IdleEnd, Available, Leases, States
<1>1. Shape
  BY <1>0 DEF Init, Shape, IdleEnd, Phases, Choosing
<1>2. \A c \in Client : ClientOK(c)
  BY PlacementConstants DEF Init, ClientOK, Counted, Planned, Choosing
<1>3. \A c \in Client, w \in Worker : LinkOK(c, w)
  <2> TAKE c \in Client, w \in Worker
  <2>1. link[c][w] = NoLink /\ pc[c] = "look"
    BY DEF Init
  <2>2. NoLink.req = "" /\ NoLink.held = NoRoute
    BY DEF NoLink
  <2> QED
    BY <2>1, <2>2 DEF LinkOK, PlannedAt, Planned
<1>4. gone = {} /\ \A w \in Worker : lease[w].state = "available"
  BY DEF Init, Available
<1> QED
  BY <1>1, <1>2, <1>3, <1>4 DEF PlacementInv, LeaseOK

LEMMA NextInv ==
    ASSUME PlacementInv, [Next]_vars
    PROVE  PlacementInv'
<1>1. CASE \E c \in Client : ClientStep(c) \/ EndChat(c) \/ Leave(c)
  <2>1. PICK c \in Client : ClientStep(c) \/ EndChat(c) \/ Leave(c)
    BY <1>1
  <2>2. CASE Gather(c) \/ LookAgain(c) \/ NothingToPick(c) \/ OpenReady(c) \/ CreateSession(c) \/ EndChat(c)
    BY <2>2, ChoiceSteps
  <2>3. CASE BeginPlacing(c)
    BY <2>3, BeginStep
  <2>4. CASE PlanAndReserve(c)
    BY <2>4, PlanStep
  <2>5. CASE NoPlan(c)
    BY <2>5, ThrowStep DEF NoPlan, Greeted
  <2>6. CASE Undo(c)
    BY <2>6, UndoStep
  <2>7. CASE NextAttempt(c)
    BY <2>7, NextAttemptStep
  <2>8. CASE AssignAll(c)
    BY <2>8, AssignAllStep
  <2>9. CASE Placed(c)
    BY <2>9, PlacedStep
  <2>10. CASE LoadFailed(c)
    BY <2>10, ThrowStep DEF LoadFailed
  <2>11. CASE \E w \in Worker : Greet(c, w)
    BY <2>11, GreetStep
  <2>12. CASE Leave(c)
    BY <2>12, LeaveStep
  <2>13. CASE \E w \in Worker : RequestFails(c, w)
    BY <2>13, RequestFailsStep
  <2> QED
    BY <2>1, <2>2, <2>3, <2>4, <2>5, <2>6, <2>7, <2>8, <2>9, <2>10, <2>11, <2>12, <2>13 DEF ClientStep
<1>2. CASE WorkerStep
  BY <1>2, HandleReserveStep, HandleAssignStep, LoadEndsStep, HandleLateStep, EndOfConnectionStep
  DEF WorkerStep
<1>3. CASE \E c \in Client, w \in Worker : LeaveOut(c, w) \/ ReserveFails(c, w) \/ GoesIdle(c, w)
  BY <1>3, LeaveOutStep, ReserveFailsStep, GoesIdleStep
<1>7. CASE \E w \in Worker : WorkerDies(w)
  BY <1>7, WorkerDiesStep
<1>4. CASE ReplicaEnds
  BY <1>4, ElsewhereStep DEF ReplicaEnds
<1>5. CASE Tick
  BY <1>5, TickStep
<1>6. CASE UNCHANGED vars
  BY <1>6, ElsewhereStep DEF vars
<1> QED
  BY <1>1, <1>2, <1>3, <1>4, <1>5, <1>6, <1>7 DEF Next

-----------------------------------------------------------------------------
(* The theorems.                                                           *)

\* The inductive invariant of place_route and the workers' handlers holds whatever
\* clients compete, however late workers handle what clients gave up, and wherever
\* a client or a worker dies or a worker ends an idle connection.
THEOREM PlacementInvariant ==
    Spec => []PlacementInv
BY InitInv, NextInv, PTL DEF Spec

\* A route that place_route returned (placement.cpp, "Every worker agreed: load all
\* ranges in parallel") has had all of its stages ready, and over every connection
\* that the worker has not ended the client reaches that stage of that route,
\* whatever late requests and ends of older connections the workers still handle;
\* a worker that ended the connection (serving_idle_ms, or its death) has given
\* the route up.
THEOREM AlwaysPlacedWhole ==
    Spec => []PlacedWhole
<1>1. ASSUME PlacementInv PROVE PlacedWhole
  <2> SUFFICES ASSUME NEW c \in Client, pc[c] = "placed", NEW i \in 1..Need
               PROVE  /\ result[c][i] = "ok"
                      /\ IF link[c][plan[c][i]].cut
                         THEN ~(lease[plan[c][i]].state # "available" /\ lease[plan[c][i]].route = RouteOf(c))
                         ELSE /\ lease[plan[c][i]].state = "serving"
                              /\ lease[plan[c][i]].route = RouteOf(c) /\ lease[plan[c][i]].stage = i
    BY DEF PlacedWhole
  <2> DEFINE w == plan[c][i]
  <2>1. w \in Worker /\ ClientOK(c) /\ pc[c] \in Planned /\ Shape
    BY <1>1 DEF PlacementInv, ClientOK, Planned
  <2> HIDE DEF w
  <2>2. LinkOK(c, w) /\ PlannedAt(c, w, i) /\ LeaseOK(w)
    BY <1>1, <2>1 DEF PlacementInv, PlannedAt, w
  <2>3. result[c][i] = "ok" /\ (~link[c][w].cut => lease[w].state = "serving" /\ Has(c, w, i))
    BY <2>2 DEF LinkOK
  <2>4. ASSUME link[c][w].cut, lease[w].state # "available", lease[w].route = RouteOf(c)
        PROVE  FALSE
    <3>1. link[c][w].held = NoRoute /\ RouteOf(c) # NoRoute /\ RouteOf(c)[1] = c
      BY <2>1, <2>2, <2>4, RouteFacts DEF LinkOK
    <3>2. \A g \in gone : g.held # RouteOf(c)
      BY <1>1, <2>1, GoneHeld
    <3>3. PICK d \in Client : lease[w].route = RouteOf(d) /\ link[d][w].held = lease[w].route
      BY <2>2, <2>4, <3>2 DEF LeaseOK
    <3>4. d = c
      BY <3>3, <2>4 DEF RouteOf
    <3> QED
      BY <3>1, <3>3, <3>4, <2>4
  <2> QED
    BY <2>3, <2>4 DEF Has, w
<1> QED
  BY <1>1, PlacementInvariant, PTL

\* Nobody holds while it waits: between two attempts of place_route, and after it
\* gave up or left, a client has no lease that some worker is not about to give back
\* (placement.cpp, release_route and the reset of every refused connection).
THEOREM AlwaysNothingHeld ==
    Spec => []NothingHeldBetweenAttempts
<1>1. ASSUME PlacementInv PROVE NothingHeldBetweenAttempts
  <2> SUFFICES ASSUME NEW c \in Client, pc[c] \in {"greet", "again", "failed", "left"},
                      NEW w \in Worker, Holds(c, w)
               PROVE  \E g \in gone : g.w = w /\ g.held = lease[w].route
    BY DEF NothingHeldBetweenAttempts
  <2>1. lease[w].state # "available" /\ lease[w].route[1] = c /\ pc[c] \notin Planned
    BY DEF Holds, Planned
  <2>2. LeaseOK(w) /\ lease[w].route \in Route /\ LinkOK(c, w) /\ lease[w].route # NoRoute
    BY <1>1, <2>1, LeaseConstants DEF PlacementInv
  <2>3. ASSUME NEW d \in Client, lease[w].route = RouteOf(d), link[d][w].held = lease[w].route
        PROVE  FALSE
    <3>1. d = c
      BY <2>1, <2>3, <1>1, RouteFacts DEF PlacementInv
    <3> QED
      BY <3>1, <2>1, <2>2, <2>3, IdleLink
  <2> QED
    BY <2>1, <2>2, <2>3 DEF LeaseOK
<1> QED
  BY <1>1, PlacementInvariant, PTL
=============================================================================
