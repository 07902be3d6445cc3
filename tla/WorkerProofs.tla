---------------------------- MODULE WorkerProofs ----------------------------
(***************************************************************************)
(* Proofs about a worker.  Module WorkerLease: for any number of           *)
(* connections, peers, routes and stages, any lease time and any limits.   *)
(* Module RingWorker (second part): for any number of routes served one    *)
(* after the other and any predecessors.                                   *)
(***************************************************************************)
EXTENDS WorkerLease, RingWorker, FiniteSetTheorems, TLAPS

-----------------------------------------------------------------------------
(***************************************************************************)
(* WorkerLease: the inductive invariant, in named parts.                   *)
(***************************************************************************)
LeaseShape ==
    /\ lease.state = "available" => lease.route = NoRoute
    /\ lease.state # "available" => lease.route \in Route

\* A route id is held only by a thread in the part of serve_connection that
\* ends with giving it back.
HoldersWillGiveBack ==
    \A c \in Conn : held[c] # NoRoute =>
        phase[c] \in {"open", "assigned", "loading", "ready", "serving", "ending"}

\* Two connections never hold the same route id.
HeldUnique == \A c, d \in Conn : held[c] # NoRoute /\ held[c] = held[d] => c = d

LeaseIsHeld == lease.state # "available" => \E c \in Conn : held[c] = lease.route

\* A connection past assign_stage has the lease, for the stage it asked for.
UsersOwn ==
    \A c \in Conn : Using(c) =>
        /\ held[c] # NoRoute
        /\ lease.state \in {"loading", "serving"}
        /\ lease.route = held[c]
        /\ lease.stage = want[c]

LoadedAsAsked == \A c \in Conn : phase[c] \in {"ready", "serving"} => loaded = want[c]

LeaseTypes ==
    /\ lease \in Leases
    /\ loaded \in Stage \cup {NoStage}
    /\ phase \in [Conn -> Phases]
    /\ held \in [Conn -> Route \cup {NoRoute}]
    /\ want \in [Conn -> Stage \cup {NoStage}]

LeaseInv ==
    /\ LeaseTypes
    /\ LeaseShape
    /\ HoldersWillGiveBack
    /\ HeldUnique
    /\ LeaseIsHeld
    /\ UsersOwn
    /\ LoadedAsAsked

-----------------------------------------------------------------------------
(***************************************************************************)
(* What the lease operations do                                            *)
(***************************************************************************)
LEMMA AvailableType == Available \in Leases
  BY LeaseConstants DEF Available, Leases, States

LEMMA ExpireType ==
    ASSUME NEW l \in Leases
    PROVE  /\ Expire(l) \in Leases
           /\ Expire(l) = l \/ (Expire(l) = Available /\ l.state = "reserved")
  BY AvailableType DEF Expire

LEMMA ReleaseType ==
    ASSUME NEW l \in Leases, NEW r
    PROVE  /\ Release(l, r) \in Leases
           /\ Release(l, r) = l \/ (Release(l, r) = Available /\ l.route = r)
  BY AvailableType DEF Release

LEMMA ServingType ==
    ASSUME NEW l \in Leases, NEW r
    PROVE  /\ Serving(l, r) \in Leases
           /\ Serving(l, r).route = l.route
           /\ Serving(l, r).stage = l.stage
           /\ Serving(l, r).state # l.state =>
                l.state = "loading" /\ Serving(l, r).state = "serving"
           /\ Serving(l, r).left = l.left
  BY DEF Serving, Leases, States

LEMMA ElapseType ==
    ASSUME NEW l \in Leases
    PROVE  /\ Elapse(l) \in Leases
           /\ Elapse(l).state = l.state
           /\ Elapse(l).route = l.route
           /\ Elapse(l).stage = l.stage
  BY LeaseConstants DEF Elapse, Leases, States

LEMMA BeginLoadingType ==
    ASSUME NEW l \in Leases
    PROVE  /\ BeginLoading(l) \in Leases
           /\ BeginLoading(l).state = "loading"
           /\ BeginLoading(l).route = l.route
           /\ BeginLoading(l).stage = l.stage
  BY LeaseConstants DEF BeginLoading, Leases, States

LEMMA ReserveType ==
    ASSUME NEW r \in Route, NEW s \in Stage, NEW ms \in 0..MaxLease
    PROVE  Reserve(r, s, ms) \in Leases
  BY LeaseConstants DEF Reserve, Leases, States

-----------------------------------------------------------------------------
(***************************************************************************)
(* LeaseInv is inductive: one lemma per group of actions                   *)
(***************************************************************************)
LEMMA LeaseInvInit == Init => LeaseInv
  BY AvailableType, LeaseConstants
  DEF Init, LeaseInv, LeaseTypes, LeaseShape, HoldersWillGiveBack, HeldUnique,
      LeaseIsHeld, UsersOwn, LoadedAsAsked, Using, Phases, Available

\* Steps that only let a thread go on: the lease, the routes held and the stage
\* stay what they are (or an unused reservation lapses).
LEMMA LeaseInvQuiet ==
    ASSUME LeaseInv,
           UNCHANGED <<loaded, phase, held, want>>,
           lease' \in Leases,
           \/ lease' = Available /\ lease.state = "reserved"
           \/ /\ lease'.state = lease.state
              /\ lease'.route = lease.route
              /\ lease'.stage = lease.stage
    PROVE  LeaseInv'
<1> USE DEF LeaseInv
<1>1. LeaseTypes'
  BY DEF LeaseTypes
<1>2. LeaseShape' /\ LeaseIsHeld'
  BY DEF LeaseShape, LeaseIsHeld, Available
<1>3. HoldersWillGiveBack' /\ HeldUnique' /\ LoadedAsAsked'
  BY DEF HoldersWillGiveBack, HeldUnique, LoadedAsAsked
<1>4. UsersOwn'
  BY DEF UsersOwn, Using, Available
<1>5. QED
  BY <1>1, <1>2, <1>3, <1>4

\* A connection that holds nothing, or goes from the receive loop or from use
\* to the end of serve_connection.
LEMMA LeaseInvMove ==
    ASSUME LeaseInv, NEW c \in Conn, NEW to \in Phases,
           phase' = [phase EXCEPT ![c] = to],
           held[c] # NoRoute => to \in {"open", "assigned", "loading", "ready",
                                        "serving", "ending"},
           ~Using(c)',
           UNCHANGED <<loaded, held, want>>,
           lease' \in Leases,
           \/ lease' = Available /\ lease.state = "reserved"
           \/ /\ lease'.state # lease.state =>
                   lease.state = "loading" /\ lease'.state = "serving"
              /\ lease'.route = lease.route
              /\ lease'.stage = lease.stage
    PROVE  LeaseInv'
<1> USE DEF LeaseInv
<1>1. LeaseTypes'
  BY DEF LeaseTypes
<1>2. LeaseShape' /\ LeaseIsHeld'
  BY DEF LeaseShape, LeaseIsHeld, Available
<1>3. HoldersWillGiveBack' /\ HeldUnique'
  BY DEF HoldersWillGiveBack, HeldUnique, LeaseTypes
<1>4. ASSUME NEW d \in Conn, Using(d)'
      PROVE  d # c /\ Using(d)
  BY <1>4 DEF Using, LeaseTypes
<1>5. UsersOwn'
  BY <1>4 DEF UsersOwn, Available
<1>6. LoadedAsAsked'
  BY <1>4 DEF LoadedAsAsked, Using, LeaseTypes
<1>7. QED
  BY <1>1, <1>2, <1>3, <1>5, <1>6

\* Between an accepted assign_stage and the end there is no other user.
LEMMA UserAlone ==
    ASSUME LeaseInv, NEW c \in Conn, Using(c), NEW d \in Conn, Using(d)
    PROVE  c = d
  BY DEF LeaseInv, UsersOwn, HeldUnique

\* A user of the lease goes on: only the stage on the GPU changes.
LEMMA LeaseInvUser ==
    ASSUME LeaseInv, NEW c \in Conn, Using(c), NEW to,
           to \in {"assigned", "loading", "ready", "serving"},
           phase' = [phase EXCEPT ![c] = to],
           to \in {"ready", "serving"} => loaded' = want[c],
           loaded' \in Stage \cup {NoStage},
           UNCHANGED <<held, want>>,
           lease' \in Leases,
           lease'.state # lease.state => lease.state = "loading" /\ lease'.state = "serving",
           lease'.route = lease.route,
           lease'.stage = lease.stage
    PROVE  LeaseInv'
<1> USE DEF LeaseInv
<1>1. LeaseTypes'
  BY DEF LeaseTypes, Phases
<1>2. LeaseShape' /\ LeaseIsHeld'
  BY DEF LeaseShape, LeaseIsHeld
<1>3. HoldersWillGiveBack' /\ HeldUnique'
  BY DEF HoldersWillGiveBack, HeldUnique, LeaseTypes
<1>4. ASSUME NEW d \in Conn, Using(d)'
      PROVE  d = c
  <2>1. Using(d)
    BY <1>4 DEF Using, LeaseTypes
  <2>2. QED
    BY <2>1, UserAlone
<1>5. UsersOwn'
  BY <1>4 DEF UsersOwn
<1>6. LoadedAsAsked'
  BY <1>4 DEF LoadedAsAsked, Using, LeaseTypes
<1>7. QED
  BY <1>1, <1>2, <1>3, <1>5, <1>6

\* reserve, accepted: nobody uses the worker, so nobody's claim changes.
LEMMA LeaseInvReserve ==
    ASSUME LeaseInv, NEW c \in Conn, NEW r \in Route, NEW s \in Stage,
           NEW ms \in 0..MaxLease, ReserveGranted(c, r, s, ms)
    PROVE  LeaseInv'
<1> USE DEF LeaseInv
<1>1. lease' = Reserve(r, s, ms) /\ lease' \in Leases
  BY ReserveType DEF ReserveGranted
<1>2. LeaseTypes'
  BY <1>1 DEF LeaseTypes, ReserveGranted
<1>3. LeaseShape'
  BY <1>1 DEF LeaseShape, Reserve
<1>4. HoldersWillGiveBack'
  BY DEF HoldersWillGiveBack, ReserveGranted, LeaseTypes
<1>5. HeldUnique'
  BY DEF HeldUnique, ReserveGranted, LeaseTypes, Fresh
<1>6. LeaseIsHeld'
  <2>1. held'[c] = r /\ lease'.route = r
    BY <1>1 DEF ReserveGranted, LeaseTypes, Reserve
  <2>2. QED
    BY <2>1 DEF LeaseIsHeld
<1>7. \A d \in Conn : ~Using(d)
  BY ExpireType DEF UsersOwn, ReserveGranted, CanReserve, Available, LeaseTypes
<1>8. UsersOwn' /\ LoadedAsAsked'
  BY <1>7 DEF UsersOwn, LoadedAsAsked, Using, ReserveGranted
<1>9. QED
  BY <1>2, <1>3, <1>4, <1>5, <1>6, <1>8

\* release_route, and the end of serve_connection: the route id of c is
\* dropped together with the lease, if the lease was c's.
LEMMA LeaseInvRelease ==
    ASSUME LeaseInv, NEW c \in Conn, ~Using(c),
           NEW to \in Phases \ {"assigned", "loading", "ready", "serving"},
           phase' = [phase EXCEPT ![c] = to],
           held' = [held EXCEPT ![c] = NoRoute],
           lease' = IF held[c] = NoRoute THEN lease ELSE Release(lease, held[c]),
           want' \in [Conn -> Stage \cup {NoStage}],
           \A d \in Conn \ {c} : want'[d] = want[d],
           UNCHANGED loaded
    PROVE  LeaseInv'
<1> USE DEF LeaseInv
<1>1. /\ lease' \in Leases
      /\ \/ lease' = lease
         \/ lease' = Available /\ lease.route = held[c] /\ held[c] # NoRoute
  BY ReleaseType DEF LeaseTypes
<1>2. LeaseTypes'
  BY <1>1 DEF LeaseTypes
<1>3. LeaseShape'
  BY <1>1 DEF LeaseShape, Available
<1>4. HoldersWillGiveBack' /\ HeldUnique'
  BY DEF HoldersWillGiveBack, HeldUnique, LeaseTypes
<1>5. LeaseIsHeld'
  <2>1. CASE lease' = Available
    BY <2>1 DEF LeaseIsHeld, Available
  <2>2. CASE lease' = lease /\ lease.state # "available"
    <3>1. PICK d \in Conn : held[d] = lease.route
      BY <2>2 DEF LeaseIsHeld
    <3>2. d # c
      BY <3>1, <2>2, LeaseConstants DEF Release, LeaseShape, Available, LeaseTypes
    <3>3. held'[d] = lease'.route
      BY <3>1, <3>2, <2>2 DEF LeaseTypes
    <3>4. QED
      BY <3>3 DEF LeaseIsHeld
  <2>3. QED
    BY <1>1, <2>1, <2>2 DEF LeaseIsHeld
<1>6. ASSUME NEW d \in Conn, Using(d)'
      PROVE  d # c /\ Using(d) /\ held'[d] = held[d] /\ lease' = lease
  <2>1. d # c /\ Using(d) /\ held'[d] = held[d]
    BY <1>6 DEF Using, LeaseTypes
  <2>2. lease.route = held[d] /\ held[d] # NoRoute
    BY <2>1 DEF UsersOwn
  <2>3. QED
    BY <1>1, <2>1, <2>2 DEF HeldUnique
<1>7. UsersOwn'
  BY <1>6 DEF UsersOwn
<1>8. LoadedAsAsked'
  BY <1>6 DEF LoadedAsAsked, Using, LeaseTypes
<1>9. QED
  BY <1>2, <1>3, <1>4, <1>5, <1>7, <1>8

\* assign_stage, accepted: a reserved lease has no user yet, c becomes it.
LEMMA LeaseInvAssign ==
    ASSUME LeaseInv, NEW c \in Conn, NEW s \in Stage, AssignStage(c, s)
    PROVE  LeaseInv'
<1> USE DEF LeaseInv
<1>1. /\ lease.state = "reserved"
      /\ lease.route = held[c] /\ held[c] # NoRoute
      /\ lease.stage = s
  BY ExpireType DEF AssignStage, CanBeginLoading, Available, LeaseTypes
<1>2. /\ lease' \in Leases /\ lease'.state = "loading"
      /\ lease'.route = held[c] /\ lease'.stage = s
  BY <1>1, BeginLoadingType DEF AssignStage, LeaseTypes
<1>3. phase' = [phase EXCEPT ![c] = "assigned"] /\ phase[c] = "open"
  BY DEF AssignStage, Goto
<1>4. LeaseTypes'
  BY <1>2, <1>3 DEF AssignStage, LeaseTypes, Phases
<1>5. LeaseShape' /\ LeaseIsHeld'
  BY <1>1, <1>2 DEF AssignStage, LeaseShape, LeaseIsHeld
<1>6. HoldersWillGiveBack' /\ HeldUnique'
  BY <1>3 DEF AssignStage, HoldersWillGiveBack, HeldUnique, LeaseTypes
<1>7. ASSUME NEW d \in Conn, Using(d)'
      PROVE  d = c
  BY <1>1, <1>3, <1>7 DEF Using, UsersOwn, LeaseTypes
<1>8. UsersOwn'
  BY <1>1, <1>2, <1>7 DEF UsersOwn, AssignStage, LeaseTypes
<1>9. LoadedAsAsked'
  BY <1>3, <1>7 DEF LoadedAsAsked, Using, LeaseTypes
<1>10. QED
  BY <1>4, <1>5, <1>6, <1>8, <1>9

LEMMA LeaseInvStep == LeaseInv /\ [Next]_vars => LeaseInv'
<1> SUFFICES ASSUME LeaseInv, [Next]_vars
             PROVE  LeaseInv'
  OBVIOUS
<1>t. /\ lease \in Leases /\ loaded \in Stage \cup {NoStage}
      /\ phase \in [Conn -> Phases] /\ held \in [Conn -> Route \cup {NoRoute}]
      /\ want \in [Conn -> Stage \cup {NoStage}]
  BY DEF LeaseInv, LeaseTypes
<1>e. /\ Expire(lease) \in Leases
      /\ Expire(lease) = lease \/ (Expire(lease) = Available /\ lease.state = "reserved")
  BY <1>t, ExpireType
<1>1. CASE UNCHANGED vars
  BY <1>1, <1>t, LeaseInvQuiet DEF vars
<1>2. ASSUME NEW c \in Conn, ThreadStep(c)
      PROVE  LeaseInv'
  <2>1. CASE Greet(c)
    <3>1. PICK to \in {"open", "ending"} : phase' = [phase EXCEPT ![c] = to]
      BY <2>1 DEF Greet
    <3>2. ~Using(c)' /\ to \in Phases
      BY <3>1, <1>t DEF Using, Phases
    <3>3. lease' = Expire(lease) /\ UNCHANGED <<loaded, held, want>>
      BY <2>1 DEF Greet
    <3>4. QED
      BY <3>1, <3>2, <3>3, <1>e, LeaseInvMove
  <2>2. CASE ReuseStage(c)
    <3>1. Using(c) /\ phase' = [phase EXCEPT ![c] = "ready"]
      BY <2>2 DEF ReuseStage, Goto, Using
    <3>2. QED
      BY <2>2, <3>1, <1>t, LeaseInvUser DEF ReuseStage
  <2>3. CASE UnloadStage(c)
    <3>1. Using(c) /\ phase' = [phase EXCEPT ![c] = "loading"]
      BY <2>3 DEF UnloadStage, Goto, Using
    <3>2. QED
      BY <2>3, <3>1, <1>t, LeaseInvUser DEF UnloadStage
  <2>4. CASE StartServing(c)
    <3>1. /\ Using(c) /\ phase[c] = "ready"
          /\ lease' = Serving(lease, held[c]) /\ UNCHANGED <<loaded, held, want>>
      BY <2>4 DEF StartServing, Using
    <3>2. /\ lease' \in Leases /\ lease'.route = lease.route /\ lease'.stage = lease.stage
          /\ lease'.state # lease.state =>
                lease.state = "loading" /\ lease'.state = "serving"
      BY <3>1, <1>t, ServingType
    <3>3. CASE phase' = [phase EXCEPT ![c] = "serving"]
      <4>1. loaded' = want[c]
        BY <3>1 DEF LeaseInv, LoadedAsAsked
      <4>2. QED
        BY <3>1, <3>2, <3>3, <4>1, <1>t, LeaseInvUser
    <3>4. CASE phase' = [phase EXCEPT ![c] = "ending"]
      <4>1. ~Using(c)'
        BY <3>4, <1>t DEF Using
      <4>2. QED
        BY <3>1, <3>2, <3>4, <4>1, LeaseInvMove DEF Phases
    <3>5. QED
      BY <2>4, <3>3, <3>4 DEF StartServing
  <2>5. CASE GiveBack(c)
    <3>1. phase[c] = "ending" /\ phase' = [phase EXCEPT ![c] = "leaving"]
      BY <2>5 DEF GiveBack, Goto
    <3>2. ~Using(c) /\ "leaving" \in Phases \ {"assigned", "loading", "ready", "serving"}
      BY <3>1 DEF Using, Phases
    <3>3. /\ held' = [held EXCEPT ![c] = NoRoute] /\ UNCHANGED loaded
          /\ lease' = IF held[c] = NoRoute THEN lease ELSE Release(lease, held[c])
          /\ want' = [want EXCEPT ![c] = NoStage]
      BY <2>5 DEF GiveBack
    <3>4. QED
      BY <3>1, <3>2, <3>3, <1>t, LeaseInvRelease
  <2>6. CASE Leave(c)
    <3>1. /\ phase[c] = "leaving" /\ phase' = [phase EXCEPT ![c] = "closed"]
          /\ UNCHANGED <<lease, loaded, held, want>>
      BY <2>6 DEF Leave, Goto
    <3>2. held[c] = NoRoute /\ ~Using(c)'
      BY <3>1, <1>t DEF LeaseInv, HoldersWillGiveBack, Using
    <3>3. QED
      BY <3>1, <3>2, <1>t, LeaseInvMove DEF Phases
  <2>7. QED
    BY <1>2, <2>1, <2>2, <2>3, <2>4, <2>5, <2>6 DEF ThreadStep
<1>3. ASSUME NEW c \in Conn, DownloadEnds(c)
      PROVE  LeaseInv'
  <2>1. CASE LoadStage(c)
    <3>1. Using(c) /\ phase' = [phase EXCEPT ![c] = "ready"]
      BY <2>1 DEF LoadStage, Goto, Using
    <3>2. QED
      BY <2>1, <3>1, <1>t, LeaseInvUser DEF LoadStage
  <2>2. CASE LoadFails(c)
    <3>1. phase' = [phase EXCEPT ![c] = "ending"] /\ ~Using(c)'
      BY <2>2, <1>t DEF LoadFails, Goto, Using
    <3>2. QED
      BY <2>2, <3>1, <1>t, LeaseInvMove DEF LoadFails, Phases
  <2>3. QED
    BY <1>3, <2>1, <2>2 DEF DownloadEnds
<1>4. ASSUME NEW c \in Conn, ClientStep(c)
      PROVE  LeaseInv'
  <2>0. held[c] # NoRoute => phase[c] \notin {"closed", "header"}
    BY DEF LeaseInv, HoldersWillGiveBack
  <2>1. CASE Accept(c)
    <3>1. /\ phase' = [phase EXCEPT ![c] = "header"] /\ ~Using(c)' /\ held[c] = NoRoute
          /\ UNCHANGED <<lease, loaded, held, want>>
      BY <2>1, <2>0, <1>t DEF Accept, Goto, Using
    <3>2. QED
      BY <3>1, <1>t, LeaseInvMove DEF Phases
  <2>2. ASSUME NEW p \in Peer, ReadPeer(c, p)
        PROVE  LeaseInv'
    <3>1. /\ phase' = [phase EXCEPT ![c] = "greet"] /\ ~Using(c)' /\ held[c] = NoRoute
          /\ UNCHANGED <<lease, loaded, held, want>>
      BY <2>2, <2>0, <1>t DEF ReadPeer, Goto, Using
    <3>2. QED
      BY <3>1, <1>t, LeaseInvMove DEF Phases
  <2>3. CASE RejectPeer(c)
    <3>1. /\ phase' = [phase EXCEPT ![c] = "closed"] /\ ~Using(c)' /\ held[c] = NoRoute
          /\ UNCHANGED <<lease, loaded, held, want>>
      BY <2>3, <2>0, <1>t DEF RejectPeer, Goto, Using
    <3>2. QED
      BY <3>1, <1>t, LeaseInvMove DEF Phases
  <2>4. ASSUME NEW r \in Route, NEW s \in Stage, NEW ms \in 0..MaxLease,
               ReserveGranted(c, r, s, ms)
        PROVE  LeaseInv'
    BY <2>4, LeaseInvReserve
  <2>5. ASSUME NEW ms \in 0..MaxLease, ReserveBusy(c, ms)
        PROVE  LeaseInv'
    BY <2>5, <1>e, LeaseInvQuiet DEF ReserveBusy
  <2>6. CASE ReleaseRoute(c)
    <3>1. /\ phase' = [phase EXCEPT ![c] = "open"] /\ ~Using(c)
          /\ "open" \in Phases \ {"assigned", "loading", "ready", "serving"}
      BY <2>6, <1>t DEF ReleaseRoute, Using, Phases
    <3>2. QED
      BY <2>6, <3>1, <1>t, LeaseInvRelease DEF ReleaseRoute
  <2>7. ASSUME NEW s \in Stage, AssignStage(c, s)
        PROVE  LeaseInv'
    BY <2>7, LeaseInvAssign
  <2>8. ASSUME NEW r \in Route, NEW s \in Stage, AssignRefused(c, r, s)
        PROVE  LeaseInv'
    <3>1. /\ phase' = [phase EXCEPT ![c] = "ending"] /\ ~Using(c)'
          /\ UNCHANGED <<loaded, held, want>>
          /\ lease' = lease \/ lease' = Expire(lease)
      BY <2>8, <1>t DEF AssignRefused, Goto, Using
    <3>2. QED
      BY <3>1, <1>t, <1>e, LeaseInvMove DEF Phases
  <2>9. CASE LeaveLoop(c) \/ ServeControlEnds(c)
    <3>1. /\ phase' = [phase EXCEPT ![c] = "ending"] /\ ~Using(c)'
          /\ UNCHANGED <<lease, loaded, held, want>>
      BY <2>9, <1>t DEF LeaveLoop, ServeControlEnds, Goto, Using
    <3>2. QED
      BY <3>1, <1>t, LeaseInvMove DEF Phases
  <2>10. QED
    BY <1>4, <2>1, <2>2, <2>3, <2>4, <2>5, <2>6, <2>7, <2>8, <2>9 DEF ClientStep
<1>5. CASE Tick
  BY <1>5, <1>t, ElapseType, LeaseInvQuiet DEF Tick
<1>6. CASE StatusJson
  BY <1>6, <1>e, LeaseInvQuiet DEF StatusJson
<1>7. QED
  BY <1>1, <1>2, <1>3, <1>4, <1>5, <1>6 DEF Next

LEMMA LeaseInvariance == Spec => []LeaseInv
  BY LeaseInvInit, LeaseInvStep, PTL DEF Spec

-----------------------------------------------------------------------------
(***************************************************************************)
(* The safety theorems                                                     *)
(***************************************************************************)
\* At every moment at most one connection uses the worker, and the lease is
\* its own (serve_connection against WorkerLease).
THEOREM ExclusiveUseHolds == Spec => []ExclusiveUse
<1>1. LeaseInv => ExclusiveUse
  BY UserAlone DEF LeaseInv, UsersOwn, ExclusiveUse
<1>2. QED
  BY <1>1, LeaseInvariance, PTL

\* A lease that is not available is held by exactly one connection whose
\* thread will reach the release at the end of serve_connection.
THEOREM LeaseHasHolderHolds == Spec => []LeaseHasHolder
<1>1. LeaseInv => LeaseHasHolder
  <2> SUFFICES ASSUME LeaseInv, lease.state # "available"
               PROVE  /\ \E c \in Conn :
                            /\ held[c] = lease.route
                            /\ phase[c] \notin {"closed", "header", "greet", "leaving"}
                      /\ \A c, d \in Conn :
                            held[c] = lease.route /\ held[d] = lease.route => c = d
    BY DEF LeaseHasHolder
  <2>1. lease.route # NoRoute
    BY LeaseConstants DEF LeaseInv, LeaseShape
  <2>2. PICK c \in Conn : held[c] = lease.route
    BY DEF LeaseInv, LeaseIsHeld
  <2>3. phase[c] \notin {"closed", "header", "greet", "leaving"}
    BY <2>1, <2>2 DEF LeaseInv, HoldersWillGiveBack
  <2>4. QED
    BY <2>1, <2>2, <2>3 DEF LeaseInv, HeldUnique
<1>2. QED
  BY <1>1, LeaseInvariance, PTL

\* The stage on the GPU while a route is served is the one it was leased for.
THEOREM ServesLeasedStageHolds == Spec => []ServesLeasedStage
<1>1. LeaseInv => ServesLeasedStage
  BY DEF LeaseInv, UsersOwn, LoadedAsAsked, ServesLeasedStage, Using
<1>2. QED
  BY <1>1, LeaseInvariance, PTL

-----------------------------------------------------------------------------
(***************************************************************************)
(* Every step of the worker is a step of the abstract lease, or none       *)
(***************************************************************************)
Owner == Expire(lease).route
InUse == lease.state \in {"loading", "serving"}

PromiseStep == [Promise!Next]_<<Owner, InUse>>

\* How each operation on the lease looks from outside.
LEMMA ExpirePromise ==
    ASSUME LeaseInv, lease' = Expire(lease)
    PROVE  UNCHANGED <<Owner, InUse>>
  BY DEF Owner, InUse, Expire, Available

LEMMA ElapsePromise ==
    ASSUME LeaseInv, lease' = Elapse(lease)
    PROVE  PromiseStep
<1>1. /\ lease'.state = lease.state /\ lease'.route = lease.route
  BY ElapseType DEF LeaseInv, LeaseTypes
<1>2. InUse' = InUse
  BY <1>1 DEF InUse
<1>3. CASE Owner' = Owner
  BY <1>2, <1>3 DEF PromiseStep
<1>4. CASE Owner' # Owner
  <2>1. Owner' = NoRoute
    BY <1>1, <1>4 DEF Owner, Expire, Available, LeaseInv, LeaseTypes, Leases, Elapse
  <2>2. ~InUse
    BY <1>1, <1>4 DEF Owner, Expire, InUse
  <2>3. Promise!Lapse
    BY <1>2, <2>1, <2>2 DEF Promise!Lapse, Owner, InUse
  <2>4. QED
    BY <2>3 DEF PromiseStep, Promise!Next
<1>5. QED
  BY <1>3, <1>4

LEMMA ReleasePromise ==
    ASSUME LeaseInv, NEW r, lease' = Release(lease, r)
    PROVE  PromiseStep
<1>1. CASE lease' = lease
  BY <1>1 DEF PromiseStep, Owner, InUse
<1>2. CASE lease' = Available
  <2>1. Owner' = NoRoute /\ InUse' = FALSE
    BY <1>2 DEF Owner, InUse, Expire, Available
  <2>2. CASE InUse
    <3>1. Promise!Finish
      BY <2>1, <2>2 DEF Promise!Finish, Owner, InUse
    <3>2. QED
      BY <3>1 DEF PromiseStep, Promise!Next
  <2>3. CASE ~InUse
    <3>1. Promise!Lapse
      BY <2>1, <2>3 DEF Promise!Lapse, Owner, InUse
    <3>2. QED
      BY <3>1 DEF PromiseStep, Promise!Next
  <2>4. QED
    BY <2>2, <2>3
<1>3. QED
  BY <1>1, <1>2, ReleaseType DEF LeaseInv, LeaseTypes

LEMMA ReservePromise ==
    ASSUME LeaseInv, NEW c \in Conn, NEW r \in Route, NEW s \in Stage,
           NEW ms \in 0..MaxLease, ReserveGranted(c, r, s, ms)
    PROVE  PromiseStep
<1>1. Expire(lease).state = "available" /\ ms # 0 /\ lease' = Reserve(r, s, ms)
  BY DEF ReserveGranted, CanReserve
<1>2. Owner = NoRoute /\ ~InUse
  BY <1>1, ExpireType DEF Owner, InUse, LeaseInv, LeaseTypes, LeaseShape, Available
<1>3. Owner' = r /\ ~InUse'
  BY <1>1 DEF Owner, InUse, Reserve, Expire
<1>4. Promise!Grant(r)
  BY <1>2, <1>3 DEF Promise!Grant, Owner, InUse
<1>5. QED
  BY <1>4 DEF PromiseStep, Promise!Next

LEMMA AssignPromise ==
    ASSUME LeaseInv, NEW c \in Conn, NEW s \in Stage, AssignStage(c, s)
    PROVE  PromiseStep
<1>1. /\ lease.state = "reserved" /\ Expire(lease) = lease
      /\ lease.route \in Route
  BY ExpireType
  DEF AssignStage, CanBeginLoading, Available, LeaseInv, LeaseTypes, LeaseShape
<1>2. lease' = BeginLoading(lease)
  BY DEF AssignStage
<1>3. lease'.state = "loading" /\ lease'.route = lease.route
  BY <1>2, BeginLoadingType DEF LeaseInv, LeaseTypes
<1>4. Owner # NoRoute /\ ~InUse /\ Owner' = Owner /\ InUse' = TRUE
  BY <1>1, <1>3, LeaseConstants DEF Owner, InUse, Expire
<1>5. Promise!Use
  BY <1>4 DEF Promise!Use, Owner, InUse
<1>6. QED
  BY <1>5 DEF PromiseStep, Promise!Next

LEMMA ServingPromise ==
    ASSUME LeaseInv, NEW r, lease' = Serving(lease, r)
    PROVE  UNCHANGED <<Owner, InUse>>
  BY ServingType DEF Owner, InUse, Expire, LeaseInv, LeaseTypes, Leases, States

LEMMA PromiseStepHolds == LeaseInv /\ [Next]_vars => PromiseStep
<1> SUFFICES ASSUME LeaseInv, [Next]_vars
             PROVE  PromiseStep
  OBVIOUS
<1>s. ASSUME UNCHANGED <<Owner, InUse>> PROVE PromiseStep
  BY <1>s DEF PromiseStep
<1>u. ASSUME UNCHANGED lease PROVE PromiseStep
  BY <1>u, <1>s DEF Owner, InUse
<1>e. ASSUME lease' = Expire(lease) PROVE PromiseStep
  BY <1>e, <1>s, ExpirePromise
<1>1. CASE UNCHANGED vars
  BY <1>1, <1>u DEF vars
<1>2. ASSUME NEW c \in Conn, ThreadStep(c)
      PROVE  PromiseStep
  <2>1. CASE Greet(c)
    BY <2>1, <1>e DEF Greet
  <2>2. CASE ReuseStage(c) \/ UnloadStage(c) \/ Leave(c)
    BY <2>2, <1>u DEF ReuseStage, UnloadStage, Leave
  <2>3. CASE StartServing(c)
    BY <2>3, <1>s, ServingPromise DEF StartServing
  <2>4. CASE GiveBack(c)
    BY <2>4, <1>u, ReleasePromise DEF GiveBack
  <2>5. QED
    BY <1>2, <2>1, <2>2, <2>3, <2>4 DEF ThreadStep
<1>3. ASSUME NEW c \in Conn, DownloadEnds(c)
      PROVE  PromiseStep
  BY <1>3, <1>u DEF DownloadEnds, LoadStage, LoadFails
<1>4. ASSUME NEW c \in Conn, ClientStep(c)
      PROVE  PromiseStep
  <2>1. CASE Accept(c) \/ RejectPeer(c) \/ LeaveLoop(c) \/ ServeControlEnds(c)
    BY <2>1, <1>u DEF Accept, RejectPeer, LeaveLoop, ServeControlEnds
  <2>2. ASSUME NEW p \in Peer, ReadPeer(c, p)
        PROVE  PromiseStep
    BY <2>2, <1>u DEF ReadPeer
  <2>3. ASSUME NEW r \in Route, NEW s \in Stage, NEW ms \in 0..MaxLease,
               ReserveGranted(c, r, s, ms)
        PROVE  PromiseStep
    BY <2>3, ReservePromise
  <2>4. ASSUME NEW ms \in 0..MaxLease, ReserveBusy(c, ms)
        PROVE  PromiseStep
    BY <2>4, <1>e DEF ReserveBusy
  <2>5. CASE ReleaseRoute(c)
    BY <2>5, ReleasePromise DEF ReleaseRoute
  <2>6. ASSUME NEW s \in Stage, AssignStage(c, s)
        PROVE  PromiseStep
    BY <2>6, AssignPromise
  <2>7. ASSUME NEW r \in Route, NEW s \in Stage, AssignRefused(c, r, s)
        PROVE  PromiseStep
    BY <2>7, <1>u, <1>e DEF AssignRefused
  <2>8. QED
    BY <1>4, <2>1, <2>2, <2>3, <2>4, <2>5, <2>6, <2>7 DEF ClientStep
<1>5. CASE Tick
  BY <1>5, ElapsePromise DEF Tick
<1>6. CASE StatusJson
  BY <1>6, <1>e DEF StatusJson
<1>7. QED
  BY <1>1, <1>2, <1>3, <1>4, <1>5, <1>6 DEF Next

\* The worker, with its connections, deadlines and loading, implements the
\* abstract lease: one owner at a time, and only the owner's own release ends
\* a use.
THEOREM ImplementsPromiseHolds == Spec => ImplementsPromise
<1>1. Init => Promise!Init
  BY DEF Init, Promise!Init, Expire, Available
<1>2. LeaseInv /\ [Next]_vars => [Promise!Next]_<<Expire(lease).route,
                                       lease.state \in {"loading", "serving"}>>
  BY PromiseStepHolds DEF PromiseStep, Owner, InUse
<1>3. QED
  BY <1>1, <1>2, LeaseInvariance, PTL DEF Spec, ImplementsPromise, Promise!Spec

-----------------------------------------------------------------------------
(***************************************************************************)
(* A lease in use is not taken away.  LeaseInv says that a user has the    *)
(* lease; this also needs the converse: while the lease is in use, the     *)
(* connection that holds its route is using it or about to give it back.   *)
(***************************************************************************)
UseInv == InUse => \A c \in Conn :
                      held[c] = lease.route => Using(c) \/ phase[c] = "ending"

LEMMA UseInvMove ==
    ASSUME LeaseTypes, UseInv, NEW c \in Conn, NEW to,
           phase' = [phase EXCEPT ![c] = to], UNCHANGED held,
           Using(c) \/ phase[c] = "ending" => Using(c)' \/ to = "ending",
           InUse' => InUse /\ lease'.route = lease.route
    PROVE  UseInv'
<1> SUFFICES ASSUME InUse', NEW d \in Conn, held'[d] = lease'.route
             PROVE  Using(d)' \/ phase'[d] = "ending"
  BY DEF UseInv
<1>1. Using(d) \/ phase[d] = "ending"
  BY DEF UseInv
<1>2. CASE d = c
  BY <1>1, <1>2 DEF LeaseTypes
<1>3. CASE d # c
  BY <1>1, <1>3 DEF LeaseTypes, Using
<1>4. QED
  BY <1>2, <1>3

LEMMA UseInvQuiet ==
    ASSUME UseInv, UNCHANGED <<phase, held>>,
           InUse' => InUse /\ lease'.route = lease.route
    PROVE  UseInv'
  BY DEF UseInv, Using

LEMMA UseInvStep == LeaseInv /\ UseInv /\ [Next]_vars => UseInv'
<1> SUFFICES ASSUME LeaseInv, UseInv, [Next]_vars
             PROVE  UseInv'
  OBVIOUS
<1>t. LeaseTypes
  BY DEF LeaseInv
<1>e. lease' = Expire(lease) => (InUse' => InUse /\ lease'.route = lease.route)
  BY DEF InUse, Expire, Available
<1>u. UNCHANGED lease => (InUse' => InUse /\ lease'.route = lease.route)
  BY DEF InUse
<1>1. CASE UNCHANGED vars
  BY <1>1, <1>u, UseInvQuiet DEF vars
<1>2. ASSUME NEW c \in Conn, ThreadStep(c)
      PROVE  UseInv'
  <2>1. CASE Greet(c)
    BY <2>1, <1>t, <1>e, UseInvMove DEF Greet, Using
  <2>2. CASE ReuseStage(c)
    BY <2>2, <1>t, <1>u, UseInvMove DEF ReuseStage, Goto, Using, LeaseTypes
  <2>3. CASE UnloadStage(c)
    BY <2>3, <1>t, <1>u, UseInvMove DEF UnloadStage, Goto, Using, LeaseTypes
  <2>4. CASE Leave(c)
    BY <2>4, <1>t, <1>u, UseInvMove DEF Leave, Goto, Using
  <2>5. CASE StartServing(c)
    <3>1. InUse' => InUse /\ lease'.route = lease.route
      BY <2>5, <1>t, ServingType DEF StartServing, InUse, LeaseTypes
    <3>2. PICK to \in {"serving", "ending"} : phase' = [phase EXCEPT ![c] = to]
      BY <2>5 DEF StartServing
    <3>3. Using(c)' \/ to = "ending"
      BY <3>2, <1>t DEF Using, LeaseTypes
    <3>4. QED
      BY <2>5, <3>1, <3>2, <3>3, <1>t, UseInvMove DEF StartServing
  <2>6. CASE GiveBack(c)
    <3> SUFFICES ASSUME InUse', NEW d \in Conn, held'[d] = lease'.route
                 PROVE  Using(d)' \/ phase'[d] = "ending"
      BY DEF UseInv
    <3>1. lease' = lease
      BY <2>6, <1>t, ReleaseType DEF GiveBack, InUse, Available, LeaseTypes
    <3>2. held'[d] # NoRoute
      BY <3>1, LeaseConstants DEF InUse, LeaseInv, LeaseShape
    <3>3. d # c /\ held'[d] = held[d]
      BY <2>6, <3>2, <1>t DEF GiveBack, LeaseTypes
    <3>4. Using(d) \/ phase[d] = "ending"
      BY <3>1, <3>3 DEF UseInv, InUse
    <3>5. QED
      BY <2>6, <3>3, <3>4, <1>t DEF GiveBack, Goto, Using, LeaseTypes
  <2>7. QED
    BY <1>2, <2>1, <2>2, <2>3, <2>4, <2>5, <2>6 DEF ThreadStep
<1>3. ASSUME NEW c \in Conn, DownloadEnds(c)
      PROVE  UseInv'
  <2>1. CASE LoadStage(c)
    BY <2>1, <1>t, <1>u, UseInvMove DEF LoadStage, Goto, Using, LeaseTypes
  <2>2. CASE LoadFails(c)
    BY <2>2, <1>t, <1>u, UseInvMove DEF LoadFails, Goto
  <2>3. QED
    BY <1>3, <2>1, <2>2 DEF DownloadEnds
<1>4. ASSUME NEW c \in Conn, ClientStep(c)
      PROVE  UseInv'
  <2>1. CASE Accept(c)
    BY <2>1, <1>t, <1>u, UseInvMove DEF Accept, Goto, Using
  <2>2. ASSUME NEW p \in Peer, ReadPeer(c, p)
        PROVE  UseInv'
    BY <2>2, <1>t, <1>u, UseInvMove DEF ReadPeer, Goto, Using
  <2>3. CASE RejectPeer(c)
    BY <2>3, <1>t, <1>u, UseInvMove DEF RejectPeer, Goto, Using
  <2>4. ASSUME NEW r \in Route, NEW s \in Stage, NEW ms \in 0..MaxLease,
               ReserveGranted(c, r, s, ms)
        PROVE  UseInv'
    BY <2>4 DEF ReserveGranted, Reserve, UseInv, InUse
  <2>5. ASSUME NEW ms \in 0..MaxLease, ReserveBusy(c, ms)
        PROVE  UseInv'
    BY <2>5, <1>e, UseInvQuiet DEF ReserveBusy
  <2>6. CASE ReleaseRoute(c)
    <3> SUFFICES ASSUME InUse', NEW d \in Conn, held'[d] = lease'.route
                 PROVE  Using(d)' \/ phase'[d] = "ending"
      BY DEF UseInv
    <3>1. lease' = lease
      BY <2>6, <1>t, ReleaseType DEF ReleaseRoute, InUse, Available, LeaseTypes
    <3>2. held'[d] # NoRoute
      BY <3>1, LeaseConstants DEF InUse, LeaseInv, LeaseShape
    <3>3. held'[d] = held[d]
      BY <2>6, <3>2, <1>t DEF ReleaseRoute, LeaseTypes
    <3>4. Using(d) \/ phase[d] = "ending"
      BY <3>1, <3>3 DEF UseInv, InUse
    <3>5. QED
      BY <2>6, <3>4 DEF ReleaseRoute, Using
  <2>7. ASSUME NEW s \in Stage, AssignStage(c, s)
        PROVE  UseInv'
    <3> SUFFICES ASSUME NEW d \in Conn, held'[d] = lease'.route
                 PROVE  Using(d)'
      BY DEF UseInv
    <3>1. lease'.route = held[c] /\ held[c] # NoRoute /\ UNCHANGED held
      BY <2>7 DEF AssignStage, CanBeginLoading, BeginLoading
    <3>2. d = c
      BY <3>1 DEF LeaseInv, HeldUnique
    <3>3. QED
      BY <2>7, <3>2, <1>t DEF AssignStage, Goto, Using, LeaseTypes
  <2>8. ASSUME NEW r \in Route, NEW s \in Stage, AssignRefused(c, r, s)
        PROVE  UseInv'
    <3>1. /\ phase' = [phase EXCEPT ![c] = "ending"] /\ UNCHANGED held
          /\ lease' = lease \/ lease' = Expire(lease)
      BY <2>8 DEF AssignRefused, Goto
    <3>2. QED
      BY <3>1, <1>t, <1>u, <1>e, UseInvMove
  <2>9. CASE LeaveLoop(c) \/ ServeControlEnds(c)
    BY <2>9, <1>t, <1>u, UseInvMove DEF LeaveLoop, ServeControlEnds, Goto
  <2>10. QED
    BY <1>4, <2>1, <2>2, <2>3, <2>4, <2>5, <2>6, <2>7, <2>8, <2>9 DEF ClientStep
<1>5. CASE Tick
  <2>1. InUse' => InUse /\ lease'.route = lease.route
    BY <1>5, <1>t, ElapseType DEF Tick, InUse, LeaseTypes
  <2>2. QED
    BY <1>5, <2>1, UseInvQuiet DEF Tick
<1>6. CASE StatusJson
  BY <1>6, <1>e, UseInvQuiet DEF StatusJson
<1>7. QED
  BY <1>1, <1>2, <1>3, <1>4, <1>5, <1>6 DEF Next

\* Only the two releases take the route out of a lease in use.
LEMMA RouteChange ==
    ASSUME LeaseInv, [Next]_vars, InUse, lease'.route # lease.route
    PROVE  \E c \in Conn : /\ ReleaseRoute(c) \/ GiveBack(c)
                           /\ held[c] = lease.route
<1>t. lease \in Leases
  BY DEF LeaseInv, LeaseTypes
<1>e. lease' # Expire(lease) /\ lease' # lease
  BY DEF InUse, Expire
<1>1. lease' # Elapse(lease)
  BY <1>t, ElapseType
<1>2. ASSUME NEW r PROVE lease' # Serving(lease, r)
  BY <1>t, ServingType
<1>3. lease' # BeginLoading(lease)
  BY <1>t, BeginLoadingType
<1>4. \A ms \in 0..MaxLease : ~CanReserve(lease, ms)
  BY DEF CanReserve, InUse, Expire
<1>5. PICK c \in Conn : ReleaseRoute(c) \/ GiveBack(c)
  BY <1>e, <1>1, <1>2, <1>3, <1>4
  DEF Next, vars, ThreadStep, DownloadEnds, ClientStep, Greet, ReuseStage, UnloadStage,
      StartServing, Leave, LoadStage, LoadFails, Accept, ReadPeer, RejectPeer,
      ReserveGranted, ReserveBusy, AssignStage, AssignRefused, LeaveLoop,
      ServeControlEnds, Tick, StatusJson
<1>6. held[c] = lease.route
  BY <1>5, <1>t, <1>e, ReleaseType DEF ReleaseRoute, GiveBack
<1>7. QED
  BY <1>5, <1>6

\* No expiry, reservation, release or close by anyone else takes the lease of
\* a route that loads or serves.
THEOREM NeverTakenAwayHolds == Spec => NeverTakenAway
<1>1. Init => UseInv
  BY DEF Init, UseInv, InUse, Available
<1>2. ASSUME LeaseInv, UseInv, [Next]_vars,
             NEW c \in Conn, lease.state \in {"loading", "serving"},
             lease.route = held[c], lease'.route # lease.route
      PROVE  phase[c] = "ending"
  <2>1. PICK d \in Conn : (ReleaseRoute(d) \/ GiveBack(d)) /\ held[d] = lease.route
    BY <1>2, RouteChange DEF InUse
  <2>2. d = c
    <3>1. held[c] # NoRoute
      BY <1>2, LeaseConstants DEF LeaseInv, LeaseShape
    <3>2. QED
      BY <1>2, <2>1, <3>1 DEF LeaseInv, HeldUnique
  <2>3. Using(c) \/ phase[c] = "ending"
    BY <1>2 DEF UseInv, InUse
  <2>4. QED
    BY <2>1, <2>2, <2>3 DEF ReleaseRoute, GiveBack, Goto, Using
<1>3. LeaseInv /\ UseInv /\ [Next]_vars =>
        [ \A c \in Conn :
            /\ lease.state \in {"loading", "serving"}
            /\ lease.route = held[c]
            /\ lease'.route # lease.route
            => phase[c] = "ending" ]_vars
  BY <1>2
<1>4. QED
  BY <1>1, <1>3, LeaseInvariance, UseInvStep, PTL DEF Spec, NeverTakenAway

-----------------------------------------------------------------------------
(***************************************************************************)
(* The connection counters                                                 *)
(***************************************************************************)
Open == {c \in Conn : phase[c] # "closed"}
Slots(p) == {c \in Conn : peer[c] = p}

CountInv ==
    /\ phase \in [Conn -> Phases]
    /\ peer \in [Conn -> Peer \cup {NoPeer}]
    /\ peerConnections \in [Peer -> Nat]
    /\ \A c \in Conn : peer[c] = NoPeer <=> phase[c] \in {"closed", "header"}
    /\ connections = Cardinality(Open)
    /\ connections <= MaxConn
    /\ \A p \in Peer : /\ peerConnections[p] = Cardinality(Slots(p))
                       /\ peerConnections[p] <= MaxPerPeer

LEMMA FiniteSubsets ==
    /\ IsFiniteSet(Open) /\ Cardinality(Open) \in Nat
    /\ \A p : IsFiniteSet(Slots(p)) /\ Cardinality(Slots(p)) \in Nat
<1>1. IsFiniteSet(Conn) /\ Open \subseteq Conn /\ \A p : Slots(p) \subseteq Conn
  BY WorkerConstants DEF Open, Slots
<1>2. QED
  BY <1>1, FS_Subset, FS_CardinalityType

\* A step that changes no counter, opens or closes no thread and names no peer.
LEMMA CountInvMove ==
    ASSUME CountInv, NEW c \in Conn, NEW to \in Phases \ {"closed", "header"},
           phase[c] \notin {"closed", "header"},
           phase' = [phase EXCEPT ![c] = to],
           UNCHANGED <<peer, connections, peerConnections>>
    PROVE  CountInv'
<1>1. Open' = Open /\ \A p : Slots(p)' = Slots(p)
  BY DEF CountInv, Open, Slots
<1>2. QED
  BY <1>1 DEF CountInv

LEMMA CountInvQuiet ==
    ASSUME CountInv, UNCHANGED <<phase, peer, connections, peerConnections>>
    PROVE  CountInv'
  BY DEF CountInv, Open, Slots

LEMMA CountInvAccept ==
    ASSUME CountInv, NEW c \in Conn, Accept(c)
    PROVE  CountInv'
<1>1. Open' = Open \cup {c} /\ c \notin Open
  BY DEF CountInv, Accept, Goto, Open
<1>2. Cardinality(Open') = Cardinality(Open) + 1
  BY <1>1, FiniteSubsets, FS_AddElement
<1>3. connections' = Cardinality(Open') /\ connections' <= MaxConn
  BY <1>2, FiniteSubsets, WorkerConstants DEF CountInv, Accept
<1>4. \A p : Slots(p)' = Slots(p)
  BY DEF Accept, Slots
<1>5. QED
  BY <1>3, <1>4 DEF CountInv, Accept, Goto, Phases

LEMMA CountInvReadPeer ==
    ASSUME CountInv, NEW c \in Conn, NEW p \in Peer, ReadPeer(c, p)
    PROVE  CountInv'
<1>1. Open' = Open
  BY DEF CountInv, ReadPeer, Goto, Open
<1>2. peer[c] = NoPeer /\ p # NoPeer
  BY WorkerConstants DEF CountInv, ReadPeer, Goto
<1>3. Slots(p)' = Slots(p) \cup {c} /\ c \notin Slots(p)
  BY <1>2 DEF CountInv, ReadPeer, Slots
<1>4. Cardinality(Slots(p)') = Cardinality(Slots(p)) + 1
  BY <1>3, FiniteSubsets, FS_AddElement
<1>5. \A q \in Peer \ {p} : Slots(q)' = Slots(q)
  BY <1>2, WorkerConstants DEF CountInv, ReadPeer, Slots
<1>6. /\ peerConnections'[p] = Cardinality(Slots(p)')
      /\ peerConnections'[p] <= MaxPerPeer
  BY <1>4, WorkerConstants DEF CountInv, ReadPeer
<1>7. \A q \in Peer : /\ peerConnections'[q] = Cardinality(Slots(q)')
                      /\ peerConnections'[q] <= MaxPerPeer
  BY <1>5, <1>6 DEF CountInv, ReadPeer
<1>8. /\ phase' \in [Conn -> Phases] /\ peer' \in [Conn -> Peer \cup {NoPeer}]
      /\ peerConnections' \in [Peer -> Nat] /\ UNCHANGED connections
      /\ \A d \in Conn : peer'[d] = NoPeer <=> phase'[d] \in {"closed", "header"}
  BY <1>2 DEF CountInv, ReadPeer, Goto, Phases
<1>9. QED
  BY <1>1, <1>7, <1>8 DEF CountInv

\* A thread that ends leaves the set of open connections.
LEMMA OneLessOpen ==
    ASSUME CountInv, NEW c \in Conn, phase[c] # "closed",
           phase' = [phase EXCEPT ![c] = "closed"], connections' = connections - 1
    PROVE  connections' = Cardinality(Open') /\ connections' <= MaxConn
<1>1. Open' = Open \ {c} /\ c \in Open
  BY DEF CountInv, Open
<1>2. Cardinality(Open') = Cardinality(Open) - 1
  BY <1>1, FiniteSubsets, FS_RemoveElement
<1>3. QED
  BY <1>2, FiniteSubsets, WorkerConstants DEF CountInv

LEMMA CountInvReject ==
    ASSUME CountInv, NEW c \in Conn, RejectPeer(c)
    PROVE  CountInv'
<1>1. /\ phase[c] = "header" /\ phase' = [phase EXCEPT ![c] = "closed"]
      /\ connections' = connections - 1 /\ UNCHANGED <<peer, peerConnections>>
  BY DEF RejectPeer, Goto
<1>2. connections' = Cardinality(Open') /\ connections' <= MaxConn
  BY <1>1, OneLessOpen
<1>3. \A p : Slots(p)' = Slots(p)
  BY <1>1 DEF Slots
<1>4. QED
  BY <1>1, <1>2, <1>3 DEF CountInv, Phases

LEMMA CountInvLeave ==
    ASSUME CountInv, NEW c \in Conn, Leave(c)
    PROVE  CountInv'
<1>1. /\ phase[c] = "leaving" /\ phase' = [phase EXCEPT ![c] = "closed"]
      /\ connections' = connections - 1 /\ peer' = [peer EXCEPT ![c] = NoPeer]
      /\ peerConnections' = [peerConnections EXCEPT ![peer[c]] = @ - 1]
  BY DEF Leave, Goto
<1>2. connections' = Cardinality(Open') /\ connections' <= MaxConn
  BY <1>1, OneLessOpen
<1>3. PICK p \in Peer : peer[c] = p
  BY <1>1 DEF CountInv
<1>4. p # NoPeer
  BY WorkerConstants
<1>5. Slots(p)' = Slots(p) \ {c} /\ c \in Slots(p)
  BY <1>1, <1>3, <1>4 DEF CountInv, Slots
<1>6. Cardinality(Slots(p)') = Cardinality(Slots(p)) - 1
  BY <1>5, FiniteSubsets, FS_RemoveElement
<1>7. \A q \in Peer \ {p} : Slots(q)' = Slots(q)
  BY <1>1, <1>3, WorkerConstants DEF CountInv, Slots
<1>8. peerConnections'[p] = Cardinality(Slots(p)') /\ peerConnections'[p] \in Nat
  <2>1. peerConnections'[p] = peerConnections[p] - 1
    BY <1>1, <1>3 DEF CountInv
  <2>2. IsFiniteSet(Slots(p)')
    BY <1>5, FiniteSubsets, FS_RemoveElement
  <2>3. Cardinality(Slots(p)') \in Nat
    BY <2>2, FS_CardinalityType
  <2>4. QED
    BY <1>6, <2>1, <2>3 DEF CountInv
<1>9. peerConnections'[p] <= MaxPerPeer
  BY <1>1, <1>3, WorkerConstants DEF CountInv
<1>10. \A q \in Peer : /\ peerConnections'[q] = Cardinality(Slots(q)')
                       /\ peerConnections'[q] <= MaxPerPeer
  BY <1>1, <1>3, <1>7, <1>8, <1>9 DEF CountInv
<1>11. peerConnections' \in [Peer -> Nat]
  BY <1>1, <1>3, <1>8 DEF CountInv
<1>12. /\ phase' \in [Conn -> Phases] /\ peer' \in [Conn -> Peer \cup {NoPeer}]
       /\ \A d \in Conn : peer'[d] = NoPeer <=> phase'[d] \in {"closed", "header"}
  BY <1>1 DEF CountInv, Phases
<1>13. QED
  BY <1>2, <1>10, <1>11, <1>12 DEF CountInv

LEMMA CountInvInit == Init => CountInv
<1> SUFFICES ASSUME Init PROVE CountInv
  OBVIOUS
<1>1. Open = {} /\ \A p \in Peer : Slots(p) = {}
  BY WorkerConstants DEF Init, Open, Slots
<1>2. Cardinality({}) = 0
  BY FS_EmptySet
<1>3. QED
  BY <1>1, <1>2, WorkerConstants DEF Init, CountInv, Phases

LEMMA CountInvStep == CountInv /\ [Next]_vars => CountInv'
<1> SUFFICES ASSUME CountInv, [Next]_vars
             PROVE  CountInv'
  OBVIOUS
<1>m. ASSUME NEW c \in Conn, NEW to \in Phases \ {"closed", "header"},
             phase[c] \in Phases \ {"closed", "header"},
             phase' = [phase EXCEPT ![c] = to],
             UNCHANGED <<peer, connections, peerConnections>>
      PROVE  CountInv'
  BY <1>m, CountInvMove
<1>1. CASE UNCHANGED vars
  BY <1>1, CountInvQuiet DEF vars
<1>2. ASSUME NEW c \in Conn, ThreadStep(c)
      PROVE  CountInv'
  <2>1. CASE Greet(c)
    BY <2>1, <1>m DEF Greet, Phases
  <2>2. CASE ReuseStage(c)
    BY <2>2, <1>m DEF ReuseStage, Goto, Phases
  <2>3. CASE UnloadStage(c)
    BY <2>3, <1>m DEF UnloadStage, Goto, Phases
  <2>4. CASE StartServing(c)
    BY <2>4, <1>m DEF StartServing, Phases
  <2>5. CASE GiveBack(c)
    BY <2>5, <1>m DEF GiveBack, Goto, Phases
  <2>6. CASE Leave(c)
    BY <2>6, CountInvLeave
  <2>7. QED
    BY <1>2, <2>1, <2>2, <2>3, <2>4, <2>5, <2>6 DEF ThreadStep
<1>3. ASSUME NEW c \in Conn, DownloadEnds(c)
      PROVE  CountInv'
  BY <1>3, <1>m DEF DownloadEnds, LoadStage, LoadFails, Goto, Phases
<1>4. ASSUME NEW c \in Conn, ClientStep(c)
      PROVE  CountInv'
  <2>1. CASE Accept(c)
    BY <2>1, CountInvAccept
  <2>2. ASSUME NEW p \in Peer, ReadPeer(c, p)
        PROVE  CountInv'
    BY <2>2, CountInvReadPeer
  <2>3. CASE RejectPeer(c)
    BY <2>3, CountInvReject
  <2>4. ASSUME NEW r \in Route, NEW s \in Stage, NEW ms \in 0..MaxLease,
               ReserveGranted(c, r, s, ms)
        PROVE  CountInv'
    BY <2>4, CountInvQuiet DEF ReserveGranted
  <2>5. ASSUME NEW ms \in 0..MaxLease, ReserveBusy(c, ms)
        PROVE  CountInv'
    BY <2>5, CountInvQuiet DEF ReserveBusy
  <2>6. CASE ReleaseRoute(c)
    BY <2>6, CountInvQuiet DEF ReleaseRoute
  <2>7. ASSUME NEW s \in Stage, AssignStage(c, s)
        PROVE  CountInv'
    BY <2>7, <1>m DEF AssignStage, Goto, Phases
  <2>8. ASSUME NEW r \in Route, NEW s \in Stage, AssignRefused(c, r, s)
        PROVE  CountInv'
    BY <2>8, <1>m DEF AssignRefused, Goto, Phases
  <2>9. CASE LeaveLoop(c) \/ ServeControlEnds(c)
    BY <2>9, <1>m DEF LeaveLoop, ServeControlEnds, Goto, Phases
  <2>10. QED
    BY <1>4, <2>1, <2>2, <2>3, <2>4, <2>5, <2>6, <2>7, <2>8, <2>9 DEF ClientStep
<1>5. CASE Tick \/ StatusJson
  BY <1>5, CountInvQuiet DEF Tick, StatusJson
<1>6. QED
  BY <1>1, <1>2, <1>3, <1>4, <1>5 DEF Next

\* connections and peer_connections are exact and within their limits on every
\* path through serve_connection.
THEOREM CountersExactHolds == Spec => []CountersExact
<1>1. CountInv => CountersExact
  BY DEF CountInv, CountersExact, Open, Slots
<1>2. QED
  BY <1>1, CountInvInit, CountInvStep, PTL DEF Spec

\* Type correctness: in particular no counter goes below zero.
THEOREM TypeOKHolds == Spec => []TypeOK
<1>1. LeaseInv /\ CountInv => TypeOK
  BY FiniteSubsets DEF LeaseInv, LeaseTypes, CountInv, TypeOK
<1>2. QED
  BY <1>1, LeaseInvariance, CountInvInit, CountInvStep, PTL DEF Spec

-----------------------------------------------------------------------------
(***************************************************************************)
(* RingWorker: the inductive invariant, in named parts.                    *)
(***************************************************************************)
\* A route is open from Admit until its control connection ends, and in use
\* from bind_route until then.
RouteOpen == ctl \in {"serve", "connect", "create"}
RouteInUse == ctl = "serve" /\ bound

\* Where serve_control stands: the generation counts the routes released.
ControlPlace ==
    /\ ctl # "idle" => cur \in Routes
    /\ gen = IF ctl \in {"close2", "close3", "close4", "idle"} THEN cur ELSE cur - 1
    /\ ctl = "create" => bound
    /\ ctl \in {"idle", "connect"} => ~bound

\* What release_route and ring.disconnected() have cleared by each point.
Kept ==
    /\ next = IF bound /\ ctl \in {"create", "serve", "close1"} THEN cur ELSE 0
    /\ target = IF bound /\ ctl \in {"create", "serve", "close1", "close2", "close3"}
                THEN cur ELSE 0
    /\ ctl = "idle" \/ (ctl = "serve" /\ ~bound) => expected = NoPredecessor
    /\ sessions \subseteq {cur} /\ (sessions # {} => RouteInUse)
    /\ streams \subseteq {cur}
    /\ streams # {} => bound /\ ctl \in {"serve", "close1", "close2", "close3"}

\* Which clients have left.
Departed ==
    /\ \A k \in Routes : k < cur => k \in left
    /\ \A k \in left : k <= cur
    /\ RouteOpen => cur \notin left
    /\ ~RouteOpen /\ cur # 0 => cur \in left

\* The connection the ring thread reads is the one that is up; an end that
\* closed has a reason.
Connected ==
    /\ rt # "accept" => pred \in Routes /\ link[pred] \in {"up", "closed"}
    /\ \A k \in Routes : link[k] \in {"up", "closed"} => rt # "accept" /\ pred = k
    /\ \A k \in Routes : link[k] = "closed" => k \in left \cup hurt
    /\ rt \in {"dial", "store", "token"} => reg \in Routes

\* A connection of route k may be published: the route is not yet released, or a
\* thread was past its check when it was.
Publishable(k) == k \in caught \/ (k = cur /\ ctl \notin {"close3", "close4", "idle"})

\* Who holds what it may publish, and whose connections are there.
UnderWay ==
    /\ \A k \in Routes : dial[k] # "none" => k <= cur /\ dgen[k] = k - 1
    /\ \A k \in Routes : dial[k] = "current" => Publishable(k)
    /\ rt \in {"dial", "store"} => Publishable(reg)
    /\ rt \in {"loop", "wait"} /\ ctl = "close3" => cur \in caught
    /\ \A k \in Routes : link[k] # "none" => k = cur \/ k \in outlived

RingInv ==
    /\ RingTypeOK
    /\ ControlPlace
    /\ Kept
    /\ Departed
    /\ Connected
    /\ UnderWay
    /\ RouteKept
    /\ DeliveredOwn

-----------------------------------------------------------------------------
(***************************************************************************)
(* RingInv is inductive: one lemma per thread, one step per action         *)
(***************************************************************************)
LEMMA RingInvInit == RingInit => RingInv
<1> SUFFICES ASSUME RingInit PROVE RingInv
  OBVIOUS
<1> USE RingConstants DEF RingInit, Routes, Socket
<1>1. RingTypeOK
  <2>1. inflight \in [Routes -> BOOLEAN] /\ expected \in {Prev[k] : k \in Routes} \cup {NoPredecessor}
    OBVIOUS
  <2>2. delivered \subseteq Routes \X Routes
    OBVIOUS
  <2>3. dial \in [Routes -> {"none", "dialing", "have", "current", "clear", "done"}]
    OBVIOUS
  <2>4. link \in [Routes -> {"none", "backlog", "up", "closed"}] /\ dgen \in [Routes -> 0..MaxRoutes]
    OBVIOUS
  <2>5. cur \in Socket /\ gen \in 0..MaxRoutes /\ next \in Socket /\ loop \in Socket
        /\ target \in Socket /\ pred \in Socket /\ reg \in Socket
    OBVIOUS
  <2>6. QED
    BY <2>1, <2>2, <2>3, <2>4, <2>5, Zenon DEF RingTypeOK
<1>2. ControlPlace /\ Kept /\ Departed
  BY DEF ControlPlace, Kept, Departed, RouteOpen, RouteInUse
<1>3. Connected /\ UnderWay
  BY DEF Connected, UnderWay
<1>4. RouteKept /\ DeliveredOwn
  BY DEF RouteKept, LoopFresh, SessionSurvives, DeliveredOwn
<1>5. QED
  BY <1>1, <1>2, <1>3, <1>4 DEF RingInv

LEMMA ClientSteps ==
    ASSUME RingInv, Admit \/ StreamPrompt \/ ControlClosed
    PROVE  RingInv'
<1> USE RingConstants DEF RingInv, RingTypeOK, ControlPlace, Kept, Departed, Connected, UnderWay,
        RouteKept, LoopFresh, SessionSurvives, DeliveredOwn, Publishable, RouteOpen, RouteInUse, Routes, Socket,
        ctlVars, ringVars, dialVars, stageVars
<1>1. CASE Admit
  <2>0. cur' \in Routes /\ cur' \in Socket /\ cur' = cur + 1
    BY <1>1 DEF Admit
  <2>1. RingTypeOK'
    <3>1. outlived' \subseteq Routes
      BY <1>1 DEF Admit
    <3>2. /\ ctl' = "serve" /\ bound' = FALSE
          /\ UNCHANGED <<gen, left, caught, ringVars, dialVars, stageVars, next, loop, target,
                         dialing, expected, link, inflight, hurt, robbed, delivered>>
      BY <1>1 DEF Admit
    <3>3. QED
      BY <2>0, <3>1, <3>2, ZenonT(30)
  <2>2. ControlPlace' /\ Kept' /\ Departed'
    <3>1. ControlPlace' /\ Kept'
      BY <1>1, <2>0 DEF Admit
    <3>2. \A k \in Routes : k < cur' => k < cur \/ k = cur
      BY <2>0
    <3>3. Departed'
      <4>1. left' = left /\ RouteOpen' /\ (cur # 0 => cur \in left)
        BY <1>1 DEF Admit
      <4>2. cur' \notin left
        BY <2>0
      <4>3. QED
        BY <2>0, <3>2, <4>1, <4>2
    <3>4. QED
      BY <3>1, <3>3
  <2>3. Connected' /\ UnderWay'
    BY <1>1, SMTT(30) DEF Admit
  <2>4. RouteKept' /\ DeliveredOwn'
    BY <1>1 DEF Admit
  <2>5. QED
    BY <2>1, <2>2, <2>3, <2>4
<1>2. CASE StreamPrompt
  <2>1. RingTypeOK'
    BY <1>2, SMTT(30) DEF StreamPrompt
  <2>2. ControlPlace' /\ Kept' /\ Departed'
    BY <1>2 DEF StreamPrompt
  <2>3. Connected' /\ UnderWay'
    BY <1>2, SMTT(30) DEF StreamPrompt
  <2>4. RouteKept' /\ DeliveredOwn'
    BY <1>2 DEF StreamPrompt
  <2>5. QED
    BY <2>1, <2>2, <2>3, <2>4
<1>3. CASE ControlClosed
  <2>1. RingTypeOK'
    BY <1>3, SMTT(30) DEF ControlClosed, Disconnected
  <2>2. ControlPlace' /\ Kept' /\ Departed'
    BY <1>3 DEF ControlClosed, Disconnected
  <2>3. Connected' /\ UnderWay'
    <3>1. Connected'
      BY <1>3, SMTT(30) DEF ControlClosed, Disconnected
    <3>2. UnderWay'
      BY <1>3, SMTT(30) DEF ControlClosed, Disconnected
    <3>3. QED
      BY <3>1, <3>2
  <2>4. RouteKept' /\ DeliveredOwn'
    BY <1>3 DEF ControlClosed, Disconnected
  <2>5. QED
    BY <2>1, <2>2, <2>3, <2>4
<1>4. QED
  BY <1>1, <1>2, <1>3

LEMMA ControlSteps ==
    ASSUME RingInv, Control
    PROVE  RingInv'
<1> USE RingConstants DEF RingInv, RingTypeOK, ControlPlace, Kept, Departed, Connected, UnderWay,
        RouteKept, LoopFresh, SessionSurvives, DeliveredOwn, Publishable, RouteOpen, RouteInUse, Routes, Socket,
        ctlVars, ringVars, dialVars, stageVars
<1>1. CASE BindRoute
  <2>1. RingTypeOK'
    BY <1>1, SMTT(30) DEF BindRoute
  <2>2. ControlPlace' /\ Kept' /\ Departed'
    BY <1>1 DEF BindRoute
  <2>3. Connected' /\ UnderWay'
    BY <1>1, SMTT(30) DEF BindRoute
  <2>4. RouteKept' /\ DeliveredOwn'
    BY <1>1 DEF BindRoute
  <2>5. QED
    BY <2>1, <2>2, <2>3, <2>4
<1>2. CASE BindConnected
  <2>1. RingTypeOK'
    BY <1>2, SMTT(30) DEF BindConnected
  <2>2. ControlPlace' /\ Kept' /\ Departed'
    BY <1>2 DEF BindConnected
  <2>3. Connected' /\ UnderWay'
    BY <1>2, SMTT(30) DEF BindConnected
  <2>4. RouteKept' /\ DeliveredOwn'
    BY <1>2 DEF BindConnected
  <2>5. QED
    BY <2>1, <2>2, <2>3, <2>4
<1>3. CASE BindFailed
  <2>1. RingTypeOK'
    BY <1>3, SMTT(30) DEF BindFailed, Disconnected
  <2>2. ControlPlace' /\ Kept' /\ Departed'
    BY <1>3 DEF BindFailed, Disconnected
  <2>3. Connected' /\ UnderWay'
    BY <1>3, SMTT(30) DEF BindFailed, Disconnected
  <2>4. RouteKept' /\ DeliveredOwn'
    BY <1>3 DEF BindFailed, Disconnected
  <2>5. QED
    BY <2>1, <2>2, <2>3, <2>4
<1>4. CASE CreateSession
  <2>1. RingTypeOK'
    BY <1>4, SMTT(30) DEF CreateSession
  <2>2. ControlPlace' /\ Kept' /\ Departed'
    BY <1>4 DEF CreateSession
  <2>3. Connected' /\ UnderWay'
    BY <1>4, SMTT(30) DEF CreateSession
  <2>4. RouteKept' /\ DeliveredOwn'
    BY <1>4 DEF CreateSession
  <2>5. QED
    BY <2>1, <2>2, <2>3, <2>4
<1>5. CASE ReleaseNext
  <2>1. RingTypeOK'
    BY <1>5, SMTT(30) DEF ReleaseNext
  <2>2. ControlPlace' /\ Kept' /\ Departed'
    BY <1>5 DEF ReleaseNext
  <2>3. Connected' /\ UnderWay'
    BY <1>5, SMTT(30) DEF ReleaseNext
  <2>4. RouteKept' /\ DeliveredOwn'
    BY <1>5 DEF ReleaseNext
  <2>5. QED
    BY <2>1, <2>2, <2>3, <2>4
<1>6. CASE ReleaseLoop
  <2>1. RingTypeOK'
    BY <1>6, SMTT(30) DEF ReleaseLoop, PastCheck
  <2>2. ControlPlace' /\ Kept' /\ Departed'
    BY <1>6 DEF ReleaseLoop, PastCheck
  <2>3. Connected' /\ UnderWay'
    BY <1>6, SMTT(30) DEF ReleaseLoop, PastCheck
  <2>4. RouteKept' /\ DeliveredOwn'
    BY <1>6 DEF ReleaseLoop, PastCheck
  <2>5. QED
    BY <2>1, <2>2, <2>3, <2>4
<1>7. CASE ReleaseStreams
  <2>1. RingTypeOK'
    BY <1>7, SMTT(30) DEF ReleaseStreams
  <2>2. ControlPlace' /\ Kept' /\ Departed'
    BY <1>7 DEF ReleaseStreams
  <2>3. Connected' /\ UnderWay'
    BY <1>7, SMTT(30) DEF ReleaseStreams
  <2>4. RouteKept' /\ DeliveredOwn'
    BY <1>7 DEF ReleaseStreams
  <2>5. QED
    BY <2>1, <2>2, <2>3, <2>4
<1>8. CASE ReleaseExpected
  <2>1. RingTypeOK'
    BY <1>8, ZenonT(30) DEF ReleaseExpected
  <2>2. ControlPlace' /\ Kept' /\ Departed'
    BY <1>8 DEF ReleaseExpected
  <2>3. Connected' /\ UnderWay'
    BY <1>8, SMTT(30) DEF ReleaseExpected
  <2>4. RouteKept' /\ DeliveredOwn'
    BY <1>8 DEF ReleaseExpected
  <2>5. QED
    BY <2>1, <2>2, <2>3, <2>4
<1>9. QED
  BY <1>1, <1>2, <1>3, <1>4, <1>5, <1>6, <1>7, <1>8 DEF Control

\* What a dialing thread, a send or a peer changes keeps its type.
LEMMA TypeKept ==
    ASSUME RingTypeOK, UNCHANGED <<ctlVars, pred, reg, dgen, stageVars, next, target, expected, robbed>>,
           dial' \in [Routes -> {"none", "dialing", "have", "current", "clear", "done"}],
           loop' \in Socket, dialing' \in BOOLEAN,
           link' \in [Routes -> {"none", "backlog", "up", "closed"}],
           inflight' \in [Routes -> BOOLEAN], hurt' \subseteq Routes,
           rt' \in {"accept", "recv", "computed", "send", "loop", "wait", "dial", "store", "token"},
           out' \in {"none", "chunk", "final", "result", "error"},
           delivered' \subseteq Routes \X Routes
    PROVE  RingTypeOK'
  BY DEF RingTypeOK, ctlVars, stageVars

LEMMA DialTypes ==
    ASSUME RingTypeOK, NEW k \in Routes, Dialer(k)
    PROVE  RingTypeOK'
<1>1. dial' \in [Routes -> {"none", "dialing", "have", "current", "clear", "done"}]
  BY DEF Dialer, DialAnswered, DialGivesUp, DialChecks, DialPublishes, DialClears, DialStep, RingTypeOK
<1>2. dialing' \in BOOLEAN
  BY Zenon DEF Dialer, DialAnswered, DialGivesUp, DialChecks, DialPublishes, DialClears, RingTypeOK
<1>3. loop' \in Socket
  <2>1. k \in Socket
    BY RingConstants DEF Routes, Socket
  <2>2. loop' \in {loop, k}
    BY DEF Dialer, DialAnswered, DialGivesUp, DialChecks, DialPublishes, DialClears
  <2>3. QED
    BY <2>1, <2>2 DEF RingTypeOK
<1>4. UNCHANGED <<ctlVars, ringVars, dgen, stageVars, next, target, expected, link, inflight, hurt,
                  robbed, delivered>>
  BY DEF Dialer, DialAnswered, DialGivesUp, DialChecks, DialPublishes, DialClears, DialStep
<1>5. /\ link \in [Routes -> {"none", "backlog", "up", "closed"}]
      /\ inflight \in [Routes -> BOOLEAN] /\ hurt \subseteq Routes
      /\ rt \in {"accept", "recv", "computed", "send", "loop", "wait", "dial", "store", "token"}
      /\ out \in {"none", "chunk", "final", "result", "error"}
      /\ delivered \subseteq Routes \X Routes
  BY DEF RingTypeOK
<1>6. QED
  BY <1>1, <1>2, <1>3, <1>4, <1>5, TypeKept DEF ringVars

LEMMA PeerTypes ==
    ASSUME RingTypeOK, NEW k \in Routes, PeerDials(k) \/ PeerCloses(k) \/ PeerFails(k)
    PROVE  RingTypeOK'
<1>1. link' \in [Routes -> {"none", "backlog", "up", "closed"}] /\ hurt' \subseteq Routes
  BY DEF PeerDials, PeerCloses, PeerFails, RingTypeOK
<1>2. UNCHANGED <<ctlVars, ringVars, dialVars, stageVars, next, loop, target, dialing, expected,
                  inflight, robbed, delivered>>
  BY DEF PeerDials, PeerCloses, PeerFails
<1>3. /\ dial \in [Routes -> {"none", "dialing", "have", "current", "clear", "done"}]
      /\ inflight \in [Routes -> BOOLEAN] /\ loop \in Socket /\ dialing \in BOOLEAN
      /\ rt \in {"accept", "recv", "computed", "send", "loop", "wait", "dial", "store", "token"}
      /\ out \in {"none", "chunk", "final", "result", "error"}
      /\ delivered \subseteq Routes \X Routes
  BY DEF RingTypeOK
<1>4. QED
  BY <1>1, <1>2, <1>3, TypeKept DEF ringVars, dialVars

LEMMA SendTypes ==
    ASSUME RingTypeOK, pred \in Routes, SendNext
    PROVE  RingTypeOK'
<1>1. /\ rt' \in {"loop", "recv"} /\ out' = "none" /\ next # 0
      /\ delivered' = delivered \cup {<<pred, next>>}
      /\ UNCHANGED <<ctlVars, pred, reg, dialVars, stageVars, next, loop, target, dialing, expected,
                     link, inflight, hurt, robbed>>
  BY DEF SendNext
<1>2. next \in Routes
  BY <1>1, RingConstants DEF RingTypeOK, Routes, Socket
<1>3. delivered' \subseteq Routes \X Routes
  BY <1>1, <1>2 DEF RingTypeOK
<1>4. /\ dial \in [Routes -> {"none", "dialing", "have", "current", "clear", "done"}]
      /\ inflight \in [Routes -> BOOLEAN] /\ loop \in Socket /\ dialing \in BOOLEAN
      /\ link \in [Routes -> {"none", "backlog", "up", "closed"}] /\ hurt \subseteq Routes
  BY DEF RingTypeOK
<1>5. QED
  BY <1>1, <1>3, <1>4, TypeKept DEF dialVars

LEMMA DialerSteps ==
    ASSUME RingInv, NEW k \in Routes, Dialer(k)
    PROVE  RingInv'
<1>0. RingTypeOK'
  BY DialTypes, SMTT(30) DEF RingInv
<1> USE RingConstants DEF RingInv, RingTypeOK, ControlPlace, Kept, Departed, Connected, UnderWay,
        RouteKept, LoopFresh, SessionSurvives, DeliveredOwn, Publishable, RouteOpen, RouteInUse, Routes, Socket,
        ctlVars, ringVars, dialVars, stageVars
<1>1. CASE DialAnswered(k)
  <2>2. ControlPlace' /\ Kept' /\ Departed'
    BY <1>1 DEF DialAnswered, DialStep
  <2>3. Connected' /\ UnderWay'
    BY <1>1, SMTT(30) DEF DialAnswered, DialStep
  <2>4. RouteKept' /\ DeliveredOwn'
    BY <1>1 DEF DialAnswered, DialStep
  <2>5. QED
    BY <1>0, <2>2, <2>3, <2>4
<1>2. CASE DialGivesUp(k)
  <2>2. ControlPlace' /\ Kept' /\ Departed'
    BY <1>2 DEF DialGivesUp, DialStep
  <2>3. Connected' /\ UnderWay'
    BY <1>2, SMTT(30) DEF DialGivesUp, DialStep
  <2>4. RouteKept' /\ DeliveredOwn'
    BY <1>2 DEF DialGivesUp, DialStep
  <2>5. QED
    BY <1>0, <2>2, <2>3, <2>4
<1>3. CASE DialChecks(k)
  <2>0. \E to \in {"current", "clear"} :
            /\ dial[k] = "have" /\ dial' = [dial EXCEPT ![k] = to]
            /\ to = "current" => gen = dgen[k]
    BY <1>3 DEF DialChecks, DialStep
  <2>a. UNCHANGED <<ctlVars, ringVars, dgen, stageVars, next, loop, target, dialing, expected,
                    link, inflight, hurt, robbed, delivered>>
    BY <1>3 DEF DialChecks, DialStep
  <2>2. ControlPlace' /\ Kept' /\ Departed'
    BY <2>a
  <2>3. Connected' /\ UnderWay'
    <3>1. PICK to \in {"current", "clear"} :
            /\ dial[k] = "have" /\ dial' = [dial EXCEPT ![k] = to]
            /\ to = "current" => gen = dgen[k]
      BY <2>0
    <3>2. dial'[k] \notin {"none", "done"} /\ \A m \in Routes : m # k => dial'[m] = dial[m]
      BY <3>1
    <3>3. \A m \in Routes : dial'[m] \notin {"none", "done"} => dial[m] \notin {"none", "done"}
      BY <3>1, <3>2
    <3>4. Connected'
      BY <2>a, <3>1, <3>2, <3>3
    <3>5. UnderWay'
      BY <2>a, <3>1, <3>2, <3>3
    <3>6. QED
      BY <3>4, <3>5
  <2>4. RouteKept' /\ DeliveredOwn'
    BY <2>a
  <2>5. QED
    BY <1>0, <2>2, <2>3, <2>4
<1>4. CASE DialPublishes(k)
  <2>2. ControlPlace' /\ Kept' /\ Departed'
    BY <1>4 DEF DialPublishes, DialStep
  <2>3. Connected' /\ UnderWay'
    BY <1>4, SMTT(30) DEF DialPublishes, DialStep
  <2>4. RouteKept' /\ DeliveredOwn'
    BY <1>4 DEF DialPublishes, DialStep
  <2>5. QED
    BY <1>0, <2>2, <2>3, <2>4
<1>5. CASE DialClears(k)
  <2>2. ControlPlace' /\ Kept' /\ Departed'
    BY <1>5 DEF DialClears, DialStep
  <2>3. Connected' /\ UnderWay'
    BY <1>5, SMTT(30) DEF DialClears, DialStep
  <2>4. RouteKept' /\ DeliveredOwn'
    BY <1>5 DEF DialClears, DialStep
  <2>5. QED
    BY <1>0, <2>2, <2>3, <2>4
<1>6. QED
  BY <1>1, <1>2, <1>3, <1>4, <1>5 DEF Dialer

LEMMA RingSteps ==
    ASSUME RingInv, Ring
    PROVE  RingInv'
<1> USE RingConstants DEF RingInv, RingTypeOK, ControlPlace, Kept, Departed, Connected, UnderWay,
        RouteKept, LoopFresh, SessionSurvives, DeliveredOwn, Publishable, RouteOpen, RouteInUse, Routes, Socket,
        ctlVars, ringVars, dialVars, stageVars
<1>1. CASE \E k \in Routes : AcceptPredecessor(k)
  <2>1. RingTypeOK'
    <3>1. PICK k \in Routes : AcceptPredecessor(k)
      BY <1>1
    <3>2. /\ link' \in [Routes -> {"none", "backlog", "up", "closed"}]
          /\ pred' \in Socket /\ rt' \in {"accept", "recv"}
      <4>1. link \in [Routes -> {"none", "backlog", "up", "closed"}] /\ k \in Socket
            /\ pred \in Socket /\ rt = "accept"
        BY <3>1 DEF AcceptPredecessor
      <4>2. \/ link' = [link EXCEPT ![k] = "up"] /\ pred' = k /\ rt' = "recv"
            \/ link' = [link EXCEPT ![k] = "none"] /\ pred' = pred /\ rt' = rt
        BY <3>1 DEF AcceptPredecessor
      <4> HIDE DEF RingInv, RingTypeOK, ControlPlace, Kept, Departed, Connected, UnderWay,
            RouteKept, LoopFresh, SessionSurvives, DeliveredOwn, Publishable, RouteOpen, RouteInUse, Routes, Socket
      <4>3. QED
        BY <4>1, <4>2
    <3>3. UNCHANGED <<ctlVars, out, reg, dialVars, stageVars, next, loop, target, dialing,
                      expected, inflight, hurt, robbed, delivered>>
      BY <3>1 DEF AcceptPredecessor
    <3>4. QED
      BY <3>2, <3>3, SMTT(30)
  <2>2. ControlPlace' /\ Kept' /\ Departed'
    BY <1>1 DEF AcceptPredecessor
  <2>0. PICK k \in Routes : AcceptPredecessor(k)
    BY <1>1
  <2>3. Connected' /\ UnderWay'
    <3>1. CASE expected # NoPredecessor /\ Prev[k] = expected
      <4>1. /\ rt = "accept" /\ link[k] = "backlog" /\ rt' = "recv" /\ pred' = k
            /\ link' = [link EXCEPT ![k] = "up"]
        BY <2>0, <3>1 DEF AcceptPredecessor
      <4>2. UNCHANGED <<ctlVars, dialVars, inflight, hurt, reg>>
        BY <2>0 DEF AcceptPredecessor
      <4>3. Connected'
        BY <4>1, <4>2, SMTT(30)
      <4>4. UnderWay'
        BY <4>1, <4>2, SMTT(30)
      <4>5. QED
        BY <4>3, <4>4
    <3>2. CASE ~(expected # NoPredecessor /\ Prev[k] = expected)
      BY <2>0, <3>2, SMTT(30) DEF AcceptPredecessor
    <3>3. QED
      BY <3>1, <3>2
  <2>4. RouteKept' /\ DeliveredOwn'
    BY <1>1 DEF AcceptPredecessor
  <2>5. QED
    BY <2>1, <2>2, <2>3, <2>4
<1>2. CASE ComputeFrame
  <2>1. RingTypeOK'
    BY <1>2, SMTT(30) DEF ComputeFrame
  <2>2. ControlPlace' /\ Kept' /\ Departed'
    BY <1>2 DEF ComputeFrame
  <2>3. Connected' /\ UnderWay'
    BY <1>2, SMTT(30) DEF ComputeFrame
  <2>4. RouteKept' /\ DeliveredOwn'
    BY <1>2 DEF ComputeFrame
  <2>5. QED
    BY <2>1, <2>2, <2>3, <2>4
<1>3. CASE RouteResult
  <2>1. RingTypeOK'
    BY <1>3, ZenonT(30) DEF RouteResult
  <2>2. ControlPlace' /\ Kept' /\ Departed'
    BY <1>3 DEF RouteResult
  <2>3. Connected' /\ UnderWay'
    BY <1>3, SMTT(30) DEF RouteResult
  <2>4. RouteKept' /\ DeliveredOwn'
    BY <1>3 DEF RouteResult
  <2>5. QED
    BY <2>1, <2>2, <2>3, <2>4
<1>4. CASE SendNext
  <2>1. RingTypeOK'
    BY <1>4, SendTypes, ZenonT(30) DEF SendNext
  <2>2. ControlPlace' /\ Kept' /\ Departed'
    BY <1>4 DEF SendNext
  <2>3. Connected' /\ UnderWay'
    BY <1>4, SMTT(30) DEF SendNext
  <2>4. RouteKept' /\ DeliveredOwn'
    BY <1>4 DEF SendNext
  <2>5. QED
    BY <2>1, <2>2, <2>3, <2>4
<1>5. CASE SendNextFails
  <2>0. hurt' \subseteq Routes /\ streams' \subseteq Routes
    BY <1>5 DEF SendNextFails
  <2>1. RingTypeOK'
    BY <1>5, <2>0, SMTT(30) DEF SendNextFails, DropPredecessor, Disconnected
  <2>2. ControlPlace' /\ Kept' /\ Departed'
    BY <1>5 DEF SendNextFails, DropPredecessor, Disconnected
  <2>3. Connected' /\ UnderWay'
    BY <1>5, SMTT(30) DEF SendNextFails, DropPredecessor, Disconnected
  <2>4. RouteKept' /\ DeliveredOwn'
    BY <1>5 DEF SendNextFails, DropPredecessor, Disconnected
  <2>5. QED
    BY <2>1, <2>2, <2>3, <2>4
<1>6. CASE ReadLoop
  <2>1. RingTypeOK'
    BY <1>6, SMTT(30) DEF ReadLoop
  <2>2. ControlPlace' /\ Kept' /\ Departed'
    BY <1>6 DEF ReadLoop
  <2>3. Connected' /\ UnderWay'
    BY <1>6, SMTT(30) DEF ReadLoop
  <2>4. RouteKept' /\ DeliveredOwn'
    BY <1>6 DEF ReadLoop
  <2>5. QED
    BY <2>1, <2>2, <2>3, <2>4
<1>7. CASE ReadDialing
  <2>1. RingTypeOK'
    BY <1>7, SMTT(30) DEF ReadDialing
  <2>2. ControlPlace' /\ Kept' /\ Departed'
    BY <1>7 DEF ReadDialing
  <2>3. Connected' /\ UnderWay'
    BY <1>7, SMTT(30) DEF ReadDialing
  <2>4. RouteKept' /\ DeliveredOwn'
    BY <1>7 DEF ReadDialing
  <2>5. QED
    BY <2>1, <2>2, <2>3, <2>4
<1>8. CASE LoopDialed
  <2>1. RingTypeOK'
    BY <1>8, SMTT(30) DEF LoopDialed
  <2>2. ControlPlace' /\ Kept' /\ Departed'
    BY <1>8 DEF LoopDialed
  <2>3. Connected' /\ UnderWay'
    BY <1>8, SMTT(30) DEF LoopDialed
  <2>4. RouteKept' /\ DeliveredOwn'
    BY <1>8 DEF LoopDialed
  <2>5. QED
    BY <2>1, <2>2, <2>3, <2>4
<1>9. CASE StoreLoop
  <2>1. RingTypeOK'
    BY <1>9, SMTT(30) DEF StoreLoop
  <2>2. ControlPlace' /\ Kept' /\ Departed'
    BY <1>9 DEF StoreLoop
  <2>3. Connected' /\ UnderWay'
    BY <1>9, SMTT(30) DEF StoreLoop
  <2>4. RouteKept' /\ DeliveredOwn'
    BY <1>9 DEF StoreLoop
  <2>5. QED
    BY <2>1, <2>2, <2>3, <2>4
<1>10. CASE SendToken
  <2>1. RingTypeOK'
    <3>1. inflight' \in [Routes -> BOOLEAN] /\ reg' \in Socket /\ rt' = "recv"
      BY <1>10 DEF SendToken
    <3>2. delivered' \subseteq Routes \X Routes
      BY <1>10 DEF SendToken
    <3>3. UNCHANGED <<ctlVars, pred, out, dialVars, stageVars, next, loop, target, dialing,
                      expected, link, hurt, robbed>>
      BY <1>10 DEF SendToken
    <3>4. QED
      BY <3>1, <3>2, <3>3, SMTT(30)
  <2>2. ControlPlace' /\ Kept' /\ Departed'
    BY <1>10 DEF SendToken
  <2>3. Connected' /\ UnderWay'
    BY <1>10, SMTT(30) DEF SendToken
  <2>4. RouteKept' /\ DeliveredOwn'
    BY <1>10 DEF SendToken
  <2>5. QED
    BY <2>1, <2>2, <2>3, <2>4
<1>11. CASE LoopFails
  <2>0. hurt' \subseteq Routes /\ streams' \subseteq Routes
    BY <1>11 DEF LoopFails
  <2>1. RingTypeOK'
    BY <1>11, <2>0, SMTT(30) DEF LoopFails, DropPredecessor, Disconnected
  <2>2. ControlPlace' /\ Kept' /\ Departed'
    BY <1>11 DEF LoopFails, DropPredecessor, Disconnected
  <2>3. Connected' /\ UnderWay'
    BY <1>11, SMTT(30) DEF LoopFails, DropPredecessor, Disconnected
  <2>4. RouteKept' /\ DeliveredOwn'
    BY <1>11 DEF LoopFails, DropPredecessor, Disconnected
  <2>5. QED
    BY <2>1, <2>2, <2>3, <2>4
<1>12. CASE PredecessorClosed
  <2>1. RingTypeOK'
    BY <1>12, SMTT(30) DEF PredecessorClosed, DropPredecessor, Disconnected
  <2>2. ControlPlace' /\ Kept' /\ Departed'
    BY <1>12 DEF PredecessorClosed, DropPredecessor, Disconnected
  <2>3. Connected' /\ UnderWay'
    BY <1>12, SMTT(30) DEF PredecessorClosed, DropPredecessor, Disconnected
  <2>4. RouteKept' /\ DeliveredOwn'
    BY <1>12 DEF PredecessorClosed, DropPredecessor, Disconnected
  <2>5. QED
    BY <2>1, <2>2, <2>3, <2>4
<1>13. QED
  BY <1>1, <1>2, <1>3, <1>4, <1>5, <1>6, <1>7, <1>8, <1>9, <1>10, <1>11, <1>12 DEF Ring

LEMMA PeerSteps ==
    ASSUME RingInv, NEW k \in Routes, PeerDials(k) \/ PeerCloses(k) \/ PeerFails(k)
    PROVE  RingInv'
<1>0. RingTypeOK'
  BY PeerTypes, SMTT(30) DEF RingInv
<1> USE RingConstants DEF RingInv, RingTypeOK, ControlPlace, Kept, Departed, Connected, UnderWay,
        RouteKept, LoopFresh, SessionSurvives, DeliveredOwn, Publishable, RouteOpen, RouteInUse, Routes, Socket,
        ctlVars, ringVars, dialVars, stageVars
<1>1. CASE PeerDials(k)
  <2>2. ControlPlace' /\ Kept' /\ Departed'
    BY <1>1 DEF PeerDials
  <2>3. Connected' /\ UnderWay'
    BY <1>1, SMTT(30) DEF PeerDials
  <2>4. RouteKept' /\ DeliveredOwn'
    BY <1>1 DEF PeerDials
  <2>5. QED
    BY <1>0, <2>2, <2>3, <2>4
<1>2. CASE PeerCloses(k)
  <2>2. ControlPlace' /\ Kept' /\ Departed'
    BY <1>2 DEF PeerCloses
  <2>3. Connected' /\ UnderWay'
    BY <1>2, SMTT(30) DEF PeerCloses
  <2>4. RouteKept' /\ DeliveredOwn'
    BY <1>2 DEF PeerCloses
  <2>5. QED
    BY <1>0, <2>2, <2>3, <2>4
<1>3. CASE PeerFails(k)
  <2>2. ControlPlace' /\ Kept' /\ Departed'
    BY <1>3 DEF PeerFails
  <2>3. Connected' /\ UnderWay'
    BY <1>3, SMTT(30) DEF PeerFails
  <2>4. RouteKept' /\ DeliveredOwn'
    BY <1>3 DEF PeerFails
  <2>5. QED
    BY <1>0, <2>2, <2>3, <2>4
<1>4. QED
  BY <1>1, <1>2, <1>3

LEMMA RingInvStep == RingInv /\ [RingNext]_ringWorkerVars => RingInv'
<1> SUFFICES ASSUME RingInv, [RingNext]_ringWorkerVars PROVE RingInv'
  OBVIOUS
<1>1. CASE UNCHANGED ringWorkerVars
  BY <1>1 DEF RingInv, RingTypeOK, ControlPlace, Kept, Departed, Connected, UnderWay, RouteKept,
      LoopFresh, SessionSurvives, DeliveredOwn, Publishable, RouteOpen, RouteInUse, ringWorkerVars, ctlVars, ringVars, dialVars,
      stageVars
<1>2. CASE Admit \/ StreamPrompt \/ ControlClosed
  BY <1>2, ClientSteps
<1>3. CASE Control
  BY <1>3, ControlSteps
<1>4. CASE Ring
  BY <1>4, RingSteps
<1>5. CASE \E k \in Routes : Dialer(k)
  BY <1>5, DialerSteps
<1>6. CASE \E k \in Routes : PeerDials(k) \/ PeerCloses(k) \/ PeerFails(k)
  BY <1>6, PeerSteps
<1>7. QED
  BY <1>1, <1>2, <1>3, <1>4, <1>5, <1>6 DEF RingNext

\* Every state of every behaviour satisfies the invariant.
THEOREM RingInvariant == RingSpec => []RingInv
<1>1. RingInit => RingInv
  BY RingInvInit
<1>2. RingInv /\ [RingNext]_ringWorkerVars => RingInv'
  BY RingInvStep
<1>3. QED
  BY <1>1, <1>2, PTL DEF RingSpec

-----------------------------------------------------------------------------
\* A route starts on a worker that kept nothing of the routes before it:
\* whatever the ring thread and the background dials were doing while
\* release_route ran, bind_route finds no next hop, no loop target, no expected
\* predecessor, no stream and no session.
THEOREM AlwaysCleanStart == RingSpec => []CleanStart
<1>1. RingInv => CleanStart
  BY DEF RingInv, Kept, RouteInUse, CleanStart
<1>2. QED
  BY <1>1, RingInvariant, PTL

\* Whatever dials, frames and ends of connections were under way when routes were
\* released (route_generation, "bumped on release: stale dials close"), ring.loop
\* leads to the first stage of the route being served, except through a thread that
\* was past its last check at that moment; and a session ends only with its client,
\* with a connection of its own route, or with the ring thread leaving another
\* route's connection.
THEOREM AlwaysRouteKept == RingSpec => []RouteKept
<1>1. RingInv => RouteKept
  BY DEF RingInv
<1>2. QED
  BY <1>1, RingInvariant, PTL

\* run_ring and continue_loop send every frame on a connection of its own route,
\* except what came over a connection that outlived its route and tokens over a
\* connection that was published late.
THEOREM AlwaysDeliveredOwn == RingSpec => []DeliveredOwn
<1>1. RingInv => DeliveredOwn
  BY DEF RingInv
<1>2. QED
  BY <1>1, RingInvariant, PTL
=============================================================================
