------------------------------ MODULE LeaseOps ------------------------------
(***************************************************************************)
(* The transition functions of class WorkerLease                           *)
(* (engine/include/provider_owned/lease.hpp): the single lease a worker    *)
(* gives to one route at a time.                                           *)
(*                                                                         *)
(* A lease value is a record.  `left' is deadline_ - now in clock ticks,   *)
(* 0 once now >= deadline_: the code compares the deadline with the steady *)
(* clock only, so the distance to it is all that matters.  A stage request *)
(* is the route it names and a Stage: the model, range, context and        *)
(* sessions that same_stage() compares and that decide what is loaded.     *)
(* Its draft and activation format travel with them and are not told apart *)
(* (load_assigned_stage changes them without loading the layers again).    *)
(***************************************************************************)
EXTENDS Naturals

CONSTANTS
    Route,      \* route ids (32 random hex digits in the code)
    Stage,      \* what a stage request asks for, besides its route
    NoRoute,    \* the empty route id
    NoStage,    \* no stage request
    MaxLease    \* max_lease_ms, in ticks

ASSUME LeaseConstants ==
    /\ NoRoute \notin Route
    /\ NoStage \notin Stage
    /\ MaxLease \in Nat \ {0}

States == {"available", "reserved", "loading", "serving"}

Leases == [state : States, route : Route \cup {NoRoute},
           stage : Stage \cup {NoStage}, left : 0..MaxLease]

Available == [state |-> "available", route |-> NoRoute, stage |-> NoStage, left |-> 0]

\* Variants: a lease past its deadline is given back although it is in use; a
\* reservation never lapses.
ExpireInUse(l) == IF l.left = 0 THEN Available ELSE l
ExpireNever(l) == l

\* expire_locked: a reservation past its deadline is given back.
Expire(l) == IF l.state = "reserved" /\ l.left = 0 THEN Available ELSE l

\* A variant: a reserved worker is reserved again.
CanReserveAgain(l, ms) == Expire(l).state \in {"available", "reserved"} /\ ms # 0

\* reserve: the first reservation wins, whoever else asks is refused.
CanReserve(l, ms) == Expire(l).state = "available" /\ ms # 0

Reserve(r, s, ms) == [state |-> "reserved", route |-> r, stage |-> s, left |-> ms]

\* A variant: any stage of the reserving route is loaded.
CanBeginAny(l, r, s) == Expire(l).state = "reserved" /\ l.route = r

\* begin_loading: only the reserved stage itself, and only before the deadline.
CanBeginLoading(l, r, s) ==
    /\ Expire(l).state = "reserved"
    /\ l.route = r
    /\ l.stage = s

\* The deadline no longer matters from here on.
BeginLoading(l) == [state |-> "loading", route |-> l.route, stage |-> l.stage, left |-> 0]

\* serving
Serving(l, r) == IF l.state = "loading" /\ l.route = r
                 THEN [l EXCEPT !.state = "serving"] ELSE l

\* release: gives the lease back if this route holds it.
Release(l, r) == IF l.state # "available" /\ l.route = r THEN Available ELSE l

\* The steady clock advances by one tick.
Elapse(l) == [l EXCEPT !.left = IF @ = 0 THEN 0 ELSE @ - 1]
=============================================================================
