--------------------------- MODULE ExclusiveLease ---------------------------
(***************************************************************************)
(* What a worker's lease promises to clients, without connections, frames, *)
(* deadlines or loading: one owner at a time; a reservation may lapse, but *)
(* once the owner uses the worker only the owner's own release ends it,    *)
(* and nobody becomes owner while there is one.                            *)
(***************************************************************************)
CONSTANTS Route, NoRoute

VARIABLES owner, inUse

Init == owner = NoRoute /\ inUse = FALSE

\* Only a worker nobody owns is reserved.
Grant(r) == owner = NoRoute /\ owner' = r /\ UNCHANGED inUse

\* A reservation lapses or is given back unused.
Lapse == ~inUse /\ owner' = NoRoute /\ UNCHANGED inUse

Use == owner # NoRoute /\ ~inUse /\ inUse' = TRUE /\ UNCHANGED owner

Finish == inUse /\ inUse' = FALSE /\ owner' = NoRoute

Next == (\E r \in Route : Grant(r)) \/ Lapse \/ Use \/ Finish

Spec == Init /\ [][Next]_<<owner, inUse>>
=============================================================================
