------------------------------ MODULE Gateway -------------------------------
(***************************************************************************)
(* The API gateway (sidecar/cmd/dan-api-gateway).  main() serves one of    *)
(* two modes for as long as it runs: with -client the local one, otherwise *)
(* that of the coordinators.                                               *)
(***************************************************************************)
EXTENDS LocalGateway, CoordinatorGateway

VARIABLE mode

vars == <<mode, localVars, remoteVars>>

Init == mode \in {"local", "coordinator"} /\ LocalInit /\ RemoteInit

Next ==
    \/ mode = "local" /\ LocalNext /\ UNCHANGED <<mode, remoteVars>>
    \/ mode = "coordinator" /\ RemoteNext /\ UNCHANGED <<mode, localVars>>

Spec == Init /\ [][Next]_vars

=============================================================================
