---------------------------- MODULE MCPlacement ----------------------------
EXTENDS Placement, TLC

CONSTANTS c1, c2

Policy(tokenMax, wait, accept, only, attempts, discover) ==
    [tokenMax |-> tokenMax, firstMax |-> 20, firstTarget |-> 5, most |-> 5, wait |-> wait,
     accept |-> accept, only |-> only, attempts |-> attempts, discover |-> discover,
     checks |-> FALSE]
Fixed == Policy(10, FALSE, FALSE, FALSE, 2, FALSE)
ReplicaOnly == Policy(10, FALSE, FALSE, TRUE, 1, TRUE)
Discover(tokenMax, wait, accept) == Policy(tokenMax, wait, accept, FALSE, 1, TRUE)

Forming == [Fixed EXCEPT !.checks = TRUE]

\* An owner that forms a replica beside a client with a fixed list of workers; one that discovers beside one that only
\* takes a ready replica; one that takes what is slower beside a fixed list.
MCPolicies == {
    c1 :> Forming @@ c2 :> Fixed,
    c1 :> Discover(10, FALSE, FALSE) @@ c2 :> ReplicaOnly,
    c1 :> Discover(10, TRUE, FALSE) @@ c2 :> ReplicaOnly,
    c1 :> Discover(2, FALSE, TRUE) @@ c2 :> Fixed }
MCRoute == Client \X (1..(2 * MaxAttempts))
=============================================================================
