---------------------------- MODULE MCRingWorker ----------------------------
EXTENDS RingWorker

\* The odd routes have one predecessor, the even ones another.
TwoPredecessors == [k \in 1..MaxRoutes |-> IF k % 2 = 1 THEN "a" ELSE "b"]
=============================================================================
