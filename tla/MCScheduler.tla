---------------------------- MODULE MCScheduler -----------------------------
EXTENDS Scheduler

\* A request, its retry under the same key, and a command of another session.
Keys  == [j \in {"a", "b"} |-> "k"]
Turns == [a |-> "s1", b |-> "s1", c |-> "s2"]
=============================================================================
