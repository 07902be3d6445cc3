--------------------------- MODULE MCReplicaOwner ---------------------------
(* Instances of ReplicaOwner.                                              *)
EXTENDS ReplicaOwner, TLC

CONSTANTS l1, l2

AnyFailure == {"member", "link", "session"}

Setup(clients, commands, oneStage, failures, longAnswers, sessions) ==
    [clients |-> clients, commands |-> commands, oneStage |-> oneStage, failures |-> failures,
     longAnswers |-> longAnswers, sessions |-> sessions]

\* Two clients, which are interchangeable: of a ring in which only sessions fail,
\* with room for both sessions; of one whose members and links fail, with room
\* for one; and of one worker whose answers may be long.
Ring == {Setup({l1, l2}, {"create", "destroy", "request"}, FALSE, {"session"}, FALSE, 2),
         Setup({l1, l2}, {"create", "request"}, FALSE, AnyFailure, FALSE, 1),
         Setup({l1, l2}, {"create", "request"}, TRUE, {"session"}, TRUE, 2)}
ClientSymmetry == Permutations(Link)

\* Two clients of one worker, and one client with every command of a ring whose
\* members, links and sessions fail.
Small == {Setup({l1, l2}, {"create", "request"}, TRUE, {}, FALSE, 2),
          Setup({l1}, Command, FALSE, AnyFailure, FALSE, 2)}
=============================================================================
