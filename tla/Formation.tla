----------------------------- MODULE Formation -----------------------------
(***************************************************************************)
(* A coordinator that forms its replica from the providers that call it,   *)
(* serves it and forms it again when a provider is lost (form_replica,     *)
(* Replica and Scheduler::recover in engine/coordinator.cpp), and the      *)
(* providers (the --coordinator mode of engine/stage_worker.cpp).          *)
(*                                                                         *)
(* Providers connect to the coordinator's listener and say hello; as soon  *)
(* as enough of them have, the listener is closed, each gets a stage and   *)
(* the coordinator waits, without a time limit, until each says it is      *)
(* ready.  With a ring, a stage also connects to the next one: before it   *)
(* says ready, except the last, which connects to the coordinator after.   *)
(*                                                                         *)
(* A connection has two ends that learn of its end at different times.     *)
(* The coordinator's ends are in the listener's queue (`backlog'), awaited *)
(* (`greeting') or registered (`held'); an end knows what its provider has *)
(* sent and whether it is still there (`live').  A provider's end is open  *)
(* or closed by the coordinator, with an assignment perhaps still unread   *)
(* (`inbox').  Every provider offers room for one stage, so the plan is    *)
(* made when `Need' have registered, in any order the planner likes.       *)
(* Requests are modelled as far as they concern every stage: sessions      *)
(* created and destroyed stage by stage, and the check of each stage while *)
(* idle.  What a job's client sees is module Scheduler.                    *)
(***************************************************************************)
EXTENDS Integers, Sequences, FiniteSets

CONSTANTS
    Provider,
    None,
    Need,           \* stages of the plan
    Rings,          \* whether a ring is asked for (--ring-return): a set of Booleans
    PeerIds,        \* whether connections are told apart by PeerIDs (provider_peer_auth)
    Session,
    MaxSessions,    \* sessions a stage has room for (8)
    MaxFaults       \* bound: providers that die, loads and fetches that fail

ASSUME FormationConstants ==
    /\ Provider \cap {None, "back", "lost"} = {} /\ None # "back"
    /\ Need \in 1..Cardinality(Provider)
    /\ Rings \subseteq BOOLEAN /\ PeerIds \in BOOLEAN

VARIABLES
    ring,       \* options.ring_return is set
    cpc,        \* what the coordinator's thread does
    first,      \* the formation is main's, not recover's
    leaked,     \* a listener no one accepts from any more holds the port
    backlog,    \* connections not yet accepted, oldest first: [p, live, hello, ready]
    greeting,   \* the connection whose hello is awaited, or NoEnd
    held,       \* registered connections; from the plan on, one per stage in order
    at,         \* the stage the coordinator is at
    job,        \* the operation every stage is told: [kind, s]
    sessions,   \* Replica::sessions_
    ppc,        \* what each provider's main thread does
    link,       \* its end of the coordinator connection: "none", "open", "closed"
    inbox,      \* an assignment it has not read, or NoStage
    work,       \* its assignment: [stage, hop, prev], or NoStage
    loaded,     \* loaded_assignment: the stage in memory, or 0
    sess,       \* sessions its stage holds
    next,       \* its next hop: a provider, "back" for the coordinator, None
    pred,       \* its predecessor: a provider, "lost", None
    faults

coord == <<ring, cpc, first, leaked, backlog, greeting, held, at, job, sessions>>
prov == <<ppc, link, inbox, work, loaded, sess, next, pred>>
vars == <<coord, prov, faults>>

NoEnd == [p |-> None, live |-> FALSE, hello |-> FALSE, ready |-> FALSE]
NewEnd(p) == [NoEnd EXCEPT !.p = p, !.live = TRUE]
NoJob == [kind |-> "", s |-> None]
NoStage == [stage |-> 0, hop |-> None, prev |-> None]
Put(f, p, v) == [f EXCEPT ![p] = v]

Init ==
    /\ ring \in Rings
    /\ cpc = "metadata" /\ first = TRUE /\ leaked = FALSE
    /\ backlog = <<>> /\ greeting = NoEnd /\ held = <<>> /\ at = 0 /\ job = NoJob /\ sessions = {}
    /\ ppc = [p \in Provider |-> "dial"]
    /\ link = [p \in Provider |-> "none"]
    /\ inbox = [p \in Provider |-> NoStage]
    /\ work = [p \in Provider |-> NoStage]
    /\ loaded = [p \in Provider |-> 0]
    /\ sess = [p \in Provider |-> {}]
    /\ next = [p \in Provider |-> None]
    /\ pred = [p \in Provider |-> None]
    /\ faults = 0

Fault == faults < MaxFaults /\ faults' = faults + 1

-----------------------------------------------------------------------------
(* The coordinator.                                                        *)

LiveIn(ends) == {ends[i].p : i \in {j \in 1..Len(ends) : ends[j].live}}
Closes(ps) == link' = [p \in Provider |-> IF p \in ps THEN "closed" ELSE link[p]]

\* An exception ends form_replica or the Replica's constructor: the connections it
\* had are closed with it, the listener only where the code says so (`leaves': it is
\* still open).  main gives up; recover tries again.
Throws(leaves) ==
    LET leaks == leaves /\ ~first
    IN  /\ cpc' = IF first THEN "exited" ELSE "metadata"
        /\ leaked' = (leaked \/ leaks)
        /\ backlog' = IF leaks THEN backlog ELSE <<>>
        /\ Closes(LiveIn(held \o <<greeting>>) \cup (IF leaks THEN {} ELSE LiveIn(backlog)))
        /\ held' = <<>> /\ greeting' = NoEnd /\ at' = 0 /\ job' = NoJob /\ sessions' = {}

\* The model's metadata is fetched and checked, then the listener opened.  A port
\* another listener still holds cannot be bound.
FormReplica ==
    /\ cpc = "metadata" /\ ~leaked
    /\ \/ /\ cpc' = "accept"
          /\ UNCHANGED <<leaked, backlog, link, held, greeting, at, job, sessions, faults>>
       \/ Fault /\ Throws(FALSE)
    /\ UNCHANGED <<ring, first, ppc, inbox, work, loaded, sess, next, pred>>

AcceptProvider ==
    /\ cpc = "accept" /\ backlog # <<>>
    /\ greeting' = Head(backlog) /\ backlog' = Tail(backlog)
    /\ cpc' = "hello"
    /\ UNCHANGED <<ring, first, leaked, held, at, job, sessions, faults, prov>>

\* An id that is registered already, if only by a connection that is dead by now.
Duplicate(p) == \E i \in 1..Len(held) : held[i].p = p

RejectProvider ==
    /\ cpc = "hello" /\ greeting.hello /\ Duplicate(greeting.p)
    /\ Closes(LiveIn(<<greeting>>))
    /\ greeting' = NoEnd /\ cpc' = "accept"
    /\ UNCHANGED <<ring, first, leaked, backlog, held, at, job, sessions, faults,
                   ppc, inbox, work, loaded, sess, next, pred>>

Register ==
    /\ cpc = "hello" /\ greeting.hello /\ ~Duplicate(greeting.p)
    /\ held' = Append(held, greeting)
    /\ greeting' = NoEnd
    /\ cpc' = IF Len(held') = Need THEN "assign" ELSE "accept"
    /\ UNCHANGED <<ring, first, leaked, backlog, at, job, sessions, faults, prov>>

\* Connection::receive throws on a connection that ends before its hello.
HelloFails ==
    /\ cpc = "hello" /\ ~greeting.live /\ ~greeting.hello
    /\ Throws(TRUE)
    /\ UNCHANGED <<ring, first, faults, ppc, inbox, work, loaded, sess, next, pred>>

Orders == {f \in [1..Need -> 1..Need] : \A i, j \in 1..Need : f[i] = f[j] => i = j}

\* The stage, where its output goes and whose connection it may take for its input.
Assignment(i) ==
    [stage |-> i,
     hop |-> IF ~ring THEN None ELSE IF i = Need THEN "back" ELSE held'[i + 1].p,
     prev |-> IF ~ring \/ i = 1 THEN None ELSE held'[i - 1].p]

\* The plan is made, the listener closed, and every assignment sent before the
\* first answer is awaited.
AssignStages ==
    /\ cpc = "assign"
    /\ \E o \in Orders :
        /\ held' = [i \in 1..Need |-> held[o[i]]]
        /\ inbox' = [p \in Provider |->
                        IF \E i \in 1..Need : held'[i].p = p /\ held'[i].live
                        THEN Assignment(CHOOSE i \in 1..Need : held'[i].p = p) ELSE inbox[p]]
    /\ Closes(LiveIn(backlog)) /\ backlog' = <<>>
    /\ cpc' = "ready" /\ at' = 1
    /\ UNCHANGED <<ring, first, leaked, greeting, job, sessions, faults,
                   ppc, work, loaded, sess, next, pred>>

ReceiveReady ==
    /\ cpc = "ready" /\ held[at].ready
    /\ IF at < Need THEN at' = at + 1 /\ UNCHANGED cpc
       ELSE at' = 1 /\ cpc' = IF ring THEN "ring" ELSE "check"
    /\ UNCHANGED <<ring, first, leaked, backlog, greeting, held, job, sessions, faults, prov>>

\* The provider awaited, or asked, is gone.
ReceiveFails ==
    /\ cpc \in {"ready", "check"} /\ ~held[at].live
    /\ cpc = "ready" => ~held[at].ready
    /\ Throws(FALSE)
    /\ UNCHANGED <<ring, first, faults, ppc, inbox, work, loaded, sess, next, pred>>

Serves(e) == e.live /\ ppc[e.p] = "serve"

\* The constructor asks each stage for its metrics; then the replica is published.
CheckStage ==
    /\ cpc = "check" /\ Serves(held[at])
    /\ IF at < Need THEN at' = at + 1 /\ UNCHANGED <<cpc, first>>
       ELSE at' = 0 /\ cpc' = "serving" /\ first' = FALSE
    /\ UNCHANGED <<ring, leaked, backlog, greeting, held, job, sessions, faults, prov>>

\* Replica::run: every stage is told in turn (control_all).  A request without a
\* session opens one for itself (next_ephemeral_, here None) and closes it again.
\* Creating a session twice, or destroying one that is not there, is the client's
\* error and changes nothing.
Submit(kind, s) ==
    /\ cpc = "serving"
    /\ (kind = "open") = (s = None) /\ (kind = "destroy") = (s \in sessions)
    /\ cpc' = "control" /\ at' = 1 /\ job' = [kind |-> kind, s |-> s]
    /\ UNCHANGED <<ring, first, leaked, backlog, greeting, held, sessions, faults, prov>>

Opens == job.kind \in {"create", "open"}
Full(p) == Opens /\ Cardinality(sess[p]) = MaxSessions

Told ==
    \/ job.kind = "create" /\ sessions' = sessions \cup {job.s} /\ cpc' = "serving" /\ job' = NoJob /\ at' = 0
    \/ job.kind = "open" /\ job' = [job EXCEPT !.kind = "close"] /\ at' = 1 /\ UNCHANGED <<sessions, cpc>>
    \/ job.kind = "close" /\ cpc' = "serving" /\ job' = NoJob /\ at' = 0 /\ UNCHANGED sessions
    \/ job.kind = "destroy" /\ sessions' = sessions \ {job.s} /\ cpc' = "serving" /\ job' = NoJob /\ at' = 0

ControlStage ==
    /\ cpc = "control" /\ Serves(held[at])
    /\ LET p == held[at].p
       IN  /\ ~Full(p)
           /\ sess' = Put(sess, p, IF Opens THEN sess[p] \cup {job.s} ELSE sess[p] \ {job.s})
    /\ IF at < Need THEN at' = at + 1 /\ UNCHANGED <<cpc, job, sessions>> ELSE Told
    /\ UNCHANGED <<ring, first, leaked, backlog, greeting, held, faults,
                   ppc, link, inbox, work, loaded, next, pred>>

\* A stage that is gone, or that answers with an error: to the scheduler both are a
\* provider failure.  The replica is dropped with its connections, and recover forms
\* another.
ControlFails ==
    /\ cpc = "control" /\ (~held[at].live \/ (Serves(held[at]) /\ Full(held[at].p)))
    /\ Throws(FALSE)
    /\ UNCHANGED <<ring, first, faults, ppc, inbox, work, loaded, sess, next, pred>>

\* While the queue is empty each stage is asked for its metrics every two seconds.
HeartbeatFails ==
    /\ cpc = "serving" /\ \E i \in 1..Need : ~held[i].live
    /\ Throws(FALSE)
    /\ UNCHANGED <<ring, first, faults, ppc, inbox, work, loaded, sess, next, pred>>

-----------------------------------------------------------------------------
(* A provider.                                                             *)

Listening == cpc \in {"accept", "hello", "assign"} \/ leaked

\* wait_for_coordinator tries every two seconds.
Connect(p) ==
    /\ ppc[p] = "dial" /\ Listening
    /\ backlog' = Append(backlog, NewEnd(p))
    /\ link' = Put(link, p, "open") /\ ppc' = Put(ppc, p, "hello")
    /\ UNCHANGED <<ring, cpc, first, leaked, greeting, held, at, job, sessions, faults, inbox, work, loaded, sess, next, pred>>

\* The coordinator's end of p's connection learns something: a frame p has sent,
\* or that p is gone.
AtEnd(p, field, value) ==
    LET Of(e) == IF e.p = p /\ e.live THEN [e EXCEPT ![field] = value] ELSE e
        All(ends) == [i \in 1..Len(ends) |-> Of(ends[i])]
    IN  /\ backlog' = All(backlog) /\ greeting' = Of(greeting) /\ held' = All(held)
        /\ UNCHANGED <<ring, cpc, first, leaked, at, job, sessions>>

SayHello(p) ==
    /\ ppc[p] = "hello"
    /\ AtEnd(p, "hello", TRUE) /\ ppc' = Put(ppc, p, "wait")
    /\ UNCHANGED <<faults, link, inbox, work, loaded, sess, next, pred>>

\* A variant that keeps the sessions of the connection that ended.
CleanupKeeping(p, to) ==
    /\ AtEnd(p, "live", FALSE)
    /\ ppc' = Put(ppc, p, to) /\ link' = Put(link, p, "none")
    /\ inbox' = Put(inbox, p, NoStage) /\ work' = Put(work, p, NoStage)
    /\ next' = Put(next, p, None) /\ pred' = Put(pred, p, None)
    /\ UNCHANGED sess

\* The connection is over: sessions are dropped (coordinator_disconnected), both
\* ring connections closed, the weights kept for the next assignment.
Cleanup(p, to) ==
    /\ AtEnd(p, "live", FALSE)
    /\ ppc' = Put(ppc, p, to) /\ link' = Put(link, p, "none")
    /\ inbox' = Put(inbox, p, NoStage) /\ work' = Put(work, p, NoStage)
    /\ next' = Put(next, p, None) /\ pred' = Put(pred, p, None)
    /\ sess' = Put(sess, p, {})

ReadAssignment(p) ==
    /\ ppc[p] = "wait" /\ inbox[p] # NoStage
    /\ work' = Put(work, p, inbox[p]) /\ inbox' = Put(inbox, p, NoStage)
    /\ ppc' = Put(ppc, p, "load")
    /\ UNCHANGED <<coord, faults, link, loaded, sess, next, pred>>

\* A variant in which a provider that waits for its stage misses the end of the
\* connection.
LoseCoordinatorServing(p) ==
    /\ ppc[p] = "serve" /\ inbox[p] = NoStage /\ link[p] = "closed"
    /\ Cleanup(p, "dial")
    /\ UNCHANGED <<loaded, faults>>

LoseCoordinator(p) ==
    /\ ppc[p] \in {"wait", "serve"} /\ inbox[p] = NoStage /\ link[p] = "closed"
    /\ Cleanup(p, "dial")
    /\ UNCHANGED <<loaded, faults>>

\* A variant that keeps the weights it has whatever it is assigned.
LoadStageKeeping(p) ==
    /\ ppc[p] = "load"
    /\ loaded' = IF loaded[p] = 0 THEN Put(loaded, p, work[p].stage) ELSE loaded
    /\ ppc' = Put(ppc, p, IF ring /\ work[p].hop # "back" THEN "connect" ELSE "ready")
    /\ UNCHANGED <<coord, link, inbox, work, sess, next, pred, faults>>

\* The assigned layers are downloaded and loaded, or kept if they are the same.
LoadStage(p) ==
    /\ ppc[p] = "load"
    /\ loaded' = Put(loaded, p, work[p].stage)
    /\ ppc' = Put(ppc, p, IF ring /\ work[p].hop # "back" THEN "connect" ELSE "ready")
    /\ UNCHANGED <<coord, link, inbox, work, sess, next, pred, faults>>
LoadFails(p) ==
    /\ ppc[p] = "load" /\ loaded[p] # work[p].stage
    /\ Fault
    /\ Cleanup(p, "dial")
    /\ loaded' = Put(loaded, p, 0)

SendReady(p) ==
    /\ ppc[p] = "ready" /\ link[p] # "closed"
    /\ AtEnd(p, "ready", TRUE)
    /\ ppc' = Put(ppc, p, IF work[p].hop = "back" THEN "connect" ELSE "serve")
    /\ UNCHANGED <<faults, link, inbox, work, loaded, sess, next, pred>>
SendReadyFails(p) ==
    /\ ppc[p] = "ready" /\ link[p] = "closed"
    /\ Cleanup(p, "dial")
    /\ UNCHANGED <<loaded, faults>>

\* Once its layers are loaded a later stage accepts one predecessor.
Accepts(q, p) ==
    /\ work[q].stage > 1 /\ (PeerIds => work[q].prev = p) /\ pred[q] = None
    /\ ppc[q] \in {"connect", "ready", "serve"}

\* connect_next tries until the next stage shakes hands; nothing else ends it.
ConnectNext(p) ==
    /\ ppc[p] = "connect" /\ work[p].hop \in Provider /\ Accepts(work[p].hop, p)
    /\ next' = Put(next, p, work[p].hop) /\ pred' = Put(pred, work[p].hop, p)
    /\ ppc' = Put(ppc, p, "ready")
    /\ UNCHANGED <<coord, faults, link, inbox, work, loaded, sess>>

\* The last stage reaches the coordinator while it waits for it (accept_ring_return).
ConnectBack(p) ==
    /\ ppc[p] = "connect" /\ work[p].hop = "back"
    /\ cpc = "ring" /\ (PeerIds => held[Need].p = p)
    /\ next' = Put(next, p, "back") /\ ppc' = Put(ppc, p, "serve")
    /\ cpc' = "check" /\ at' = 1
    /\ UNCHANGED <<ring, first, leaked, backlog, greeting, held, job, sessions, faults,
                   link, inbox, work, loaded, sess, pred>>

\* The ring thread sees its predecessor's connection end and shuts the coordinator
\* connection down, which the main thread notices when it reads.
PredecessorLost(p) ==
    /\ pred[p] \in Provider /\ next[pred[p]] # p
    /\ pred' = Put(pred, p, "lost")
    /\ AtEnd(p, "live", FALSE)
    /\ link' = Put(link, p, "closed")
    /\ UNCHANGED <<faults, ppc, inbox, work, loaded, sess, next>>

Dies(p) ==
    /\ ppc[p] # "down"
    /\ Fault
    /\ Cleanup(p, "down")
    /\ loaded' = Put(loaded, p, 0)
Returns(p) ==
    /\ ppc[p] = "down"
    /\ ppc' = Put(ppc, p, "dial")
    /\ UNCHANGED <<coord, faults, link, inbox, work, loaded, sess, next, pred>>

CoordinatorStep ==
    \/ FormReplica \/ RejectProvider \/ Register \/ HelloFails \/ AssignStages \/ ReceiveReady
    \/ ReceiveFails \/ CheckStage \/ ControlStage \/ ControlFails \/ HeartbeatFails
    \/ AcceptProvider

ProviderStep(p) ==
    \/ Connect(p) \/ SayHello(p) \/ ReadAssignment(p) \/ LoseCoordinator(p) \/ LoadStage(p)
    \/ SendReady(p) \/ SendReadyFails(p) \/ ConnectNext(p) \/ ConnectBack(p)
    \/ PredecessorLost(p) \/ Returns(p)

Next ==
    \/ CoordinatorStep
    \/ \E k \in {"create", "open", "destroy"}, s \in Session \cup {None} : Submit(k, s)
    \/ \E p \in Provider : ProviderStep(p) \/ LoadFails(p) \/ Dies(p)

\* The coordinator's thread and every provider run; a provider that died is started
\* again.  Nothing forces a request or a fault.
Spec == Init /\ [][Next]_vars /\ WF_vars(CoordinatorStep) /\ \A p \in Provider : WF_vars(ProviderStep(p))

-----------------------------------------------------------------------------
TypeOK ==
    /\ at \in 0..Need /\ Len(held) <= Need
    /\ loaded \in [Provider -> 0..Need]
    /\ sess \in [Provider -> SUBSET (Session \cup {None})]

\* A replica that serves is whole: the stages are different providers, each that is
\* still there has the layers of its own stage in memory, and in a ring each sends
\* to the next and the last to the coordinator, across reformations in which a
\* provider changes its place (coordinator.cpp, "N-stage replica READY").
ServesWhole ==
    cpc \in {"serving", "control"} => \A i \in 1..Need :
        /\ \A j \in 1..Need : held[i].p = held[j].p => i = j
        /\ held[i].live =>
            /\ loaded[held[i].p] = i
            /\ ring => next[held[i].p] = IF i = Need THEN "back" ELSE held[i + 1].p

\* Between operations every stage that is there has exactly the sessions the
\* replica knows: nothing is left on a stage by an operation that failed half way
\* or by the replica before ("unchanged reconnecting stages reuse loaded weights",
\* docs/PROGRESS.md).
SessionsAgree ==
    cpc = "serving" => \A i \in 1..Need : held[i].live => sess[held[i].p] = sessions

Serving == cpc \in {"serving", "control"}

\* "replacement providers restore service without a coordinator restart"
\* (docs/PROGRESS.md): without a ring, whatever providers are lost and wherever in
\* its formation, the replica serves again, unless a connection that ended before
\* its hello left the listener behind.
Reforms ==
    ring \/ []<>Serving \/ <>[](cpc = "exited") \/ <>[]leaked

\* "Automatic formation can wire selected providers into a direct activation ring;
\* the coordinator ... reforms the ring after provider loss" (docs/PROGRESS.md).
\* The code does not keep this: connect_next may dial for ever.
RingReforms ==
    []<>Serving \/ <>[](cpc = "exited") \/ <>[]leaked
=============================================================================
