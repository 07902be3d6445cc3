---------------------------- MODULE ReplicaOwner ----------------------------
(***************************************************************************)
(* The owner of a persistent replica (engine/replica_owner.cpp): the main  *)
(* thread that forms, serves and dissolves it, one thread per running      *)
(* request, the thread that reads what the ring returns, and one reader    *)
(* per client connection.                                                  *)
(*                                                                         *)
(* A client holds one session on its connection and waits for the answer   *)
(* to each command before the next one, as engine/client.cpp does, so a    *)
(* session is named by its Link.  Positions, tokens and texts are left     *)
(* out.  A group of calls on the member connections (with_members) is one  *)
(* step: a thread that has not taken it yet is waiting for members_mutex_  *)
(* or for the reply.  What it does to the owner's own state afterwards is  *)
(* a step of its own.                                                      *)
(***************************************************************************)
EXTENDS Naturals, Sequences, FiniteSets

CONSTANTS
    Link,        \* client connections
    Wrap,        \* size of the counter sessions_in_use_ (2^32 in the code)
    Setups,      \* the replicas and clients looked at: who connects, with
                 \* which commands, whether the replica is one worker (which
                 \* computes a whole answer inside one call on its control
                 \* connection), what may fail (a
                 \* member, a link of the ring, a session on the members), whether an
                 \* answer of one worker may outlast the 30 s timeout of a call,
                 \* and options_.request.sessions
    LateReaders  \* the reader of a connection that dissolve() closed may still
                 \* run when the next replica is ready.  FALSE: it has ended by
                 \* then, which nothing in the code waits for

Command == {"create", "reset", "prepare", "destroy", "request"}

ASSUME OwnerConstants ==
    /\ IsFiniteSet(Link)
    /\ Setups \subseteq [clients : SUBSET Link, commands : SUBSET Command, oneStage : BOOLEAN,
                        failures : SUBSET {"member", "link", "session"}, longAnswers : BOOLEAN, sessions : Nat \ {0}]
    /\ Wrap \in Nat /\ \A s \in Setups : Wrap > s.sessions + Cardinality(Link)
    /\ LateReaders \in BOOLEAN

VARIABLES
    setup,     \* the one of Setups this is
    main,      \* main thread
    job,       \* the job it executes
    notify,    \* dissolve's local `links'
    members,   \* client_: "none" (reset), "up", "cut" (a link of the ring failed;
               \* the control connections still answer), "down" (a member or its
               \* control connection failed), "desync" (a call timed out: later
               \* replies are late ones), "aborted"
    kv,        \* sessions on the members that the owner has not given up
    stuck,     \* those that a member will not reset or destroy: it has a request
               \* of theirs open, or lost them when a link of the ring ended
    leaked,    \* sessions a member still holds though the owner gave them up
    ready,     \* ready_
    broken,    \* broken_ is not empty
    jobs,      \* jobs_
    pending,   \* pending_
    req,       \* request threads (requests_)
    inbox,     \* inboxes_
    answering, \* sessions whose answer the members are computing
    sess,      \* Link::sessions: none, idle or busy
    inUse,     \* sessions_in_use_
    ring,      \* the ring reader (reader_)
    rd,        \* client reader threads
    asked,     \* the command each client waits on: its kind until pushed
    gone,      \* Link::gone
    closing,   \* Link::closing, of a connection that is not gone
    links      \* links_

mainVars  == <<main, job, notify>>
routeVars == <<members, kv, stuck, leaked>>
queueVars == <<ready, jobs, pending>>
reqVars   == <<req, inbox, answering>>
sessVars  == <<sess, inUse>>
linkVars  == <<rd, asked, gone, closing, links>>
vars == <<mainVars, routeVars, queueVars, broken, reqVars, sessVars, ring, linkVars>>

Job == [kind : Command \cup {"cleanup"}, link : Link]
NoJob == [kind |-> "none"]

TypeOK ==
    /\ main \in {"form", "clear", "open", "wait", "exec", "created", "destroyed",
                 "cleanup", "cleaned", "verify", "failClose", "health", "yield", "dissolve",
                 "disClear", "disFail", "disAbort", "disJoin", "disTell"}
    /\ job \in Job \cup {NoJob} /\ notify \subseteq Link
    /\ members \in {"none", "up", "cut", "down", "desync", "aborted"}
    /\ kv \subseteq Link /\ stuck \subseteq Link /\ leaked \subseteq Link
    /\ ready \in BOOLEAN /\ broken \in BOOLEAN
    /\ jobs \in Seq(Job) /\ pending \in Seq(Link)
    /\ req \in [Link -> {"none", "register", "check", "start", "stream", "commit", "reset",
                         "verify", "verifyCommit", "failClose", "post", "unbusy", "left", "verifyFree",
                         "failFree", "freed", "done"}]
    /\ inbox \in [Link -> {"none", "open", "closed"}] /\ answering \subseteq Link
    /\ sess \in [Link -> {"none", "idle", "busy"}] /\ inUse \in 0..(Wrap - 1)
    /\ ring \in {"off", "on", "failClose"}
    /\ rd \in [Link -> {"none", "recv", "push", "bye", "ended"}]
    /\ asked \in [Link -> Command \cup {"none", "sent"}]
    /\ gone \subseteq Link /\ closing \subseteq Link /\ links \subseteq Link

Init ==
    /\ setup \in Setups
    /\ main = "form" /\ job = NoJob /\ notify = {}
    /\ members = "none" /\ kv = {} /\ stuck = {} /\ leaked = {}
    /\ ready = FALSE /\ broken = FALSE /\ jobs = <<>> /\ pending = <<>>
    /\ req = [l \in Link |-> "none"] /\ inbox = [l \in Link |-> "none"] /\ answering = {}
    /\ sess = [l \in Link |-> "none"] /\ inUse = 0
    /\ ring = "off"
    /\ rd = [l \in Link |-> "none"] /\ asked = [l \in Link |-> "none"]
    /\ gone = {} /\ closing = {} /\ links = {}

-----------------------------------------------------------------------------
(***************************************************************************)
(* Members                                                                 *)
(***************************************************************************)
MaxSessions == setup.sessions

\* A one-stage worker reads nothing but a cancellation while it computes.
WorkerFree == setup.oneStage => answering = {}

\* A group of member calls is answered, with acks or with a member's error.
CallOK == members \in {"up", "cut"} /\ WorkerFree

\* A group of member calls throws for want of a reply.  One that timed out leaves
\* its reply to be taken for the next one's.
CallThrows ==
    \/ members \in {"down", "desync", "aborted"} /\ UNCHANGED members
    \/ members \in {"up", "cut"} /\ ~WorkerFree /\ setup.longAnswers /\ members' = "desync"

\* A member process or a member's control connection fails.
MemberFails ==
    /\ "member" \in setup.failures /\ members \in {"up", "cut", "desync"} /\ members' = "down"
    /\ UNCHANGED <<mainVars, kv, stuck, leaked, queueVars, broken, reqVars, sessVars, ring, linkVars>>

\* A link of the ring fails.  The stage behind it discards its sessions
\* (run_ring); one before it may only notice later, and discard its own then.
LinkFails ==
    /\ "link" \in setup.failures /\ members \in {"up", "cut"} /\ members' = "cut"
    /\ stuck' \in {stuck, stuck \cup kv}
    /\ UNCHANGED <<mainVars, kv, leaked, queueVars, broken, reqVars, sessVars, ring, linkVars>>

\* The members have computed the answer up to its last token, or its error.
AnswerEnds(l) ==
    /\ l \in answering /\ members \in {"up", "cut", "desync"}
    /\ answering' = answering \ {l}
    /\ UNCHANGED <<mainVars, routeVars, queueVars, broken, req, inbox, sessVars, ring, linkVars>>

ClosedInboxes == [l \in Link |-> IF inbox[l] = "open" THEN "closed" ELSE inbox[l]]

\* start_reader's thread: the ring's connection throws, fail() records it.
RingThrows ==
    /\ ring = "on" /\ members \in {"cut", "down", "aborted"}
    /\ broken' = TRUE /\ ring' = "failClose"
    /\ UNCHANGED <<mainVars, routeVars, queueVars, reqVars, sessVars, linkVars>>

\* ... and closes the inboxes; the thread returns.
RingStops ==
    /\ ring = "failClose"
    /\ inbox' = ClosedInboxes /\ ring' = "off"
    /\ UNCHANGED <<mainVars, routeVars, queueVars, broken, req, answering, sessVars, linkVars>>

-----------------------------------------------------------------------------
(***************************************************************************)
(* Main thread: form() and serve()                                         *)
(***************************************************************************)
\* Variant of Form that keeps the count of the replica before.
FormKeepsCount ==
    /\ main = "form"
    /\ members' = "up" /\ kv' = {} /\ stuck' = {} /\ leaked' = {} /\ answering' = {} /\ ring' = "on"
    /\ main' = "clear"
    /\ UNCHANGED <<job, notify, queueVars, broken, req, inbox, sessVars, linkVars>>

\* The route is placed, linked and warmed up, and its reader started.
Form ==
    /\ main = "form"
    /\ members' = "up" /\ kv' = {} /\ stuck' = {} /\ leaked' = {} /\ answering' = {} /\ ring' = "on"
    /\ inUse' = 0
    /\ main' = "clear"
    /\ UNCHANGED <<job, notify, queueVars, broken, req, inbox, sess, linkVars>>

ClearJobs ==
    /\ main = "clear" /\ jobs' = <<>> /\ main' = "open"
    /\ UNCHANGED <<job, notify, routeVars, ready, pending, broken, reqVars, sessVars, ring,
                   linkVars>>

OpenDoor ==
    /\ main = "open" /\ (LateReaders \/ \A l \in Link \ links : rd[l] \in {"none", "ended"})
    /\ ready' = TRUE /\ main' = "wait"
    /\ UNCHANGED <<job, notify, routeVars, jobs, pending, broken, reqVars, sessVars, ring,
                   linkVars>>

RequestSlots == IF setup.oneStage THEN 1 ELSE MaxSessions
Reaped == [l \in Link |-> IF req[l] = "done" THEN "none" ELSE req[l]]

\* Finished threads are joined, then waiting requests start while there is room.
StartPending(waiting) ==
    LET running == Cardinality({l \in Link : Reaped[l] # "none"})
        room    == IF running < RequestSlots THEN RequestSlots - running ELSE 0
        n       == IF Len(waiting) < room THEN Len(waiting) ELSE room
    IN  /\ req' = [l \in Link |-> IF \E i \in 1..n : waiting[i] = l THEN "register"
                                                                    ELSE Reaped[l]]
        /\ pending' = SubSeq(waiting, n + 1, Len(waiting))

WakeBroken ==
    /\ main = "wait" /\ broken
    /\ jobs' = IF jobs = <<>> THEN jobs ELSE Tail(jobs)
    /\ main' = "dissolve"
    /\ UNCHANGED <<job, notify, routeVars, ready, pending, broken, reqVars, sessVars, ring,
                   linkVars>>

WakeJob ==
    /\ main = "wait" /\ ~broken /\ jobs # <<>>
    /\ job' = Head(jobs) /\ jobs' = Tail(jobs)
    /\ StartPending(pending)
    /\ main' = "exec"
    /\ UNCHANGED <<notify, routeVars, ready, broken, inbox, answering, sessVars, ring, linkVars>>

\* The keepalive period passed, or a request finished.
WakeIdle ==
    /\ main = "wait" /\ ~broken /\ jobs = <<>>
    /\ StartPending(pending)
    /\ main' = "health"
    /\ UNCHANGED <<job, notify, routeVars, ready, jobs, broken, inbox, answering, sessVars,
                   ring, linkVars>>

\* check_members: every member answers, ...
Healthy ==
    /\ main = "health" /\ CallOK /\ main' = "wait"
    /\ UNCHANGED <<job, notify, routeVars, queueVars, broken, reqVars, sessVars, ring, linkVars>>

\* ... or one does not.
Unhealthy ==
    /\ main = "health" /\ CallThrows /\ main' = "dissolve"
    /\ UNCHANGED <<job, notify, kv, stuck, leaked, queueVars, broken, reqVars, sessVars, ring,
                   linkVars>>

\* maybe_give_way: nothing is going on and a better replica is possible.
GiveWay ==
    /\ main = "health" /\ CallOK
    /\ jobs = <<>> /\ pending = <<>> /\ inUse = 0 /\ \A l \in Link : req[l] = "none"
    /\ main' = "yield"
    /\ UNCHANGED <<job, notify, routeVars, queueVars, broken, reqVars, sessVars, ring, linkVars>>

-----------------------------------------------------------------------------
(***************************************************************************)
(* Main thread: execute()                                                  *)
(***************************************************************************)
Executes(kind) == main = "exec" /\ job.kind = kind

Replied(l) == asked' = [asked EXCEPT ![l] = "none"]

\* execute() returns.
JobDone == main' = "wait" /\ job' = NoJob

\* A session was created or freed: change_sessions(+1), change_sessions(-1).
CountUp == inUse' = (inUse + 1) % Wrap
CountDown == inUse' = (inUse + Wrap - 1) % Wrap

\* The destroy of a session was refused and ignored: the members before the one
\* that refused have freed it, that one (unless it had lost it) and those behind
\* it still hold it.
GivenUp(l) == kv' = kv \ {l} /\ leaked' \in {leaked, leaked \cup {l}}

CreateAllowed == job.link \notin gone /\ sess[job.link] = "none" /\ inUse < MaxSessions

\* The job is answered at once: an error, or nothing when the client is gone.
Refuse ==
    /\ \/ Executes("create") /\ ~CreateAllowed
       \/ main = "exec" /\ job.kind \in {"reset", "prepare", "destroy"} /\ sess[job.link] # "idle"
       \/ Executes("request") /\ (job.link \in gone \/ sess[job.link] # "idle")
    /\ Replied(job.link) /\ JobDone
    /\ UNCHANGED <<notify, routeVars, queueVars, broken, reqVars, sessVars, ring, rd,
                   gone, closing, links>>

\* The members have room: which of them still hold a session that was given up
\* only partly decides it, so this is possible beside CreateRefused.
CreateSession ==
    /\ Executes("create") /\ CreateAllowed /\ CallOK
    /\ kv' = kv \cup {job.link} /\ main' = "created"
    /\ UNCHANGED <<job, notify, members, stuck, leaked, queueVars, broken, reqVars, sessVars, ring,
                   linkVars>>

\* ... unless sessions the owner gave up still take up room on a member: it answers
\* "session limit reached", which the owner takes for a broken route.
CreateRefused ==
    /\ Executes("create") /\ CreateAllowed /\ CallOK
    /\ Cardinality(kv \cup leaked) >= MaxSessions
    /\ main' = "dissolve"
    /\ UNCHANGED <<job, notify, routeVars, queueVars, broken, reqVars, sessVars, ring, linkVars>>

CreateThrows ==
    /\ Executes("create") /\ CreateAllowed /\ CallThrows /\ main' = "dissolve"
    /\ UNCHANGED <<job, notify, kv, stuck, leaked, queueVars, broken, reqVars, sessVars, ring,
                   linkVars>>

Created ==
    /\ main = "created"
    /\ sess' = [sess EXCEPT ![job.link] = "idle"] /\ CountUp
    /\ Replied(job.link) /\ JobDone
    /\ UNCHANGED <<notify, routeVars, queueVars, broken, reqVars, ring, rd, gone,
                   closing, links>>

\* reset_session, and prepare_chat, whose error is passed on as it is.
ResetOrPrepare ==
    /\ \/ Executes("prepare")
       \/ Executes("reset") /\ job.link \notin stuck
    /\ sess[job.link] = "idle" /\ CallOK
    /\ Replied(job.link) /\ JobDone
    /\ UNCHANGED <<notify, routeVars, queueVars, broken, reqVars, sessVars, ring, rd,
                   gone, closing, links>>

\* A preparation that throws is only reported to the client.
PrepareThrows ==
    /\ Executes("prepare") /\ sess[job.link] = "idle" /\ CallThrows
    /\ Replied(job.link) /\ JobDone
    /\ UNCHANGED <<notify, kv, stuck, leaked, queueVars, broken, reqVars, sessVars, ring, rd,
                   gone, closing, links>>

DestroySession ==
    /\ Executes("destroy") /\ sess[job.link] = "idle" /\ CallOK /\ job.link \notin stuck
    /\ kv' = kv \ {job.link} /\ main' = "destroyed"
    /\ UNCHANGED <<job, notify, members, stuck, leaked, queueVars, broken, reqVars, sessVars, ring,
                   linkVars>>

Destroyed ==
    /\ main = "destroyed"
    /\ sess' = [sess EXCEPT ![job.link] = "none"] /\ CountDown
    /\ Replied(job.link) /\ JobDone
    /\ UNCHANGED <<notify, routeVars, queueVars, broken, reqVars, ring, rd, gone,
                   closing, links>>
\* Variant of CleanupErases that does not look at `busy'.
CleanupErasesBusy ==
    /\ Executes("cleanup")
    /\ sess' = [sess EXCEPT ![job.link] = "none"]
    /\ IF sess[job.link] # "none" THEN main' = "cleanup" /\ UNCHANGED job ELSE JobDone
    /\ UNCHANGED <<notify, routeVars, queueVars, broken, reqVars, inUse, ring, linkVars>>

\* The client left: its session is taken from the connection unless a request
\* still runs on it, ...
CleanupErases ==
    /\ Executes("cleanup")
    /\ sess' = [sess EXCEPT ![job.link] = IF @ = "idle" THEN "none" ELSE @]
    /\ IF sess[job.link] = "idle" THEN main' = "cleanup" /\ UNCHANGED job ELSE JobDone
    /\ UNCHANGED <<notify, routeVars, queueVars, broken, reqVars, inUse, ring, linkVars>>

\* ... then from the members, ...
CleanupDestroys ==
    /\ main = "cleanup" /\ CallOK /\ job.link \notin stuck
    /\ kv' = kv \ {job.link} /\ main' = "cleaned"
    /\ UNCHANGED <<job, notify, members, stuck, leaked, queueVars, broken, reqVars, sessVars, ring,
                   linkVars>>

\* ... and from the count.
Cleaned ==
    /\ main = "cleaned" /\ CountDown /\ JobDone
    /\ UNCHANGED <<notify, routeVars, queueVars, broken, reqVars, sess, ring, linkVars>>

\* A reset or a destroy threw, or a member answered it with an error, at which
\* control_all stops: members_fine asks every member.
CommandThrows ==
    /\ \/ main = "exec" /\ job.kind \in {"reset", "destroy"} /\ sess[job.link] = "idle"
       \/ main = "cleanup"
    /\ \/ CallThrows
       \/ CallOK /\ job.link \in stuck /\ UNCHANGED members
    /\ main' = "verify"
    /\ UNCHANGED <<job, notify, kv, stuck, leaked, queueVars, broken, reqVars, sessVars, ring,
                   linkVars>>

\* They all answer.  The client is told of the error; a session whose client left
\* is taken from the count, whether a member still holds it or not.
CommandRefused ==
    /\ main = "verify" /\ CallOK
    /\ IF job.kind = "cleanup"
          THEN GivenUp(job.link) /\ main' = "cleaned" /\ UNCHANGED <<job, asked>>
          ELSE Replied(job.link) /\ JobDone /\ UNCHANGED <<kv, leaked>>
    /\ UNCHANGED <<notify, members, stuck, queueVars, broken, reqVars, sessVars, ring, rd, gone,
                   closing, links>>

\* One does not: fail() records it.
MainFails ==
    /\ main = "verify" /\ CallThrows /\ broken' = TRUE /\ main' = "failClose"
    /\ UNCHANGED <<job, notify, kv, stuck, leaked, queueVars, reqVars, sessVars, ring, linkVars>>

MainCloses ==
    /\ main = "failClose" /\ inbox' = ClosedInboxes /\ JobDone
    /\ UNCHANGED <<notify, routeVars, queueVars, broken, req, answering, sessVars, ring,
                   linkVars>>

QueueRequest ==
    /\ Executes("request") /\ job.link \notin gone /\ sess[job.link] = "idle"
    /\ sess' = [sess EXCEPT ![job.link] = "busy"]
    /\ StartPending(Append(pending, job.link))
    /\ JobDone
    /\ UNCHANGED <<notify, routeVars, ready, jobs, broken, inbox, answering, inUse, ring,
                   linkVars>>

-----------------------------------------------------------------------------
(***************************************************************************)
(* Main thread: dissolve() and release_route()                             *)
(***************************************************************************)
ShutDoor ==
    /\ main \in {"dissolve", "yield"} /\ ready' = FALSE /\ main' = "disClear" /\ job' = NoJob
    /\ UNCHANGED <<notify, routeVars, jobs, pending, broken, reqVars, sessVars, ring,
                   linkVars>>

\* The count is reset, links_ is taken over and jobs_ emptied.
DissolveClears ==
    /\ main = "disClear"
    /\ inUse' = 0 /\ notify' = links /\ links' = {} /\ jobs' = <<>>
    /\ main' = "disFail"
    /\ UNCHANGED <<job, routeVars, ready, pending, broken, reqVars, sess, ring, rd, asked, gone,
                   closing>>

DissolveFails ==
    /\ main = "disFail" /\ broken' = TRUE /\ main' = "disAbort"
    /\ UNCHANGED <<job, notify, routeVars, queueVars, reqVars, sessVars, ring, linkVars>>

\* fail() closes the inboxes, and release_route shuts every connection down, so
\* that calls on it throw, and closes them again.
AbortMembers ==
    /\ main = "disAbort" /\ members' = "aborted" /\ inbox' = ClosedInboxes /\ main' = "disJoin"
    /\ UNCHANGED <<job, notify, kv, stuck, leaked, queueVars, broken, req, answering, sessVars, ring,
                   linkVars>>

Joined == ring = "off" /\ \A l \in Link : req[l] \in {"none", "done"}

\* Threads that use the connections are joined, then the connections closed;
\* the workers drop the sessions.
ReleaseRoute ==
    /\ main = "disJoin" /\ Joined
    /\ req' = Reaped /\ pending' = <<>>
    /\ members' = "none" /\ kv' = {} /\ stuck' = {} /\ leaked' = {} /\ answering' = {} /\ broken' = FALSE
    /\ main' = "disTell"
    /\ UNCHANGED <<job, notify, ready, jobs, inbox, sessVars, ring, linkVars>>
\* Variant of TellClients that leaves connections without a session open.
TellSessions ==
    /\ main = "disTell"
    /\ sess' = [l \in Link |-> IF l \in notify THEN "none" ELSE sess[l]]
    /\ closing' = closing \cup {l \in notify \ gone : sess[l] # "none"}
    /\ main' = "form" /\ notify' = {}
    /\ UNCHANGED <<job, routeVars, queueVars, broken, reqVars, inUse, ring, rd, asked, gone,
                   links>>

TellClients ==
    /\ main = "disTell"
    /\ sess' = [l \in Link |-> IF l \in notify THEN "none" ELSE sess[l]]
    /\ closing' = closing \cup (notify \ gone)
    /\ main' = "form" /\ notify' = {}
    /\ UNCHANGED <<job, routeVars, queueVars, broken, reqVars, inUse, ring, rd, asked, gone,
                   links>>

-----------------------------------------------------------------------------
(***************************************************************************)
(* Request thread of session l: run_client_request and run_request         *)
(***************************************************************************)
Goes(l, from, to) == req[l] = from /\ req' = [req EXCEPT ![l] = to]

RegisterInbox(l) ==
    /\ Goes(l, "register", "check") /\ inbox' = [inbox EXCEPT ![l] = "open"]
    /\ UNCHANGED <<mainVars, routeVars, queueVars, broken, answering, sessVars, ring, linkVars>>
\* An inbox registered after fail() closed the others is closed here.
CheckBroken(l) ==
    /\ Goes(l, "check", "start")
    /\ inbox' = IF broken THEN [inbox EXCEPT ![l] = "closed"] ELSE inbox
    /\ UNCHANGED <<mainVars, routeVars, queueVars, broken, answering, sessVars, ring, linkVars>>

\* The budget goes to the tail, the prompt to the head.  Neither call shows
\* that another member is down.
StartStream(l) ==
    /\ Goes(l, "start", "stream") /\ members \in {"up", "cut", "down"} /\ WorkerFree
    /\ answering' = answering \cup {l}
    /\ UNCHANGED <<mainVars, routeVars, queueVars, broken, inbox, sessVars, ring, linkVars>>

\* The tail refuses the budget.
StartRefused(l) ==
    /\ "session" \in setup.failures /\ Goes(l, "start", "verify") /\ members \in {"up", "cut", "down"} /\ WorkerFree
    /\ UNCHANGED <<mainVars, routeVars, queueVars, broken, inbox, answering, sessVars, ring,
                   linkVars>>

\* The last token: the answer will be committed (or rolled back).
LastToken(l) ==
    /\ Goes(l, "stream", "commit") /\ l \notin answering
    /\ UNCHANGED <<mainVars, routeVars, queueVars, broken, inbox, answering, sessVars, ring,
                   linkVars>>

StuckToo(l) == IF "session" \in setup.failures THEN stuck \cup {l} ELSE stuck

\* An error frame: this session will start over.  The member that failed may be
\* left with an open request that end_request does not end (a prompt it did not
\* get to the end of).
ErrorFrame(l) ==
    /\ Goes(l, "stream", "reset") /\ l \notin answering
    /\ stuck' \in {stuck, StuckToo(l)}
    /\ UNCHANGED <<mainVars, members, kv, leaked, queueVars, broken, inbox, answering, sessVars,
                   ring, linkVars>>

InboxClosed(l) ==
    /\ Goes(l, "stream", "post") /\ inbox[l] = "closed"
    /\ UNCHANGED <<mainVars, routeVars, queueVars, broken, inbox, answering, sessVars, ring,
                   linkVars>>

\* Nothing came back for 120 s.
StreamTimesOut(l) ==
    /\ Goes(l, "stream", "failClose") /\ inbox[l] = "open" /\ l \in answering
    /\ members \in {"cut", "down"}
    /\ broken' = TRUE
    /\ UNCHANGED <<mainVars, routeVars, queueVars, inbox, answering, sessVars, ring, linkVars>>

\* commit_final_token or rollback_all, then end_request; or, after an error, the
\* end of the request and reset_session.
EndRequest(l) ==
    /\ req[l] \in {"commit", "reset"} /\ CallOK /\ l \notin stuck
    /\ req' = [req EXCEPT ![l] = "post"]
    /\ UNCHANGED <<mainVars, routeVars, queueVars, broken, inbox, answering, sessVars, ring,
                   linkVars>>
\* Variant of CommitRefused that takes a session's error for a member's.
CommitFailsReplica(l) ==
    /\ Goes(l, "commit", "failClose") /\ CallOK /\ broken' = TRUE
    /\ UNCHANGED <<mainVars, routeVars, queueVars, inbox, answering, sessVars, ring, linkVars>>

\* A member answers the commit, or the end of the request, with an error: the
\* request stays open on it and on those behind it.
CommitRefused(l) ==
    /\ Goes(l, "commit", "verifyCommit") /\ CallOK
    /\ "session" \in setup.failures \/ l \in stuck
    /\ stuck' \in {stuck, StuckToo(l)}
    /\ UNCHANGED <<mainVars, members, kv, leaked, queueVars, broken, inbox, answering, sessVars,
                   ring, linkVars>>

\* A member refuses to reset the session, or to destroy that of a client that left.
ResetRefused(l) ==
    /\ \/ Goes(l, "reset", "verify")
       \/ Goes(l, "left", "verifyFree") /\ ~broken
    /\ CallOK /\ l \in stuck
    /\ UNCHANGED <<mainVars, routeVars, queueVars, broken, inbox, answering, sessVars, ring,
                   linkVars>>

\* A member call throws for want of a reply: members_fine asks every member.  In
\* the middle of a stream the call is the cancellation of a client that cancelled
\* or is gone; one that is answered only brings AnswerEnds forward.
RequestThrows(l) ==
    /\ \/ req[l] \in {"start", "commit", "reset"} /\ CallThrows
       \/ req[l] = "left" /\ ~broken /\ CallThrows
       \/ req[l] = "stream" /\ l \in answering /\ members \notin {"up", "cut"} /\ UNCHANGED members
    /\ req' = [req EXCEPT ![l] = IF @ = "left" THEN "verifyFree" ELSE "verify"]
    /\ UNCHANGED <<mainVars, kv, stuck, leaked, queueVars, broken, inbox, answering, sessVars, ring,
                   linkVars>>

\* They all answer: after a refused commit the session is to start over, another
\* error is passed on, and a session whose client left is given up.
RequestRefused(l) ==
    /\ CallOK
    /\ \/ Goes(l, "verify", "post") /\ UNCHANGED <<kv, leaked>>
       \/ Goes(l, "verifyCommit", "reset") /\ UNCHANGED <<kv, leaked>>
       \/ Goes(l, "verifyFree", "freed") /\ GivenUp(l)
    /\ UNCHANGED <<mainVars, members, stuck, queueVars, broken, inbox, answering, sessVars, ring,
                   linkVars>>

\* One does not: fail() records it ...
RequestFails(l) ==
    /\ \/ Goes(l, "verify", "failClose")
       \/ Goes(l, "verifyCommit", "failClose")
       \/ Goes(l, "verifyFree", "failFree")
    /\ CallThrows /\ broken' = TRUE
    /\ UNCHANGED <<mainVars, kv, stuck, leaked, queueVars, inbox, answering, sessVars, ring,
                   linkVars>>

\* ... and closes the inboxes.
RequestCloses(l) ==
    /\ \/ Goes(l, "failClose", "post")
       \/ Goes(l, "failFree", "done")
    /\ inbox' = ClosedInboxes
    /\ UNCHANGED <<mainVars, routeVars, queueVars, broken, answering, sessVars, ring, linkVars>>

\* run_request returned: the inbox is unregistered and the client answered.
PostAnswer(l) ==
    /\ Goes(l, "post", "unbusy") /\ inbox' = [inbox EXCEPT ![l] = "none"] /\ Replied(l)
    /\ UNCHANGED <<mainVars, routeVars, queueVars, broken, answering, sessVars, ring, rd, gone,
                   closing, links>>
\* Variant of Unbusy that leaves the session to the cleanup job.
UnbusyOnly(l) ==
    /\ Goes(l, "unbusy", "done") /\ sess' = [sess EXCEPT ![l] = "idle"]
    /\ UNCHANGED <<mainVars, routeVars, queueVars, broken, inbox, answering, inUse, ring,
                   linkVars>>

\* Under sessions_mutex_: the session is idle again, or, with its client gone,
\* no longer the connection's.
Unbusy(l) ==
    /\ Goes(l, "unbusy", IF l \in gone THEN "left" ELSE "done")
    /\ sess' = [sess EXCEPT ![l] = IF l \in gone THEN "none" ELSE "idle"]
    /\ UNCHANGED <<mainVars, routeVars, queueVars, broken, inbox, answering, inUse, ring,
                   linkVars>>

LeaveBroken(l) ==
    /\ Goes(l, "left", "done") /\ broken
    /\ UNCHANGED <<mainVars, routeVars, queueVars, broken, inbox, answering, sessVars, ring,
                   linkVars>>

FreeSession(l) ==
    /\ Goes(l, "left", "freed") /\ ~broken /\ CallOK /\ l \notin stuck /\ kv' = kv \ {l}
    /\ UNCHANGED <<mainVars, members, stuck, leaked, queueVars, broken, inbox, answering, sessVars,
                   ring, linkVars>>

Freed(l) ==
    /\ Goes(l, "freed", "done") /\ CountDown
    /\ UNCHANGED <<mainVars, routeVars, queueVars, broken, inbox, answering, sess, ring,
                   linkVars>>

-----------------------------------------------------------------------------
(***************************************************************************)
(* Front door: accept_clients, read_client, write_client                   *)
(***************************************************************************)
Accept(l) ==
    /\ rd[l] = "none" /\ l \in setup.clients
    /\ rd' = [rd EXCEPT ![l] = "recv"] /\ links' = links \cup {l}
    /\ UNCHANGED <<mainVars, routeVars, queueVars, broken, reqVars, sessVars, ring, asked,
                   gone, closing>>

\* A frame arrives and ready_ is set (otherwise "replica_not_ready" answers it).
ReadCommand(l, kind) ==
    /\ rd[l] = "recv" /\ asked[l] = "none" /\ l \notin gone /\ ready
    /\ rd' = [rd EXCEPT ![l] = "push"] /\ asked' = [asked EXCEPT ![l] = kind]
    /\ UNCHANGED <<mainVars, routeVars, queueVars, broken, reqVars, sessVars, ring, gone,
                   closing, links>>

PushCommand(l) ==
    /\ rd[l] = "push" /\ jobs' = Append(jobs, [kind |-> asked[l], link |-> l])
    /\ rd' = [rd EXCEPT ![l] = "recv"] /\ asked' = [asked EXCEPT ![l] = "sent"]
    /\ UNCHANGED <<mainVars, routeVars, ready, pending, broken, reqVars, sessVars, ring, gone,
                   closing, links>>

\* post drops a client that cannot keep up, or write_client cannot send to it.
DropClient(l) ==
    /\ rd[l] \in {"recv", "push"} /\ l \notin gone
    /\ gone' = gone \cup {l} /\ closing' = closing \ {l}
    /\ UNCHANGED <<mainVars, routeVars, queueVars, broken, reqVars, sessVars, ring, rd, asked,
                   links>>

\* recv_frame fails: the client left, was dropped, or was closed by the owner.
ReaderEnds(l) ==
    /\ rd[l] = "recv" /\ rd' = [rd EXCEPT ![l] = "bye"]
    /\ gone' = gone \cup {l} /\ closing' = closing \ {l}
    /\ asked' = [asked EXCEPT ![l] = "none"]
    /\ UNCHANGED <<mainVars, routeVars, queueVars, broken, reqVars, sessVars, ring, links>>

PushCleanup(l) ==
    /\ rd[l] = "bye" /\ jobs' = Append(jobs, [kind |-> "cleanup", link |-> l])
    /\ rd' = [rd EXCEPT ![l] = "ended"]
    /\ UNCHANGED <<mainVars, routeVars, ready, pending, broken, reqVars, sessVars, ring, asked,
                   gone, closing, links>>

-----------------------------------------------------------------------------
MainThread ==
    \/ Form \/ ClearJobs \/ OpenDoor \/ WakeBroken \/ WakeJob \/ WakeIdle
    \/ Healthy \/ Unhealthy \/ GiveWay
    \/ Refuse \/ CreateSession \/ CreateRefused \/ CreateThrows \/ Created \/ ResetOrPrepare \/ PrepareThrows
    \/ DestroySession \/ Destroyed \/ CleanupErases \/ CleanupDestroys \/ Cleaned
    \/ CommandThrows \/ CommandRefused \/ MainFails \/ MainCloses \/ QueueRequest
    \/ ShutDoor \/ DissolveClears \/ DissolveFails \/ AbortMembers \/ ReleaseRoute \/ TellClients

RequestThread(l) ==
    \/ RegisterInbox(l) \/ CheckBroken(l) \/ StartStream(l) \/ StartRefused(l)
    \/ LastToken(l) \/ ErrorFrame(l) \/ InboxClosed(l) \/ StreamTimesOut(l)
    \/ EndRequest(l) \/ CommitRefused(l) \/ ResetRefused(l) \/ RequestThrows(l)
    \/ RequestRefused(l) \/ RequestFails(l)
    \/ RequestCloses(l) \/ PostAnswer(l) \/ Unbusy(l) \/ LeaveBroken(l)
    \/ FreeSession(l) \/ Freed(l)

RingReader == RingThrows \/ RingStops

ClientReader(l) == PushCommand(l) \/ PushCleanup(l)

Client(l) ==
    \/ Accept(l) \/ DropClient(l) \/ ReaderEnds(l)
    \/ \E kind \in setup.commands : ReadCommand(l, kind)

Next ==
    \/ MainThread \/ RingReader \/ MemberFails \/ LinkFails
    \/ \E l \in Link : RequestThread(l) \/ ClientReader(l) \/ Client(l) \/ AnswerEnds(l)

Spec == Init /\ [][Next /\ UNCHANGED setup]_<<vars, setup>>

\* Every thread runs, and an answer has a token budget, but is lost with a link of
\* the ring.  Clients, cancellations and failures need not happen, nor does the
\* reader notice one behind the tail; a connection that the owner closed does end.
FairSpec ==
    /\ Spec
    /\ WF_vars(MainThread) /\ WF_vars(RingReader /\ (ring = "failClose" \/ members = "aborted"))
    /\ \A l \in Link :
        /\ WF_vars(RequestThread(l)) /\ WF_vars(ClientReader(l))
        /\ WF_vars(AnswerEnds(l) /\ (members = "cut" => setup.oneStage))
        /\ WF_vars(ReaderEnds(l) /\ l \in gone \cup closing)

-----------------------------------------------------------------------------
(***************************************************************************)
(* Properties                                                              *)
(***************************************************************************)
\* Sessions that exist on the members but are not counted yet, or are counted
\* but destroyed or given up.
Uncounted == IF main = "created" THEN 1 ELSE 0
Overcounted ==
    Cardinality({l \in Link : req[l] = "freed"})
        + (IF main \in {"destroyed", "cleaned"} THEN 1 ELSE 0)

\* While a replica serves, sessions_in_use_ is the number of sessions its members
\* hold, but for those a member refused to destroy: a session is counted once and
\* taken from the count once, on every path and by whichever thread.
Accounted ==
    ready /\ main \notin {"clear", "open"} =>
        /\ Cardinality(kv) + Overcounted = inUse + Uncounted
        /\ Cardinality(kv) <= MaxSessions

\* Someone will still look at connection l's session: its reader, a request on
\* it, or its cleanup.
InHand(l) ==
    \/ rd[l] # "ended" \/ req[l] \notin {"none", "done"}
    \/ \E i \in DOMAIN pending : pending[i] = l
    \/ \E i \in DOMAIN jobs : jobs[i].kind = "cleanup" /\ jobs[i].link = l
    \/ Executes("cleanup") /\ job.link = l

\* A session on the members always has someone who will free it: the connection
\* that owns it while that is in somebody's hands, the main thread in the middle
\* of a job, or the request thread of a client that left.  The exception is one
\* that a member refused to destroy, which nobody tries again.
NoOrphans ==
    ready /\ ~broken =>
        /\ \A l \in kv :
            \/ sess[l] # "none" /\ InHand(l)
            \/ main \in {"created", "cleanup", "verify"} /\ job.link = l
            \/ req[l] \in {"left", "verifyFree"}
            \/ main = "dissolve"
        /\ leaked \subseteq stuck

\* A running request keeps its SessionState: nothing erases or reuses the entry
\* its thread points to, and the connections it calls are not destroyed under it.
RequestSafe ==
    \A l \in Link :
        /\ req[l] \in {"register", "check", "start", "stream", "commit", "reset",
                       "verify", "verifyCommit", "failClose", "post", "unbusy"} => sess[l] = "busy"
        /\ req[l] \notin {"none", "done"} => members # "none"

\* The replica dissolves, other than to give way, only when a member or a link
\* failed, a call timed out behind an answer of one worker, or a session is to be
\* created on members that hold one they refused to destroy.  No client that
\* leaves at any moment, no other error of a session and no count that went wrong
\* ends it.
DissolvesOnFailure ==
    main = "dissolve" =>
        \/ members \in {"cut", "down"}
        \/ members = "desync" /\ setup.oneStage /\ setup.longAnswers
        \/ job.kind = "create" /\ leaked # {}

\* What the code says of the same: a replica serves until a member fails, and
\* creating a session on a linked route only fails when the route broke.  Neither
\* is so.
ServesUntilFailure == main = "dissolve" => members \in {"cut", "down"}
CreateMeansBroken == main = "dissolve" /\ job.kind = "create" => members # "up"

\* A client that waits for the answer to each command is never told that a
\* request is already running on its session.  The code does not keep this: the
\* answer is posted before busy is cleared.
NeverToldBusy ==
    Executes("request") /\ job.link \notin gone \cup closing => sess[job.link] # "busy"

\* Every command is answered, or its connection is closed: with the dissolution's
\* notice, or because the client left.
Answered ==
    \A l \in Link : asked[l] # "none" ~> asked[l] = "none" \/ l \in gone \cup closing

\* What a client that left held on the members is freed, also when its request
\* was queued or running at that moment, unless a member refuses.
GoneFreed == \A l \in Link : l \in gone ~> l \notin kv /\ (l \in leaked => l \in stuck)

=============================================================================
