----------------------------- MODULE Scheduler ------------------------------
(***************************************************************************)
(* The coordinator's Scheduler (engine/coordinator.cpp): handler threads   *)
(* in submit and cancel, the executor thread that runs one job at a time   *)
(* on the replica and reforms it after a failure, and stop().              *)
(*                                                                         *)
(* A job is one call of submit; its completion is a promise that one of    *)
(* the threads sets and the handler waits for.  Who may set it is decided  *)
(* by compare_exchange on the job's state.  A step is what a thread does   *)
(* in one critical section; settling a job, erasing it from pending_ and   *)
(* setting its promise are three steps, except in cancel(), which settles  *)
(* and erases under the lock of pending_.                                  *)
(***************************************************************************)
EXTENDS FairQueue, FiniteSets

CONSTANTS
    Generate,   \* the items that are generate jobs; others create, reset or
                \* destroy a session
    Key,        \* RequestKey: session and request id
    KeyOf,      \* the key of each generate job
    TurnOf      \* fairness key of each job: its session, or its request id

NoJob == "no job"

ASSUME SchedulerConstants ==
    /\ Generate \subseteq Item
    /\ NoJob \notin Item
    /\ KeyOf \in [Generate -> Key]
    /\ TurnOf \in [Item -> Turn]

VARIABLES
    q,           \* queue_
    pending,     \* pending_
    sub,         \* each job's submit
    state,       \* Job::state
    late,        \* jobs whose deadline has passed
    promise,     \* Job::completion
    canceller,   \* the thread in cancel() that won the job
    ex,          \* executor thread
    cur,         \* the job it has
    batch,       \* jobs fail_pending drained
    stopper,     \* stop()
    stopJob,     \* the job it has
    stopBatch,   \* jobs it drained
    unavailable, \* unavailable_
    stopping,    \* stopping_
    recover,     \* recover_: reform the replica after a failure
    passed       \* for each key with items, the keys served while it waited

jobVars == <<pending, sub, state, promise, canceller>>
exVars  == <<ex, cur, batch, unavailable>>
stVars  == <<stopper, stopJob, stopBatch, stopping>>
vars    == <<q, passed, late, jobVars, exVars, stVars, recover>>

TypeOK ==
    /\ q \in Queues
    /\ pending \in [Key -> Generate \cup {NoJob}]
    /\ sub \in [Item -> {"idle", "register", "push", "full", "refused", "wait", "get",
                     "returned"}]
    /\ state \in [Item -> {"queued", "active", "done", "cancelled"}]
    /\ late \subseteq Item
    /\ promise \in [Item -> {"none", "set", "set twice"}]
    /\ canceller \in [Item -> {"none", "remove", "resolve"}]
    /\ ex \in {"loop", "pop", "got", "run", "settle", "erase", "resolve", "drain", "fail",
               "failErase", "failResolve", "recover", "exit"}
    /\ cur \in Item \cup {NoJob} /\ batch \subseteq Item
    /\ stopper \in {"idle", "close", "fail", "erase", "resolve", "stopped"}
    /\ stopJob \in Item \cup {NoJob} /\ stopBatch \subseteq Item
    /\ unavailable \in BOOLEAN /\ stopping \in BOOLEAN /\ recover \in BOOLEAN
    /\ passed \in [Turn -> SUBSET Turn]

Init ==
    /\ q \in {EmptyQueue(n) : n \in Capacity}
    /\ pending = [k \in Key |-> NoJob]
    /\ sub = [j \in Item |-> "idle"]
    /\ state = [j \in Item |-> "queued"]
    /\ late = {} /\ promise = [j \in Item |-> "none"]
    /\ canceller = [j \in Item |-> "none"]
    /\ ex = "loop" /\ cur = NoJob /\ batch = {}
    /\ stopper = "idle" /\ stopJob = NoJob /\ stopBatch = {}
    /\ unavailable = FALSE /\ stopping = FALSE /\ recover \in BOOLEAN
    /\ passed = [k \in Turn |-> {}]

\* erase_pending: by key, generate jobs only.
ErasePending(j) ==
    pending' = IF j \in Generate THEN [pending EXCEPT ![KeyOf[j]] = NoJob] ELSE pending

\* set_value on the promise, which throws the second time.
SetValue(j) ==
    promise' = [promise EXCEPT ![j] = IF @ = "none" THEN "set" ELSE "set twice"]

-----------------------------------------------------------------------------
(***************************************************************************)
(* Handler threads: submit                                                 *)
(***************************************************************************)
Goto(j, from, to) ==
    /\ sub[j] = from
    /\ sub' = [sub EXCEPT ![j] = to]

\* A frame arrives and submit reads unavailable_ and stopping_.
SubmitChecks(j) ==
    /\ IF unavailable \/ stopping THEN Goto(j, "idle", "returned")
       ELSE Goto(j, "idle", IF j \in Generate THEN "register" ELSE "push")
    /\ UNCHANGED <<q, passed, late, pending, state, promise, canceller, exVars, stVars>>

\* A generate job is registered under its key, unless another one has it
\* (duplicate_request).
SubmitRegisters(j) ==
    /\ \/ /\ Goto(j, "register", "returned") /\ pending[KeyOf[j]] # NoJob
          /\ UNCHANGED pending
       \/ /\ Goto(j, "register", "push") /\ pending[KeyOf[j]] = NoJob
          /\ pending' = [pending EXCEPT ![KeyOf[j]] = j]
    /\ UNCHANGED <<q, passed, late, state, promise, canceller, exVars, stVars>>

SubmitPushes(j) ==
    /\ \/ CanPush(q) /\ q' = Push(q, TurnOf[j], j) /\ Goto(j, "push", "wait")
       \/ ~CanPush(q) /\ Goto(j, "push", "full") /\ UNCHANGED q
    /\ UNCHANGED <<passed, late, pending, state, promise, canceller, exVars, stVars>>

\* The queue was full or closed (queue_full).
SubmitFull(j) ==
    /\ Goto(j, "full", "refused") /\ ErasePending(j)
    /\ UNCHANGED <<q, passed, late, state, promise, canceller, exVars, stVars>>

\* cancel(), up to the end of its first critical section, for the job that has
\* key k now.  A queued job is this thread's from here on; an active one is
\* asked to stop, which only makes it end sooner.
Cancels(k) ==
    LET j == pending[k]
    IN  \/ /\ j \in {i \in Item : state[i] = "queued"}
           /\ state' = [state EXCEPT ![j] = "cancelled"]
           /\ pending' = [pending EXCEPT ![k] = NoJob]
           /\ canceller' = [canceller EXCEPT ![j] = "remove"]
        \/ /\ j \notin {i \in Item : state[i] = "queued"}
           /\ UNCHANGED <<state, pending, canceller>>

\* submit stops waiting for a generate job when its deadline has passed.
SubmitTimesOut(j) ==
    /\ j \in Generate /\ j \in late /\ promise[j] = "none"
    /\ Goto(j, "wait", "get") /\ Cancels(KeyOf[j])
    /\ UNCHANGED <<q, passed, late, promise, exVars, stVars>>

\* future.get()
SubmitReturns(j) ==
    /\ promise[j] # "none"
    /\ Goto(j, "wait", "returned") \/ Goto(j, "get", "returned")
    /\ late' = late \ {j}
    /\ UNCHANGED <<q, passed, pending, state, promise, canceller, exVars, stVars>>

\* Another client, or another connection of the same one, cancels a request.
ClientCancels(k) ==
    /\ pending[k] # NoJob /\ Cancels(k)
    /\ UNCHANGED <<q, passed, late, sub, promise, exVars, stVars>>

\* The rest of cancel(): the job is taken out of the queue, ...
CancelRemoves(j) ==
    /\ canceller[j] = "remove"
    /\ q' = Remove(q, TurnOf[j], j)
    /\ passed' = [k \in Turn |-> IF q'.queues[k] = <<>> THEN {} ELSE passed[k]]
    /\ canceller' = [canceller EXCEPT ![j] = "resolve"]
    /\ UNCHANGED <<late, pending, sub, state, promise, exVars, stVars>>

\* ... and its submit answered.
CancelResolves(j) ==
    /\ canceller[j] = "resolve"
    /\ canceller' = [canceller EXCEPT ![j] = "none"]
    /\ SetValue(j)
    /\ UNCHANGED <<q, passed, late, pending, sub, state, exVars, stVars>>

\* Time passes: the deadline of a job that was submitted.
Expire(j) ==
    /\ sub[j] = "wait" /\ j \notin late
    /\ late' = late \cup {j}
    /\ UNCHANGED <<q, passed, jobVars, exVars, stVars>>

-----------------------------------------------------------------------------
(***************************************************************************)
(* Executor thread                                                         *)
(***************************************************************************)
ExLoop ==
    /\ ex = "loop"
    /\ ex' = IF stopping THEN "exit" ELSE "pop"
    /\ UNCHANGED <<q, passed, late, jobVars, cur, batch, unavailable, stVars>>

\* pop_for returns a job.
ExPops ==
    /\ ex = "pop" /\ CanPop(q)
    /\ LET turn == q.ready[NextTurn(q)]
       IN  /\ cur' = Popped(q) /\ q' = Pop(q)
           /\ passed' = [k \in Turn |-> IF k = turn \/ q.queues[k] = <<>> THEN {}
                                        ELSE passed[k] \cup {turn}]
    /\ ex' = "got"
    /\ UNCHANGED <<late, jobVars, batch, unavailable, stVars>>

\* pop_for returns nothing, after 2 s or because the queue is closed; then the
\* heartbeat is answered, or it throws.
ExIdles ==
    /\ ex = "pop" /\ ~CanPop(q)
    /\ q' = [q EXCEPT !.ready = <<>>]
    /\ \/ stopping /\ ex' = "exit" /\ UNCHANGED unavailable
       \/ ~stopping /\ ex' = "loop" /\ UNCHANGED unavailable
       \/ ~stopping /\ ex' = "drain" /\ unavailable' = TRUE
    /\ UNCHANGED <<passed, late, jobVars, cur, batch, stVars>>

\* The job was cancelled after it was popped.
ExSkips ==
    /\ ex = "got" /\ state[cur] # "queued"
    /\ ex' = "loop" /\ cur' = NoJob
    /\ UNCHANGED <<q, passed, late, jobVars, batch, unavailable, stVars>>

\* A variant: an expired job keeps its request id.
ExExpiresKeeps ==
    /\ ex = "got" /\ state[cur] = "queued" /\ cur \in late
    /\ state' = [state EXCEPT ![cur] = "cancelled"]
    /\ ex' = "resolve"
    /\ UNCHANGED <<q, passed, late, pending, sub, promise, canceller, cur, batch, unavailable,
                   stVars>>

\* Its deadline passed while it was queued.
ExExpires ==
    /\ ex = "got" /\ state[cur] = "queued" /\ cur \in late
    /\ state' = [state EXCEPT ![cur] = "cancelled"]
    /\ ex' = "erase"
    /\ UNCHANGED <<q, passed, late, pending, sub, promise, canceller, cur,
                   batch, unavailable, stVars>>

ExRuns ==
    /\ ex = "got" /\ state[cur] = "queued" /\ cur \notin late
    /\ state' = [state EXCEPT ![cur] = "active"]
    /\ ex' = "run"
    /\ UNCHANGED <<q, passed, late, pending, sub, promise, canceller,
                   cur, batch, unavailable, stVars>>

\* Replica::run returns or refuses (ClientError), or it throws: the replica is
\* lost.
ExResult ==
    /\ ex = "run" /\ ex' = "settle"
    /\ unavailable' \in BOOLEAN
    /\ UNCHANGED <<q, passed, late, jobVars, cur, batch, stVars>>

\* complete()
ExSettles ==
    /\ ex = "settle" /\ ex' = "erase"
    /\ state' = [state EXCEPT ![cur] = "done"]
    /\ UNCHANGED <<q, passed, late, pending, sub, promise, canceller, cur,
                   batch, unavailable, stVars>>

\* erase_pending, for a job that ran or that expired.
ExErases ==
    /\ ex = "erase" /\ ex' = "resolve"
    /\ ErasePending(cur)
    /\ UNCHANGED <<q, passed, late, sub, state, promise, canceller, cur,
                   batch, unavailable, stVars>>

\* The promise is set; after a failure every queued job fails.
ExResolves ==
    /\ ex = "resolve"
    /\ SetValue(cur)
    /\ ex' = IF unavailable THEN "drain" ELSE "loop"
    /\ cur' = NoJob
    /\ UNCHANGED <<q, passed, late, pending, sub, state, canceller, batch,
                   unavailable, stVars>>

\* A variant: without recovery the queue stays open for jobs nobody will run.
ExDrainsOnly ==
    /\ ex = "drain" /\ ex' = "fail"
    /\ batch' = Items(q) /\ q' = Drain(q, FALSE) /\ passed' = [k \in Turn |-> {}]
    /\ UNCHANGED <<late, jobVars, cur, unavailable, stVars>>

\* fail_pending: the queue is drained, for good if the replica is not reformed.
ExDrains ==
    /\ ex = "drain" /\ ex' = "fail"
    /\ batch' = Items(q) /\ q' = Drain(q, ~recover) /\ passed' = [k \in Turn |-> {}]
    /\ UNCHANGED <<late, jobVars, cur, unavailable, stVars>>

\* Each job in it that is still queued fails.
ExFails(j) ==
    /\ ex = "fail" /\ j \in batch
    /\ batch' = batch \ {j}
    /\ \/ /\ state[j] = "queued"
          /\ state' = [state EXCEPT ![j] = "cancelled"]
          /\ ex' = "failErase" /\ cur' = j
       \/ state[j] # "queued" /\ UNCHANGED <<state, ex, cur>>
    /\ UNCHANGED <<q, passed, late, pending, sub, promise, canceller,
                   unavailable, stVars>>

ExFailErases ==
    /\ ex = "failErase" /\ ex' = "failResolve"
    /\ ErasePending(cur)
    /\ UNCHANGED <<q, passed, late, sub, state, promise, canceller, cur,
                   batch, unavailable, stVars>>

ExFailResolves ==
    /\ ex = "failResolve" /\ ex' = "fail" /\ cur' = NoJob
    /\ SetValue(cur)
    /\ UNCHANGED <<q, passed, late, pending, sub, state, canceller, batch,
                   unavailable, stVars>>

ExFailed ==
    /\ ex = "fail" /\ batch = {}
    /\ ex' = IF recover THEN "recover" ELSE "exit"
    /\ UNCHANGED <<q, passed, late, jobVars, cur, batch, unavailable, stVars>>

\* recover(): a new replica is formed, or stop() was called.
ExReforms ==
    /\ ex = "recover" /\ ~stopping
    /\ ex' = "loop" /\ unavailable' = FALSE
    /\ UNCHANGED <<q, passed, late, jobVars, cur, batch, stVars>>

ExGivesUp ==
    /\ ex = "recover" /\ stopping /\ ex' = "exit"
    /\ UNCHANGED <<q, passed, late, jobVars, cur, batch, unavailable, stVars>>

-----------------------------------------------------------------------------
(***************************************************************************)
(* stop()                                                                  *)
(***************************************************************************)
StopStarts ==
    /\ stopper = "idle" /\ stopper' = "close" /\ stopping' = TRUE
    /\ UNCHANGED <<q, passed, late, jobVars, exVars, stopJob, stopBatch>>

StopCloses ==
    /\ stopper = "close" /\ stopper' = "fail"
    /\ stopBatch' = Items(q) /\ q' = Drain(q, TRUE) /\ passed' = [k \in Turn |-> {}]
    /\ UNCHANGED <<late, jobVars, exVars, stopJob, stopping>>

StopSettles(j) ==
    /\ stopper = "fail" /\ j \in stopBatch
    /\ stopBatch' = stopBatch \ {j}
    /\ \/ /\ state[j] = "queued"
          /\ state' = [state EXCEPT ![j] = "cancelled"]
          /\ stopper' = "erase" /\ stopJob' = j
       \/ state[j] # "queued" /\ UNCHANGED <<state, stopper, stopJob>>
    /\ UNCHANGED <<q, passed, late, pending, sub, promise, canceller, exVars,
                   stopping>>

StopErases ==
    /\ stopper = "erase" /\ stopper' = "resolve"
    /\ ErasePending(stopJob)
    /\ UNCHANGED <<q, passed, late, sub, state, promise, canceller, exVars,
                   stopJob, stopBatch, stopping>>

StopResolves ==
    /\ stopper = "resolve" /\ stopper' = "fail" /\ stopJob' = NoJob
    /\ SetValue(stopJob)
    /\ UNCHANGED <<q, passed, late, pending, sub, state, canceller, exVars,
                   stopBatch, stopping>>

\* The executor is joined.
StopJoins ==
    /\ stopper = "fail" /\ stopBatch = {} /\ ex = "exit" /\ stopper' = "stopped"
    /\ UNCHANGED <<q, passed, late, jobVars, exVars, stopJob, stopBatch, stopping>>

-----------------------------------------------------------------------------
Submit(j) ==
    \/ SubmitRegisters(j) \/ SubmitPushes(j) \/ SubmitFull(j) \/ SubmitTimesOut(j)
    \/ SubmitReturns(j)

\* A handler thread takes one frame of its client at a time: it submits the job,
\* waits for its completion and sends the answer.
HandleClient(j) == SubmitChecks(j) \/ Submit(j)

Cancel(j) == CancelRemoves(j) \/ CancelResolves(j)

Executor ==
    \/ ExLoop \/ ExPops \/ ExIdles \/ ExSkips \/ ExExpires \/ ExRuns \/ ExResult \/ ExSettles
    \/ ExErases \/ ExResolves \/ ExDrains \/ (\E j \in Item : ExFails(j)) \/ ExFailErases
    \/ ExFailResolves \/ ExFailed \/ ExGivesUp

Stop ==
    \/ StopCloses \/ (\E j \in Item : StopSettles(j)) \/ StopErases \/ StopResolves
    \/ StopJoins

Next ==
    /\ \/ \E j \in Item : HandleClient(j) \/ Cancel(j) \/ Expire(j)
       \/ \E k \in Key : ClientCancels(k)
       \/ Executor \/ ExReforms
       \/ StopStarts \/ Stop
    /\ UNCHANGED recover

Spec == Init /\ [][Next]_vars

-----------------------------------------------------------------------------
(***************************************************************************)
(* Properties                                                              *)
(***************************************************************************)
\* "The queue stores a FIFO per session and round-robins ready sessions": while
\* a key has a job in the queue, no other key is served twice before it,
\* whatever is cancelled and pushed again meanwhile.
TurnsTaken ==
    [][\A k \in Turn : ex = "pop" /\ ex' = "got" /\ q.queues[k] # <<>> =>
          TurnOf[cur'] \notin passed[k]]_vars

\* A request is open: it waits for its turn or runs, or the thread that settled
\* it is about to erase it.
Open(j) ==
    /\ sub[j] \in {"push", "full", "wait", "get"}
    /\ \/ state[j] \in {"queued", "active"}
       \/ cur = j /\ ex \in {"erase", "failErase"}
       \/ stopJob = j /\ stopper = "erase"

\* The entry of a job may have been erased for another one with its key, which
\* was cancelled before it was pushed and then found the queue full: submit
\* erases by key what is the entry of the retry by then.
Robbed(j) ==
    \E i \in Generate \ {j} :
        KeyOf[i] = KeyOf[j] /\ sub[i] = "refused" /\ state[i] = "cancelled"

\* pending_ holds the open requests and no others.  A settled job stays only
\* until the thread that settled it erases it, and is erased before its promise is
\* set: a client that has its answer is never refused as a duplicate of it.  And
\* no entry goes too early: an open request can be cancelled, and a second one
\* with its id is refused, unless it was robbed.
PendingExact ==
    \A j \in Generate :
        /\ \A k \in Key : pending[k] = j => KeyOf[j] = k /\ Open(j) /\ promise[j] = "none"
        /\ Open(j) => pending[KeyOf[j]] = j \/ Robbed(j)

\* Not so: no entry of an open request is ever erased by another one.
NeverRobbed == \A j \in Generate : Open(j) => pending[KeyOf[j]] = j

\* Every job is resolved exactly once.  No promise is set a second time, which
\* would throw in the executor and be taken for a provider failure; the executor
\* runs no job that another thread settled; and no job is lost: while submit waits
\* for a promise that is not set, the job is in the queue of an executor that runs
\* or of a stop() that will drain it, or a thread has it and will set the promise.
NoLostJob ==
    /\ ex \in {"run", "settle"} => state[cur] = "active" /\ promise[cur] = "none"
    /\ \A j \in Item : promise[j] # "set twice"
    /\ \A j \in Item : sub[j] \in {"wait", "get"} /\ promise[j] = "none" =>
        \/ state[j] = "queued" /\ j \in Items(q) /\ (ex # "exit" \/ stopper = "close")
        \/ state[j] = "queued" /\ (j \in batch \cup stopBatch \/ (cur = j /\ ex = "got"))
        \/ state[j] = "active" /\ cur = j /\ ex \in {"run", "settle"}
        \/ state[j] = "done" /\ cur = j /\ ex \in {"erase", "resolve"}
        \/ state[j] = "cancelled" /\ \/ cur = j /\ ex \in {"erase", "resolve", "failErase",
                                                         "failResolve"}
                                     \/ stopJob = j
                                     \/ canceller[j] # "none"
=============================================================================
