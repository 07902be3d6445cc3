# DAN in TLA+

This directory holds TLA+ models of DAN, a system in which several providers
each keep a range of a language model's layers on their GPU and together answer
prompts. The models are about what is hard to test in DAN: threads that share a
lease, sockets, sessions and queues; requests that travel along several stages
and fail at any of them; clients that compete for workers; files that survive a
kill; and planners whose shortcuts must not lose the best plan. Each module is a
translation of the source; `PROJECT.json` maps every definition to its lines.

## 1. The system

| component | state it keeps | operations | talks to | what makes it correct |
|---|---|---|---|---|
| **Worker lease and control connections** (`engine/stage_worker.cpp` `run_serve_mode`, `serve_connection`, `load_assigned_stage`; `lease.hpp`) | lease (state, route, stage, deadline), loaded stage, connection counters | accept, header line, reserve, release, assign, load, serve, close | clients over control connections; the sidecar supplies PeerIDs | one user at a time, no orphaned lease, the GPU holds what was leased, limits exact, a silent client blocks nothing for ever |
| **Ring and loop connections** (`RingState`, `bind_route`, `run_ring`, `continue_loop`, `release_route`) | next, loop, target, generation, expected predecessor, sessions, streams | bind, background dial, accept predecessor, compute, stream, loop, release | control thread, ring thread, detached dial threads, neighbouring workers | a route starts clean; frames, sessions and connections are the current route's |
| **Stage sessions and KV** (`Stage` in `stage_worker.cpp`) | per session: cache, position, open request | create, prepare_chat, begin, prefill, decode, verify a batch, commit, cancel, roll back, reset, destroy | control and ring threads | every stage holds the same tokens |
| **Client decode protocol** (`client.cpp`, `dan_client.cpp`, `run_request` of `replica_owner.cpp`) | request, position, budget, pending output | generate over hub, ring, loop and owner routes; prepare, reset, destroy, cancel | every stage of a route | the plain greedy answer, within the budget, always, and nothing left on the ring |
| **Speculative decoding** (`speculation.hpp`, `stage_worker.cpp`, `generate_pipelined` of `coordinator.cpp`) | draft, chunks in flight, epoch | draft, send, relay, accept or correct | first and last stage | same tokens as without it; replies go with their chunks |
| **Replica owner** (`engine/replica_owner.cpp`) | ready, broken, jobs, pending, requests, inboxes, sessions, count, links | form, serve, execute, request thread, ring reader, client reader, dissolve | member workers, ring, clients | counts match members, nothing orphaned, no use after free, every command is answered |
| **Planner** (`planner.cpp`, `search.cpp`, parts of `placement.cpp`) | none | split layers, search groups and orders, reuse cached layers, choose context | placement, owner, coordinator | complete search is exact, bounds skip nothing, cached plans are nearly as fast |
| **Placement and selection** (`placement.cpp`, `selection.cpp`, `dan_client.cpp`) | a client's grants | discover, pick, greet, reserve all, load, release | workers' leases, replicas | all or nothing, no waiting for each other, everything freed |
| **Range cache** (`range_model.cpp`) | sparse file, progress record, marker | check, reuse, resume, download, publish, replace | disk | nothing half-downloaded looks whole; restarts recover |
| **Coordinator: scheduler** (`coordinator.cpp` `Scheduler`, `fair_queue.hpp`) | per-key queues, turn list, pending, jobs | submit, cancel, execute, recover, stop | handler threads, replica | turns between sessions, no job lost, promises set once |
| **Coordinator: formation** (`coordinator.cpp` `form_replica`, `Replica`; `stage_worker.cpp` coordinator mode) | registered providers, stages, sessions | accept, hello, assign, ready, control every stage, reform | providers | what serves is whole, stages agree, service comes back |
| **API gateway** (`sidecar/cmd/dan-api-gateway`) | client process, turn, pins; table of sessions | chat (local), chat (coordinator), sweep, destroy, shut down | dan-client processes, coordinators | one process, no one else's text, sessions match histories and are destroyed |
| Idle upgrades (`upgrade.hpp`) | better plan seen | decide to give way | owner | a step of `ReplicaOwner` |
| Wire protocol, provider launcher, sidecar, legacy runtime, UI, platform | processes, streams | encode, supervise, relay, display | all | not modelled, section 6 |

**How they interact.** A client plans a route, reserves every worker of it,
assigns stages (the worker downloads and loads its layer range) and creates a
session on each. On a *hub* route every stage answers the client; on a *ring*
stages hand their output to each other; in *loop mode* the last stage also feeds
each token back to the first. A *replica owner* is a client that keeps such a
route alive and serves other clients on it. A *coordinator* is the older form:
providers connect to it, it forms a replica from them and schedules requests.
The *gateway* offers either as an HTTP API.

**What is hard.** Connection threads competing for one lease with a deadline
that only a later call notices; detached dial threads that outlive the route
they were started for; a client leaving while its request is queued, running or
being answered; speculation, cancellation, end of text and budget meeting in one
batch; an error half way along a ring; relay threads pairing replies by counters;
two clients holding half of the workers each; a kill between two file
operations; a provider lost between two waits of a formation; a call that is
handled after its sender gave up. `PROJECT.json` lists these as hazards, each at
its line, with the properties that catch it.

## 2. Modules

| module | models | state and actions |
|---|---|---|
| `LeaseOps` | `lease.hpp` | the lease as a record; `Reserve`, `BeginLoading`, `Serving`, `Release`, `Expire` as operators on it, used by `WorkerLease` and `Placement` |
| `WorkerLease` | a serve-mode worker | `lease`, `loaded`, both counters, and per connection its phase, `held`, `request` and peer; one action per step of `serve_connection` between two accesses to shared state |
| `ExclusiveLease` | the promise of the lease | one owner at a time, a reservation may lapse, use ends only by the owner's release; `WorkerLease` refines it with owner = the route of the lease (none once its deadline passed) and in use = loading or serving |
| `RingWorker` | last stage of a loop-mode route, over successive routes | shared `RingState`, a control thread, the ring thread, one dial thread per route, the predecessors; each atomic load, store or exchange is its own step |
| `ReplicaOwner` | the owner | main thread (`form`, `serve`, `execute`, `dissolve`), request threads, ring reader, client readers; each critical section or group of member calls is a step |
| `StageSession` | the handlers of `Stage` | pure operators on a session [cache, open request, ...]: what a frame does to it, or why it is refused |
| `DecodeRoute` | requests along a route | the drivers of all four kinds of route, the stages, the frames between them, the streams of the last stage and what the driver has still to read; composes `StageSession` per stage and session |
| `Pipeline` | `generate_pipelined` | sender, relay, receiver threads and `PipelineState`, the stages (again `StageSession`) and their channels, from prefill to end |
| `Planner` | planning of a route | the algorithms as operators; a world (model, workers, request) is chosen in `Init`, one action plans for it, and the invariants compare the result with a reference that enumerates all plans |
| `Placement` | clients and workers | each client's discovery, choice, greeting, parallel reservation, undo and loading; each worker a lease and a thread per connection; connections that break, grants and closes still on the way |
| `RangeCache` | a worker's files | the sparse file unit by unit, `.ranges.incomplete`, `.ranges`, one action per file operation; kills, new catalogues, failures, units that go bad |
| `FairQueue` | `fair_queue.hpp` | the queue as a record (FIFO per key, line of keys, size, closed, capacity) with one operator per method |
| `Scheduler` | `Scheduler` of `coordinator.cpp` | handler threads in `submit` and `cancel`, the executor with failure and recovery, `stop()`; a job's state, its entry in `pending_` and its promise; `passed` is a history of turns |
| `Formation` | a coordinator and its providers | listener, greetings, assignments, readiness, ring connections, control of every stage, loss and return of providers; both ends of each connection |
| `LocalGateway`, `CoordinatorGateway`, `Gateway` | the API gateway | handlers of both modes; the client processes with their closing, waiting and timers; the table of sessions with its sweeper, calls on the way and destructions; `Gateway` composes the two |
| `WorkerProofs`, `PipelineProofs`, `ReplicaOwnerProofs`, `SchedulerProofs`, `RangeCacheProofs`, `PlacementProofs`, `FormationProofs`, `GatewayProofs` | | theorems about these modules, section 5 |
| `MC...` | | the instances of section 3 |

Abstractions common to all: texts are short sequences of tokens or left out; a
stage is a model value for (model, range, context, sessions); sockets are named
by what they belong to; a call that can fail is a step that succeeds, throws, or
leaves a late reply behind. Definitions introduced as *a variant* are not part
of any specification: they are plausible wrong versions of the definition that
follows, used to show that a property can fail. Every module has a type
invariant; the configurations spend their time on the other properties.

Particular to a module:

- `DecodeRoute`: what a token is depends on the tokens before it (`Sample` in
  `StageSession`), so that equal caches and equal answers are comparable; the
  draft model is any guess. A session asks a bounded number of times, which
  makes every behaviour finite, so that weak fairness of the whole is enough.
  A ring or loop route that fails to create a session is closed by its client.
- `Placement`: the planner is any choice of `Need` workers; the releases of an
  undo are one step for the client, and a release that fails closes its
  connection; an answer to a client that gave up is read by no one.
- `RangeCache`: a byte is one of a few units, a hash is the content; one process
  uses a cache directory (the worker holds its own lock on loading).
- `Formation`: providers offer room for one stage each; `unload_stage` has no
  sender in the code and is left out; pending connections are served in order.
- `CoordinatorGateway`: a message stands for a question and its answer, which
  greedy decoding makes a function of the history; coordinators are external and
  keep, run and destroy sessions as `coordinator.cpp` does.

## 3. Runs

| run | instance | distinct states | shows |
|---|---|---|---|
| `worker_lease` | 3 connections, 2 peers, 3 routes, 2 stages, limits 2 and 1, lease of 2 ticks | 19,929 | ExclusiveUse, LeaseHasHolder, ServesLeasedStage, refinement of `ExclusiveLease` (ImplementsPromise), ReservationResolves under fairness |
| `ring_routes` | 2 routes, different predecessors, any overlap | 871,016 | CleanStart, RouteKept, DeliveredOwn |
| `replica_ring` | 2 clients of a ring whose members refuse calls, of one whose members and links fail too, and of one worker with answers of any length; any number of formations | 2,604,927 | Accounted, NoOrphans, RequestSafe, DissolvesOnFailure |
| `replica_live` | 2 clients of a one-stage replica, and one client of a ring with all commands and failures and refusals anywhere | 94,206 | Answered, GoneFreed |
| `scheduler` | 3 jobs (a request, its retry, another session), queue of 2 or 3, with and without recovery | 3,077,354 | PendingExact, NoLostJob, TurnsTaken |
| `decode_route` | 9 routes: hub, ring, loop, owner; 1 to 3 stages; 1 or 2 sessions; drafts, chunked prompts, one fault; context of 5 | 238,934 | KvAgree, PlainOutput, NoStrays, Answered |
| `pipeline` | 8 shapes: 1 or 2 stages, hub or ring, 1 to 3 chunks in flight of 1, 2 or 4 guesses, end of text, faults, cancellation, a context that runs out | 218,504 | Paired, PlainOutput, Terminates |
| `planner` | 3,840 worlds with 3 workers, 2 models of 3 layers, links measured or not, cached ranges, 5 kinds of request | 7,680 | SearchIsExact, CacheNearlyAsFast, FewestStages |
| `placement` | 2 clients under 4 pairs of policies, 2 workers both of which a route needs, 2 attempts, one fault, workers that end idle connections | 666,997 | PlacedWhole, NothingHeldBetweenAttempts, SettlesAndFrees |
| `range_cache` | a stage of 7 units and its draft, 2 revisions, chunks of 2, 2 faults, 2 restarts, a user's file at any moment | 575,676 | WeightsAreRight, AnnouncedIsWhole, Recovers |
| `formation` | 3 providers for 2 stages, with and without ring, no PeerIDs, 1 session, one fault | 316,487 | ServesWhole, SessionsAgree, Reforms |
| `gateway` | 3 local requests in 2 conversations, queue of 2; 3 chats, two continuing the first alike, 2 coordinators, 2 faults | 2,402,337 | OneClient, OwnText, OwnHistory, NoForgottenSession |

**Why the bounds are enough.** The lease's races need a holder whose reservation
lapsed and one successor; a third connection meets the limits, and connections,
routes and peers are reused for ever. (The safety part is proved for all
bounds, as it is for every component of section 5.) Shared ring state is at most
one route old when the generation differs, so two routes show every overlap of an
old and a new one. Two clients suffice
for a queue behind the one slot of a one-stage replica, for a session limit to
be reached and for one client's failure to touch another. `Wrap` = 8 stands for
2^32: larger than any count of sessions and small enough that a wrap is visible.
In `Scheduler` three jobs give a key with two items while another key waits;
capacity 2 is met by three pushes, and capacity 3 lets all of them in. In
`DecodeRoute` three stages have a first, a middle and a last one, two sessions
share a loop, budgets of 1 to 4 end before, in and after a batch of 3, and 5
positions fill up in the second request. In `Pipeline` two chunks in flight are
the least with a stale one behind a correction; chunks of one guess are those in
which the first guess is also the last. In `Planner` three workers have
every relation of group, order and subset, and `Exhaustive` = 2 stands for the
4 workers up to which every order is tried, so that both branches occur. In
`Placement` two clients that need both workers are the least that can hold half
each. In `RangeCache` ranges lie apart and one is longer than a chunk, and two
faults give a failure during the repair of one. In `Formation` the third
provider is the replacement. In `gateway` two chats with one history meet in the
table; two faults give a failure while the first is being made good. Deadlock is
not checked where the environment's work is finite (routes, jobs, requests,
clients, a planner's one step) or the program may exit.

**Assumptions made explicit.** `LateReaders` = FALSE says the reader of a connection
closed by a dissolution ends before the next replica is ready. `PeerIds` = FALSE
leaves out the check of a peer's identity in `Formation`, which the code makes only
when it runs with PeerIDs: without it more connections are accepted. A file of the
user's at the cache's path has another size than the model (`RangeCache`).

Some outcomes the code leaves open have a name in the models, and the properties
allow exactly these: `caught` in `RingWorker` (a thread that was past its check when
its route was released), `outlived` and `robbed` (a predecessor's connection that is
there after its route, and the session its end discards); `stuck` and `leaked` in
`ReplicaOwner` (a session a member refuses to reset or destroy, and one it keeps
after the owner gave it up); `Robbed` in `Scheduler`; `cut` in `Placement` (the worker
ended the connection); `missed` in `Pipeline` (a chunk was wrong in its last guess
alone); `Stranded` in `RangeCache`; `leaked` in `Formation`; `lost` in
`CoordinatorGateway`. Section 4 says what each leads to.

**Fairness.** Weak fairness on the steps of every thread or process (the
operating system schedules them), on the clock, and on the end of an answer (a
token budget bounds it). In `DecodeRoute`, `Pipeline` and `Placement` it is one
weak fairness of all of these together, which is less than one for each and is
enough because what they can do is finite between two inputs. In `RangeCache` a
route that is served ends at some time and the next assignment comes. Clients, commands,
cancellations, kills and failures owe nothing; a provider that died is started
again (the launcher does), and a connection that was shut down does reach its
reader.

## 4. Where the code differs from what it says

Each of these is reproduced by checking the named definition with the named
configuration, or with the constant changed.

| check | at | what the code does | what a comment or document says |
|---|---|---|---|
| `NeverStale`, `MCRingWorker.cfg` | stage_worker.cpp:1587, 1754 | generation check and compare_exchange are two steps, and `continue_loop` does not check: a dial that was past its check at the release still publishes its socket, and the next route's tokens go to the old route's first stage | stage_worker.cpp:1455 "bumped on release: stale dials close" |
| `NeverRobbed`, `MCRingWorker.cfg` | stage_worker.cpp:2030, 2132 | the late end of a released route's predecessor connection discards the new route's session | docs/reference/design/DAN_replica_design.md:282, sessions are cleared "when the owner's control connection or the ring breaks" |
| `NeverMixed`, `MCRingWorker.cfg` | stage_worker.cpp:2129 | the result of a frame that came over such a connection is sent on the new route's `ring.next` | the same |
| `ServesUntilFailure`, `MCReplicaRing.cfg` | replica_owner.cpp:739 | the keepalive waits behind an answer above 30 s and dissolves a healthy one-stage replica | replica_owner.cpp:2 "serves client sessions on it until any member fails" |
| `CreateMeansBroken`, `MCReplicaRing.cfg` | replica_owner.cpp:821, 847, 965 | a member refuses to destroy a session whose request is still open (stage_worker.cpp:597, 620); the owner lowers its count all the same and never asks again; a later create is answered "session limit reached" (stage_worker.cpp:524) and dissolves a healthy replica | replica_owner.cpp:846 "Creating a session on a linked route only fails when the route broke." |
| `NeverToldBusy`, `MCReplicaRing.cfg` | replica_owner.cpp:953 | the final ack is posted before `busy` is cleared: a prompt sent in reply can be refused | client.cpp:540 takes the ack as the end of the request |
| `Accounted`, `MCReplicaRing.cfg` with `LateReaders` = TRUE | replica_owner.cpp:1150 | a reader that outlives a dissolution creates a session the next one does not know; the count wraps and every create is answered replica_full | DAN_replica_design.md:242, the count comes from "the owner's session table" |
| `NeverRobbed`, `MCScheduler.cfg` | coordinator.cpp:1279 | a job refused as `queue_full` after another client had cancelled it erases the `pending_` entry of its retry, which neither its timeout nor a cancellation then finds; the executor still finishes it | docs/reference/design/speculative-decoding.md:476, "`queue_full`, `cancelled`, `queue_timeout` all fire" |
| `PlacedServes`, `MCPlacement.cfg` | placement.cpp:763, stage_worker.cpp:2840 | the client waits for the slowest stage without a limit, while a stage that was ready early ends its idle connection after `serving_idle_ms`; `place_route` reports the route placed | placement.cpp:763 "downloads can take long; the connection holds the lease" |
| `NeverRemoved`, `MCRangeCache.cfg` | range_model.cpp:751, 818, 425 | a user's file beside a leftover `.ranges` or `.ranges.incomplete` is removed, and so is (on POSIX) one that was put at the path while the metadata were downloaded; beside a leftover `.ranges` it is also announced as cached (stage_worker.cpp:2491) | range_model.cpp:748 "Never overwrite or silently treat a full file as a range cache" |
| `NothingHalfDone`, `MCDecodeRoute.cfg` | replica_owner.cpp:1095 | a refused commit is answered with `reset_session` alone, which a stage with an open request refuses: the session is stuck, and its sequence is never freed | replica_owner.cpp:1068 "Leave nothing half-done on any member" |
| `CommittedOutput`, `MCPipeline.cfg` | coordinator.cpp:891 | a chunk wrong in its last guess alone counts as accepted: no correction starts, and the chunks drafted from the wrong guess are applied | coordinator.cpp:548 "Committed output must match generate()'s single-chunk speculative path" |
| `RingReforms`, `MCFormation.cfg` | stage_worker.cpp:3684, coordinator.cpp:533 | a stage dials the next for ever before it says ready, the coordinator waits for it with its listener closed, and the next stage can only come back through that listener | docs/PROGRESS.md:157 "reforms the ring after provider loss" |

Met while modelling, and in the models where they concern state:

- `continue_loop` reads `ring.loop` and `loop_dialing` in the order the dial
  thread writes them, so it may open a second connection to the same first
  stage; this delivers nothing wrong.
- The pipelined sender drafts past the end of the context, and
  `generate_pipelined` refuses a session whose position is not 0.
- `run_chat` resets a full session whose request is still open (dan_client.cpp:326),
  which the stages refuse; the same holds after a chunked prompt that failed
  half way.
- A provider whose connection ends before its hello throws out of the accept
  loop of `form_replica` with the listener still open (`leaked`); a dead
  provider that is still registered has its return rejected by its id
  (coordinator.cpp:483); any error frame of a stage counts as the loss of its
  provider (coordinator.cpp:1436); `accept_ring_return` has no time limit.
- The range cache does not recognise its own file when it is stopped between
  creating it and writing its first record (`Stranded`, range_model.cpp:840).
- Gateway, coordinator mode: an expired record that a request takes out is never
  destroyed (main.go:424); a record overwritten by a chat with the same history
  leaks the first session (main.go:462); a creation handled after its
  destruction leaks (main.go:335); a continued session that fails after some
  text streams the answer again from the start (main.go:430).
- Gateway, local mode: a request that ended well and was cancelled at that moment
  leaves a closing process behind, for which the next request is answered 503
  (local.go:188); a request cancelled just as it gets its turn is answered
  nothing (local.go:179); `cmd.Wait` closes stdout, so that the last error event
  may be lost (chat_process.go:97); a kept process serves a later request of the
  same conversation whatever its policy (chat_process.go:63).

## 5. Proofs

Eight modules hold machine-checked proofs. They are about the specifications the
runs check, for every value of the constants that satisfies the named assumptions
of the modules; TLC evaluates those assumptions in the runs.

| module | theorems | hypotheses beyond the constants' |
|---|---|---|
| `WorkerProofs` | TypeOK, ExclusiveUse, LeaseHasHolder, ServesLeasedStage, CountersExact, NeverTakenAway, and that `Spec` implements `ExclusiveLease!Spec`; of `RingWorker` CleanStart, RouteKept, DeliveredOwn | none |
| `PipelineProofs` | Paired | none |
| `ReplicaOwnerProofs` | RequestSafe, NoOrphans; DissolvesOnFailure, Accounted | none; `~LateReaders` |
| `SchedulerProofs` | PendingExact, NoLostJob | none |
| `RangeCacheProofs` | WeightsAreRight, AnnouncedIsWhole, UsersFileKept | `ChunksCover` |
| `PlacementProofs` | PlacedWhole, NothingHeldBetweenAttempts | none |
| `FormationProofs` | ServesWhole, SessionsAgree | none |
| `GatewayProofs` | OneClient, OwnText; OwnHistory, NoForgottenSession | none |

None of these properties is inductive. Each proof states an inductive invariant
as a conjunction of named parts, shows one action at a time that it is kept, and
derives the properties from it.

**Worker lease.** That two connections cannot both use the worker rests on what a
connection's `held` says about the lease even when its reservation lapsed and the
worker is someone else's. `LeaseInv` is the shape of the lease in each state, and:
connections that hold a route will still give it back, routes held by different
connections differ, a lease that is not available is held by a connection, a
connection from assignment to the end of serving has the lease in the matching
state, and the stage on the GPU is the one it asked for. `UseInv` is the converse
that NeverTakenAway needs, and `CountInv` states both counters as cardinalities.
The refinement maps each step to a step of `ExclusiveLease` or to none.

**Ring.** CleanStart needs to know what each of the four steps of `release_route`
has cleared (`Kept`), at which generation the control thread is (`ControlPlace`),
which clients have left (`Departed`) and which connection the ring thread reads
(`Connected`). RouteKept and DeliveredOwn are kept together with `UnderWay`: a thread
that may still publish a connection is one of a route that is not released, or one
that `release_route` met past its check, and a connection of an older route is one
that outlived it. A dial that has not checked yet carries the generation of its own
route, which is what turns it away after the release. Nothing is assumed of how
clients come and go.

**Pipeline.** Nothing in the protocol numbers a reply: the receiver takes the oldest
chunk in flight for it, and a relay or the receiver reads a socket because a counter
says that something will come. `IInv` is therefore about one queue, the chunks in
flight and the one that is sent but not yet counted, and about how far each stage is
through it. `Flowing` says that, unless the request has failed, there is a d with
d[k] the number of chunks stage k is through with, such that
- what is on the wires is the queue: the frames that go to and come from a stage are,
  one for one and in order, those of the chunks between d[k] and d[k+1] (`Line`,
  `Frames`), and each carries its chunk's position and size;
- the counters are exact: what may be read and is not yet read is what lies on the
  connection or is still to be answered, up to the one chunk a thread is counting
  (`Counts`), and a thread that has ended has left nothing behind it (`Ends`);
- no healthy stage refuses a chunk (`Sound`): every chunk starts within what each
  stage holds by the time it gets there, and nothing that follows a chunk of the
  present epoch starts below that chunk's end. So when the receiver decides on a
  correction, which lies below the end of the chunk it reads, the chunks already on
  their way are above it: stages still decode and answer them, and the first chunk
  after the correction cuts them off.

`d` is a witness, not a variable: each action's lemma gives the next one. `Sound` is
needed although Paired does not mention positions, since a refusal would be an error
of a healthy stage. The lemmas about `StageSession` state what a stage answers to a
chunk that starts within what it holds. Assumptions: `ShapeAssumption` (at least one
stage, chunk and guess; what is drafted is a token) and `TextAssumption` (the prompt
fits in the context, and the tokens `Sample` draws are tokens). The proof corrected
Paired: with a context too short for a round of drafts the request fails with the
sender's error and no stage at fault (coordinator.cpp:648), which no shape of the run
had reached before; the property now says so and two shapes were added.

**Replica owner.** `OwnInv` ties a session's `busy` entry to the one place its
request can be (waiting, in a thread, or in a thread that frees it), and the
existence of the connections to the main thread's place: a request is safe since
whoever would take its state away finds it busy, or joins its thread first.
`CareInv` says who will free a session on the members at every moment of its creation,
its request and its client's departure, and `LeakInv` that one is given up while the
members answer only because a member refused it. `FailureInv` is the chain from a call
that throws to a dissolution; that a create is refused only for a session left behind
(`NoRoom`) needs the count to be right. Accounted adds that every entry belongs to a connection the next
dissolution clears (`Listed`), that every entry has its session (`Kept`), and the
equation of the counter with the number of sessions, up to those a thread is in the
middle of (`Counts`), for any modulus above the capacity; `~LateReaders` is needed
for `Listed`, and section 4 shows the count go wrong without it.

**Scheduler.** `OneAnswer`: a job that is not settled has no answer and nobody about
to give one, and a settled one has its answer or exactly one thread that will give
it. `PendInv` adds to PendingExact which jobs have been pushed, since an entry is erased
by its key: only a job that was cancelled before its push and found the queue full can
erase another's. `Held`: a job whose submitter waits is in the queue or in some thread's hands.
`Closing`: a closed queue is empty, and the executor leaves no one behind it. Lemmas
state what each method of `FairQueue` does to the set of queued items.

**Range cache.** `Disk` is what a kill may leave: a file of DAN's that
`.ranges` stands beside has every unit of its revision (or one
that went bad later). `Stands` is what the loading thread has found out by each of
its steps, `InMemory` that what was loaded was right. The hypothesis `ChunksCover`
(chunks lie in the file, apart from each other, and cover the header and the owned
tensors) is what the fold that cuts ranges into chunks computes; it is evaluated by
TLC for the models of the run (`MCLayout`), since a proof for all layouts is an
induction over data.

**Placement.** `LinkOK` ties what a client's connection has under way to the
client's plan and to the worker's lease; `GoneOK` says that what a closed connection
still holds is the route of an attempt that is over, which needs route ids never to
be used twice (`Counted`: at most one id per attempt, and attempts are bounded by
`MaxAttempts`); `LeaseOK` says that a lease in use is held by an open connection of
its own client or by a closed one that will give it back; a connection the worker
ended (`cut`) holds nothing. PlacedWhole fails without
`GoneOK`: the end of an older connection would release the new lease.

**Formation.** The two ends of a connection learn of its end at different times, and
a provider may be back in the queue while its old end is still registered. So the
invariant speaks of live ends: a provider has at most one (`OneEnd`); one that waits
for a plan has nothing of an earlier replica (`Fresh`); one that is registered with a
stage has the assignment of this plan and has done what its phase says (`Staged`);
one without a connection has nothing left (`Idle`). `Due` is what each stage should
hold while an operation has reached some of the stages.

**Gateway, local mode.** `LocalInv` ties where a handler is to the turn and to the
process it talks to (`TurnOK`, `MineOK`): a handler that refers to a process has the
turn, so at most one does, and only the present process can run (`ProcOK`), since
`RetireClient` has reaped it before the next is started. OwnText needs what a process
that is kept may still hold. `Quiet`: unless an exchange goes on, or was broken off
and its handler is about to close the process, an open process has no work and
nothing said that was not read; `AnswersOnly`: during an exchange all of that is for
the request that has the turn, and the end mark is the last of it.

**Gateway, coordinator mode.** `Hands` says that a session is in one pair of hands:
records differ in history and in session, a handler that waits shares its session
with no record and no other handler, at most one call is on its way to a session,
and it is its handler's if that still waits. It needs `Unused`: the session IDs a
chat may still choose are in nobody's hands. With that `RecordText` and `CallText`
follow what a session has read from its creation to its next message, and
`HandPlace` that a session is destroyed where it is. The assumptions are that there
is an endpoint (`endpoints()` is never empty) and that a chat has a message
(`qwenPrompt` refuses others).

**Left to TLC.** The liveness properties (ReservationResolves, Answered, GoneFreed,
TurnsTaken, SettlesAndFrees, Recovers, Reforms, Terminates), since the prover does
not handle fairness. The properties of `Planner`, which say what recursive searches
compute: induction over data; `ChunksCover` for all layouts, for the same reason.
PlainOutput of `Pipeline` and KvAgree, PlainOutput and NoStrays of `DecodeRoute`:
these compare whole texts, position by position, with what `Sample` makes of them. In
`Pipeline` that would go on top of `Flowing` (the queue is what plain decoding would
say up to the first wrong guess) and in `DecodeRoute` each stage topology needs an
account of its own like `Line`; neither proof is done.

## 6. Not modelled

- GPU memory and numerics, descriptor reuse by the operating system, torn reads
  of unsynchronised strings (`loop_target`), frames torn by two writers of one
  socket (protocol.hpp:292).
- Several sessions per client connection of an owner; the pool of sequences and
  the batching of sessions in one llama call; the adaptation of the draft width
  (any width up to the limit is tried); the comparison in `upgrade.hpp`.
- The handler pool of `run_server`, the coordinator's interactive mode, and
  stopping a coordinator during a formation.
- The gateway's refusal of malformed requests, the formats of its API, and its
  status endpoints.
- The wire protocol (single messages, unit-tested), the provider launcher
  (supervises one process; what a restart means is in `RangeCache` and
  `Formation`), the sidecar (a proxy of byte streams; its failures are
  connections that break), the legacy runtime (reference only), the user
  interface and the platform layer.
