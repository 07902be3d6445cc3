---------------------------- MODULE RingWorker ------------------------------
(***************************************************************************)
(* The threads of one serve-mode worker that share RingState               *)
(* (engine/stage_worker.cpp), when the worker is the last stage of a       *)
(* multi-stage loop-mode route, over a succession of routes:               *)
(*                                                                         *)
(*   control   serve_control for the connection that holds the lease:      *)
(*             bind_route, session and stream bookkeeping, release_route   *)
(*   ring      run_ring and continue_loop: frames from the predecessor are *)
(*             computed, streamed to the client and looped to the first    *)
(*             stage                                                       *)
(*   dial k    the detached thread bind_route starts to connect the way    *)
(*             back to the first stage of route k                          *)
(*                                                                         *)
(* Routes are numbered in the order the lease admits them; a socket, a     *)
(* session or a target is named by the route it belongs to (one session    *)
(* per route), 0 where the code has invalid_socket or an empty string.     *)
(* Each step is what one thread does between two accesses to shared state. *)
(***************************************************************************)
EXTENDS Naturals

CONSTANTS
    MaxRoutes,  \* routes served one after the other
    Prev,       \* Prev[k]: the PeerID named as route k's previous_peer
    NoPredecessor   \* expected_previous is empty

ASSUME RingConstants == MaxRoutes \in Nat \ {0}

Routes == 1..MaxRoutes
Socket == 0..MaxRoutes

VARIABLES
    cur,        \* the latest route admitted
    ctl,        \* control thread
    bound,      \* serve_control's local `bound' is not empty
    gen,        \* route_generation
    next,       \* ring.next: the connection to this route's client
    loop,       \* ring.loop: the connection to the first stage
    target,     \* loop_target
    dialing,    \* loop_dialing
    expected,   \* expected_previous
    sessions,   \* Stage::sessions_
    streams,    \* LoopState::streams
    rt,         \* ring thread
    pred,       \* the predecessor connection it reads
    out,        \* the frame it is about to send
    reg,        \* its local `loop': the socket or target it goes on with
    dial,       \* the background dial of each route
    dgen,       \* the generation each of them captured
    link,       \* the connection from each route's predecessor
    inflight,   \* a frame of the route waits on that connection
    left,       \* routes whose client has closed its control connection
    outlived,   \* history: routes whose predecessor's connection was still there
                \* when the next route was admitted.  Nothing in the code waits for it
    caught,     \* history: routes released while some thread was past the last
                \* check before it publishes a connection of theirs
    robbed,     \* history: routes whose session the ring thread discarded when it
                \* left a connection of another route
    hurt,       \* routes one of whose own connections failed
    delivered   \* <<s, k>>: a frame of session s went out on a socket of route k

ctlVars   == <<cur, ctl, bound, gen, left, outlived, caught>>
ringVars  == <<rt, pred, out, reg>>
dialVars  == <<dial, dgen>>
stageVars == <<sessions, streams>>
ringWorkerVars == <<ctlVars, ringVars, dialVars, stageVars, next, loop, target, dialing,
          expected, link, inflight, hurt, robbed, delivered>>

RingTypeOK ==
    /\ cur \in Socket /\ gen \in 0..MaxRoutes /\ bound \in BOOLEAN
    /\ ctl \in {"idle", "serve", "connect", "create", "close1", "close2", "close3", "close4"}
    /\ next \in Socket /\ loop \in Socket /\ target \in Socket
    /\ dialing \in BOOLEAN
    /\ expected \in {Prev[k] : k \in Routes} \cup {NoPredecessor}
    /\ sessions \subseteq Routes /\ streams \subseteq Routes
    /\ rt \in {"accept", "recv", "computed", "send", "loop", "wait", "dial", "store", "token"}
    /\ pred \in Socket /\ reg \in Socket
    /\ out \in {"none", "chunk", "final", "result", "error"}
    /\ dial \in [Routes -> {"none", "dialing", "have", "current", "clear", "done"}]
    /\ dgen \in [Routes -> 0..MaxRoutes]
    /\ link \in [Routes -> {"none", "backlog", "up", "closed"}]
    /\ inflight \in [Routes -> BOOLEAN]
    /\ left \subseteq Routes /\ hurt \subseteq Routes
    /\ outlived \subseteq Routes /\ caught \subseteq Routes /\ robbed \subseteq Routes
    /\ delivered \subseteq Routes \X Routes

RingInit ==
    /\ cur = 0 /\ ctl = "idle" /\ bound = FALSE /\ gen = 0
    /\ next = 0 /\ loop = 0 /\ target = 0 /\ dialing = FALSE /\ expected = NoPredecessor
    /\ sessions = {} /\ streams = {}
    /\ rt = "accept" /\ pred = 0 /\ out = "none" /\ reg = 0
    /\ dial = [k \in Routes |-> "none"] /\ dgen = [k \in Routes |-> 0]
    /\ link = [k \in Routes |-> "none"] /\ inflight = [k \in Routes |-> FALSE]
    /\ left = {} /\ hurt = {} /\ delivered = {}
    /\ outlived = {} /\ caught = {} /\ robbed = {}

\* ring.disconnected(): the stage discards every session.
Disconnected == sessions' = {}

-----------------------------------------------------------------------------
(***************************************************************************)
(* Control thread                                                          *)
(***************************************************************************)
\* The next client got the lease and its stage is ready: serve_control starts.
Admit ==
    /\ ctl = "idle" /\ cur < MaxRoutes
    /\ outlived' = outlived \cup { k \in Routes : link[k] # "none" }
    /\ cur' = cur + 1 /\ ctl' = "serve" /\ bound' = FALSE
    /\ UNCHANGED <<gen, left, caught, ringVars, dialVars, stageVars, next, loop, target,
                   dialing, expected, link, inflight, hurt, robbed, delivered>>

\* create_session with a route payload: bind_route finds no next hop in place
\* (CleanStart: it never answers "worker already serves another route"), sets
\* expected_previous and starts to dial the next hop.
BindRoute ==
    /\ ctl = "serve" /\ ~bound /\ next = 0
    /\ expected' = Prev[cur] /\ ctl' = "connect"
    /\ UNCHANGED <<cur, bound, gen, left, outlived, caught, ringVars, dialVars, stageVars, next, loop,
                   target, dialing, link, inflight, hurt, robbed, delivered>>

\* The next hop answered.  Its socket is published, and the way back to the
\* first stage is dialed in the background.
BindConnected ==
    /\ ctl = "connect"
    /\ next' = cur /\ target' = cur /\ dialing' = TRUE
    /\ dial' = [dial EXCEPT ![cur] = "dialing"] /\ dgen' = [dgen EXCEPT ![cur] = gen]
    /\ bound' = TRUE /\ ctl' = "create"
    /\ UNCHANGED <<cur, gen, left, outlived, caught, ringVars, stageVars, loop, expected, link, inflight,
                   hurt, robbed, delivered>>

\* The next hop never answered within connect_budget: the error reply on an
\* unbound connection ends it, after ring.disconnected().
BindFailed ==
    /\ ctl = "connect"
    /\ expected' = NoPredecessor /\ Disconnected /\ ctl' = "close1" /\ left' = left \cup {cur}
    /\ UNCHANGED <<cur, bound, gen, outlived, caught, ringVars, dialVars, streams, next, loop, target,
                   dialing, link, inflight, hurt, robbed, delivered>>

\* Stage::create under stage_mutex, and the ack.
CreateSession ==
    /\ ctl = "create"
    /\ sessions' = sessions \cup {cur} /\ ctl' = "serve"
    /\ UNCHANGED <<cur, bound, gen, left, outlived, caught, ringVars, dialVars, streams, next, loop, target,
                   dialing, expected, link, inflight, hurt, robbed, delivered>>

\* stream_prompt registers the token budget here; the client then sends the
\* prompt to the first stage, whose activation reaches this worker.  The client
\* goes on to prompt only when every stage acknowledged create_session, the
\* predecessor's after its own dial to this worker.
StreamPrompt ==
    /\ ctl = "serve" /\ bound /\ cur \notin streams /\ link[cur] = "up"
    /\ ~inflight[cur]
    /\ streams' = streams \cup {cur}
    /\ inflight' = [inflight EXCEPT ![cur] = TRUE]
    /\ UNCHANGED <<ctlVars, ringVars, dialVars, sessions, next, loop, target, dialing,
                   expected, link, hurt, robbed, delivered>>

\* The control connection closes: ring.disconnected(), then release_route.
ControlClosed ==
    /\ ctl = "serve"
    /\ Disconnected /\ left' = left \cup {cur} /\ ctl' = "close1"
    /\ UNCHANGED <<cur, bound, gen, outlived, caught, ringVars, dialVars, streams, next, loop, target,
                   dialing, expected, link, inflight, hurt, robbed, delivered>>

\* release_route: the generation is bumped, then next is taken and closed ...
ReleaseNext ==
    /\ ctl = "close1" /\ gen' = gen + 1 /\ next' = 0 /\ ctl' = "close2"
    /\ UNCHANGED <<cur, bound, left, outlived, caught, ringVars, dialVars, stageVars, loop, target, dialing,
                   expected, link, inflight, hurt, robbed, delivered>>

\* A variant: only the next hop is released.
ReleaseLoopNot ==
    /\ ctl = "close2" /\ ctl' = "close3"
    /\ UNCHANGED <<cur, bound, gen, left, outlived, caught, ringVars, dialVars, stageVars, next, loop, target,
                   dialing, expected, link, inflight, hurt, robbed, delivered>>

\* The background dial of this route has compared the generation and not yet
\* published; or the ring thread is looking for its way back in continue_loop, which
\* compares nothing.
PastCheck ==
    \/ dial[cur] = "current"
    \/ rt \in {"loop", "wait"}
    \/ rt \in {"dial", "store"} /\ reg = cur

\* ... then loop, ...
ReleaseLoop ==
    /\ ctl = "close2" /\ loop' = 0 /\ ctl' = "close3"
    /\ caught' = IF PastCheck THEN caught \cup {cur} ELSE caught
    /\ UNCHANGED <<cur, bound, gen, left, outlived, ringVars, dialVars, stageVars, next, target,
                   dialing, expected, link, inflight, hurt, robbed, delivered>>

\* ... loop_target and the streams are cleared, ...
ReleaseStreams ==
    /\ ctl = "close3" /\ target' = 0 /\ streams' = {} /\ ctl' = "close4"
    /\ UNCHANGED <<cur, bound, gen, left, outlived, caught, ringVars, dialVars, sessions, next, loop, dialing,
                   expected, link, inflight, hurt, robbed, delivered>>

\* A variant: the predecessor of the old route stays welcome.
ReleaseExpectedNot ==
    /\ ctl = "close4" /\ ctl' = "idle" /\ bound' = FALSE
    /\ UNCHANGED <<cur, gen, left, outlived, caught, ringVars, dialVars, stageVars, next, loop, target,
                   dialing, expected, link, inflight, hurt, robbed, delivered>>

\* ... and last the expected predecessor; then the lease is given back.
ReleaseExpected ==
    /\ ctl = "close4" /\ expected' = NoPredecessor /\ ctl' = "idle" /\ bound' = FALSE
    /\ UNCHANGED <<cur, gen, left, outlived, caught, ringVars, dialVars, stageVars, next, loop, target,
                   dialing, link, inflight, hurt, robbed, delivered>>

Control ==
    \/ BindRoute \/ BindConnected \/ BindFailed \/ CreateSession
    \/ ReleaseNext \/ ReleaseLoop \/ ReleaseStreams \/ ReleaseExpected

-----------------------------------------------------------------------------
(***************************************************************************)
(* The background dial of route k (the detached thread of bind_route)      *)
(***************************************************************************)
DialStep(k, from, to) ==
    /\ dial[k] = from
    /\ dial' = [dial EXCEPT ![k] = to]
    /\ UNCHANGED <<ctlVars, ringVars, dgen, stageVars, next, target, expected, link,
                   inflight, hurt, robbed, delivered>>

\* dial_ring_target returns a connected socket, or none.
DialAnswered(k) == DialStep(k, "dialing", "have") /\ UNCHANGED <<loop, dialing>>
DialGivesUp(k)  == DialStep(k, "dialing", "clear") /\ UNCHANGED <<loop, dialing>>

\* A variant: a dial does not ask whether its route was released meanwhile.
DialChecksNot(k) == DialStep(k, "have", "current") /\ UNCHANGED <<loop, dialing>>

\* route_generation.load() == generation, and otherwise close the socket.
DialChecks(k) ==
    /\ \/ gen = dgen[k] /\ DialStep(k, "have", "current")
       \/ gen # dgen[k] /\ DialStep(k, "have", "clear")
    /\ UNCHANGED <<loop, dialing>>

\* compare_exchange_strong(none, socket), and otherwise close the socket.
DialPublishes(k) ==
    /\ DialStep(k, "current", "clear")
    /\ loop' = IF loop = 0 THEN k ELSE loop
    /\ UNCHANGED dialing

\* loop_dialing.store(false)
DialClears(k) ==
    /\ DialStep(k, "clear", "done")
    /\ dialing' = FALSE
    /\ UNCHANGED loop

Dialer(k) == DialAnswered(k) \/ DialGivesUp(k) \/ DialChecks(k) \/ DialPublishes(k)
                \/ DialClears(k)

-----------------------------------------------------------------------------
(***************************************************************************)
(* Ring thread                                                             *)
(***************************************************************************)
\* run_ring accepts a predecessor whose authenticated PeerID is expected, and
\* turns any other away (its dial tries again).
AcceptPredecessor(k) ==
    /\ rt = "accept" /\ link[k] = "backlog"
    /\ IF expected # NoPredecessor /\ Prev[k] = expected
       THEN /\ link' = [link EXCEPT ![k] = "up"] /\ pred' = k /\ rt' = "recv"
       ELSE /\ link' = [link EXCEPT ![k] = "none"] /\ UNCHANGED <<pred, rt>>
    /\ UNCHANGED <<ctlVars, out, reg, dialVars, stageVars, next, loop, target, dialing,
                   expected, inflight, hurt, robbed, delivered>>

\* A frame arrives and is computed under stage_mutex: an unknown session is
\* an error.
ComputeFrame ==
    /\ rt = "recv" /\ inflight[pred]
    /\ inflight' = [inflight EXCEPT ![pred] = FALSE]
    /\ out' = IF pred \in sessions THEN "result" ELSE "error"
    /\ rt' = "computed"
    /\ UNCHANGED <<ctlVars, pred, reg, dialVars, stageVars, next, loop, target, dialing,
                   expected, link, hurt, robbed, delivered>>

\* Under decode.mutex: an error ends the stream; a result of a streaming
\* request is its final token (end of text, budget, cancelled) or a chunk.
RouteResult ==
    /\ rt = "computed" /\ rt' = "send"
    /\ \/ out = "error" /\ streams' = streams \ {pred} /\ UNCHANGED out
       \/ out = "result" /\ pred \notin streams /\ UNCHANGED <<streams, out>>
       \/ out = "result" /\ pred \in streams /\ out' = "final" /\ streams' = streams \ {pred}
       \/ out = "result" /\ pred \in streams /\ out' = "chunk" /\ UNCHANGED streams
    /\ UNCHANGED <<ctlVars, pred, reg, dialVars, sessions, next, loop, target, dialing,
                   expected, link, inflight, hurt, robbed, delivered>>

\* The way out of run_ring's inner loop: ring.disconnected() discards every
\* session of the stage, and the predecessor socket is closed.
DropPredecessor ==
    /\ Disconnected
    /\ robbed' = IF cur \in sessions /\ (pred # cur \/ reg \notin {0, cur})
                 THEN robbed \cup {cur} ELSE robbed
    /\ link' = [link EXCEPT ![pred] = "none"]
    /\ inflight' = [inflight EXCEPT ![pred] = FALSE]
    /\ rt' = "accept" /\ pred' = 0 /\ out' = "none" /\ reg' = 0

\* Send to ring.next as it is now.
SendNext ==
    /\ rt = "send" /\ next # 0
    /\ delivered' = delivered \cup {<<pred, next>>}
    /\ rt' = IF out = "chunk" THEN "loop" ELSE "recv"
    /\ out' = "none"
    /\ UNCHANGED <<ctlVars, pred, reg, dialVars, stageVars, next, loop, target, dialing,
                   expected, link, inflight, hurt, robbed>>

\* No next hop, or its client is gone: inside continue_loop this also clears
\* every stream.
SendNextFails ==
    /\ rt = "send" /\ (next = 0 \/ next \in left)
    /\ streams' = IF out \in {"chunk", "final"} THEN {} ELSE streams
    /\ hurt' = IF next = 0 THEN hurt ELSE hurt \cup {next}
    /\ DropPredecessor
    /\ UNCHANGED <<ctlVars, dialVars, next, loop, target, dialing, expected, delivered>>

\* continue_loop reads ring.loop ...
ReadLoop ==
    /\ rt = "loop" /\ reg' = loop
    /\ rt' = IF loop # 0 THEN "token" ELSE "wait"
    /\ UNCHANGED <<ctlVars, pred, out, dialVars, stageVars, next, loop, target, dialing,
                   expected, link, inflight, hurt, robbed, delivered>>

\* ... and, while it found none, loop_dialing: a running background dial is
\* waited for (20 ms later ring.loop is read again) until connect_budget is over;
\* otherwise the ring thread dials loop_target itself.
ReadDialing ==
    /\ rt = "wait"
    /\ \/ dialing /\ rt' = "loop" /\ UNCHANGED reg
       \/ target # 0 /\ reg' = target /\ rt' = "dial"
    /\ UNCHANGED <<ctlVars, pred, out, dialVars, stageVars, next, loop, target, dialing,
                   expected, link, inflight, hurt, robbed, delivered>>

\* continue_loop's own dial_ring_target answered ...
LoopDialed ==
    /\ rt = "dial" /\ rt' = "store"
    /\ UNCHANGED <<ctlVars, pred, out, reg, dialVars, stageVars, next, loop, target,
                   dialing, expected, link, inflight, hurt, robbed, delivered>>

\* ... and ring.loop.store(loop) publishes it.
StoreLoop ==
    /\ rt = "store" /\ loop' = reg /\ rt' = "token"
    /\ UNCHANGED <<ctlVars, pred, out, reg, dialVars, stageVars, next, target, dialing,
                   expected, link, inflight, hurt, robbed, delivered>>

\* The token goes to the first stage the socket leads to, and comes around.
SendToken ==
    /\ rt = "token" /\ loop = reg /\ rt' = "recv"
    /\ delivered' = delivered \cup {<<pred, reg>>}
    /\ inflight' = IF reg = pred /\ link[pred] = "up"
                   THEN [inflight EXCEPT ![pred] = TRUE] ELSE inflight
    /\ reg' = 0
    /\ UNCHANGED <<ctlVars, pred, out, dialVars, stageVars, next, loop, target, dialing,
                   expected, link, hurt, robbed>>

\* There is no way back to the first stage: nothing to dial, the dial failed,
\* or the send did (the socket was closed here, or at the other end).
LoopFails ==
    /\ \/ rt = "wait" /\ target = 0 /\ UNCHANGED hurt
       \/ rt \in {"dial", "token"} /\ hurt' = hurt \cup {reg}
    /\ streams' = {}
    /\ DropPredecessor
    /\ UNCHANGED <<ctlVars, dialVars, next, loop, target, dialing, expected, delivered>>

\* The predecessor closed its end and everything it sent was read.
PredecessorClosed ==
    /\ rt = "recv" /\ link[pred] = "closed" /\ ~inflight[pred]
    /\ DropPredecessor
    /\ UNCHANGED <<ctlVars, dialVars, streams, next, loop, target, dialing, expected, hurt,
                   delivered>>

Ring ==
    \/ \E k \in Routes : AcceptPredecessor(k)
    \/ ComputeFrame \/ RouteResult \/ SendNext \/ SendNextFails \/ ReadLoop \/ ReadDialing
    \/ LoopDialed \/ StoreLoop \/ SendToken \/ LoopFails \/ PredecessorClosed

-----------------------------------------------------------------------------
(***************************************************************************)
(* The predecessor of route k, at the other end of its ring connection     *)
(***************************************************************************)
\* Its own bind_route dials this worker while its client is there.
PeerDials(k) ==
    /\ k <= cur /\ k \notin left /\ link[k] = "none" /\ k \notin hurt
    /\ link' = [link EXCEPT ![k] = "backlog"]
    /\ UNCHANGED <<ctlVars, ringVars, dialVars, stageVars, next, loop, target, dialing,
                   expected, inflight, hurt, robbed, delivered>>

\* It closes the connection, at its own time, after the route's client left.
PeerCloses(k) ==
    /\ k \in left /\ link[k] \in {"backlog", "up"}
    /\ link' = [link EXCEPT ![k] = IF @ = "up" THEN "closed" ELSE "none"]
    /\ UNCHANGED <<ctlVars, ringVars, dialVars, stageVars, next, loop, target, dialing,
                   expected, inflight, hurt, robbed, delivered>>

\* It crashes, or its network does, in the middle of a route.
PeerFails(k) ==
    /\ k \notin left /\ link[k] = "up"
    /\ link' = [link EXCEPT ![k] = "closed"]
    /\ hurt' = hurt \cup {k}
    /\ UNCHANGED <<ctlVars, ringVars, dialVars, stageVars, next, loop, target, dialing,
                   expected, inflight, robbed, delivered>>

RingNext ==
    \/ Admit \/ StreamPrompt \/ ControlClosed
    \/ Control
    \/ Ring
    \/ \E k \in Routes : Dialer(k) \/ PeerDials(k) \/ PeerCloses(k) \/ PeerFails(k)

RingSpec == RingInit /\ [][RingNext]_ringWorkerVars
-----------------------------------------------------------------------------
(***************************************************************************)
(* Properties                                                              *)
(***************************************************************************)
\* A route starts on a worker that kept nothing of the routes before it:
\* release_route and ring.disconnected() together cleared the next hop, the
\* loop target, the expected predecessor, the streams and the sessions,
\* whatever the ring thread was doing meanwhile.  So bind_route never answers
\* "worker already serves another route" to the holder of the lease; and no late
\* frame of an older route revives a session or a stream afterwards.
CleanStart ==
    /\ ctl = "serve" /\ ~bound =>
        next = 0 /\ target = 0 /\ expected = NoPredecessor /\ streams = {} /\ sessions = {}
    /\ sessions \cup streams \subseteq {cur}

\* ring.loop leads to the first stage of the route being served, and to nothing
\* between routes, whatever dials and frames were under way when the routes before
\* were released (route_generation: "bumped on release: stale dials close"); except
\* that a thread which was past its last check at that moment still publishes, and
\* only such a one.
LoopFresh ==
    loop # 0 => loop \in caught \/ (loop = cur /\ ctl \notin {"close3", "close4", "idle"})

\* A session lives until its client leaves or one of its route's own connections
\* breaks (run_ring and serve_control call ring.disconnected()); nothing else ends
\* it, except that the ring thread leaves a connection of another route.
SessionSurvives ==
    ctl = "serve" /\ bound => cur \in sessions \cup hurt \cup robbed

\* What a route relies on while it is served, with the clients of other routes
\* leaving and coming at any step of any thread.
RouteKept == LoopFresh /\ SessionSurvives

\* A frame leaves the worker only on a connection of its own route, although the
\* ring thread loads ring.next and ring.loop anew for each frame; except what
\* comes over a connection that outlived its route, and a token over a connection
\* that was published late.
DeliveredOwn ==
    \A d \in delivered : d[1] = d[2] \/ d[1] \in outlived \/ d[2] \in caught

\* Not so: the exceptions never happen.  release_route waits neither for the dials
\* nor for the ring thread nor for the old predecessor.
NeverStale == loop # 0 => loop = cur
NeverRobbed == robbed = {}
NeverMixed == \A d \in delivered : d[1] = d[2]
=============================================================================
