---------------------------- MODULE WorkerLease -----------------------------
(***************************************************************************)
(* A serve-mode worker (engine/stage_worker.cpp): its accept loop          *)
(* (run_serve_mode), the thread it starts per control connection           *)
(* (serve_connection), the lease those threads compete for (lease.hpp) and *)
(* the stage it loads for the winner (load_assigned_stage).  The clients   *)
(* are the environment: any connection may send any frame at any time, or  *)
(* fall silent, or close.                                                  *)
(*                                                                         *)
(* What serve_control does while a connection is serving is the subject of *)
(* module RingWorker; here serving is one phase that ends at some point.   *)
(***************************************************************************)
EXTENDS LeaseOps, FiniteSets

CONSTANTS
    Conn,           \* control connections, each served by its own thread
    Peer,           \* PeerIDs the sidecar authenticates
    MaxConn,        \* control connections served at once (16)
    MaxPerPeer      \* of which one peer may hold (4)

\* No PeerID: the header line was not read yet.
NoPeer == "no peer"

ASSUME WorkerConstants ==
    /\ IsFiniteSet(Conn)
    /\ NoPeer \notin Peer
    /\ MaxConn \in Nat \ {0}
    /\ MaxPerPeer \in Nat \ {0}

VARIABLES
    lease,              \* ServeContext::lease
    loaded,             \* ServeContext::loaded: the stage on the GPU
    phase,              \* where each connection's thread is
    held,               \* its local `held': the route id it holds
    want,               \* its local `request': the stage assign_stage asked for
    peer,               \* the PeerID of its header line
    connections,        \* ServeContext::connections
    peerConnections     \* ServeContext::peer_connections

vars == <<lease, loaded, phase, held, want, peer, connections, peerConnections>>

(***************************************************************************)
(* closed   no thread                                                      *)
(* header   started, before the PeerID line was read                       *)
(* greet    has a peer slot, before provider_available was sent            *)
(* open     in the receive loop, before a stage was assigned               *)
(* assigned begin_loading succeeded; load_assigned_stage has not replaced  *)
(*          the stage on the GPU yet                                       *)
(* loading  the old stage is unloaded, the new one is downloading          *)
(* ready    the stage is on the GPU, lease.serving() not called yet        *)
(* serving  in serve_control                                               *)
(* ending   left the loop; the lease is not given back yet                 *)
(* leaving  lease given back; peer slot and connection count still held    *)
(***************************************************************************)
Phases == {"closed", "header", "greet", "open", "assigned", "loading",
           "ready", "serving", "ending", "leaving"}

TypeOK ==
    /\ lease \in Leases
    /\ loaded \in Stage \cup {NoStage}
    /\ phase \in [Conn -> Phases]
    /\ held \in [Conn -> Route \cup {NoRoute}]
    /\ want \in [Conn -> Stage \cup {NoStage}]
    /\ peer \in [Conn -> Peer \cup {NoPeer}]
    /\ connections \in Nat
    /\ peerConnections \in [Peer -> Nat]

Init ==
    /\ lease = Available
    /\ loaded = NoStage
    /\ phase = [c \in Conn |-> "closed"]
    /\ held = [c \in Conn |-> NoRoute]
    /\ want = [c \in Conn |-> NoStage]
    /\ peer = [c \in Conn |-> NoPeer]
    /\ connections = 0
    /\ peerConnections = [p \in Peer |-> 0]

Goto(c, from, to) ==
    /\ phase[c] = from
    /\ phase' = [phase EXCEPT ![c] = to]

-----------------------------------------------------------------------------
(***************************************************************************)
(* Accepting a connection                                                  *)
(***************************************************************************)
\* The accept loop: beyond the limit a socket is closed at once (no step).
Accept(c) ==
    /\ connections < MaxConn
    /\ Goto(c, "closed", "header")
    /\ connections' = connections + 1
    /\ UNCHANGED <<lease, loaded, held, want, peer, peerConnections>>

\* The header line names the peer and the peer has a slot left.
ReadPeer(c, p) ==
    /\ peerConnections[p] < MaxPerPeer
    /\ Goto(c, "header", "greet")
    /\ peer' = [peer EXCEPT ![c] = p]
    /\ peerConnections' = [peerConnections EXCEPT ![p] = @ + 1]
    /\ UNCHANGED <<lease, loaded, held, want, connections>>

\* No header line within 5 s, or the peer already holds its share: the
\* thread returns before it takes a slot.
RejectPeer(c) ==
    /\ Goto(c, "header", "closed")
    /\ connections' = connections - 1
    /\ UNCHANGED <<lease, loaded, held, want, peer, peerConnections>>

\* provider_available names the lease state, which expires the reservation
\* first; the greeting itself may fail to send.
Greet(c) ==
    /\ phase[c] = "greet"
    /\ \E to \in {"open", "ending"} : phase' = [phase EXCEPT ![c] = to]
    /\ lease' = Expire(lease)
    /\ UNCHANGED <<loaded, held, want, peer, connections, peerConnections>>

-----------------------------------------------------------------------------
(***************************************************************************)
(* The frames of the receive loop                                          *)
(***************************************************************************)
\* A client draws a fresh random route id for every attempt (placement.cpp,
\* random_route_id), so no other connection uses it.
Fresh(r) == \A c \in Conn : held[c] # r

\* reserve, accepted: parse and reservation_problem passed, the lease was free.
ReserveGranted(c, r, s, ms) ==
    /\ phase[c] = "open"
    /\ held[c] = NoRoute
    /\ Fresh(r)
    /\ CanReserve(lease, ms)
    /\ lease' = Reserve(r, s, ms)
    /\ held' = [held EXCEPT ![c] = r]
    /\ UNCHANGED <<loaded, phase, want, peer, connections, peerConnections>>

\* reserve, answered "busy": lease.reserve() was tried, which still expires
\* an old reservation.  (already_reserved and the answers of
\* reservation_problem touch nothing.)
ReserveBusy(c, ms) ==
    /\ phase[c] = "open"
    /\ held[c] = NoRoute
    /\ ~CanReserve(lease, ms)
    /\ lease' = Expire(lease)
    /\ UNCHANGED <<loaded, phase, held, want, peer, connections, peerConnections>>

\* release_route naming the held route; any other name is answered
\* route_not_held.
ReleaseRoute(c) ==
    /\ phase[c] = "open"
    /\ held[c] # NoRoute
    /\ lease' = Release(lease, held[c])
    /\ held' = [held EXCEPT ![c] = NoRoute]
    /\ UNCHANGED <<loaded, phase, want, peer, connections, peerConnections>>

\* assign_stage for the reserved stage, in time.
AssignStage(c, s) ==
    /\ held[c] # NoRoute
    /\ CanBeginLoading(lease, held[c], s)
    /\ Goto(c, "open", "assigned")
    /\ lease' = BeginLoading(lease)
    /\ want' = [want EXCEPT ![c] = s]
    /\ UNCHANGED <<loaded, held, peer, connections, peerConnections>>

\* assign_stage refused: nothing held, another route, another stage, or the
\* reservation expired.  The connection ends.
AssignRefused(c, r, s) ==
    /\ \/ held[c] = NoRoute
       \/ r # held[c]
       \/ ~CanBeginLoading(lease, r, s)
    /\ Goto(c, "open", "ending")
    /\ lease' = IF held[c] # NoRoute /\ r = held[c] THEN Expire(lease) ELSE lease
    /\ UNCHANGED <<loaded, held, want, peer, connections, peerConnections>>

\* The receive fails (client gone, or silent past SO_RCVTIMEO), a reply
\* cannot be sent, or an unexpected frame arrives.
LeaveLoop(c) ==
    /\ Goto(c, "open", "ending")
    /\ UNCHANGED <<lease, loaded, held, want, peer, connections, peerConnections>>

-----------------------------------------------------------------------------
(***************************************************************************)
(* Loading and serving                                                     *)
(***************************************************************************)
\* load_assigned_stage: the very stage is loaded already.
ReuseStage(c) ==
    /\ loaded = want[c]
    /\ Goto(c, "assigned", "ready")
    /\ UNCHANGED <<lease, loaded, held, want, peer, connections, peerConnections>>

\* load_assigned_stage: drop the old stage before the download starts.
UnloadStage(c) ==
    /\ loaded # want[c]
    /\ Goto(c, "assigned", "loading")
    /\ loaded' = NoStage
    /\ UNCHANGED <<lease, held, want, peer, connections, peerConnections>>

\* Download and model load succeed.
LoadStage(c) ==
    /\ Goto(c, "loading", "ready")
    /\ loaded' = want[c]
    /\ UNCHANGED <<lease, held, want, peer, connections, peerConnections>>

\* A variant: the failure path returns without giving the lease back.
LoadFailsKeeps(c) ==
    /\ Goto(c, "loading", "leaving")
    /\ held' = [held EXCEPT ![c] = NoRoute]
    /\ UNCHANGED <<lease, loaded, want, peer, connections, peerConnections>>

\* prepare_range_model or the Stage constructor throws: nothing is loaded.
LoadFails(c) ==
    /\ Goto(c, "loading", "ending")
    /\ UNCHANGED <<lease, loaded, held, want, peer, connections, peerConnections>>

\* lease.serving() and the stage_ready reply, which may fail to send.
StartServing(c) ==
    /\ phase[c] = "ready"
    /\ \E to \in {"serving", "ending"} : phase' = [phase EXCEPT ![c] = to]
    /\ lease' = Serving(lease, held[c])
    /\ UNCHANGED <<loaded, held, want, peer, connections, peerConnections>>

\* serve_control returns: the client left, timed out or broke the protocol.
ServeControlEnds(c) ==
    /\ Goto(c, "serving", "ending")
    /\ UNCHANGED <<lease, loaded, held, want, peer, connections, peerConnections>>

-----------------------------------------------------------------------------
(***************************************************************************)
(* Leaving, the clock, and the status writer                               *)
(***************************************************************************)
\* The end of serve_connection: whatever route this connection held is
\* released, if the lease is still its own.
GiveBack(c) ==
    /\ Goto(c, "ending", "leaving")
    /\ lease' = IF held[c] = NoRoute THEN lease ELSE Release(lease, held[c])
    /\ held' = [held EXCEPT ![c] = NoRoute]
    /\ want' = [want EXCEPT ![c] = NoStage]
    /\ UNCHANGED <<loaded, peer, connections, peerConnections>>

\* ~PeerSlot, then --connections in the thread's wrapper.
Leave(c) ==
    /\ Goto(c, "leaving", "closed")
    /\ peerConnections' = [peerConnections EXCEPT ![peer[c]] = @ - 1]
    /\ peer' = [peer EXCEPT ![c] = NoPeer]
    /\ connections' = connections - 1
    /\ UNCHANGED <<lease, loaded, held, want>>

\* Time passes.
Tick ==
    /\ lease.left > 0
    /\ lease' = Elapse(lease)
    /\ UNCHANGED <<loaded, phase, held, want, peer, connections, peerConnections>>

\* The status writer reads lease.state() and lease.current() every 250 ms.
StatusJson ==
    /\ lease' = Expire(lease)
    /\ UNCHANGED <<loaded, phase, held, want, peer, connections, peerConnections>>

ThreadStep(c) ==
    \/ Greet(c)
    \/ ReuseStage(c)
    \/ UnloadStage(c)
    \/ StartServing(c)
    \/ GiveBack(c)
    \/ Leave(c)

\* A download ends when the network lets it.
DownloadEnds(c) == LoadStage(c) \/ LoadFails(c)

ClientStep(c) ==
    \/ Accept(c)
    \/ \E p \in Peer : ReadPeer(c, p)
    \/ RejectPeer(c)
    \/ \E r \in Route, s \in Stage, ms \in 0..MaxLease : ReserveGranted(c, r, s, ms)
    \/ \E ms \in 0..MaxLease : ReserveBusy(c, ms)
    \/ ReleaseRoute(c)
    \/ \E s \in Stage : AssignStage(c, s)
    \/ \E r \in Route, s \in Stage : AssignRefused(c, r, s)
    \/ LeaveLoop(c)
    \/ ServeControlEnds(c)

Next ==
    \/ \E c \in Conn : ThreadStep(c) \/ DownloadEnds(c) \/ ClientStep(c)
    \/ Tick
    \/ StatusJson

Spec == Init /\ [][Next]_vars

\* The threads run, the clock advances, the status writer polls.  Clients owe
\* nothing: a silent one is cut off by the receive timeout that LeaveLoop
\* stands for, but a talkative one may stay in the loop for ever.
Fairness ==
    /\ WF_vars(Tick)
    /\ WF_vars(StatusJson)
    /\ \A c \in Conn : WF_vars(ThreadStep(c))

FairSpec == Spec /\ Fairness
-----------------------------------------------------------------------------
(***************************************************************************)
(* Properties                                                              *)
(***************************************************************************)
Using(c) == phase[c] \in {"assigned", "loading", "ready", "serving"}

\* Exclusive use: at most one connection at a time is between an accepted
\* assign_stage and the end of serve_control, and the lease names its route
\* all that time - no expiry, reservation or late close of another connection
\* takes it away (serve_connection, WorkerLease).
ExclusiveUse ==
    \A c \in Conn : Using(c) =>
        /\ lease.state \in {"loading", "serving"}
        /\ lease.route = held[c]
        /\ \A d \in Conn : Using(d) => d = c

\* No orphan lease: a lease that is not available belongs to a connection
\* whose thread is still there to give it back, and only one (the release at
\* the end of serve_connection covers every way out of its loop).
LeaseHasHolder ==
    lease.state # "available" =>
        /\ \E c \in Conn : /\ held[c] = lease.route
                           /\ phase[c] \notin {"closed", "header", "greet", "leaving"}
        /\ \A c, d \in Conn : held[c] = lease.route /\ held[d] = lease.route => c = d

\* What is on the GPU while a route is served is the stage its lease was
\* granted for, although loading happens outside the lease's mutex.
ServesLeasedStage ==
    \A c \in Conn : phase[c] \in {"ready", "serving"} => loaded = lease.stage

\* The two connection counters agree with the threads that exist, on every
\* exit path, and stay within their limits.
CountersExact ==
    /\ connections = Cardinality({c \in Conn : phase[c] # "closed"})
    /\ \A p \in Peer : peerConnections[p] = Cardinality({c \in Conn : peer[c] = p})
    /\ connections <= MaxConn
    /\ \A p \in Peer : peerConnections[p] <= MaxPerPeer

\* A lease past reservation is never taken from a route: it changes hands
\* only through the step in which its own connection gives it back.
NeverTakenAway ==
    [][ \A c \in Conn :
            /\ lease.state \in {"loading", "serving"}
            /\ lease.route = held[c]
            /\ lease'.route # lease.route
            => phase[c] = "ending" ]_vars

\* A reservation does not block the worker for ever: it is assigned, given
\* back, or expires, whatever the reserving client does; and once serve_control
\* ended or the load failed, the lease comes back and the connection is over.
ReservationResolves ==
    /\ \A r \in Route : (lease.state = "reserved" /\ lease.route = r)
                            ~> ~(lease.state = "reserved" /\ lease.route = r)
    /\ \A c \in Conn : phase[c] = "ending" ~> phase[c] = "closed"

-----------------------------------------------------------------------------
(***************************************************************************)
(* The promise of the lease to the rest of the system.  A reservation      *)
(* whose deadline passed no longer counts, even before a call notices it.  *)
(***************************************************************************)
Promise == INSTANCE ExclusiveLease WITH
    owner  <- Expire(lease).route,
    inUse  <- lease.state \in {"loading", "serving"}

\* The worker implements the abstract lease.
ImplementsPromise == Promise!Spec
=============================================================================
