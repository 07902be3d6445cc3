---------------------------- MODULE LocalGateway ----------------------------
(***************************************************************************)
(* The API gateway in local mode (sidecar/cmd/dan-api-gateway/local.go and *)
(* chat_process.go).  Requests queue for one turn; the request that has it *)
(* talks to a dan-client process, which is kept for the next request of    *)
(* the same conversation (its scope) and closed otherwise.  Each handler   *)
(* step is what happens between two points where it may wait; beside the   *)
(* handlers run the closing of a process (sync.Once: begun once, awaited   *)
(* by every caller), the idle timer, the goroutine that waits for the      *)
(* process to end, and the shutdown in serveLocal.  dan-client is external *)
(* and does what engine/dan_client.cpp does under --api-chat.  A request   *)
(* that is malformed is refused before any of this and left out.           *)
(***************************************************************************)
EXTENDS Naturals, Sequences, FiniteSets

CONSTANTS
    Request,    \* POST /v1/chat/completions calls
    ScopeOf,    \* ScopeOf[r]: the conversation chatScope says r belongs to
    Model,      \* models the clients can place
    NoModel,
    QueueSize,  \* capacity of queued (8)
    MaxPins     \* maxPins (256)

ASSUME LocalConstants ==
    /\ "nobody" \notin Request /\ "main" \notin Request
    /\ MaxPins \in Nat \ {0}

VARIABLES
    hdl,        \* the handler of each request
    turn,       \* who holds turn: a request, "main" or "nobody"
    process,    \* a.process: the number of a client process, 0 for nil
    proc,       \* the client processes started so far
    pins,       \* a.pins as <<scope, model>>, the oldest first
    server      \* serveLocal: "up", "stopping", "closing", "exited"

localVars == <<hdl, turn, process, proc, pins, server>>

\* Where a handler is, the process it talks to, whether ctx is done, whether the
\* exchange ended cleanly, and whose answer it read.  What it replies is said
\* beside each action.
NewHandler == [at |-> "new", mine |-> 0, over |-> FALSE, clean |-> FALSE, heard |-> {}]
Finished == [NewHandler EXCEPT !.at = "done"]

LocalInit ==
    /\ hdl = [r \in Request |-> NewHandler]
    /\ turn = "nobody" /\ process = 0 /\ proc = <<>> /\ pins = <<>> /\ server = "up"

LocalTypeOK ==
    /\ \A r \in Request :
        /\ hdl[r].at \in {"new", "wait", "client", "retire", "reap", "start", "send", "read",
                          "leave", "closing", "done"}
        /\ hdl[r].mine \in 0..Len(proc) /\ hdl[r].heard \subseteq Request
    /\ turn \in Request \cup {"nobody", "main"} /\ process \in 0..Len(proc)
    /\ \A i \in DOMAIN proc :
        /\ proc[i].model \in Model \cup {NoModel} /\ proc[i].pin \in Model \cup {NoModel}
        /\ proc[i].closed \in {"no", "begun", "over"} /\ proc[i].idle \in {"none", "set", "fired", "stopped"}
    /\ server \in {"up", "stopping", "closing", "exited"}

Alive == server # "exited"

-----------------------------------------------------------------------------
(***************************************************************************)
(* Client processes                                                        *)
(***************************************************************************)
\* The first caller of close() shuts both pipes; the others find it begun.
Closed(p) == IF p.closed = "no" THEN [p EXCEPT !.closed = "begun", !.open = FALSE, !.said = <<>>] ELSE p
Close(i) == proc' = [proc EXCEPT ![i] = Closed(@)]

\* close() returns when the process has ended, or has killed it after two
\* seconds: then it may take a moment to end.
CloseEnds(i) ==
    /\ Alive /\ proc[i].closed = "begun" /\ proc' = [proc EXCEPT ![i].closed = "over"]
    /\ UNCHANGED <<hdl, turn, process, pins, server>>

\* cmd.Wait returns and done is closed.  Wait also closes the gateway's ends of
\* the pipes: what was not read yet is lost.
Reap(i) ==
    /\ Alive /\ ~proc[i].runs /\ ~proc[i].reaped
    /\ proc' = [proc EXCEPT ![i].reaped = TRUE, ![i].open = FALSE, ![i].said = <<>>]
    /\ UNCHANGED <<hdl, turn, process, pins, server>>

\* idle.Stop().
TimerStopped(p) == [p EXCEPT !.idle = IF p.idle = "set" THEN "stopped" ELSE p.idle]

\* The idle timer of a retained process fires and closes it.
IdleFires(i) ==
    /\ Alive /\ proc[i].idle = "set"
    /\ proc' = [proc EXCEPT ![i] = [Closed(@) EXCEPT !.idle = "fired"]]
    /\ UNCHANGED <<hdl, turn, process, pins, server>>

\* A process nobody refers to any more.
Forgotten == [
    scope |-> "none", pin |-> NoModel, model |-> NoModel, runs |-> FALSE, reaped |-> TRUE,
    open |-> FALSE, closed |-> "over", idle |-> "none", doomed |-> FALSE, work |-> <<>>, spoke |-> FALSE, said |-> <<>>]

Says(i, what) == Append(proc[i].said, [what |-> what, of |-> Head(proc[i].work)])

\* The client places its model: the pinned one, or any if nothing is pinned.
ClientPlaces(i) ==
    /\ Alive /\ proc[i].runs /\ proc[i].open /\ proc[i].work # <<>> /\ proc[i].model = NoModel
    /\ \E m \in IF proc[i].pin = NoModel THEN Model ELSE {proc[i].pin} :
        proc' = [proc EXCEPT ![i].model = m, ![i].said = Says(i, "model")]
    /\ UNCHANGED <<hdl, turn, process, pins, server>>

\* It answers: text, then the end mark.
ClientSpeaks(i) ==
    /\ Alive /\ proc[i].runs /\ proc[i].open /\ proc[i].work # <<>> /\ proc[i].model # NoModel
    /\ IF proc[i].spoke
       THEN proc' = [proc EXCEPT ![i].spoke = FALSE, ![i].work = Tail(@), ![i].said = Says(i, "done")]
       ELSE proc' = [proc EXCEPT ![i].spoke = TRUE, ![i].said = Says(i, "text")]
    /\ UNCHANGED <<hdl, turn, process, pins, server>>

\* It fails: it writes an error code (no plan meets the policy, the pinned model
\* is not there, the inference failed), or not even that, and ends.
ClientFails(i) ==
    /\ Alive /\ proc[i].runs /\ proc[i].open /\ proc[i].work # <<>>
    /\ \E said \in {proc[i].said, Says(i, "error")} :
        proc' = [proc EXCEPT ![i].runs = FALSE, ![i].said = said]
    /\ UNCHANGED <<hdl, turn, process, pins, server>>

\* With its pipes shut it ends: on the end of its input, on the first token it
\* cannot write, or killed.
ClientEnds(i) ==
    /\ Alive /\ proc[i].runs /\ ~proc[i].open
    /\ proc' = [proc EXCEPT ![i].runs = FALSE]
    /\ UNCHANGED <<hdl, turn, process, pins, server>>

-----------------------------------------------------------------------------
(***************************************************************************)
(* The model each conversation is pinned to                                *)
(***************************************************************************)
Pinned(s) == \E k \in DOMAIN pins : pins[k][1] = s
PinOf(s) == IF Pinned(s) THEN pins[CHOOSE k \in DOMAIN pins : pins[k][1] = s][2] ELSE NoModel
Without(s) ==
    IF Pinned(s)
    THEN LET old == CHOOSE k \in DOMAIN pins : pins[k][1] = s
         IN  SubSeq(pins, 1, old - 1) \o SubSeq(pins, old + 1, Len(pins))
    ELSE pins

\* pin(): the oldest entry makes room for a new one.
PinnedTo(s, m) ==
    LET kept == IF ~Pinned(s) /\ Len(pins) >= MaxPins THEN Tail(pins) ELSE Without(s)
    IN  Append(kept, <<s, m>>)

-----------------------------------------------------------------------------
(***************************************************************************)
(* Handlers                                                                *)
(***************************************************************************)
Goes(r, at) == hdl' = [hdl EXCEPT ![r].at = at]
Finishes(r) == hdl' = [hdl EXCEPT ![r] = Finished]

\* A request takes a place in queued, or is told to retry (429).
InQueue == {r \in Request : hdl[r].at \notin {"new", "done"}}
Arrive(r) ==
    /\ server = "up" /\ hdl[r].at = "new"
    /\ IF Cardinality(InQueue) < QueueSize THEN Goes(r, "wait") ELSE Finishes(r)
    /\ UNCHANGED <<turn, process, proc, pins, server>>

\* The user leaves or the timeout passes: ctx.Done().
Cancel(r) ==
    /\ Alive /\ hdl[r].at \notin {"new", "done"} /\ ~hdl[r].over
    /\ hdl' = [hdl EXCEPT ![r].over = TRUE]
    /\ UNCHANGED <<turn, process, proc, pins, server>>

\* Waiting ends with the turn or with ctx.  When both are there either branch of
\* the select runs: a 504, or, with the turn in hand, a return without any reply.
GetTurn(r) ==
    /\ Alive /\ hdl[r].at = "wait" /\ turn = "nobody" /\ turn' = r
    /\ Goes(r, IF hdl[r].over THEN "leave" ELSE "client")
    /\ UNCHANGED <<process, proc, pins, server>>

GiveUp(r) ==
    /\ Alive /\ hdl[r].at = "wait" /\ hdl[r].over /\ Finishes(r)
    /\ UNCHANGED <<turn, process, proc, pins, server>>

\* chatClient: the retained process serves on when it is of this scope and its
\* idle timer could still be stopped; any other is closed and awaited first.
Reusable(r) ==
    LET p == proc[process] IN p.scope = ScopeOf[r] /\ p.idle \in {"none", "set"} /\ ~p.reaped
FindClient(r) ==
    /\ Alive /\ hdl[r].at = "client"
    /\ \/ /\ process = 0 /\ Goes(r, "start") /\ UNCHANGED proc
       \/ /\ process # 0 /\ Reusable(r)
          /\ proc' = [proc EXCEPT ![process] = TimerStopped(@)]
          /\ hdl' = [hdl EXCEPT ![r].at = "send", ![r].mine = process]
       \/ /\ process # 0 /\ ~Reusable(r) /\ Goes(r, "retire")
          /\ proc' = [proc EXCEPT ![process] = TimerStopped(Closed(@))]
    /\ UNCHANGED <<turn, process, pins, server>>

\* A variant that starts the next client once the old one was told to end.
RetireWithoutWaiting(r) ==
    /\ Alive /\ hdl[r].at = "retire"
    /\ process' = 0 /\ Goes(r, "start")
    /\ UNCHANGED <<turn, proc, pins, server>>

\* p.close() returns, then <-p.done does.
RetireClient(r) ==
    /\ Alive /\ hdl[r].at = "retire" /\ proc[process].closed = "over" /\ proc[process].reaped
    /\ process' = 0 /\ Goes(r, "start") /\ proc' = [proc EXCEPT ![process] = Forgotten]
    /\ UNCHANGED <<turn, pins, server>>

\* A new client gets the conversation's pin, unless that is over a day old.
StartClient(r) ==
    /\ Alive /\ hdl[r].at = "start"
    /\ \E kept \in {pins, Without(ScopeOf[r])} :
        /\ pins' = kept
        /\ \/ /\ proc' = Append(proc, [
                    scope |-> ScopeOf[r],
                    pin |-> IF kept = pins THEN PinOf(ScopeOf[r]) ELSE NoModel, model |-> NoModel,
                    runs |-> TRUE, reaped |-> FALSE, open |-> TRUE, closed |-> "no",
                    idle |-> "none", doomed |-> FALSE, work |-> <<>>, spoke |-> FALSE, said |-> <<>>])
              /\ process' = Len(proc')
              /\ hdl' = [hdl EXCEPT ![r].at = "send", ![r].mine = Len(proc')]
           \/ Goes(r, "leave") /\ UNCHANGED <<proc, process>>
    /\ UNCHANGED <<turn, server>>

\* context.AfterFunc(ctx, process.close), until the handler calls stopCancel.
CancelCloses(r) ==
    /\ Alive /\ hdl[r].over /\ hdl[r].at \in {"send", "read", "leave"} /\ hdl[r].mine # 0
    /\ proc[hdl[r].mine].closed = "no" /\ Close(hdl[r].mine)
    /\ UNCHANGED <<hdl, turn, process, pins, server>>

\* stopCancel does not stop a close that has begun as a goroutine: it runs when it
\* runs, be it under the next request.
LateClose(i) ==
    /\ Alive /\ proc[i].doomed
    /\ proc' = [proc EXCEPT ![i] = [Closed(@) EXCEPT !.doomed = FALSE]]
    /\ UNCHANGED <<hdl, turn, process, pins, server>>

\* process.send: the write fails when the pipe is shut or the client is gone.
Send(r) ==
    LET i == hdl[r].mine IN
    /\ Alive /\ hdl[r].at = "send"
    /\ IF proc[i].open /\ proc[i].runs
       THEN proc' = [proc EXCEPT ![i].work = Append(@, r)] /\ Goes(r, "read")
       ELSE Goes(r, "leave") /\ UNCHANGED proc
    /\ UNCHANGED <<turn, process, pins, server>>

\* One event of the client.  The end mark makes the exchange clean, unless text
\* is left that is not valid UTF-8; a tool call that cannot be parsed is an error
\* for the user only.  Text cannot be passed on to a user who has left.
ReadEvent(r) ==
    LET i == hdl[r].mine
        event == Head(proc[i].said)
    IN
    /\ Alive /\ hdl[r].at = "read" /\ proc[i].open /\ proc[i].said # <<>>
    /\ proc' = [proc EXCEPT ![i].said = Tail(@)]
    /\ CASE event.what = "model" ->
            pins' = PinnedTo(ScopeOf[r], proc[i].model) /\ UNCHANGED hdl
         [] event.what = "text" ->
            /\ \/ hdl' = [hdl EXCEPT ![r].heard = @ \cup {event.of}]
               \/ hdl[r].over /\ Goes(r, "leave")
            /\ UNCHANGED pins
         [] event.what = "done" ->
            /\ \E clean \in BOOLEAN : hdl' =
                [hdl EXCEPT ![r].at = "leave", ![r].clean = clean, ![r].heard = @ \cup {event.of}]
            /\ UNCHANGED pins
         [] event.what = "error" ->
            /\ hdl' = [hdl EXCEPT ![r].at = "leave", ![r].over = TRUE]
            /\ UNCHANGED pins
    /\ UNCHANGED <<turn, process, server>>

\* The pipe ends, or close() or Wait shut it under the reader.
ReadEnds(r) ==
    LET i == hdl[r].mine IN
    /\ Alive /\ hdl[r].at = "read" /\ (~proc[i].open \/ (~proc[i].runs /\ proc[i].said = <<>>))
    /\ hdl' = [hdl EXCEPT ![r].at = "leave", ![r].over = TRUE]
    /\ UNCHANGED <<turn, process, proc, pins, server>>

\* A variant that keeps the process of a failed exchange as well.
LeaveUnclosed(r) ==
    LET i == hdl[r].mine IN
    /\ Alive /\ hdl[r].at = "leave" /\ Finishes(r) /\ turn' = "nobody"
    /\ IF i = 0 THEN UNCHANGED proc ELSE proc' = [proc EXCEPT ![i].idle = "set"]
    /\ UNCHANGED <<process, pins, server>>

\* The deferred calls: stopCancel, then the process is closed or kept for five
\* minutes, then the turn and the place in the queue are given back.
Leave(r) ==
    LET i == hdl[r].mine IN
    /\ Alive /\ hdl[r].at = "leave"
    /\ \/ /\ i = 0 /\ Finishes(r) /\ turn' = "nobody" /\ UNCHANGED proc
       \/ /\ i # 0 /\ hdl[r].clean /\ Finishes(r) /\ turn' = "nobody"
          /\ proc' = [proc EXCEPT ![i].idle = "set", ![i].doomed = hdl[r].over /\ proc[i].closed = "no"]
       \/ i # 0 /\ ~hdl[r].clean /\ Goes(r, "closing") /\ Close(i) /\ UNCHANGED turn
    /\ UNCHANGED <<process, pins, server>>

LeaveClosed(r) ==
    /\ Alive /\ hdl[r].at = "closing" /\ proc[hdl[r].mine].closed = "over"
    /\ Finishes(r) /\ turn' = "nobody"
    /\ UNCHANGED <<process, proc, pins, server>>

-----------------------------------------------------------------------------
(***************************************************************************)
(* Shutdown in serveLocal                                                  *)
(***************************************************************************)
\* A signal ends the base context, and with it every request's.
StopServer ==
    /\ server = "up" /\ server' = "stopping"
    /\ hdl' = [r \in Request |-> [hdl[r] EXCEPT !.over = @ \/ hdl[r].at \notin {"new", "done"}]]
    /\ UNCHANGED <<turn, process, proc, pins>>

MainTakesTurn ==
    /\ server = "stopping" /\ turn = "nobody" /\ turn' = "main" /\ server' = "closing"
    /\ IF process = 0 THEN UNCHANGED proc
       ELSE proc' = [proc EXCEPT ![process] = TimerStopped(Closed(@))]
    /\ UNCHANGED <<hdl, process, pins>>

MainExits ==
    /\ server = "closing" /\ server' = "exited"
    /\ process # 0 => proc[process].closed = "over" /\ proc[process].reaped
    /\ UNCHANGED <<hdl, turn, process, proc, pins>>

-----------------------------------------------------------------------------
Handler(r) ==
    \/ GetTurn(r) \/ GiveUp(r) \/ FindClient(r) \/ RetireClient(r) \/ StartClient(r)
    \/ CancelCloses(r) \/ Send(r) \/ ReadEvent(r) \/ ReadEnds(r) \/ Leave(r) \/ LeaveClosed(r)

LocalNext ==
    \/ \E r \in Request : Arrive(r) \/ Handler(r) \/ Cancel(r)
    \/ \E i \in DOMAIN proc :
        \/ CloseEnds(i) \/ Reap(i) \/ IdleFires(i) \/ LateClose(i)
        \/ ClientPlaces(i) \/ ClientSpeaks(i) \/ ClientFails(i) \/ ClientEnds(i)
    \/ StopServer \/ MainTakesTurn \/ MainExits

-----------------------------------------------------------------------------
(***************************************************************************)
(* Properties                                                              *)
(***************************************************************************)
\* There is never more than one client process: the return port and the remote
\* session of the last one are free before the next one starts, however requests,
\* cancellations, the idle timer and the shutdown meet; and once the gateway has
\* exited none is left.
OneClient ==
    /\ \A i, j \in DOMAIN proc : proc[i].runs /\ proc[j].runs => i = j
    /\ server = "exited" => \A i \in DOMAIN proc : ~proc[i].runs

\* Text and end mark that reach a request were generated for that request, by a
\* client of its own conversation: neither the rest of an abandoned answer nor
\* another user's.
OwnText ==
    \A r \in Request :
        /\ hdl[r].heard \subseteq {r}
        /\ hdl[r].at = "read" => proc[hdl[r].mine].scope = ScopeOf[r]

=============================================================================
