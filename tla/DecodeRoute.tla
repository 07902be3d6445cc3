----------------------------- MODULE DecodeRoute ----------------------------
(***************************************************************************)
(* Requests decoded along a route of stages: the drivers (generate,        *)
(* generate_loop and the InferenceClient calls of src/engine/client.cpp,   *)
(* run_request of src/engine/replica_owner.cpp) and the stages that answer *)
(* them (run_ring, serve_control, continue_loop of stage_worker.cpp).      *)
(*                                                                         *)
(* A driver is "hub" (every stage answers on its own connection), "ring"   *)
(* (stages hand their output to each other), "loop" (the last stage also   *)
(* feeds its tokens back to the first) or "owner" (a replica owner looping *)
(* several sessions at once).  An exchange with a stage is one step; the   *)
(* stages of a control call are visited one after the other.               *)
(***************************************************************************)
EXTENDS StageSession, FiniteSets

CONSTANTS Sessions,
          Routes,        \* the routes of this instance; budgets are the token
                         \* limits of its requests, asks bounds their number
          Tokens,        \* ordinary tokens
          Prompts,       \* what a request adds to the text
          Chats,         \* whole conversations, sent again with every request
          Width,         \* tokens of a verify batch
          MaxFaults      \* bound: decode calls that fail

ASSUME RouteAssumption ==
    /\ \A r \in Routes : /\ r.n \in Nat \ {0}
                         /\ r.mode \in {"hub", "ring", "loop", "owner"}
                         /\ r.budgets \subseteq Nat \ {0}
                         /\ {r.draft, r.faulty} \subseteq BOOLEAN
                         /\ {r.chunk, r.endAt, r.asks} \subseteq Nat
    /\ Eog \notin Tokens /\ Tokens \subseteq Nat
    /\ Width \in Nat \ {0}

VARIABLES route,    \* the route all drivers use
          stage,    \* stage[k][s]: session s on the k-th stage
          link,     \* link[k]: frames on their way to the ring thread of stage k
          stream,   \* stream[s]: LoopState entry of s at the last stage
          pend,     \* results the last stage's ring thread is streaming
          inbox,    \* inbox[s]: frames on their way to the driver of s
          drv,      \* drv[s]: the driver of s
          faults    \* decode calls that have failed

vars == <<route, stage, link, stream, pend, inbox, drv, faults>>

N == route.n
Looping == route.mode \in {"loop", "owner"}

NoStream == [req |-> 0, left |-> 0, cancelled |-> FALSE]

(* The frame that is in flight, or none. *)
NoFrame == Frame("none", 0, 0, 0, <<>>, <<>>)

(* text: what the driver believes every stage holds (state.position is its *)
(* length).  prompt, budget, out, pos, stop: the running request.  i: the  *)
(* stage a control call visits next.  next: the next request number.       *)
(* stuck: the driver's own repair was refused by a stage.                  *)
NoRequest ==
    [pc |-> "idle", req |-> 0, next |-> 1, text |-> <<>>, chat |-> <<>>, prompt |-> <<>>,
     budget |-> 0, out |-> <<>>, pos |-> 0, stop |-> FALSE, once |-> FALSE, i |-> 1,
     frame |-> NoFrame, why |-> "", stuck |-> FALSE]

Init ==
    /\ route \in Routes
    /\ stage = [k \in 1..route.n |-> [s \in Sessions |-> Absent]]
    /\ link = [k \in 1..route.n |-> <<>>]
    /\ stream = [s \in Sessions |-> NoStream]
    /\ pend = <<>>
    /\ inbox = [s \in Sessions |-> <<>>]
    /\ drv = [s \in Sessions |-> [NoRequest EXCEPT !.pc = "closed"]]
    /\ faults = 0

(* Whether another request may be made, and whether a decode call may fail. *)
MayAsk == FoldSet(LAMBDA s, sum : drv[s].next - 1 + sum, 0, Sessions) < route.asks

MayFail == IF route.faulty /\ faults < MaxFaults THEN BOOLEAN ELSE {FALSE}

Counted(fails) == faults' = faults + (IF fails THEN 1 ELSE 0)

Update(k, s, session) == stage' = [stage EXCEPT ![k][s] = session]

(* A whole-model loop runs on the control thread, which serves nothing     *)
(* else meanwhile.                                                         *)
ControlFree == N > 1 \/ (pend = <<>> /\ link[1] = <<>>)

-----------------------------------------------------------------------------
(* The last stage.                                                         *)

(* The tokens a decoded frame yields there: what a verified batch commits, *)
(* or the one sample.                                                      *)
AcceptedTokens(f, before) ==
    IF Len(f.guesses) > 0 THEN Accepted(f.guesses, Samples(before, f.toks, route.endAt))
    ELSE <<Sample(before \o f.toks, route.endAt)>>

(* A token as a result frame whose position is where that token goes. *)
StreamedFrame(f, at, token) == Frame("result", f.s, f.req, at, <<token>>, <<>>)

Results(f, before) ==
    LET tokens == AcceptedTokens(f, before)
        at(j) == IF Len(f.guesses) > 0 THEN f.pos + j ELSE f.pos + Len(f.toks)
    IN  [j \in 1..Len(tokens) |-> StreamedFrame(f, at(j), tokens[j])]

Owned(f) == stream[f.s].req = f.req

(* A variant that leaves the stream of a failed request open. *)
StreamKept(f) == stream

StreamEnded(f) == IF Owned(f) THEN [stream EXCEPT ![f.s] = NoStream] ELSE stream

(* run_ring, after the compute: where the outcome of stage k goes.  A      *)
(* chunk of a prompt yields nothing at the last stage; a result of a       *)
(* streaming request is left to continue_loop.                             *)
Forwarded(k, f, before) ==
    IF k < N
    THEN /\ link' = [link EXCEPT ![k] = Tail(@), ![k + 1] = Append(@, HandsOn(f))]
         /\ UNCHANGED <<stream, pend, inbox>>
    ELSE /\ link' = [link EXCEPT ![k] = Tail(@)]
         /\ stream' = stream
         /\ IF f.type = "prompt_chunk" THEN UNCHANGED <<pend, inbox>>
            ELSE IF Owned(f)
            THEN pend' = Append(pend, Results(f, before)) /\ UNCHANGED inbox
            ELSE inbox' = [inbox EXCEPT ![f.s] = Append(@, Results(f, before)[1])] /\ UNCHANGED pend

(* A variant in which the stages after the failed one never hear of it. *)
ErrorDropped(k, f) ==
    link' = [link EXCEPT ![k] = Tail(@)] /\ UNCHANGED <<stream, pend, inbox>>

(* An error rides the ring to the driver; at the last stage it also ends   *)
(* the stream.                                                             *)
ErrorForwarded(k, f) ==
    /\ pend' = pend
    /\ IF k < N
       THEN /\ link' = [link EXCEPT ![k] = Tail(@), ![k + 1] = Append(@, f)]
            /\ UNCHANGED <<stream, inbox>>
       ELSE /\ link' = [link EXCEPT ![k] = Tail(@)]
            /\ stream' = StreamEnded(f)
            /\ inbox' = [inbox EXCEPT ![f.s] = Append(@, f)]

(* What the draft model or the n-gram draft may propose after a token: as  *)
(* far as the context has room, any tokens (what the draft has read does   *)
(* not matter to anything but how good its guesses are).                   *)
ModelProposals(position) ==
    LET room == SpeculationRoom(position)
    IN  UNION {[1..m -> Tokens \cup {Eog}] : m \in 0..IF room < Width - 1 THEN room ELSE Width - 1}

(* draft_round: the guesses the first stage adds to a token (none, if the  *)
(* draft is off, cannot follow the text or proposes nothing), ...          *)
Proposals(k, f) == IF k = 1 /\ route.draft /\ f.type = "token" THEN ModelProposals(f.pos) ELSE {<<>>}

(* ... and the frame of the token and its guesses. *)
TokenFrame(f, guesses) ==
    IF guesses = <<>> THEN f ELSE [f EXCEPT !.toks = @ \o guesses, !.guesses = guesses]

(* The frame a ring thread reads next. *)
RecvRingFrame(k) == Head(link[k])

(* The stage decodes it; on a whole-model route this is local_decode, on   *)
(* the control thread.                                                     *)
LocalDecode(k, f, fails) == Execute(k = 1, stage[k][f.s], f, fails)

(* The ring thread of a stage takes one frame through the stage. *)
RingStep(k) ==
    /\ link[k] # <<>>
    /\ k = N => pend = <<>>
    /\ LET f == RecvRingFrame(k)
           before == Truncated(stage[k][f.s].kv, f.pos)
       IN  IF f.type = "error"
           THEN ErrorForwarded(k, f) /\ UNCHANGED <<stage, faults>>
           ELSE \E guesses \in Proposals(k, f), fails \in MayFail :
                    LET g == TokenFrame(f, guesses)
                        r == LocalDecode(k, g, fails)
                    IN  /\ Update(k, f.s, r.s)
                        /\ Counted(fails)
                        /\ IF r.ok THEN Forwarded(k, g, before)
                           ELSE ErrorForwarded(k, ErrorFrame(f, r.why))
    /\ UNCHANGED <<route, drv>>

(* decode_batch: every session of the batch advances by its own token. *)
BatchDecoded(k, batch) ==
    [stage EXCEPT ![k] = [s \in Sessions |->
        IF \E j \in DOMAIN batch : batch[j].s = s
        THEN Decoded(@[s], batch[CHOOSE j \in DOMAIN batch : batch[j].s = s]) ELSE @[s]]]

(* Continuous batching: frames of several sessions that wait at a stage    *)
(* are decoded together, and fail together.                                *)
RingBatch(k) ==
    /\ N > 1 /\ ~route.draft
    /\ k = N => pend = <<>>
    /\ \E m \in 2..Len(link[k]) :
        LET batch == Truncated(link[k], m)
            at(s) == CHOOSE j \in 1..m : batch[j].s = s
            in(s) == \E j \in 1..m : batch[j].s = s
            rest == SubSeq(link[k], m + 1, Len(link[k]))
            outputs == [j \in 1..m |-> HandsOn(batch[j])]
            errors == [j \in 1..m |-> ErrorFrame(batch[j], "batched decode failed")]
        IN  /\ \A j \in 1..m : /\ Batchable(k = 1, stage[k][batch[j].s], batch[j])
                               /\ at(batch[j].s) = j
            /\ \E fails \in MayFail :
                /\ Counted(fails)
                /\ stage' = IF fails THEN stage ELSE BatchDecoded(k, batch)
                /\ IF k < N
                   THEN /\ link' = [link EXCEPT ![k] = rest,
                                      ![k + 1] = @ \o (IF fails THEN errors ELSE outputs)]
                        /\ UNCHANGED <<stream, pend, inbox>>
                   ELSE /\ link' = [link EXCEPT ![k] = rest]
                        /\ IF fails
                           THEN /\ stream' = [s \in Sessions |->
                                     IF in(s) /\ Owned(batch[at(s)]) THEN NoStream ELSE stream[s]]
                                /\ inbox' = [s \in Sessions |->
                                     IF in(s) THEN Append(inbox[s], errors[at(s)]) ELSE inbox[s]]
                                /\ pend' = pend
                           ELSE /\ pend' = [j \in 1..m |-> Results(batch[j], stage[k][batch[j].s].kv)]
                                /\ UNCHANGED <<stream, inbox>>
    /\ UNCHANGED <<route, drv>>

FinalToken(f) ==
    LET st == stream[f.s] IN f.toks[1] = Eog \/ ~Owned(f) \/ st.cancelled \/ st.left <= 1

(* One turn of continue_loop: the next token goes to the driver, as the    *)
(* result if it is the last one of the answer.  Otherwise, once the round  *)
(* is used up, the token goes back to the first stage.                     *)
StreamStep ==
    /\ pend # <<>>
    /\ LET frames == Head(pend)
           f == Head(frames)
           final == FinalToken(f)
       IN  /\ inbox' = [inbox EXCEPT ![f.s] =
                           Append(@, [f EXCEPT !.type = IF final THEN "result" ELSE "chunk"])]
           /\ stream' = IF final THEN StreamEnded(f) ELSE [stream EXCEPT ![f.s].left = @ - 1]
           /\ pend' = IF ~final /\ Len(frames) > 1 THEN <<Tail(frames)>> \o Tail(pend) ELSE Tail(pend)
           /\ link' = IF final \/ Len(frames) > 1 THEN link
                      ELSE [link EXCEPT ![1] = Append(@, [f EXCEPT !.type = "token"])]
    /\ UNCHANGED <<route, stage, drv, faults>>

-----------------------------------------------------------------------------
(* The first stage's control thread takes a prompt (cut into chunks that   *)
(* later stages can start on early) or a token from the driver.            *)
Chunk(f, type, from, to) ==
    [f EXCEPT !.type = type, !.pos = @ + from - 1, !.toks = SubSeq(@, from, to)]

Pieces(f) ==
    LET size == IF N > 1 /\ f.type = "prompt" /\ route.chunk > 0 THEN route.chunk ELSE Len(f.toks)
        count == IF Len(f.toks) = 0 THEN 1 ELSE (Len(f.toks) + size - 1) \div size
    IN  [j \in 1..count |->
           Chunk(f, IF j < count THEN "prompt_chunk" ELSE HandsOn(f).type, (j - 1) * size + 1,
                 IF j < count THEN j * size ELSE Len(f.toks))]

(* done pieces are decoded and handed on; the next one fails, if any.  The *)
(* outcome goes to the next hop; on a whole-model route to continue_loop   *)
(* while the request streams, and to the driver otherwise.  A failed       *)
(* request no longer streams.                                              *)
TakeInput(s) ==
    LET d == drv[s]
        f == d.frame
        r == Execute(TRUE, stage[1][s], f, FALSE)
    IN  /\ d.pc = "sent" /\ ControlFree
        /\ drv' = [drv EXCEPT ![s].pc = "await", ![s].frame = NoFrame]
        /\ \E fails \in MayFail, done \in 0..Len(Pieces(f)) :
            LET whole == done = Len(Pieces(f))
                out == Truncated(Pieces(f), done)
                err == ErrorFrame(f, IF r.ok THEN "decode failed" ELSE r.why)
                cached == IF done = 0 THEN <<>> ELSE Truncated(f.toks,
                             out[done].pos + Len(out[done].toks) - f.pos)
            IN  /\ IF r.ok THEN fails = ~whole ELSE ~fails /\ done = 0
                /\ Counted(fails)
                /\ IF r.ok
                   THEN Update(1, s, [r.s EXCEPT !.kv = Truncated(@, f.pos) \o cached])
                   ELSE Update(1, s, r.s)
                /\ IF N > 1
                   THEN /\ link' = [link EXCEPT ![2] = @ \o out \o (IF whole THEN <<>> ELSE <<err>>)]
                        /\ UNCHANGED <<stream, pend, inbox>>
                   ELSE /\ link' = link
                        /\ IF ~whole
                           THEN /\ stream' = StreamEnded(f)
                                /\ inbox' = [inbox EXCEPT ![s] = Append(@, err)]
                                /\ pend' = pend
                           ELSE IF Owned(f)
                           THEN /\ pend' = Append(pend, Results(f, Truncated(stage[1][s].kv, f.pos)))
                                /\ UNCHANGED <<stream, inbox>>
                           ELSE /\ inbox' = [inbox EXCEPT ![s] =
                                      Append(@, Results(f, Truncated(stage[1][s].kv, f.pos))[1])]
                                /\ UNCHANGED <<stream, pend>>
        /\ UNCHANGED route

-----------------------------------------------------------------------------
(* The drivers.  Set(s, d) replaces the driver of s. *)
Set(s, d) == drv' = [drv EXCEPT ![s] = d]

OnlyDriver(s, d) == Set(s, d) /\ UNCHANGED <<route, stage, link, stream, pend, inbox, faults>>

(* The session waits for its next request. *)
Idle(d, text, chat) ==
    [NoRequest EXCEPT !.next = d.next, !.once = d.once, !.stuck = d.stuck,
                      !.text = text, !.chat = chat]

(* A control call that goes to every stage in turn. *)
Calling(d, call) == [d EXCEPT !.pc = call, !.i = 1]

(* create_session on every stage (how a ring links up is RingWorker's). *)
OpenSession(s) ==
    /\ drv[s].pc = "closed" /\ MayAsk
    /\ route.mode # "owner" => \A t \in Sessions : drv[t].pc = "closed"
    /\ \E once \in IF route.mode = "owner" THEN {FALSE} ELSE BOOLEAN :
           OnlyDriver(s, Calling([NoRequest EXCEPT !.next = drv[s].next, !.once = once], "create"))

(* prepare_chat: the client sends its whole conversation again. *)
PrepareCall(s) ==
    /\ drv[s].pc = "idle" /\ ~drv[s].once /\ Looping /\ MayAsk /\ drv[s].chat = <<>>
    /\ \E chat \in Chats : OnlyDriver(s, Calling([drv[s] EXCEPT !.chat = chat], "prepare"))

(* A client that starts over or leaves a conversation. *)
ResetCall(s) ==
    /\ drv[s].pc = "idle" /\ ~drv[s].once /\ drv[s].text # <<>>
    /\ OnlyDriver(s, Calling([drv[s] EXCEPT !.why = "asked"], "reset"))

DestroyCall(s) ==
    /\ drv[s].pc = "idle" /\ ~drv[s].once /\ drv[s].text # <<>>
    /\ OnlyDriver(s, Calling(drv[s], "destroy"))

(* A new request: the budget goes to the last stage (loop, owner) and the  *)
(* prompt to the first.                                                    *)
Begin(s) ==
    LET d == drv[s] IN
    /\ d.pc = "idle" /\ MayAsk /\ ControlFree
    /\ \E prompt \in IF d.chat = <<>> THEN Prompts ELSE {d.chat}, budget \in route.budgets :
        LET b == [d EXCEPT !.req = d.next, !.next = @ + 1, !.prompt = prompt, !.chat = <<>>,
                           !.budget = budget, !.out = <<>>, !.pos = Len(d.text), !.stop = FALSE,
                           !.why = "", !.i = 1,
                           !.frame = Frame("prompt", s, d.next, Len(d.text), prompt, <<>>)]
        IN  IF ~Looping
            THEN Set(s, [b EXCEPT !.pc = IF route.mode = "hub" THEN "hub" ELSE "sent"])
                 /\ UNCHANGED stream
            ELSE IF stream[s] # NoStream
            THEN Set(s, IF route.mode = "owner" THEN Idle(b, d.text, <<>>)
                        ELSE [b EXCEPT !.pc = "failed", !.why = "streaming"]) /\ UNCHANGED stream
            ELSE /\ Set(s, [b EXCEPT !.pc = "sent"])
                 /\ stream' = [stream EXCEPT ![s] = [req |-> d.next, left |-> budget, cancelled |-> FALSE]]
    /\ UNCHANGED <<route, stage, link, pend, inbox, faults>>

(* After the answer: roll back, or commit its last token, then end the     *)
(* request; a generate_once neither commits nor keeps its session.         *)
Finishing(s, d) ==
    IF d.stop THEN Calling(d, "rollback")
    ELSE IF d.once THEN Calling(d, "end")
    ELSE [Calling(d, "commit") EXCEPT !.frame =
              Frame("commit_token", s, d.req, d.pos, <<d.out[Len(d.out)]>>, <<>>)]

(* generate feeds the last token back, with guesses if it has a draft. *)
NextInput(s, d, guesses) ==
    [d EXCEPT !.pc = IF route.mode = "hub" THEN "hub" ELSE "sent", !.i = 1,
              !.frame = Frame("token", s, d.req, d.pos,
                              <<d.out[Len(d.out)]>> \o Truncated(guesses, Len(guesses) - 1), guesses)]

Guesses(d) ==
    LET left == d.budget - Len(d.out)
    IN  IF route.mode = "hub" /\ route.draft
        THEN [1..(IF left < Width THEN left ELSE Width) -> Tokens \cup {Eog}]
        ELSE {<<>>}

(* generate takes tokens of a round until the text ends or its sink says   *)
(* stop; base is the position before the first of them.                    *)
Absorb(s, d, tokens, base) ==
    \E j \in 1..Len(tokens), stop \in BOOLEAN :
        LET a == [d EXCEPT !.out = @ \o Truncated(tokens, j), !.pos = base + j, !.stop = stop]
            more == Len(a.out) < a.budget /\ tokens[j] # Eog /\ ~stop
        IN  /\ \A m \in 1..j - 1 : tokens[m] # Eog
            /\ j = Len(tokens) \/ tokens[j] = Eog \/ stop
            /\ IF more THEN \E guesses \in Guesses(a) : Set(s, NextInput(s, a, guesses))
               ELSE Set(s, Finishing(s, a))

(* route_step and route_speculative without a ring: the frame visits one   *)
(* stage after the other.  A stage that refuses it also drops everything.  *)
(* A draft follows a text only from its start: generate throws after the   *)
(* prompt of a session that already holds some.                            *)
HubStep(s) ==
    LET d == drv[s]
        f == d.frame
        before == Truncated(stage[d.i][s].kv, f.pos)
        samples == Samples(before, f.toks, route.endAt)
    IN  /\ d.pc = "hub"
        /\ \E fails \in MayFail :
            LET r == Execute(d.i = 1, stage[d.i][s], f, fails) IN
            /\ Counted(fails)
            /\ Update(d.i, s, IF r.ok THEN r.s ELSE Absent)
            /\ IF ~r.ok THEN Set(s, [d EXCEPT !.pc = "failed", !.why = r.why])
               ELSE IF d.i < N THEN Set(s, [d EXCEPT !.i = @ + 1, !.frame = HandsOn(f)])
               ELSE IF route.draft /\ d.text # <<>>
               THEN Set(s, [d EXCEPT !.pc = "failed", !.why = "draft"])
               ELSE IF f.guesses = <<>>
               THEN Absorb(s, d, <<samples[Len(samples)]>>, f.pos + Len(f.toks) - 1)
               ELSE LET right == Right(f.guesses, samples)
                    IN  Absorb(s, d, IF right = Len(samples) THEN samples
                                     ELSE Truncated(samples, right + 1), f.pos)
        /\ UNCHANGED <<route, link, stream, pend, inbox>>

(* A frame comes back around the ring. *)
Receive(s) ==
    LET d == drv[s]
        f == Head(inbox[s])
        owner == route.mode = "owner"
    IN  /\ d.pc = "await" /\ inbox[s] # <<>>
        /\ inbox' = [inbox EXCEPT ![s] = Tail(@)]
        /\ IF f.req # d.req
           THEN IF owner THEN UNCHANGED drv ELSE Set(s, [d EXCEPT !.pc = "failed", !.why = "invalid"])
           ELSE IF f.type = "error"
           THEN IF owner THEN Set(s, Calling([d EXCEPT !.why = f.why], "mend"))
                ELSE Set(s, [d EXCEPT !.pc = "failed", !.why = f.why])
           ELSE IF ~Looping THEN Absorb(s, d, f.toks, f.pos - 1)
           ELSE \E stop \in {d.stop, TRUE} :
                LET a == [d EXCEPT !.out = @ \o f.toks, !.pos = f.pos, !.stop = stop]
                IN  IF f.type = "result"
                    THEN (owner => stop = d.stop) /\ Set(s, Finishing(s, a))
                    ELSE Set(s, [a EXCEPT !.pc = IF stop /\ ~d.stop THEN "cancel" ELSE "await"])
        /\ UNCHANGED <<route, stage, link, stream, pend, faults>>

(* cancel_request to the last stage. *)
CancelStep(s) ==
    /\ drv[s].pc = "cancel"
    /\ stream' = [stream EXCEPT ![s] = IF @.req = drv[s].req THEN [@ EXCEPT !.cancelled = TRUE] ELSE @]
    /\ Set(s, [drv[s] EXCEPT !.pc = "await"])
    /\ UNCHANGED <<route, stage, link, pend, inbox, faults>>

-----------------------------------------------------------------------------
(* Control calls, one stage at a time.  A stage of a ring that cannot      *)
(* reach its neighbour refuses to open the session (create_ring_session    *)
(* then closes the whole route).                                           *)
Calls == {"create", "prepare", "rollback", "commit", "end", "mend", "reset", "destroy"}

Answer(d, k, s, fails) ==
    LET session == stage[k][s] IN
    CASE d.pc = "create" ->
           IF fails THEN Outcome(session, FALSE, "no connection")
           ELSE Create(session, Cardinality({t \in Sessions : stage[k][t].open}) = Cardinality(Sessions))
      [] d.pc = "prepare" ->
           IF Len(d.chat) >= Context THEN Outcome(session, FALSE, "context exhausted")
           ELSE PrepareChat(session, IF k = 1 THEN SharedPrefix(session.kv, d.chat) ELSE d.pos)
      [] d.pc = "rollback" -> Rollback(session, d.req, Len(d.text))
      [] d.pc = "commit" -> Execute(k = 1, session, d.frame, fails)
      [] d.pc = "reset" -> Reset(session)
      [] d.pc = "destroy" -> Destroy(session)
      [] OTHER -> IF d.pc = "end" /\ Len(session.kv) # Len(stage[1][s].kv)
                  THEN Outcome(EndRequest(session, d.req).s, FALSE, "positions diverged")
                  ELSE EndRequest(session, d.req)

(* Every stage has answered. *)
Completed(d) ==
    CASE d.pc = "prepare" -> Idle(d, Truncated(d.text, d.pos), SubSeq(d.chat, d.pos + 1, Len(d.chat)))
      [] d.pc \in {"rollback", "commit"} -> Calling(d, "end")
      [] d.pc = "end" ->
           IF d.once THEN Calling(d, "destroy")
           ELSE Idle(d, IF d.stop THEN d.text ELSE d.text \o d.prompt \o d.out, <<>>)
      [] d.pc = "mend" -> Calling(d, "reset")
      [] d.pc = "reset" -> Idle(d, <<>>, <<>>)
      [] d.pc = "destroy" -> [NoRequest EXCEPT !.pc = "closed", !.next = d.next]
      [] OTHER -> Idle(d, <<>>, <<>>)

(* A stage refused.  prepare_chat resets every stage and gives up; a       *)
(* client lets the error end its connection; the owner resets the session  *)
(* after a failed commit, and carries on with position 0 whatever the      *)
(* stages answer to the reset.                                             *)
Refused(d, why) ==
    IF d.pc = "prepare" THEN Calling([d EXCEPT !.why = why], "reset")
    ELSE IF route.mode # "owner" \/ d.pc = "create" THEN [d EXCEPT !.pc = "failed", !.why = why]
    ELSE IF d.pc \in {"rollback", "commit", "end"} THEN Calling([d EXCEPT !.why = why], "reset")
    ELSE Idle([d EXCEPT !.stuck = TRUE],
              IF d.pc = "reset" /\ d.why # "asked" THEN <<>> ELSE d.text, <<>>)

ControlStep(s) ==
    LET d == drv[s]
        k == d.i
    IN  /\ d.pc \in Calls /\ ControlFree
        /\ \E fails \in IF d.pc = "commit" \/ (d.pc = "create" /\ route.mode \in {"ring", "loop"})
                       THEN MayFail ELSE {FALSE} :
            LET r == Answer(d, k, s, fails)
                e == [d EXCEPT !.i = @ + 1, !.frame = HandsOn(@),
                               !.pos = IF d.pc = "prepare" THEN Len(r.s.kv) ELSE @]
            IN  /\ Counted(fails)
                /\ Update(k, s, IF r.ok \/ route.mode # "hub" THEN r.s ELSE Absent)
                /\ Set(s, IF ~r.ok /\ d.pc # "mend" THEN Refused(d, r.why)
                          ELSE IF k < N THEN e
                          ELSE Completed(e))
        /\ UNCHANGED <<route, link, stream, pend, inbox>>

(* A chat whose context is full tries to start over; any other error ends  *)
(* the client, and a client that leaves takes its sessions with it.        *)
ContextFull(d) == route.mode \in {"ring", "loop"} /\ d.why = "context exhausted"

StartOver(s) ==
    /\ drv[s].pc = "failed" /\ ContextFull(drv[s])
    /\ OnlyDriver(s, Calling([drv[s] EXCEPT !.why = "full"], "reset"))

Leave(s) ==
    /\ drv[s].pc = "failed" /\ route.mode # "owner"
    /\ ~ContextFull(drv[s])
    /\ Set(s, [drv[s] EXCEPT !.pc = "gone", !.text = <<>>, !.out = <<>>, !.frame = NoFrame])
    /\ stage' = [k \in 1..N |-> [stage[k] EXCEPT ![s] = Absent]]
    /\ link' = [k \in 1..N |-> <<>>] /\ pend' = <<>>
    /\ stream' = [stream EXCEPT ![s] = NoStream] /\ inbox' = [inbox EXCEPT ![s] = <<>>]
    /\ UNCHANGED <<route, faults>>

(* What happens without anyone asking for it. *)
Progress(s) ==
    \/ TakeInput(s) \/ HubStep(s) \/ Receive(s) \/ CancelStep(s)
    \/ ControlStep(s) \/ StartOver(s) \/ Leave(s)

Stages == StreamStep \/ \E k \in 1..N : RingStep(k)

Next ==
    \/ \E s \in Sessions : OpenSession(s) \/ PrepareCall(s) \/ ResetCall(s) \/ DestroyCall(s)
                            \/ Begin(s) \/ Progress(s)
    \/ Stages
    \/ \E k \in 1..N : RingBatch(k)

(* Worker threads, driver threads and connections make progress as long as *)
(* one of them has something to do.  (Nothing runs forever on its own, so  *)
(* fairness to each of them would add nothing.)                            *)
Fairness == WF_vars(Stages \/ \E s \in Sessions : Progress(s))

Spec == Init /\ [][Next]_vars /\ Fairness

-----------------------------------------------------------------------------
(* The state is well-formed, and no stage ever holds more than Context     *)
(* positions.                                                              *)
TypeOK ==
    /\ route \in Routes
    /\ \A k \in 1..N, s \in Sessions :
         /\ stage[k][s].kv \in Seq(Tokens \cup {Eog}) /\ Len(stage[k][s].kv) <= Context
         /\ {stage[k][s].active, stage[k][s].last} \subseteq 0..route.asks
         /\ {stage[k][s].open, stage[k][s].prompted} \subseteq BOOLEAN
    /\ \A s \in Sessions : /\ drv[s].pc \in Calls \cup {"idle", "sent", "await", "hub", "cancel",
                                                         "failed", "closed", "gone"}
                            /\ stream[s].left \in Nat
    /\ faults \in 0..MaxFaults

(* Between requests every stage of the route holds exactly the committed   *)
(* text of the session and has no request open, whatever was accepted,     *)
(* rejected, cancelled, failed or reset before (unless the driver's own    *)
(* repair was refused: see NothingHalfDone).                               *)
KvAgree ==
    \A s \in Sessions : drv[s].pc = "idle" /\ ~drv[s].stuck =>
        \A k \in 1..N : stage[k][s].open /\ stage[k][s].kv = drv[s].text /\ stage[k][s].active = 0

(* Whatever the drafts guess, and however the stages' work is batched, an  *)
(* answer is the one plain greedy decoding gives (speculation.hpp).        *)
(* It ends at its budget, at the end of the text or because it was         *)
(* cancelled, never earlier and never later, also when one verified batch  *)
(* holds more tokens than the budget has left.                             *)
PlainOutput ==
    \A s \in Sessions :
        LET d == drv[s] IN
        /\ ~d.stuck /\ d.pc # "idle" => Continues(d.text \o d.prompt, d.out, route.endAt)
        /\ Len(d.out) <= d.budget
        /\ d.pc \in {"commit", "rollback"} =>
             d.stop \/ Len(d.out) = d.budget \/ d.out[Len(d.out)] = Eog
        /\ \A j \in 1..Len(d.out) - 1 : d.out[j] # Eog

(* A session without a request has nothing left on the ring: no frame of   *)
(* an earlier request can meet the next one.                               *)
NoStrays ==
    \A s \in Sessions : drv[s].pc \in {"idle", "closed"} /\ ~drv[s].stuck =>
        /\ stream[s] = NoStream /\ inbox[s] = <<>>
        /\ \A k \in 1..N : \A j \in DOMAIN link[k] : link[k][j].s # s
        /\ \A j \in DOMAIN pend : pend[j][1].s # s

(* Every request is answered or reported as failed. *)
Answered == \A s \in Sessions : drv[s].pc = "sent" ~> drv[s].pc \in {"idle", "closed", "gone"}

(* "Leave nothing half-done on any member" (replica_owner.cpp): after a    *)
(* request has failed, no stage still has it open.  The code does not keep *)
(* this when the commit of the last token is refused.                      *)
NothingHalfDone ==
    \A s \in Sessions : drv[s].pc = "idle" => \A k \in 1..N : stage[k][s].active = 0
=============================================================================
