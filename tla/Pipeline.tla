------------------------------ MODULE Pipeline ------------------------------
(***************************************************************************)
(* Pipelined speculation (generate_pipelined of src/engine/coordinator.cpp): *)
(* a sender thread drafts and sends chunks without waiting for answers,    *)
(* relay threads carry them from stage to stage (a ring does that itself), *)
(* and the receiver accepts or corrects.  The threads share PipelineState. *)
(* One request is followed from its prefill to its end.                    *)
(***************************************************************************)
EXTENDS StageSession, FiniteSets

CONSTANTS Shapes,     \* [n: stages, ring: BOOLEAN, depth: chunks in flight,
                      \*  width: tokens of a chunk, draft: what it may guess,
                      \*  budget, endAt, faulty: BOOLEAN]
          Tokens,     \* ordinary tokens
          Prompt      \* the tokens of the prompt

ASSUME ShapeAssumption ==
    /\ Shapes # {}
    /\ \A h \in Shapes : /\ {h.n, h.depth, h.width, h.budget} \subseteq Nat \ {0}
                         /\ {h.ring, h.faulty} \subseteq BOOLEAN
                         /\ h.draft \subseteq Tokens \cup {Eog}

(* The prompt is one the stages accept; Sample draws 0 and 1. *)
ASSUME TextAssumption ==
    /\ Context \in Nat /\ Prompt \in Seq(Tokens) /\ Len(Prompt) <= Context
    /\ {0, 1} \subseteq Tokens

VARIABLES shape,
          stage,     \* the session on every stage
          chan,      \* chan[k]: frames on their way to stage k
          reply,     \* reply[i]: answers on the connection of slot i
          dead,      \* stages that have closed their connection
          shared,    \* PipelineState
          sender, relay, receiver,   \* the threads
          draft,     \* the position of the draft model
          answer     \* RequestResult

vars == <<shape, stage, chan, reply, dead, shared, sender, relay, receiver, draft, answer>>

N == shape.n

(* PipelineState has one slot per stage, or a single one for a ring. *)
Slots == 1..IF shape.ring THEN 1 ELSE N
LastSlot == IF shape.ring THEN 1 ELSE N

(* unread[i] is sent[i] less what the thread that reads slot i has         *)
(* processed; ended[i] is stage_finished[i].                               *)
NoCorrection == [pending |-> FALSE, pos |-> 0, tok |-> 0]

Idle == [pc |-> "off", base |-> 0, carry |-> 0, epoch |-> 0, guesses |-> <<>>]

(* missed: only the last guess of an accepted chunk was wrong. *)
NoAnswer == [pc |-> "idle", out |-> <<>>, pos |-> 0, last |-> 0, eog |-> FALSE,
             cancelled |-> FALSE, missed |-> FALSE]

NoChunk == [epoch |-> 0, base |-> 0, guesses |-> <<>>]

Init ==
    /\ shape \in Shapes
    /\ stage = [k \in 1..shape.n |-> Fresh]
    /\ chan = [k \in 1..shape.n |-> <<>>]
    /\ reply = [i \in 1..(IF shape.ring THEN 1 ELSE shape.n) |-> <<>>]
    /\ dead = {}
    /\ shared = [inflight |-> <<>>, epoch |-> 0, finished |-> FALSE, error |-> "",
                 unread |-> [i \in DOMAIN reply |-> 0], ended |-> [i \in DOMAIN reply |-> FALSE],
                 correction |-> NoCorrection]
    /\ sender = Idle
    /\ relay = [i \in DOMAIN reply \ {LastSlot} |-> "off"]
    /\ receiver = [pc |-> "off", chunk |-> NoChunk, apply |-> FALSE, frame |-> <<>>]
    /\ draft = 0
    /\ answer = NoAnswer

Fail(reason) == [shared EXCEPT !.error = IF @ = "" THEN reason ELSE @]

(* The prompt passes through every stage, and the threads start if there   *)
(* is more to decode.                                                      *)
Prefill ==
    LET t == Sample(Prompt, shape.endAt) IN
    /\ answer.pc = "idle"
    /\ stage' = [k \in 1..N |-> [Fresh EXCEPT !.kv = Prompt, !.active = 1, !.prompted = TRUE]]
    /\ draft' = Len(Prompt)
    /\ \E cancelled \in BOOLEAN :
        LET more == ~cancelled /\ t # Eog /\ shape.budget > 1
        IN  /\ answer' = [NoAnswer EXCEPT !.pc = IF more THEN "decode" ELSE "finish", !.out = <<t>>,
                             !.pos = Len(Prompt), !.last = t, !.eog = t = Eog, !.cancelled = cancelled]
            /\ sender' = IF more THEN [Idle EXCEPT !.pc = "wait", !.base = Len(Prompt), !.carry = t]
                         ELSE [Idle EXCEPT !.pc = "end"]
            /\ relay' = [i \in DOMAIN relay |-> IF more THEN "wait" ELSE "end"]
            /\ receiver' = [receiver EXCEPT !.pc = IF more THEN "wait" ELSE "end"]
    /\ UNCHANGED <<shape, chan, reply, dead, shared>>

-----------------------------------------------------------------------------
(* pipeline_sender.                                                        *)

DraftRolledBack == IF shared.correction.pending THEN shared.correction.pos ELSE draft

HasRoom == Len(shared.inflight) < shape.depth

(* The wait: leave, or read the epoch and take over a correction. *)
SenderWait ==
    /\ sender.pc = "wait"
    /\ \/ /\ shared.error # "" \/ shared.finished
          /\ sender' = [sender EXCEPT !.pc = "end"]
          /\ shared' = [shared EXCEPT !.ended[1] = TRUE]
          /\ UNCHANGED draft
       \/ /\ shared.error = "" /\ ~shared.finished
          /\ HasRoom
          /\ LET c == shared.correction
             IN  sender' = [sender EXCEPT !.pc = "send", !.epoch = shared.epoch,
                               !.base = IF c.pending THEN c.pos ELSE @,
                               !.carry = IF c.pending THEN c.tok ELSE @]
          /\ shared' = [shared EXCEPT !.correction.pending = FALSE]
          /\ draft' = DraftRolledBack
    /\ UNCHANGED <<shape, stage, chan, reply, dead, relay, receiver, answer>>

(* The draft model proposes a full round; past its context it fails. *)
DraftFits == draft + shape.width <= Context

Proposed == [1..shape.width -> shape.draft]

(* The draft proposes and the chunk goes to the first stage. *)
SenderSend ==
    /\ sender.pc = "send"
    /\ \/ /\ DraftFits
          /\ draft' = draft + shape.width
          /\ \E guesses \in Proposed :
              /\ chan' = [chan EXCEPT ![1] = Append(@,
                            Frame("token", 1, 1, sender.base,
                                  <<sender.carry>> \o Front(guesses), guesses))]
              /\ sender' = [sender EXCEPT !.pc = "count", !.guesses = guesses]
          /\ UNCHANGED shared
       \/ /\ 1 \in dead \/ ~DraftFits
          /\ shared' = [Fail("sender") EXCEPT !.ended[1] = TRUE]
          /\ sender' = [sender EXCEPT !.pc = "end"]
          /\ UNCHANGED <<chan, draft>>
    /\ UNCHANGED <<shape, stage, reply, dead, relay, receiver, answer>>

(* Only then is it counted as sent; the chunk carries the epoch read       *)
(* before it was drafted.                                                  *)
SenderCount ==
    /\ sender.pc = "count"
    /\ shared' = [shared EXCEPT !.unread[1] = @ + 1, !.inflight = Append(@,
                    [epoch |-> sender.epoch, base |-> sender.base, guesses |-> sender.guesses])]
    /\ sender' = [sender EXCEPT !.pc = "wait", !.base = @ + shape.width,
                                !.carry = sender.guesses[shape.width], !.guesses = <<>>]
    /\ UNCHANGED <<shape, stage, chan, reply, dead, relay, receiver, draft, answer>>

-----------------------------------------------------------------------------
(* A stage takes a chunk.  One that refuses a frame answers with an error, *)
(* which in a ring rides on.  On the coordinator's connection it then      *)
(* drops the connection and its sessions; a later stage of a ring stays.   *)
Drops(k) == ~shape.ring \/ k = 1

StageStep(k) ==
    /\ chan[k] # <<>> /\ k \notin dead
    /\ LET f == Head(chan[k])
           before == Truncated(stage[k].kv, f.pos)
           slot == IF shape.ring THEN 1 ELSE k
       IN  \E fails \in IF shape.faulty /\ dead = {} THEN BOOLEAN ELSE {FALSE} :
            LET r == IF f.type = "error" THEN Outcome(stage[k], FALSE, "passed on")
                     ELSE Execute(k = 1, stage[k], f, fails)
                g == IF ~r.ok THEN ErrorFrame(f, r.why)
                     ELSE IF k < N THEN HandsOn(f)
                     ELSE [f EXCEPT !.type = "result", !.pos = @ + Len(f.toks),
                                    !.toks = Samples(before, f.toks, shape.endAt)]
            IN  /\ stage' = [stage EXCEPT ![k] = IF ~r.ok /\ Drops(k) THEN Absent ELSE r.s]
                /\ dead' = IF r.ok \/ ~Drops(k) THEN dead ELSE dead \cup {k}
                /\ IF shape.ring /\ k < N
                   THEN /\ chan' = [chan EXCEPT ![k] = Tail(@), ![k + 1] = Append(@, g)]
                        /\ UNCHANGED reply
                   ELSE /\ chan' = [chan EXCEPT ![k] = Tail(@)]
                        /\ reply' = [reply EXCEPT ![slot] = Append(@, g)]
    /\ UNCHANGED <<shape, shared, sender, relay, receiver, draft, answer>>

-----------------------------------------------------------------------------
(* pipeline_relay i reads slot i and feeds stage i + 1.  It may read only  *)
(* once a frame is counted as sent, and ends once its upstream has ended   *)
(* and everything is read.                                                 *)

(* A variant that ends only when something went wrong. *)
RelayDoneOnError(i) == shared.error # ""

RelayDone(i) == shared.error # "" \/ (shared.ended[i] /\ shared.unread[i] = 0)

RelayWait(i) ==
    /\ relay[i] = "wait"
    /\ \/ /\ RelayDone(i)
          /\ relay' = [relay EXCEPT ![i] = "end"]
          /\ shared' = [shared EXCEPT !.ended[i + 1] = TRUE]
       \/ /\ shared.error = "" /\ shared.unread[i] > 0
          /\ relay' = [relay EXCEPT ![i] = "read"]
          /\ UNCHANGED shared
    /\ UNCHANGED <<shape, stage, chan, reply, dead, sender, receiver, draft, answer>>

RelayForward(i) ==
    /\ relay[i] = "read" /\ reply[i] # <<>>
    /\ LET f == Head(reply[i]) IN
        /\ reply' = [reply EXCEPT ![i] = Tail(@)]
        /\ IF f.type = "speculative"
           THEN /\ chan' = [chan EXCEPT ![i + 1] = Append(@, f)]
                /\ relay' = [relay EXCEPT ![i] = "count"]
                /\ shared' = [shared EXCEPT !.unread[i] = @ - 1]
           ELSE /\ relay' = [relay EXCEPT ![i] = "end"]
                /\ shared' = [Fail("relay") EXCEPT !.ended[i + 1] = TRUE]
                /\ UNCHANGED chan
    /\ UNCHANGED <<shape, stage, dead, sender, receiver, draft, answer>>

RelayCount(i) ==
    /\ relay[i] = "count"
    /\ relay' = [relay EXCEPT ![i] = "wait"]
    /\ shared' = [shared EXCEPT !.unread[i + 1] = @ + 1]
    /\ UNCHANGED <<shape, stage, chan, reply, dead, sender, receiver, draft, answer>>

-----------------------------------------------------------------------------
(* pipeline_receiver.                                                      *)

(* The receiver leaves once nothing will be sent any more and everything   *)
(* is read.                                                                *)
Drained == shared.ended[LastSlot] /\ shared.unread[LastSlot] = 0

(* A variant that reads whatever the connection holds. *)
ReadyAnyway == reply[LastSlot] # <<>>

Ready == shared.unread[LastSlot] > 0

ReceiverWait ==
    /\ receiver.pc = "wait"
    /\ receiver' = [receiver EXCEPT !.pc = IF shared.error # "" \/ Drained THEN "end" ELSE "read"]
    /\ shared.error # "" \/ Drained \/ Ready
    /\ UNCHANGED <<shape, stage, chan, reply, dead, shared, sender, relay, draft, answer>>

(* A reply arrives and is paired with the oldest chunk in flight; it is    *)
(* applied unless the answer is complete or the chunk is stale.            *)
ReceiverRead ==
    /\ receiver.pc = "read" /\ reply[LastSlot] # <<>>
    /\ LET f == Head(reply[LastSlot])
           read == [shared EXCEPT !.unread[LastSlot] = IF @ > 0 THEN @ - 1 ELSE 0]
       IN  /\ reply' = [reply EXCEPT ![LastSlot] = Tail(@)]
           /\ IF shared.inflight = <<>>
              THEN /\ shared' = [read EXCEPT !.error = IF @ = "" THEN "no in-flight chunk" ELSE @]
                   /\ receiver' = [receiver EXCEPT !.pc = "end"]
              ELSE LET c == Head(shared.inflight)
                       valid == /\ f.type = "result" /\ f.pos = c.base + Len(c.guesses)
                                /\ Len(f.toks) = Len(c.guesses)
                       why == IF f.type = "error" THEN "stage" ELSE "invalid"
                   IN  IF valid
                       THEN /\ shared' = [read EXCEPT !.inflight = Tail(@)]
                            /\ receiver' = [pc |-> "apply", chunk |-> c, frame |-> f.toks,
                                            apply |-> ~shared.finished /\ c.epoch = shared.epoch]
                       ELSE /\ shared' = [read EXCEPT !.inflight = Tail(@),
                                                      !.error = IF @ = "" THEN why ELSE @]
                            /\ receiver' = [receiver EXCEPT !.pc = "end"]
    /\ UNCHANGED <<shape, stage, chan, dead, sender, relay, draft, answer>>

(* A variant that commits the guess instead of what was sampled for it. *)
CorrectedByGuess(c, checked, j) == c.guesses[j + 1]

Corrected(c, checked, j) == checked[j + 1]

(* The first j guesses are taken, then a correction unless the answer      *)
(* stopped there.  The sink (or a cancelled request) says stop at guess j, *)
(* or, late, at the correcting token.                                      *)
Applied(c, checked, j, stop, late) ==
    LET taken == Truncated(c.guesses, j)
        full == Len(answer.out) + j >= shape.budget
        stopped == j > 0 /\ (stop \/ taken[j] = Eog \/ full)
        corrected == ~stopped /\ j < Len(c.guesses)
        out == answer.out \o taken \o (IF corrected THEN <<Corrected(c, checked, j)>> ELSE <<>>)
    IN  [answer EXCEPT !.out = out, !.last = out[Len(out)], !.eog = out[Len(out)] = Eog,
            !.cancelled = IF corrected THEN late ELSE stop,
            !.pos = c.base + IF corrected THEN j + 1 ELSE j,
            !.missed = @ \/ (corrected /\ j + 1 = Len(c.guesses)
                              /\ ~late /\ checked[j + 1] # Eog /\ Len(out) < shape.budget)]

(* A correction is due when not every input of the chunk was committed:    *)
(* committed_inputs = chunk.guesses.size() counts the correcting token.    *)
FullyAccepted(c, a) == a.pos = c.base + Len(c.guesses)

ReceiverApply ==
    LET c == receiver.chunk
        right == Right(c.guesses, receiver.frame)
    IN  /\ receiver.pc = "apply"
        /\ receiver' = [pc |-> "wait", chunk |-> NoChunk, apply |-> FALSE, frame |-> <<>>]
        /\ IF ~receiver.apply THEN UNCHANGED <<shared, answer>>
           ELSE \E j \in 0..right, stop, late \in BOOLEAN :
                LET a == Applied(c, receiver.frame, j, stop, late)
                    complete == a.cancelled \/ a.eog \/ Len(a.out) >= shape.budget
                IN  /\ \A m \in 1..j - 1 : c.guesses[m] # Eog
                    /\ Len(answer.out) + j <= shape.budget
                    /\ \/ j = right
                       \/ j > 0 /\ (stop \/ c.guesses[j] = Eog \/ Len(answer.out) + j = shape.budget)
                    /\ answer' = a
                    /\ shared' = IF complete THEN [shared EXCEPT !.finished = TRUE]
                                 ELSE IF FullyAccepted(c, a) THEN shared
                                 ELSE [shared EXCEPT !.epoch = @ + 1,
                                        !.correction = [pending |-> TRUE, pos |-> a.pos, tok |-> a.last]]
        /\ UNCHANGED <<shape, stage, chan, reply, dead, sender, relay, draft>>

-----------------------------------------------------------------------------
Joined == sender.pc = "end" /\ receiver.pc = "end" /\ \A i \in DOMAIN relay : relay[i] = "end"

(* The threads are joined: an error ends the request; otherwise the text   *)
(* is rolled back or its last token committed, and the request ends.       *)
Finish ==
    LET final == Frame("commit_token", 1, 1, answer.pos, <<answer.last>>, <<>>)
        kept(k) == IF answer.cancelled THEN Rollback(stage[k], 1, 0)
                   ELSE Execute(k = 1, stage[k], IF k = 1 THEN final ELSE HandsOn(final), FALSE)
    IN  /\ answer.pc \in {"decode", "finish"} /\ Joined
        /\ IF shared.error # "" \/ \E k \in 1..N : ~kept(k).ok
           THEN answer' = [answer EXCEPT !.pc = "failed"] /\ UNCHANGED stage
           ELSE /\ answer' = [answer EXCEPT !.pc = "done"]
                /\ stage' = [k \in 1..N |-> EndRequest(kept(k).s, 1).s]
        /\ UNCHANGED <<shape, chan, reply, dead, shared, sender, relay, receiver, draft>>

Next ==
    \/ Prefill \/ SenderWait \/ SenderSend \/ SenderCount
    \/ \E k \in 1..N : StageStep(k)
    \/ \E i \in DOMAIN relay : RelayWait(i) \/ RelayForward(i) \/ RelayCount(i)
    \/ ReceiverWait \/ ReceiverRead \/ ReceiverApply \/ Finish

(* Threads and stages run; no behaviour is infinite, so progress of any    *)
(* one of them is all the fairness there is to ask for.                    *)
Spec == Init /\ [][Next]_vars /\ WF_vars(Next)
-----------------------------------------------------------------------------
(* The shape of the state. *)
TypeOK ==
    /\ shape \in Shapes
    /\ \A k \in 1..N : stage[k].kv \in Seq(Tokens \cup {Eog}) /\ Len(stage[k].kv) <= Context
    /\ Len(shared.inflight) <= shape.depth
    /\ \A i \in Slots : shared.unread[i] \in 0..shape.depth /\ shared.ended[i] \in BOOLEAN
    /\ answer.pc \in {"idle", "decode", "finish", "done", "failed"}

(* Replies pair up with chunks: whatever the timing of the threads, the    *)
(* receiver never reads a reply before its chunk is queued, never pairs it *)
(* with another chunk, the request fails only when a stage did or when the *)
(* draft has no room left for a round, and once it ends well nothing of it *)
(* is left in any connection: the answers to the next control frames are   *)
(* their own.                                                              *)
Paired ==
    /\ shared.error # "" =>
         shared.error \in {"stage", "relay", "sender"} /\ (shape.faulty \/ ~DraftFits)
    /\ answer.pc = "done" => /\ \A k \in 1..N : chan[k] = <<>>
                             /\ \A i \in Slots : reply[i] = <<>>
                             /\ shared.inflight = <<>>

(* The answer is the one plain decoding gives and every stage holds it, as *)
(* long as no chunk was wrong in its last guess alone.                     *)
PlainOutput ==
    ~answer.missed =>
        /\ Continues(Prompt, answer.out, shape.endAt) /\ Len(answer.out) <= shape.budget
        /\ answer.pc = "done" => \A k \in 1..N :
             stage[k].kv = (IF answer.cancelled THEN <<>> ELSE Prompt \o answer.out)

(* The threads end and the request is answered or fails. *)
Terminates == <>(answer.pc \in {"done", "failed"})

(* "Committed output must match generate()'s single-chunk speculative      *)
(* path" (coordinator.cpp): accepted tokens are what plain decoding gives. *)
(* The code does not keep this: see FullyAccepted.                         *)
CommittedOutput == Continues(Prompt, answer.out, shape.endAt)
=============================================================================
