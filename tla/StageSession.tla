---------------------------- MODULE StageSession ----------------------------
(***************************************************************************)
(* One session on one stage: its KV cache and the request it is serving    *)
(* (Session and the handlers of Stage in src/engine/stage_worker.cpp).     *)
(* Pure operators: each handler maps a session and a frame to the outcome  *)
(* [s: the session afterwards, ok: whether it was accepted, why: the       *)
(* reason of a refusal].  DecodeRoute and Pipeline run the handlers.       *)
(*                                                                         *)
(* A KV cache is the sequence of tokens whose hidden states it holds, and  *)
(* session.position is its length: every handler changes the two together. *)
(* An activation stands for the tokens whose hidden states it carries.     *)
(***************************************************************************)
EXTENDS Naturals, Sequences, SequencesExt

CONSTANTS Context,   \* positions a session may hold
          Eog        \* the token that ends the text

(* Nothing, or a freshly created session. *)
Absent == [open |-> FALSE, kv |-> <<>>, active |-> 0, last |-> 0, prompted |-> FALSE]

Fresh == [Absent EXCEPT !.open = TRUE]

Outcome(session, accepted, reason) == [s |-> session, ok |-> accepted, why |-> reason]

(* A frame: control and hot-path frames share one layout.  guesses ride    *)
(* behind the rows of a speculative activation.                            *)
Frame(type, session, request, position, tokens, proposals) ==
    [type |-> type, s |-> session, req |-> request, pos |-> position,
     toks |-> tokens, guesses |-> proposals, why |-> ""]

ErrorFrame(f, reason) ==
    [f EXCEPT !.type = "error", !.pos = 0, !.toks = <<>>, !.guesses = <<>>, !.why = reason]

Truncated(kv, length) == SubSeq(kv, 1, length)

(* full: every sequence of the stage's context pool is in use. *)
Create(s, full) ==
    IF s.open \/ full THEN Outcome(s, FALSE, "session limit") ELSE Outcome(Fresh, TRUE, "")

Reset(s) ==
    IF ~s.open \/ s.active # 0 THEN Outcome(s, FALSE, "active") ELSE Outcome(Fresh, TRUE, "")

Destroy(s) ==
    IF ~s.open \/ s.active # 0 THEN Outcome(s, FALSE, "active") ELSE Outcome(Absent, TRUE, "")

EndRequest(s, request) ==
    IF ~s.open \/ s.active # request \/ ~s.prompted THEN Outcome(s, FALSE, "mismatch")
    ELSE Outcome([s EXCEPT !.last = request, !.active = 0, !.prompted = FALSE], TRUE, "")

(* A variant that forgets to trim the cache. *)
RollbackNothing(s, request, position) ==
    IF ~s.open \/ s.active # request THEN Outcome(s, FALSE, "mismatch") ELSE Outcome(s, TRUE, "")

Rollback(s, request, position) ==
    IF ~s.open \/ s.active # request \/ position > Len(s.kv) THEN Outcome(s, FALSE, "mismatch")
    ELSE Outcome([s EXCEPT !.kv = Truncated(@, position)], TRUE, "")

(* prepare_chat trims the cache to the prefix the new prompt shares with it. *)
PrepareChat(s, reuse) ==
    IF ~s.open \/ s.active # 0 \/ reuse > Len(s.kv) THEN Outcome(s, FALSE, "invalid")
    ELSE Outcome([s EXCEPT !.kv = Truncated(@, reuse)], TRUE, "")

(* The prefix of a chat prompt that the first stage already holds; at      *)
(* least one token is left to decode.                                      *)
SharedPrefix(kv, tokens) ==
    CHOOSE m \in 0..Len(tokens) - 1 :
        /\ m <= Len(kv) /\ Truncated(kv, m) = Truncated(tokens, m)
        /\ \/ m = Len(tokens) - 1
           \/ m = Len(kv)
           \/ kv[m + 1] # tokens[m + 1]

-----------------------------------------------------------------------------
(* execute: the request must be the active one or start a new one, and a   *)
(* frame below the session's position first truncates the cache to it.     *)
Admitted(s, f) ==
    /\ s.open
    /\ s.active = f.req \/ (s.active = 0 /\ f.req > s.last)

Begun(s, f) ==
    [s EXCEPT !.active = f.req,
              !.kv = IF f.pos < Len(@) THEN Truncated(@, f.pos) ELSE @]

(* What run_first (a prompt or tokens) and run_last and run_middle         *)
(* (activations) accept, and the flag they set before they decode.         *)
FirstValid(s, f) ==
    /\ f.pos = Len(s.kv)
    /\ \/ f.type = "prompt" /\ ~s.prompted
       \/ f.type \in {"token", "commit_token"} /\ s.prompted

LaterValid(s, f) ==
    /\ f.pos = Len(s.kv)
    /\ f.type \in {"activation", "speculative", "commit_activation", "prompt_chunk"}
    /\ f.type = "commit_activation" => s.prompted

Marked(s, f) ==
    [s EXCEPT !.prompted = @ \/ f.type \in {"prompt", "activation", "speculative"}]

Fits(s, f) == Len(f.toks) <= Context - Len(s.kv)

(* The decode appends the frame's tokens (run_middle, and alike elsewhere). *)
Decoded(s, f) == [s EXCEPT !.kv = @ \o f.toks]

Execute(first, s, f, decodeFails) ==
    LET b == Begun(s, f)
        m == Marked(b, f)
    IN  IF ~Admitted(s, f) THEN Outcome(s, FALSE, "request")
        ELSE IF ~(IF first THEN FirstValid(b, f) ELSE LaterValid(b, f))
             THEN Outcome(b, FALSE, "bad frame")
        ELSE IF ~Fits(m, f)
             THEN Outcome(m, FALSE, IF first THEN "context exhausted" ELSE "shape mismatch")
        ELSE IF decodeFails THEN Outcome(m, FALSE, "decode failed")
        ELSE Outcome(Decoded(m, f), TRUE, "")

(* The frame a stage that is not the last one hands on. *)
HandsOn(f) ==
    [f EXCEPT !.type = CASE f.type = "commit_token" -> "commit_activation"
                         [] f.type = "prompt" -> "activation"
                         [] f.type = "token" -> IF f.guesses # <<>> THEN "speculative"
                                                ELSE "activation"
                         [] OTHER -> f.type]

(* Frames that ready sessions may decode in one batch: one row, in place. *)
Batchable(first, s, f) ==
    /\ s.open /\ s.active = f.req /\ s.prompted
    /\ f.pos = Len(s.kv) /\ f.pos < Context
    /\ f.type = (IF first THEN "token" ELSE "activation")
    /\ Len(f.toks) = 1

-----------------------------------------------------------------------------
(* Greedy sampling is a function of the text in the cache.  Which function *)
(* does not matter; the text ends once it holds endAt tokens.              *)
Sample(kv, endAt) ==
    IF Len(kv) >= endAt THEN Eog
    ELSE IF (FoldSeq(LAMBDA t, sum: t + sum, 0, kv) + Len(kv)) % 2 = 0 THEN 0 ELSE 1

(* One sample per row of a verified batch that starts after `before`. *)
Samples(before, rows, endAt) ==
    [i \in 1..Len(rows) |-> Sample(before \o Truncated(rows, i), endAt)]

(* What plain decoding adds to a text, as far as `out` goes. *)
Continues(text, out, endAt) ==
    \A i \in 1..Len(out) : out[i] = Sample(text \o Truncated(out, i - 1), endAt)

(* How many leading guesses agree with what was sampled in their place. *)
Right(proposals, samples) ==
    CHOOSE m \in 0..Len(proposals) :
        /\ m <= Len(samples) /\ \A i \in 1..m : proposals[i] = samples[i]
        /\ m < Len(proposals) /\ m < Len(samples) => proposals[m + 1] # samples[m + 1]

(* A variant that takes every sample. *)
AcceptedAll(proposals, samples) == samples

(* accept_speculation: the first sample is always right, each later one    *)
(* while the guess in front of it was.                                     *)
Accepted(proposals, samples) == Truncated(samples, 1 + Right(proposals, samples))

SpeculationRoom(position) == IF position + 1 < Context THEN Context - position - 1 ELSE 0
=============================================================================
