--------------------------- MODULE PipelineProofs ---------------------------
(***************************************************************************)
(* Proofs about Pipeline: replies pair up with chunks, for any number of   *)
(* stages, any depth and width, and any timing of the threads.             *)
(***************************************************************************)
EXTENDS Pipeline, SequenceTheorems, WellFoundedInduction, TLAPS

Vocabulary == Tokens \cup {Eog}

Texts == {t \in Seq(Vocabulary) : Len(t) <= Context}

Reasons == {"", "request", "bad frame", "context exhausted", "shape mismatch", "decode failed",
            "passed on"}

Types == {"token", "speculative", "result", "error", "activation", "commit_token",
          "commit_activation"}

Errors == {"", "sender", "relay", "stage", "invalid", "no in-flight chunk"}

SessionSet == [open : BOOLEAN, kv : Texts, active : Nat, last : Nat, prompted : BOOLEAN]

FrameSet == [type : Types, s : Nat, req : Nat, pos : Nat, toks : Seq(Vocabulary),
             guesses : Seq(Vocabulary), why : Reasons]

ChunkSet == [epoch : Nat, base : Nat, guesses : Seq(Vocabulary)]

CorrectionSet == [pending : BOOLEAN, pos : Nat, tok : Vocabulary]

SharedSet(slots) ==
    [inflight : Seq(ChunkSet), epoch : Nat, finished : BOOLEAN, error : Errors,
     unread : [slots -> Nat], ended : [slots -> BOOLEAN], correction : CorrectionSet]

SenderSet == [pc : {"off", "wait", "send", "count", "end"}, base : Nat, carry : Vocabulary,
              epoch : Nat, guesses : Seq(Vocabulary)]

ReceiverSet == [pc : {"off", "wait", "read", "apply", "end"}, chunk : ChunkSet,
                apply : BOOLEAN, frame : Seq(Vocabulary)]

AnswerSet == [pc : {"idle", "decode", "finish", "done", "failed"}, out : Seq(Vocabulary),
              pos : Nat, last : Vocabulary, eog : BOOLEAN, cancelled : BOOLEAN, missed : BOOLEAN]

(* The shape of the state. *)
TypeInv ==
    /\ shape \in Shapes
    /\ stage \in [1..N -> SessionSet]
    /\ chan \in [1..N -> Seq(FrameSet)]
    /\ reply \in [Slots -> Seq(FrameSet)]
    /\ shared \in SharedSet(Slots)
    /\ sender \in SenderSet
    /\ relay \in [Slots \ {LastSlot} -> {"off", "wait", "read", "count", "end"}]
    /\ receiver \in ReceiverSet
    /\ draft \in Nat
    /\ answer \in AnswerSet

(* Before the prefill nothing has happened. *)
Unstarted ==
    /\ sender.pc = "off" /\ receiver.pc = "off" /\ \A i \in DOMAIN relay : relay[i] = "off"
    /\ shared.inflight = <<>> /\ shared.error = "" /\ ~shared.correction.pending
    /\ \A i \in Slots : reply[i] = <<>> /\ shared.unread[i] = 0 /\ ~shared.ended[i]
    /\ \A k \in 1..N : chan[k] = <<>>
    /\ dead = {}

(* A chunk has a full round of guesses, and so have its answers; a relay   *)
(* that reads has been told that there is something to read.               *)
Sizes ==
    /\ answer.pc = "idle" => Unstarted
    /\ answer.pc # "idle" => answer.out # <<>>
    /\ sender.pc = "count" => Len(sender.guesses) = shape.width
    /\ \A j \in 1..Len(shared.inflight) : Len(shared.inflight[j].guesses) = shape.width
    /\ receiver.pc = "apply" => /\ Len(receiver.chunk.guesses) = shape.width
                                /\ Len(receiver.frame) = shape.width
    /\ \A i \in DOMAIN relay : relay[i] = "read" => shared.unread[i] > 0

-----------------------------------------------------------------------------
(* The chunks on their way, oldest first: those in flight and the one the  *)
(* sender has sent but not yet counted.                                    *)
Uncounted == [epoch |-> sender.epoch, base |-> sender.base, guesses |-> sender.guesses]

Queue == IF sender.pc = "count" THEN Append(shared.inflight, Uncounted) ELSE shared.inflight

Counted == IF sender.pc = "count" THEN 1 ELSE 0

(* What stage k has answered and nobody has read; in a ring only the last  *)
(* stage answers.                                                          *)
Leaving(k) == IF ~shape.ring THEN reply[k] ELSE IF k = N THEN reply[1] ELSE <<>>

(* d[k]: how many chunks of the queue stage k is through with. *)
Line(d) ==
    /\ d[N] = Len(Leaving(N))
    /\ d[1] + Len(chan[1]) = Len(Queue)
    /\ \A k \in 1..N - 1 : d[k + 1] + Len(chan[k + 1]) + Len(Leaving(k)) = d[k]
    /\ \A k, m \in 1..N : k < m => d[m] <= d[k]

Carries(f, type, c) ==
    /\ f.type = type /\ f.req = 1 /\ f.pos = c.base /\ f.guesses # <<>>
    /\ Len(f.toks) = Len(c.guesses)

Arriving(k, f, c) ==
    \/ f.type = "error" /\ shape.faulty /\ k > 1
    \/ Carries(f, IF k = 1 THEN "token" ELSE "speculative", c)

Departing(k, f, c) ==
    \/ f.type = "error" /\ shape.faulty
    \/ k < N /\ Carries(f, "speculative", c)
    \/ /\ k = N /\ f.type = "result" /\ f.pos = c.base + Len(c.guesses)
       /\ Len(f.toks) = Len(c.guesses)

Frames(d) ==
    /\ \A k \in 1..N : \A j \in 1..Len(chan[k]) : Arriving(k, chan[k][j], Queue[d[k] + j])
    /\ \A k \in 1..N : \A j \in 1..Len(Leaving(k)) :
         Departing(k, Leaving(k)[j], Queue[d[k] - Len(Leaving(k)) + j])

(* unread counts the frames a thread may count on finding. *)
Counts ==
    /\ shape.ring => shared.unread[1] = Len(shared.inflight)
    /\ ~shape.ring => shared.unread[1] + Counted = Len(reply[1]) + Len(chan[1])
    /\ \A i \in DOMAIN relay : shared.unread[i + 1] + (IF relay[i] = "count" THEN 1 ELSE 0)
                                 = Len(reply[i + 1]) + Len(chan[i + 1])
    /\ receiver.pc = "read" => shared.unread[LastSlot] > 0

Ends(d) ==
    /\ shared.ended[1] => sender.pc = "end"
    /\ \A i \in DOMAIN relay : shared.ended[i + 1] => relay[i] = "end"
    /\ \A i \in DOMAIN relay : relay[i] = "end" =>
         sender.pc = "end" /\ d[i] = Len(Queue) /\ reply[i] = <<>>
    /\ receiver.pc = "end" => sender.pc = "end" /\ Queue = <<>>

-----------------------------------------------------------------------------
(* Positions.  NextBase: where the next chunk to be drafted starts. *)
NextBase ==
    IF sender.pc # "send" /\ shared.correction.pending THEN shared.correction.pos
    ELSE IF sender.pc = "count" THEN sender.base + shape.width ELSE sender.base

Base(j) == IF j <= Len(Queue) THEN Queue[j].base ELSE NextBase

(* Nothing at or behind the j-th chunk lies below v, nor does a stage that *)
(* is through with it.                                                     *)
Above(d, v, j) ==
    /\ \A m \in 1..Len(Queue) + 1 : m > j => Base(m) >= v
    /\ \A k \in 1..N : d[k] >= j => Len(stage[k].kv) >= v

Epochs ==
    /\ \A j \in 1..Len(Queue) : Queue[j].epoch <= shared.epoch
    /\ sender.pc = "send" => sender.epoch <= shared.epoch
    /\ shared.correction.pending =>
         /\ \A j \in 1..Len(Queue) : Queue[j].epoch # shared.epoch
         /\ sender.pc = "send" => sender.epoch # shared.epoch
    /\ receiver.pc = "apply" /\ receiver.apply => ~shared.correction.pending

Positions(d) ==
    /\ draft = IF sender.pc = "count" THEN sender.base + shape.width ELSE sender.base
    /\ \A j \in 1..Len(Queue) : Queue[j].base + shape.width <= Context
    /\ \A j \in 1..Len(Queue) : Base(j + 1) <= Base(j) + shape.width
    /\ \A k \in 1..N : Base(d[k] + 1) <= Len(stage[k].kv)
    /\ \A j \in 1..Len(Queue) :
         Queue[j].epoch = shared.epoch => Above(d, Queue[j].base + shape.width, j)
    /\ shared.correction.pending => Above(d, shared.correction.pos, 0)
    /\ receiver.pc = "apply" /\ receiver.apply => Above(d, receiver.chunk.base + shape.width, 0)

Accepting == \A k \in 1..N : stage[k].open /\ stage[k].active = 1 /\ stage[k].prompted

(* Without a fault every stage accepts every chunk. *)
Sound(d) == ~shape.faulty /\ receiver.pc # "end" => Epochs /\ Positions(d) /\ Accepting

Flow(d) == Line(d) /\ Frames(d) /\ Counts /\ Ends(d) /\ Sound(d) /\ (~shape.faulty => dead = {})

Flowing == shared.error = "" /\ answer.pc # "idle" => \E d \in [1..N -> Nat] : Flow(d)

(* A failure has a cause, and a request that has ended well has no thread  *)
(* left.                                                                   *)
Causes ==
    /\ shared.error # "" /\ ~shape.faulty =>
         shared.error = "sender" /\ sender.pc = "end" /\ ~DraftFits
    /\ shared.error # "" => shared.error \in {"stage", "relay", "sender"}
    /\ answer.pc = "done" => shared.error = "" /\ Joined

IInv == TypeInv /\ Sizes /\ Causes /\ Flowing

-----------------------------------------------------------------------------
(* The operators of StageSession.                                          *)

LEMMA TruncatedType ==
    ASSUME NEW S, NEW t \in Seq(S), NEW n \in 0..Len(t)
    PROVE  /\ Truncated(t, n) \in Seq(S)
           /\ Len(Truncated(t, n)) = n
           /\ \A i \in 1..n : Truncated(t, n)[i] = t[i]
  <1>1. \A i \in 1..n : t[i] \in S
    OBVIOUS
  <1>2. QED
    BY <1>1, SubSeqProperties DEF Truncated

LEMMA SampleType == \A kv, endAt : Sample(kv, endAt) \in Vocabulary
  BY TextAssumption DEF Sample, Vocabulary

LEMMA SamplesType ==
    ASSUME NEW before, NEW rows \in Seq(Vocabulary), NEW endAt
    PROVE  /\ Samples(before, rows, endAt) \in Seq(Vocabulary)
           /\ Len(Samples(before, rows, endAt)) = Len(rows)
  <1> DEFINE s == Samples(before, rows, endAt)
  <1>1. s \in [1..Len(rows) -> Vocabulary]
    BY SampleType DEF Samples
  <1>2. QED
    BY <1>1

LEMMA ContextNat == Context \in Nat
  BY TextAssumption

LEMMA FitsSum ==
    ASSUME NEW a \in Nat, NEW b \in Nat
    PROVE  a <= Context - b <=> b + a <= Context
  BY ContextNat

LEMMA BegunType ==
    ASSUME NEW s \in SessionSet, NEW f \in FrameSet
    PROVE  Begun(s, f) \in SessionSet
  <1>1. s.kv \in Seq(Vocabulary) /\ Len(s.kv) <= Context /\ f.pos \in Nat
    BY DEF SessionSet, FrameSet, Texts
  <1>2. ASSUME f.pos < Len(s.kv)
        PROVE  Truncated(s.kv, f.pos) \in Texts
    <2>1. f.pos \in 0..Len(s.kv)
      BY <1>1, <1>2
    <2>2. Truncated(s.kv, f.pos) \in Seq(Vocabulary) /\ Len(Truncated(s.kv, f.pos)) = f.pos
      BY <1>1, <2>1, TruncatedType
    <2>3. f.pos <= Context
      BY <1>1, <1>2, ContextNat
    <2>4. QED
      BY <2>2, <2>3 DEF Texts
  <1>3. QED
    BY <1>2 DEF Begun, SessionSet, FrameSet

LEMMA ExecuteType ==
    ASSUME NEW first \in BOOLEAN, NEW s \in SessionSet, NEW f \in FrameSet, NEW fails \in BOOLEAN
    PROVE  /\ Execute(first, s, f, fails).s \in SessionSet
           /\ Execute(first, s, f, fails).ok \in BOOLEAN
           /\ Execute(first, s, f, fails).why \in Reasons
  <1> DEFINE b == Begun(s, f)
             m == Marked(b, f)
  <1>1. b \in SessionSet
    BY BegunType
  <1>2. m \in SessionSet /\ m.kv = b.kv
    BY <1>1 DEF Marked, SessionSet
  <1>3. ASSUME Fits(m, f)
        PROVE  Decoded(m, f) \in SessionSet
    <2>1. m.kv \in Seq(Vocabulary) /\ f.toks \in Seq(Vocabulary) /\ Len(m.kv) <= Context
      BY <1>2 DEF SessionSet, FrameSet, Texts
    <2>2. m.kv \o f.toks \in Seq(Vocabulary) /\ Len(m.kv \o f.toks) = Len(m.kv) + Len(f.toks)
      BY <2>1, ConcatProperties
    <2>3. Len(m.kv) \in Nat /\ Len(f.toks) \in Nat
      BY <2>1
    <2>4. m.kv \o f.toks \in Texts
      <3>1. Len(f.toks) <= Context - Len(m.kv)
        BY <1>3 DEF Fits
      <3>2. Len(m.kv \o f.toks) <= Context
        BY <3>1, <2>2, <2>3, FitsSum
      <3>3. QED
        BY <3>2, <2>2 DEF Texts
    <2>5. QED
      BY <1>2, <2>4 DEF Decoded, SessionSet
  <1> HIDE DEF b, m
  <1>4. \E x \in SessionSet, ok \in BOOLEAN, why \in Reasons :
           Execute(first, s, f, fails) = Outcome(x, ok, why)
    <2>1. CASE ~Admitted(s, f)
      <3>1. Execute(first, s, f, fails) = Outcome(s, FALSE, "request")
        BY <2>1 DEF Execute
      <3>2. QED
        BY <3>1 DEF Reasons
    <2>2. CASE Admitted(s, f) /\ ~(IF first THEN FirstValid(b, f) ELSE LaterValid(b, f))
      <3>1. Execute(first, s, f, fails) = Outcome(b, FALSE, "bad frame")
        BY <2>2 DEF Execute, b
      <3>2. QED
        BY <3>1, <1>1 DEF Reasons
    <2>3. CASE Admitted(s, f) /\ (IF first THEN FirstValid(b, f) ELSE LaterValid(b, f)) /\ ~Fits(m, f)
      <3>1. Execute(first, s, f, fails)
              = Outcome(m, FALSE, IF first THEN "context exhausted" ELSE "shape mismatch")
        BY <2>3 DEF Execute, b, m
      <3>2. (IF first THEN "context exhausted" ELSE "shape mismatch") \in Reasons
        BY DEF Reasons
      <3>3. QED
        BY <3>1, <3>2, <1>2, Zenon
    <2>4. CASE Admitted(s, f) /\ (IF first THEN FirstValid(b, f) ELSE LaterValid(b, f)) /\ Fits(m, f)
      <3>1. Execute(first, s, f, fails)
              = IF fails THEN Outcome(m, FALSE, "decode failed") ELSE Outcome(Decoded(m, f), TRUE, "")
        BY <2>4 DEF Execute, b, m
      <3>2. CASE fails
        BY <3>1, <3>2, <1>2 DEF Reasons
      <3>3. CASE ~fails
        BY <3>1, <3>3, <1>3, <2>4 DEF Reasons
      <3>4. QED
        BY <3>2, <3>3
    <2>5. QED
      BY <2>1, <2>2, <2>3, <2>4
  <1>5. QED
    BY <1>4 DEF Outcome

(* What a stage makes of a chunk it accepts. *)
LEMMA ExecuteAccepts ==
    ASSUME NEW first \in BOOLEAN, NEW s \in SessionSet, NEW f \in FrameSet,
           NEW fails \in {FALSE}, s.open, s.prompted, s.active = f.req, f.pos <= Len(s.kv),
           f.type = IF first THEN "token" ELSE "speculative",
           f.pos + Len(f.toks) <= Context
    PROVE  \E x : /\ Execute(first, s, f, fails) = Outcome(x, TRUE, "")
                  /\ x.open = s.open /\ x.active = s.active /\ x.prompted = s.prompted
                  /\ x.kv = Truncated(s.kv, f.pos) \o f.toks
  <1> DEFINE b == Begun(s, f)
             m == Marked(b, f)
             t == Truncated(s.kv, f.pos)
  <1>1. s.kv \in Seq(Vocabulary) /\ f.toks \in Seq(Vocabulary) /\ f.pos \in 0..Len(s.kv)
    BY DEF SessionSet, FrameSet, Texts
  <1>2. t \in Seq(Vocabulary) /\ Len(t) = f.pos
    BY <1>1, TruncatedType
  <1>3. f.pos = Len(s.kv) => t = s.kv
    BY <1>1, SubSeqFull DEF Truncated
  <1>4. b = [s EXCEPT !.kv = t]
    <2>1. CASE f.pos < Len(s.kv)
      BY <2>1 DEF Begun, SessionSet
    <2>2. CASE f.pos = Len(s.kv)
      BY <2>2, <1>1, <1>3 DEF Begun, SessionSet
    <2>3. QED
      BY <1>1, <2>1, <2>2
  <1>5. m = b
    BY <1>4 DEF Marked, SessionSet
  <1>6. Admitted(s, f)
    BY DEF Admitted
  <1>7. b.kv = t /\ b.prompted
    BY <1>4 DEF SessionSet
  <1>8. IF first THEN FirstValid(b, f) ELSE LaterValid(b, f)
    BY <1>2, <1>7 DEF FirstValid, LaterValid
  <1>9. Fits(m, f)
    <2>1. Len(f.toks) \in Nat /\ f.pos \in Nat
      BY <1>1
    <2>2. QED
      BY <1>2, <1>5, <1>7, <2>1, FitsSum DEF Fits
  <1>10. Decoded(m, f) = [s EXCEPT !.kv = t \o f.toks]
    BY <1>4, <1>5, <1>7 DEF Decoded, SessionSet
  <1> HIDE DEF b, m, t
  <1>11. Execute(first, s, f, fails) = Outcome(Decoded(m, f), TRUE, "")
    BY <1>6, <1>8, <1>9 DEF Execute, b, m
  <1>12. PICK x : x = Decoded(m, f)
    OBVIOUS
  <1>13. x.open = s.open /\ x.active = s.active /\ x.prompted = s.prompted /\ x.kv = t \o f.toks
    BY <1>10, <1>12 DEF SessionSet
  <1>14. QED
    BY <1>11, <1>12, <1>13 DEF t

-----------------------------------------------------------------------------
(* Types.                                                                  *)

LEMMA ShapeFacts ==
    ASSUME shape \in Shapes
    PROVE  /\ N \in Nat /\ N >= 1
           /\ shape.width \in Nat /\ shape.width >= 1
           /\ shape.depth \in Nat /\ shape.budget \in Nat
           /\ shape.ring \in BOOLEAN /\ shape.faulty \in BOOLEAN
           /\ LastSlot \in Slots /\ 1 \in Slots /\ Slots \subseteq 1..N
           /\ shape.ring => LastSlot = 1 /\ Slots = 1..1
           /\ ~shape.ring => LastSlot = N /\ Slots = 1..N
           /\ shape.draft \subseteq Vocabulary
  <1>1. /\ {shape.n, shape.depth, shape.width, shape.budget} \subseteq Nat \ {0}
        /\ {shape.ring, shape.faulty} \subseteq BOOLEAN
        /\ shape.draft \subseteq Tokens \cup {Eog}
    BY ShapeAssumption
  <1>2. QED
    BY <1>1 DEF N, LastSlot, Slots, Vocabulary

LEMMA SharedFields ==
    ASSUME TypeInv
    PROVE  /\ shared.inflight \in Seq(ChunkSet) /\ shared.epoch \in Nat
           /\ shared.finished \in BOOLEAN /\ shared.error \in Errors
           /\ shared.unread \in [Slots -> Nat] /\ shared.ended \in [Slots -> BOOLEAN]
           /\ shared.correction \in CorrectionSet
           /\ shared.correction.pending \in BOOLEAN /\ shared.correction.pos \in Nat
           /\ shared.correction.tok \in Vocabulary
  BY DEF TypeInv, SharedSet, CorrectionSet

(* How the threads change PipelineState. *)
LEMMA PutEnded ==
    ASSUME NEW S, NEW r \in SharedSet(S), NEW i \in S, NEW x, x = [r EXCEPT !.ended[i] = TRUE]
    PROVE  /\ x \in SharedSet(S)
           /\ x.inflight = r.inflight /\ x.epoch = r.epoch /\ x.finished = r.finished
           /\ x.error = r.error /\ x.unread = r.unread /\ x.correction = r.correction
           /\ x.ended = [r.ended EXCEPT ![i] = TRUE]
  BY DEF SharedSet

LEMMA PutTaken ==
    ASSUME NEW S, NEW r \in SharedSet(S), NEW x, x = [r EXCEPT !.correction.pending = FALSE]
    PROVE  /\ x \in SharedSet(S)
           /\ x.inflight = r.inflight /\ x.epoch = r.epoch /\ x.finished = r.finished
           /\ x.error = r.error /\ x.unread = r.unread /\ x.ended = r.ended
           /\ x.correction.pending = FALSE
  BY DEF SharedSet, CorrectionSet

LEMMA PutError ==
    ASSUME NEW S, NEW r \in SharedSet(S), NEW why \in Errors, NEW x,
           x = [r EXCEPT !.error = IF @ = "" THEN why ELSE @]
    PROVE  /\ x \in SharedSet(S)
           /\ x.error = IF r.error = "" THEN why ELSE r.error
  BY DEF SharedSet

LEMMA PutUnread ==
    ASSUME NEW S, NEW r \in SharedSet(S), NEW i \in S, NEW n \in Nat, NEW x,
           x = [r EXCEPT !.unread[i] = n]
    PROVE  /\ x \in SharedSet(S)
           /\ x.inflight = r.inflight /\ x.epoch = r.epoch /\ x.finished = r.finished
           /\ x.error = r.error /\ x.ended = r.ended /\ x.correction = r.correction
           /\ x.unread = [r.unread EXCEPT ![i] = n]
  BY DEF SharedSet

LEMMA PutInflight ==
    ASSUME NEW S, NEW r \in SharedSet(S), NEW q \in Seq(ChunkSet), NEW x,
           x = [r EXCEPT !.inflight = q]
    PROVE  /\ x \in SharedSet(S)
           /\ x.unread = r.unread /\ x.epoch = r.epoch /\ x.finished = r.finished
           /\ x.error = r.error /\ x.ended = r.ended /\ x.correction = r.correction
           /\ x.inflight = q
  BY DEF SharedSet

LEMMA PutSent ==
    ASSUME NEW S, NEW r \in SharedSet(S), NEW i \in S, NEW c \in ChunkSet, NEW x,
           x = [r EXCEPT !.unread[i] = @ + 1, !.inflight = Append(@, c)]
    PROVE  /\ x \in SharedSet(S)
           /\ x.epoch = r.epoch /\ x.finished = r.finished
           /\ x.error = r.error /\ x.ended = r.ended /\ x.correction = r.correction
           /\ x.unread = [r.unread EXCEPT ![i] = @ + 1]
           /\ x.inflight = Append(r.inflight, c)
  <1>1. /\ r.inflight \in Seq(ChunkSet) /\ Append(r.inflight, c) \in Seq(ChunkSet)
        /\ r.unread \in [S -> Nat] /\ r.unread[i] + 1 \in Nat
        /\ [r.unread EXCEPT ![i] = @ + 1] \in [S -> Nat]
    BY DEF SharedSet
  <1>2. QED
    BY <1>1 DEF SharedSet

LEMMA PutCorrection ==
    ASSUME NEW S, NEW r \in SharedSet(S), NEW c \in CorrectionSet, NEW x,
           x = [r EXCEPT !.epoch = @ + 1, !.correction = c]
    PROVE  /\ x \in SharedSet(S)
           /\ x.unread = r.unread /\ x.inflight = r.inflight /\ x.finished = r.finished
           /\ x.error = r.error /\ x.ended = r.ended /\ x.correction = c
           /\ x.epoch = r.epoch + 1
  <1>1. r.epoch + 1 \in Nat
    BY DEF SharedSet
  <1>2. QED
    BY <1>1 DEF SharedSet

LEMMA PutFinished ==
    ASSUME NEW S, NEW r \in SharedSet(S), NEW x, x = [r EXCEPT !.finished = TRUE]
    PROVE  /\ x \in SharedSet(S)
           /\ x.unread = r.unread /\ x.inflight = r.inflight /\ x.epoch = r.epoch
           /\ x.error = r.error /\ x.ended = r.ended /\ x.correction = r.correction
           /\ x.finished
  BY DEF SharedSet

LEMMA InitType == Init => TypeInv
  <1> SUFFICES ASSUME Init PROVE TypeInv
    OBVIOUS
  <1>2. <<>> \in Seq(Vocabulary) /\ <<>> \in Seq(FrameSet) /\ <<>> \in Seq(ChunkSet)
    OBVIOUS
  <1>3. <<>> \in Texts
    BY <1>2, ContextNat DEF Texts
  <1> USE DEF Init
  <1>1. N = shape.n /\ Slots = 1..(IF shape.ring THEN 1 ELSE shape.n) /\ DOMAIN reply = Slots
    BY DEF N, Slots
  <1>4. 0 \in Vocabulary
    BY TextAssumption DEF Vocabulary
  <1>5. Fresh \in SessionSet
    BY <1>3 DEF Fresh, Absent, SessionSet
  <1>6. stage \in [1..N -> SessionSet]
    BY <1>1, <1>5
  <1>7. chan \in [1..N -> Seq(FrameSet)] /\ reply \in [Slots -> Seq(FrameSet)]
    BY <1>1, <1>2
  <1>8. NoCorrection \in CorrectionSet
    BY <1>4 DEF NoCorrection, CorrectionSet
  <1>9. shared \in SharedSet(Slots)
    BY <1>1, <1>2, <1>8 DEF SharedSet, Errors
  <1>10. sender \in SenderSet
    BY <1>2, <1>4 DEF Idle, SenderSet
  <1>11. NoChunk \in ChunkSet
    BY <1>2 DEF NoChunk, ChunkSet
  <1>12. receiver \in ReceiverSet
    BY <1>2, <1>11 DEF ReceiverSet
  <1>13. answer \in AnswerSet
    BY <1>2, <1>4 DEF NoAnswer, AnswerSet
  <1>14. relay \in [Slots \ {LastSlot} -> {"off", "wait", "read", "count", "end"}]
    BY <1>1
  <1>15. QED
    BY <1>6, <1>7, <1>9, <1>10, <1>12, <1>13, <1>14 DEF TypeInv

LEMMA PrefillType == TypeInv /\ Prefill => TypeInv'
  <1> SUFFICES ASSUME TypeInv, Prefill PROVE TypeInv'
    OBVIOUS
  <1>1. shape' = shape /\ N' = N /\ Slots' = Slots /\ LastSlot' = LastSlot
    BY DEF Prefill, N, Slots, LastSlot
  <1>2. Prompt \in Seq(Vocabulary)
    BY TextAssumption, SeqMonotonic DEF Vocabulary
  <1>3. Prompt \in Texts
    BY <1>2, TextAssumption DEF Texts
  <1>4. [Fresh EXCEPT !.kv = Prompt, !.active = 1, !.prompted = TRUE] \in SessionSet
    BY <1>3 DEF Fresh, Absent, SessionSet
  <1>5. stage' \in [1..N -> SessionSet]
    BY <1>4 DEF Prefill
  <1>6. draft' \in Nat
    BY <1>2 DEF Prefill
  <1> DEFINE t == Sample(Prompt, shape.endAt)
  <1>7. t \in Vocabulary /\ <<t>> \in Seq(Vocabulary) /\ Len(Prompt) \in Nat
    BY <1>2, SampleType
  <1>8. <<>> \in Seq(Vocabulary) /\ 0 \in Vocabulary
    BY TextAssumption DEF Vocabulary
  <1> HIDE DEF t
  <1>9. PICK cancelled \in BOOLEAN :
          LET more == ~cancelled /\ t # Eog /\ shape.budget > 1
          IN  /\ answer' = [NoAnswer EXCEPT !.pc = IF more THEN "decode" ELSE "finish", !.out = <<t>>,
                               !.pos = Len(Prompt), !.last = t, !.eog = t = Eog, !.cancelled = cancelled]
              /\ sender' = IF more THEN [Idle EXCEPT !.pc = "wait", !.base = Len(Prompt), !.carry = t]
                           ELSE [Idle EXCEPT !.pc = "end"]
              /\ relay' = [i \in DOMAIN relay |-> IF more THEN "wait" ELSE "end"]
              /\ receiver' = [receiver EXCEPT !.pc = IF more THEN "wait" ELSE "end"]
    BY DEF Prefill, t
  <1>10. answer' \in AnswerSet
    BY <1>7, <1>8, <1>9 DEF NoAnswer, AnswerSet
  <1>11. sender' \in SenderSet
    BY <1>7, <1>8, <1>9 DEF Idle, SenderSet
  <1>12. relay' \in [Slots \ {LastSlot} -> {"off", "wait", "read", "count", "end"}]
    BY <1>9 DEF TypeInv
  <1>13. receiver' \in ReceiverSet
    BY <1>9 DEF TypeInv, ReceiverSet
  <1>14. QED
    BY <1>1, <1>5, <1>6, <1>10, <1>11, <1>12, <1>13 DEF TypeInv, Prefill

LEMMA SenderWaitType == TypeInv /\ SenderWait => TypeInv'
  <1> SUFFICES ASSUME TypeInv, SenderWait PROVE TypeInv'
    OBVIOUS
  <1>1. shape' = shape /\ N' = N /\ Slots' = Slots /\ LastSlot' = LastSlot
    BY DEF SenderWait, N, Slots, LastSlot
  <1>2. sender' \in SenderSet
    BY SharedFields DEF SenderWait, TypeInv, SenderSet
  <1>3. shared' \in SharedSet(Slots)
    <2>1. shared \in SharedSet(Slots) /\ 1 \in Slots
      BY ShapeFacts DEF TypeInv
    <2>2. CASE shared' = [shared EXCEPT !.ended[1] = TRUE]
      BY <2>1, <2>2, PutEnded
    <2>3. CASE shared' = [shared EXCEPT !.correction.pending = FALSE]
      BY <2>1, <2>3, PutTaken
    <2>4. QED
      BY <2>2, <2>3 DEF SenderWait
  <1>4. draft' \in Nat
    BY SharedFields DEF SenderWait, TypeInv, DraftRolledBack
  <1>5. QED
    BY <1>1, <1>2, <1>3, <1>4 DEF TypeInv, SenderWait

(* What SenderSend puts on the first connection. *)
LEMMA SentFrame ==
    ASSUME TypeInv, NEW guesses \in Proposed
    PROVE  /\ guesses \in Seq(Vocabulary) /\ Len(guesses) = shape.width
           /\ <<sender.carry>> \o Front(guesses) \in Seq(Vocabulary)
           /\ Len(<<sender.carry>> \o Front(guesses)) = shape.width
           /\ Frame("token", 1, 1, sender.base, <<sender.carry>> \o Front(guesses), guesses)
                \in FrameSet
  <1>1. shape.width \in Nat /\ shape.width >= 1 /\ shape.draft \subseteq Vocabulary
    BY ShapeFacts DEF TypeInv
  <1>2. guesses \in [1..shape.width -> Vocabulary]
    BY <1>1 DEF Proposed
  <1>3. guesses \in Seq(Vocabulary) /\ Len(guesses) = shape.width
    BY <1>1, <1>2
  <1>4. Front(guesses) \in Seq(Vocabulary) /\ Len(Front(guesses)) = shape.width - 1
    <2>1. \A i \in 1..Len(guesses) - 1 : guesses[i] \in Vocabulary
      BY <1>1, <1>2, <1>3
    <2>2. QED
      BY <1>1, <1>3, <2>1, SubSeqProperties DEF Front
  <1>5. <<sender.carry>> \in Seq(Vocabulary) /\ Len(<<sender.carry>>) = 1
    BY DEF TypeInv, SenderSet
  <1>6. /\ <<sender.carry>> \o Front(guesses) \in Seq(Vocabulary)
        /\ Len(<<sender.carry>> \o Front(guesses)) = shape.width
    BY <1>1, <1>4, <1>5, ConcatProperties
  <1>7. sender.base \in Nat
    BY DEF TypeInv, SenderSet
  <1>8. QED
    BY <1>3, <1>6, <1>7 DEF Frame, FrameSet, Types, Reasons

LEMMA SenderSendType == TypeInv /\ SenderSend => TypeInv'
  <1> SUFFICES ASSUME TypeInv, SenderSend PROVE TypeInv'
    OBVIOUS
  <1>1. shape' = shape /\ N' = N /\ Slots' = Slots /\ LastSlot' = LastSlot
    BY DEF SenderSend, N, Slots, LastSlot
  <1>2. shape.width \in Nat /\ 1 \in 1..N
    BY ShapeFacts DEF TypeInv
  <1>3. CASE DraftFits /\ draft' = draft + shape.width /\ shared' = shared /\ \E guesses \in Proposed :
              /\ chan' = [chan EXCEPT ![1] = Append(@,
                            Frame("token", 1, 1, sender.base,
                                  <<sender.carry>> \o Front(guesses), guesses))]
              /\ sender' = [sender EXCEPT !.pc = "count", !.guesses = guesses]
    <2>1. PICK guesses \in Proposed :
              /\ chan' = [chan EXCEPT ![1] = Append(@,
                            Frame("token", 1, 1, sender.base,
                                  <<sender.carry>> \o Front(guesses), guesses))]
              /\ sender' = [sender EXCEPT !.pc = "count", !.guesses = guesses]
      BY <1>3
    <2>2. chan' \in [1..N -> Seq(FrameSet)]
      <3> DEFINE f == Frame("token", 1, 1, sender.base, <<sender.carry>> \o Front(guesses), guesses)
      <3>1. f \in FrameSet /\ chan' = [chan EXCEPT ![1] = Append(@, f)]
        BY <2>1, SentFrame
      <3> HIDE DEF f
      <3>2. chan \in [1..N -> Seq(FrameSet)]
        BY DEF TypeInv
      <3>3. Append(chan[1], f) \in Seq(FrameSet)
        BY <1>2, <3>1, <3>2
      <3>4. QED
        BY <3>1, <3>2, <3>3
    <2>3. sender' \in SenderSet
      BY <2>1, SentFrame DEF TypeInv, SenderSet
    <2>4. draft' \in Nat
      BY <1>2, <1>3 DEF TypeInv
    <2>5. QED
      BY <1>1, <1>3, <2>2, <2>3, <2>4 DEF TypeInv, SenderSend
  <1>4. CASE shared' = [Fail("sender") EXCEPT !.ended[1] = TRUE] /\ draft' = draft /\ chan' = chan
             /\ sender' = [sender EXCEPT !.pc = "end"]
    <2>1. shared' \in SharedSet(Slots)
      BY <1>4 DEF TypeInv, SharedSet, Fail, Errors
    <2>2. sender' \in SenderSet
      BY <1>4 DEF TypeInv, SenderSet
    <2>3. QED
      BY <1>1, <1>4, <2>1, <2>2 DEF TypeInv, SenderSend
  <1>5. QED
    BY <1>3, <1>4 DEF SenderSend

LEMMA SenderCountType == TypeInv /\ Sizes /\ SenderCount => TypeInv'
  <1> SUFFICES ASSUME TypeInv, Sizes, SenderCount PROVE TypeInv'
    OBVIOUS
  <1>0. Len(sender.guesses) = shape.width
    BY DEF Sizes, SenderCount
  <1>1. shape' = shape /\ N' = N /\ Slots' = Slots /\ LastSlot' = LastSlot
    BY DEF SenderCount, N, Slots, LastSlot
  <1> DEFINE c == [epoch |-> sender.epoch, base |-> sender.base, guesses |-> sender.guesses]
  <1>2. c \in ChunkSet
    BY DEF TypeInv, SenderSet, ChunkSet
  <1>3. shared' = [shared EXCEPT !.unread[1] = @ + 1, !.inflight = Append(@, c)]
    BY DEF SenderCount
  <1> HIDE DEF c
  <1>4. shared' \in SharedSet(Slots)
    <2>1. shared \in SharedSet(Slots) /\ 1 \in Slots
      BY ShapeFacts DEF TypeInv
    <2>2. QED
      BY <1>2, <1>3, <2>1, PutSent
  <1>5. sender.guesses[shape.width] \in Vocabulary /\ <<>> \in Seq(Vocabulary)
    BY <1>0, ShapeFacts DEF TypeInv, SenderSet
  <1>6. sender' \in SenderSet
    <2>1. sender \in SenderSet /\ sender.base \in Nat /\ shape.width \in Nat
      BY ShapeFacts DEF TypeInv, SenderSet
    <2>2. sender.base + shape.width \in Nat
      BY <2>1
    <2>3. QED
      BY <1>5, <2>1, <2>2 DEF SenderCount, SenderSet
  <1>7. QED
    BY <1>1, <1>4, <1>6 DEF TypeInv, SenderCount

(* A stage's work on a frame, and the frame that leaves it. *)
Ran(k, f, fails) ==
    IF f.type = "error" THEN Outcome(stage[k], FALSE, "passed on")
    ELSE Execute(k = 1, stage[k], f, fails)

Made(k, f, r) ==
    IF ~r.ok THEN ErrorFrame(f, r.why)
    ELSE IF k < N THEN HandsOn(f)
    ELSE [f EXCEPT !.type = "result", !.pos = @ + Len(f.toks),
                   !.toks = Samples(Truncated(stage[k].kv, f.pos), f.toks, shape.endAt)]

StageEffect(k, f, fails, r, g) ==
    /\ chan[k] # <<>> /\ k \notin dead /\ f = Head(chan[k])
    /\ fails \in BOOLEAN /\ (fails => shape.faulty)
    /\ r = Ran(k, f, fails) /\ g = Made(k, f, r)
    /\ stage' = [stage EXCEPT ![k] = IF ~r.ok /\ Drops(k) THEN Absent ELSE r.s]
    /\ dead' = IF r.ok \/ ~Drops(k) THEN dead ELSE dead \cup {k}
    /\ IF shape.ring /\ k < N
       THEN chan' = [chan EXCEPT ![k] = Tail(@), ![k + 1] = Append(@, g)] /\ reply' = reply
       ELSE /\ chan' = [chan EXCEPT ![k] = Tail(@)]
            /\ reply' = [reply EXCEPT ![IF shape.ring THEN 1 ELSE k] = Append(@, g)]
    /\ UNCHANGED <<shape, shared, sender, relay, receiver, draft, answer>>

LEMMA StageStepEffect ==
    ASSUME NEW k \in 1..N, StageStep(k), shape \in Shapes
    PROVE  \E f, fails, r, g : StageEffect(k, f, fails, r, g)
  <1> DEFINE f == Head(chan[k])
             r(fails) == Ran(k, f, fails)
             g(fails) == Made(k, f, r(fails))
  <1>1. PICK fails \in IF shape.faulty /\ dead = {} THEN BOOLEAN ELSE {FALSE} :
          /\ stage' = [stage EXCEPT ![k] = IF ~r(fails).ok /\ Drops(k) THEN Absent ELSE r(fails).s]
          /\ dead' = IF r(fails).ok \/ ~Drops(k) THEN dead ELSE dead \cup {k}
          /\ IF shape.ring /\ k < N
             THEN chan' = [chan EXCEPT ![k] = Tail(@), ![k + 1] = Append(@, g(fails))] /\ reply' = reply
             ELSE /\ chan' = [chan EXCEPT ![k] = Tail(@)]
                  /\ reply' = [reply EXCEPT ![IF shape.ring THEN 1 ELSE k] = Append(@, g(fails))]
    BY Zenon DEF StageStep, Ran, Made
  <1>2. fails \in BOOLEAN /\ (fails => shape.faulty)
    OBVIOUS
  <1>3. chan[k] # <<>> /\ k \notin dead
        /\ UNCHANGED <<shape, shared, sender, relay, receiver, draft, answer>>
    BY DEF StageStep
  <1>4. StageEffect(k, f, fails, r(fails), g(fails))
    BY <1>1, <1>2, <1>3 DEF StageEffect
  <1>5. QED
    BY <1>4

LEMMA HandsOnType ==
    ASSUME NEW f \in FrameSet
    PROVE  HandsOn(f) \in FrameSet
  BY DEF HandsOn, FrameSet, Types

LEMMA RanType ==
    ASSUME TypeInv, NEW k \in 1..N, NEW f \in FrameSet, NEW fails \in BOOLEAN, NEW r,
           r = Ran(k, f, fails)
    PROVE  r.s \in SessionSet /\ r.ok \in BOOLEAN /\ r.why \in Reasons
  <1>1. stage[k] \in SessionSet /\ (k = 1) \in BOOLEAN
    BY DEF TypeInv
  <1>2. CASE f.type = "error"
    BY <1>1, <1>2 DEF Ran, Outcome, Reasons
  <1>3. CASE f.type # "error"
    BY <1>1, <1>3, ExecuteType DEF Ran
  <1>4. QED
    BY <1>2, <1>3

LEMMA MadeType ==
    ASSUME TypeInv, NEW k \in 1..N, NEW f \in FrameSet, NEW r, r.why \in Reasons
    PROVE  Made(k, f, r) \in FrameSet
  <1>1. ErrorFrame(f, r.why) \in FrameSet
    <2>1. <<>> \in Seq(Vocabulary)
      OBVIOUS
    <2>2. QED
      BY <2>1 DEF ErrorFrame, FrameSet, Types
  <1>2. HandsOn(f) \in FrameSet
    BY HandsOnType
  <1> DEFINE t == Samples(Truncated(stage[k].kv, f.pos), f.toks, shape.endAt)
  <1>3. t \in Seq(Vocabulary)
    BY SamplesType DEF FrameSet
  <1>4. f.pos + Len(f.toks) \in Nat
    BY DEF FrameSet
  <1> HIDE DEF t
  <1>5. [f EXCEPT !.type = "result", !.pos = @ + Len(f.toks), !.toks = t] \in FrameSet
    BY <1>3, <1>4 DEF FrameSet, Types
  <1>6. QED
    BY <1>1, <1>2, <1>5 DEF Made, t

LEMMA StageStepType ==
    ASSUME TypeInv, NEW k \in 1..N, StageStep(k)
    PROVE  TypeInv'
  <1>1. PICK f, fails, r, g : StageEffect(k, f, fails, r, g)
    BY StageStepEffect DEF TypeInv
  <1>2. shape' = shape /\ N' = N /\ Slots' = Slots /\ LastSlot' = LastSlot
    BY <1>1 DEF StageEffect, N, Slots, LastSlot
  <1>3. chan \in [1..N -> Seq(FrameSet)] /\ reply \in [Slots -> Seq(FrameSet)]
    BY DEF TypeInv
  <1>4. f \in FrameSet /\ Tail(chan[k]) \in Seq(FrameSet)
    BY <1>1, <1>3 DEF StageEffect
  <1>5. r.s \in SessionSet /\ r.ok \in BOOLEAN /\ r.why \in Reasons
    BY <1>1, <1>4, RanType DEF StageEffect
  <1>6. g \in FrameSet
    BY <1>1, <1>4, <1>5, MadeType DEF StageEffect
  <1>7. Absent \in SessionSet
    <2>1. <<>> \in Seq(Vocabulary)
      OBVIOUS
    <2>2. <<>> \in Texts
      BY <2>1, ContextNat DEF Texts
    <2>3. QED
      BY <2>2 DEF Absent, SessionSet
  <1>8. stage' \in [1..N -> SessionSet]
    BY <1>1, <1>5, <1>7 DEF StageEffect, TypeInv
  <1>9. chan' \in [1..N -> Seq(FrameSet)] /\ reply' \in [Slots -> Seq(FrameSet)]
    <2>1. CASE shape.ring /\ k < N
      <3>1. k + 1 \in 1..N /\ k + 1 # k
        BY <2>1, ShapeFacts DEF TypeInv
      <3>2. Append(chan[k + 1], g) \in Seq(FrameSet)
        BY <1>3, <1>6, <3>1
      <3>3. chan' = [chan EXCEPT ![k] = Tail(chan[k]), ![k + 1] = Append(chan[k + 1], g)] /\ reply' = reply
        BY <1>1, <2>1, <3>1, <1>3 DEF StageEffect
      <3>4. QED
        BY <1>3, <1>4, <3>1, <3>2, <3>3
    <2>2. CASE ~(shape.ring /\ k < N)
      <3>1. (IF shape.ring THEN 1 ELSE k) \in Slots
        BY ShapeFacts DEF TypeInv
      <3>2. PICK i \in Slots : reply' = [reply EXCEPT ![i] = Append(@, g)]
        BY <1>1, <2>2, <3>1 DEF StageEffect
      <3>3. Append(reply[i], g) \in Seq(FrameSet)
        BY <1>3, <1>6
      <3>4. chan' = [chan EXCEPT ![k] = Tail(@)]
        BY <1>1, <2>2 DEF StageEffect
      <3>5. QED
        BY <1>3, <1>4, <3>2, <3>3, <3>4
    <2>3. QED
      BY <2>1, <2>2
  <1>10. QED
    BY <1>1, <1>2, <1>8, <1>9 DEF TypeInv, StageEffect

LEMMA RelayIndex ==
    ASSUME TypeInv, NEW i \in DOMAIN relay
    PROVE  /\ ~shape.ring /\ i \in 1..N - 1 /\ i \in Slots /\ i + 1 \in Slots
           /\ i \in 1..N /\ i + 1 \in 1..N /\ LastSlot = N /\ Slots = 1..N
  <1>1. i \in Slots /\ i # LastSlot
    BY DEF TypeInv
  <1>2. /\ N \in Nat /\ N >= 1 /\ shape.ring \in BOOLEAN
        /\ shape.ring => LastSlot = 1 /\ Slots = 1..1
        /\ ~shape.ring => LastSlot = N /\ Slots = 1..N
    <2>1. shape \in Shapes
      BY DEF TypeInv
    <2>2. QED
      BY <2>1, ShapeFacts
  <1>3. ~shape.ring
    BY <1>1, <1>2
  <1>4. LastSlot = N /\ Slots = 1..N /\ i \in 1..N /\ i # N
    BY <1>1, <1>2, <1>3
  <1>5. i \in 1..N - 1 /\ i + 1 \in 1..N
    BY <1>2, <1>4
  <1>6. QED
    BY <1>3, <1>4, <1>5

LEMMA RelayWaitType ==
    ASSUME TypeInv, NEW i \in DOMAIN relay, RelayWait(i)
    PROVE  TypeInv'
  <1>1. shape' = shape /\ N' = N /\ Slots' = Slots /\ LastSlot' = LastSlot
    BY DEF RelayWait, N, Slots, LastSlot
  <1>2. relay' \in [Slots \ {LastSlot} -> {"off", "wait", "read", "count", "end"}]
    BY DEF RelayWait, TypeInv
  <1>3. shared' \in SharedSet(Slots)
    <2>1. shared \in SharedSet(Slots) /\ i + 1 \in Slots
      BY RelayIndex DEF TypeInv
    <2>2. CASE shared' = [shared EXCEPT !.ended[i + 1] = TRUE]
      BY <2>1, <2>2, PutEnded
    <2>3. QED
      BY <2>1, <2>2 DEF RelayWait
  <1>4. QED
    BY <1>1, <1>2, <1>3 DEF TypeInv, RelayWait

LEMMA FailType ==
    ASSUME TypeInv, NEW why \in Errors, NEW i \in Slots, NEW x,
           x = [Fail(why) EXCEPT !.ended[i] = TRUE]
    PROVE  /\ x \in SharedSet(Slots)
           /\ x.inflight = shared.inflight /\ x.unread = shared.unread
           /\ x.finished = shared.finished
           /\ x.error = IF shared.error = "" THEN why ELSE shared.error
  <1>1. shared \in SharedSet(Slots)
    BY DEF TypeInv
  <1>2. QED
    BY <1>1 DEF SharedSet, Fail

LEMMA RelayForwardType ==
    ASSUME TypeInv, Sizes, NEW i \in DOMAIN relay, RelayForward(i)
    PROVE  TypeInv'
  <1>1. shape' = shape /\ N' = N /\ Slots' = Slots /\ LastSlot' = LastSlot
    BY DEF RelayForward, N, Slots, LastSlot
  <1>2. i \in Slots /\ i + 1 \in Slots /\ i + 1 \in 1..N
    BY RelayIndex
  <1>3. chan \in [1..N -> Seq(FrameSet)] /\ reply \in [Slots -> Seq(FrameSet)]
    BY DEF TypeInv
  <1>4. relay[i] = "read" /\ reply[i] # <<>>
    BY DEF RelayForward
  <1>5. Head(reply[i]) \in FrameSet /\ Tail(reply[i]) \in Seq(FrameSet)
    BY <1>2, <1>3, <1>4
  <1>6. reply' \in [Slots -> Seq(FrameSet)]
    BY <1>2, <1>3, <1>5 DEF RelayForward
  <1>7. chan' \in [1..N -> Seq(FrameSet)]
    <2>1. Append(chan[i + 1], Head(reply[i])) \in Seq(FrameSet)
      BY <1>2, <1>3, <1>5
    <2>2. chan' = [chan EXCEPT ![i + 1] = Append(@, Head(reply[i]))] \/ chan' = chan
      BY DEF RelayForward
    <2>3. QED
      BY <1>3, <2>1, <2>2
  <1>8. relay' \in [Slots \ {LastSlot} -> {"off", "wait", "read", "count", "end"}]
    BY DEF RelayForward, TypeInv
  <1>9. shared' \in SharedSet(Slots)
    <2>1. CASE shared' = [shared EXCEPT !.unread[i] = @ - 1]
      <3>1. shared.unread[i] \in Nat /\ shared.unread[i] > 0 /\ shared \in SharedSet(Slots)
        BY <1>2, <1>4, SharedFields DEF Sizes, TypeInv
      <3>2. shared.unread[i] - 1 \in Nat
        BY <3>1
      <3>3. shared' = [shared EXCEPT !.unread[i] = shared.unread[i] - 1]
        BY <2>1, <3>1 DEF SharedSet
      <3>4. QED
        BY <1>2, <3>1, <3>2, <3>3, PutUnread
    <2>2. CASE shared' = [Fail("relay") EXCEPT !.ended[i + 1] = TRUE]
      <3>1. "relay" \in Errors
        BY DEF Errors
      <3>2. QED
        BY <1>2, <2>2, <3>1, FailType
    <2>3. QED
      BY <2>1, <2>2 DEF RelayForward
  <1>10. QED
    BY <1>1, <1>6, <1>7, <1>8, <1>9 DEF TypeInv, RelayForward

LEMMA RelayCountType ==
    ASSUME TypeInv, NEW i \in DOMAIN relay, RelayCount(i)
    PROVE  TypeInv'
  <1>1. shape' = shape /\ N' = N /\ Slots' = Slots /\ LastSlot' = LastSlot
    BY DEF RelayCount, N, Slots, LastSlot
  <1>2. relay' \in [Slots \ {LastSlot} -> {"off", "wait", "read", "count", "end"}]
    BY DEF RelayCount, TypeInv
  <1>3. shared' \in SharedSet(Slots)
    <2>1. shared \in SharedSet(Slots) /\ i + 1 \in Slots /\ shared.unread[i + 1] \in Nat
      BY RelayIndex, SharedFields DEF TypeInv
    <2>2. shared' = [shared EXCEPT !.unread[i + 1] = shared.unread[i + 1] + 1]
      BY <2>1 DEF RelayCount, SharedSet
    <2>3. shared.unread[i + 1] + 1 \in Nat
      BY <2>1
    <2>4. QED
      BY <2>1, <2>2, <2>3, PutUnread
  <1>4. QED
    BY <1>1, <1>2, <1>3 DEF TypeInv, RelayCount

LEMMA ReceiverWaitType == TypeInv /\ ReceiverWait => TypeInv'
  <1> SUFFICES ASSUME TypeInv, ReceiverWait PROVE TypeInv'
    OBVIOUS
  <1>1. shape' = shape /\ N' = N /\ Slots' = Slots /\ LastSlot' = LastSlot
    BY DEF ReceiverWait, N, Slots, LastSlot
  <1>2. receiver' \in ReceiverSet
    BY DEF ReceiverWait, TypeInv, ReceiverSet
  <1>3. QED
    BY <1>1, <1>2 DEF TypeInv, ReceiverWait

LEMMA ReadUpdate ==
    ASSUME TypeInv, NEW read,
           read = [shared EXCEPT !.unread[LastSlot] = IF @ > 0 THEN @ - 1 ELSE 0]
    PROVE  /\ read \in SharedSet(Slots)
           /\ read.inflight = shared.inflight /\ read.epoch = shared.epoch
           /\ read.finished = shared.finished /\ read.error = shared.error
           /\ read.ended = shared.ended /\ read.correction = shared.correction
           /\ read.unread = [shared.unread EXCEPT ![LastSlot] =
                               IF shared.unread[LastSlot] > 0 THEN shared.unread[LastSlot] - 1 ELSE 0]
  <1>1. /\ shared \in SharedSet(Slots) /\ shared.unread \in [Slots -> Nat]
        /\ LastSlot \in Slots /\ shared.unread[LastSlot] \in Nat
    BY SharedFields, ShapeFacts DEF TypeInv
  <1>2. PICK n : n = IF shared.unread[LastSlot] > 0 THEN shared.unread[LastSlot] - 1 ELSE 0
    OBVIOUS
  <1>3. n \in Nat
    BY <1>1, <1>2
  <1>4. read = [shared EXCEPT !.unread[LastSlot] = n]
    BY <1>1, <1>2 DEF SharedSet
  <1>5. QED
    BY <1>1, <1>2, <1>3, <1>4, PutUnread

ReadEffect(f, c, read, valid) ==
    /\ receiver.pc = "read" /\ reply[LastSlot] # <<>> /\ f = Head(reply[LastSlot])
    /\ read = [shared EXCEPT !.unread[LastSlot] = IF @ > 0 THEN @ - 1 ELSE 0]
    /\ reply' = [reply EXCEPT ![LastSlot] = Tail(@)]
    /\ UNCHANGED <<shape, stage, chan, dead, sender, relay, draft, answer>>
    /\ shared.inflight # <<>> => c = Head(shared.inflight)
    /\ valid \in BOOLEAN
    /\ valid <=> shared.inflight # <<>> /\ f.type = "result" /\ f.pos = c.base + Len(c.guesses)
                 /\ Len(f.toks) = Len(c.guesses)
    /\ valid => /\ shared' = [read EXCEPT !.inflight = Tail(@)]
                /\ receiver' = [pc |-> "apply", chunk |-> c, frame |-> f.toks,
                                apply |-> ~shared.finished /\ c.epoch = shared.epoch]
    /\ ~valid => receiver' = [receiver EXCEPT !.pc = "end"]
    /\ ~valid /\ shared.inflight = <<>> =>
            shared' = [read EXCEPT !.error = IF @ = "" THEN "no in-flight chunk" ELSE @]
    /\ ~valid /\ shared.inflight # <<>> =>
            shared' = [read EXCEPT !.inflight = Tail(@), !.error = IF @ = ""
                          THEN (IF f.type = "error" THEN "stage" ELSE "invalid") ELSE @]

LEMMA ReceiverReadSplit ==
    ASSUME ReceiverRead
    PROVE  \E f, c, read, valid : ReadEffect(f, c, read, valid)
  <1> DEFINE f == Head(reply[LastSlot])
             c == Head(shared.inflight)
             read == [shared EXCEPT !.unread[LastSlot] = IF @ > 0 THEN @ - 1 ELSE 0]
             valid == /\ shared.inflight # <<>> /\ f.type = "result"
                      /\ f.pos = c.base + Len(c.guesses) /\ Len(f.toks) = Len(c.guesses)
  <1>1. ReadEffect(f, c, read, valid)
    <2>1. CASE shared.inflight = <<>>
      BY <2>1 DEF ReceiverRead, ReadEffect
    <2>2. CASE shared.inflight # <<>> /\ valid
      BY <2>2 DEF ReceiverRead, ReadEffect
    <2>3. CASE shared.inflight # <<>> /\ ~valid
      BY <2>3 DEF ReceiverRead, ReadEffect
    <2>4. QED
      BY <2>1, <2>2, <2>3
  <1>2. QED
    BY <1>1

LEMMA ReceiverReadType == TypeInv /\ ReceiverRead => TypeInv'
  <1> SUFFICES ASSUME TypeInv, ReceiverRead PROVE TypeInv'
    OBVIOUS
  <1>1. PICK f, c, read, valid : ReadEffect(f, c, read, valid)
    BY ReceiverReadSplit
  <1>2. shape' = shape /\ N' = N /\ Slots' = Slots /\ LastSlot' = LastSlot
    BY <1>1 DEF ReadEffect, N, Slots, LastSlot
  <1>3. reply \in [Slots -> Seq(FrameSet)] /\ LastSlot \in Slots /\ shared \in SharedSet(Slots)
    BY ShapeFacts DEF TypeInv
  <1>4. f \in FrameSet /\ Tail(reply[LastSlot]) \in Seq(FrameSet)
    BY <1>1, <1>3 DEF ReadEffect
  <1>5. reply' \in [Slots -> Seq(FrameSet)]
    BY <1>1, <1>3, <1>4 DEF ReadEffect
  <1>6. read \in SharedSet(Slots) /\ read.inflight = shared.inflight
    <2>1. read = [shared EXCEPT !.unread[LastSlot] = IF @ > 0 THEN @ - 1 ELSE 0]
      BY <1>1 DEF ReadEffect
    <2>2. QED
      BY <2>1, ReadUpdate
  <1>7. shared.inflight \in Seq(ChunkSet)
    BY SharedFields
  <1>8. CASE valid
    <2>1. c \in ChunkSet /\ Tail(shared.inflight) \in Seq(ChunkSet)
      BY <1>1, <1>7, <1>8 DEF ReadEffect
    <2>2. shared' = [read EXCEPT !.inflight = Tail(shared.inflight)]
      BY <1>1, <1>6, <1>8 DEF ReadEffect, SharedSet
    <2>3. shared' \in SharedSet(Slots)
      BY <1>6, <2>1, <2>2, PutInflight
    <2>4. receiver' \in ReceiverSet
      <3>1. f.toks \in Seq(Vocabulary)
        BY <1>4 DEF FrameSet
      <3>2. PICK apply \in BOOLEAN : apply <=> ~shared.finished /\ c.epoch = shared.epoch
        OBVIOUS
      <3>3. apply = (~shared.finished /\ c.epoch = shared.epoch)
        BY <3>2
      <3>4. receiver' = [pc |-> "apply", chunk |-> c, frame |-> f.toks, apply |-> apply]
        BY <1>1, <1>8, <3>3 DEF ReadEffect
      <3>5. QED
        BY <2>1, <3>1, <3>4 DEF ReceiverSet
    <2>5. QED
      BY <1>1, <1>2, <1>5, <2>3, <2>4 DEF ReadEffect, TypeInv
  <1>9. CASE ~valid
    <2>1. receiver' \in ReceiverSet
      BY <1>1, <1>9 DEF ReadEffect, TypeInv, ReceiverSet
    <2>2. shared' \in SharedSet(Slots)
      <3>1. \E q \in Seq(ChunkSet), e \in Errors : shared' = [read EXCEPT !.inflight = q, !.error = e]
        <4>1. CASE shared.inflight = <<>>
          <5>1. shared' = [read EXCEPT !.inflight = shared.inflight, !.error =
                              IF read.error = "" THEN "no in-flight chunk" ELSE read.error]
            <6>1. shared' = [read EXCEPT !.error = IF @ = "" THEN "no in-flight chunk" ELSE @]
              BY <1>1, <1>9, <4>1 DEF ReadEffect
            <6>2. PICK q : q = shared.inflight /\ read.inflight = q
              BY <1>6
            <6>3. shared' = [read EXCEPT !.inflight = q, !.error =
                              IF read.error = "" THEN "no in-flight chunk" ELSE read.error]
              BY <1>6, <6>1, <6>2 DEF SharedSet
            <6>4. QED
              BY <6>2, <6>3
          <5>2. (IF read.error = "" THEN "no in-flight chunk" ELSE read.error) \in Errors
            BY <1>6 DEF SharedSet, Errors
          <5>3. QED
            BY <1>7, <5>1, <5>2
        <4>2. CASE shared.inflight # <<>>
          <5>1. shared' = [read EXCEPT !.inflight = Tail(shared.inflight), !.error =
                  IF read.error = "" THEN (IF f.type = "error" THEN "stage" ELSE "invalid") ELSE read.error]
            BY <1>1, <1>6, <1>9, <4>2 DEF ReadEffect, SharedSet
          <5>2. (IF read.error = "" THEN (IF f.type = "error" THEN "stage" ELSE "invalid") ELSE read.error)
                   \in Errors
            BY <1>6 DEF SharedSet, Errors
          <5>3. Tail(shared.inflight) \in Seq(ChunkSet)
            BY <1>7, <4>2
          <5>4. QED
            BY <5>1, <5>2, <5>3
        <4>3. QED
          BY <4>1, <4>2
      <3>2. PICK q \in Seq(ChunkSet), e \in Errors : shared' = [read EXCEPT !.inflight = q, !.error = e]
        BY <3>1
      <3>3. read \in SharedSet(Slots)
        BY <1>6
      <3>4. QED
        BY <3>2, <3>3 DEF SharedSet
    <2>3. QED
      BY <1>1, <1>2, <1>5, <2>1, <2>2 DEF ReadEffect, TypeInv
  <1>10. valid \in BOOLEAN
    BY <1>1 DEF ReadEffect
  <1>11. QED
    BY <1>8, <1>9, <1>10

LEMMA LeastNumber ==
    ASSUME NEW T, T \subseteq Nat, T # {}
    PROVE  \E i \in T : \A j \in T : i <= j
  <1>1. PICK i \in T : \A j \in T : ~(<<j, i>> \in OpToRel(<, Nat))
    BY NatLessThanWellFounded, WFMin
  <1>2. ASSUME NEW j \in Nat, j < i
        PROVE  <<j, i>> \in OpToRel(<, Nat)
    BY <1>2 DEF OpToRel
  <1>3. ASSUME NEW j \in T
        PROVE  i <= j
    <2>1. i \in Nat /\ j \in Nat /\ ~(j < i)
      BY <1>1, <1>2
    <2>2. QED
      BY <2>1
  <1>4. QED
    BY <1>3

(* The matching guesses end at the first that differs. *)
LEMMA RightType ==
    ASSUME NEW g \in Seq(Vocabulary), NEW s \in Seq(Vocabulary), Len(g) = Len(s)
    PROVE  /\ Right(g, s) \in 0..Len(g)
           /\ \A i \in 1..Right(g, s) : g[i] = s[i]
           /\ Right(g, s) < Len(g) => g[Right(g, s) + 1] # s[Right(g, s) + 1]
  <1> DEFINE T == {m \in 0..Len(g) : m = Len(g) \/ g[m + 1] # s[m + 1]}
  <1>1. T \subseteq Nat /\ Len(g) \in T
    OBVIOUS
  <1>2. PICK m \in T : \A j \in T : m <= j
    BY <1>1, LeastNumber
  <1>3. m \in 0..Len(g) /\ m <= Len(s)
    OBVIOUS
  <1>4. \A i \in 1..m : g[i] = s[i]
    <2>1. SUFFICES ASSUME NEW i \in 1..m, g[i] # s[i] PROVE FALSE
      OBVIOUS
    <2>2. i - 1 \in 0..Len(g) /\ (i - 1) + 1 = i
      BY <1>3
    <2>3. i - 1 \in T
      BY <2>1, <2>2
    <2>4. m <= i - 1
      BY <1>2, <2>3
    <2>5. m \in Nat /\ i \in Nat /\ i <= m
      BY <1>3
    <2>6. QED
      BY <2>4, <2>5
  <1>5. m < Len(g) /\ m < Len(s) => g[m + 1] # s[m + 1]
    OBVIOUS
  <1>6. \E x \in 0..Len(g) : /\ x <= Len(s) /\ \A i \in 1..x : g[i] = s[i]
                             /\ x < Len(g) /\ x < Len(s) => g[x + 1] # s[x + 1]
    BY <1>3, <1>4, <1>5
  <1> DEFINE x == Right(g, s)
  <1>7. /\ x \in 0..Len(g) /\ x <= Len(s) /\ \A i \in 1..x : g[i] = s[i]
        /\ x < Len(g) /\ x < Len(s) => g[x + 1] # s[x + 1]
    BY <1>6 DEF Right
  <1>8. QED
    BY <1>7

(* The answer after a chunk is applied. *)
LEMMA AppliedType ==
    ASSUME TypeInv, NEW c \in ChunkSet, Len(c.guesses) = shape.width,
           NEW checked \in Seq(Vocabulary), Len(checked) = shape.width,
           NEW j \in 0..shape.width, NEW stop \in BOOLEAN, NEW late \in BOOLEAN, answer.out # <<>>,
           NEW a, a = Applied(c, checked, j, stop, late)
    PROVE  /\ a \in AnswerSet /\ a.out # <<>> /\ a.pc = answer.pc
           /\ a.pos >= c.base /\ a.pos <= c.base + shape.width
  <1> DEFINE taken == Truncated(c.guesses, j)
             full == Len(answer.out) + j >= shape.budget
             stopped == j > 0 /\ (stop \/ taken[j] = Eog \/ full)
             corrected == ~stopped /\ j < Len(c.guesses)
             tail == IF corrected THEN <<Corrected(c, checked, j)>> ELSE <<>>
             out == answer.out \o taken \o tail
  <1>0. shape.width \in Nat /\ shape.width >= 1
    BY ShapeFacts DEF TypeInv
  <1>1. c.guesses \in Seq(Vocabulary) /\ c.base \in Nat /\ answer.out \in Seq(Vocabulary)
        /\ answer \in AnswerSet
    BY DEF ChunkSet, TypeInv, AnswerSet
  <1>2. taken \in Seq(Vocabulary) /\ Len(taken) = j
    BY <1>1, TruncatedType
  <1> HIDE DEF taken
  <1>3. tail \in Seq(Vocabulary)
    <2>1. CASE corrected
      <3>1. j + 1 \in 1..Len(checked)
        BY <1>0, <2>1
      <3>2. checked[j + 1] \in Vocabulary
        BY <3>1
      <3>3. QED
        BY <2>1, <3>2 DEF Corrected
    <2>2. CASE ~corrected
      <3>1. tail = <<>>
        BY <2>2
      <3>2. QED
        BY <3>1
    <2>3. QED
      BY <2>1, <2>2
  <1>4. PICK more \in BOOLEAN : more <=> corrected
    OBVIOUS
  <1>5. more = corrected /\ (more => j < shape.width)
    BY <1>4
  <1> HIDE DEF tail
  <1>6. out \in Seq(Vocabulary) /\ Len(out) >= Len(answer.out) /\ Len(answer.out) > 0
    <2>1. answer.out \o taken \in Seq(Vocabulary) /\ Len(answer.out \o taken) = Len(answer.out) + j
      BY <1>1, <1>2, ConcatProperties
    <2>2. out \in Seq(Vocabulary) /\ Len(out) = Len(answer.out \o taken) + Len(tail)
      BY <2>1, <1>3, ConcatProperties
    <2>3. Len(answer.out) \in Nat /\ Len(answer.out) # 0
      BY <1>1, EmptySeq
    <2>4. Len(tail) \in Nat
      BY <1>3
    <2>5. QED
      BY <2>1, <2>2, <2>3, <2>4
  <1>7. out[Len(out)] \in Vocabulary /\ out # <<>>
    BY <1>1, <1>6, SMTT(30)
  <1>8. PICK eog \in BOOLEAN : eog <=> out[Len(out)] = Eog
    OBVIOUS
  <1>9. PICK missed \in BOOLEAN : missed <=>
           answer.missed \/ (corrected /\ j + 1 = Len(c.guesses)
                             /\ ~late /\ checked[j + 1] # Eog /\ Len(out) < shape.budget)
    OBVIOUS
  <1>10. a = [answer EXCEPT !.out = out, !.last = out[Len(out)], !.eog = out[Len(out)] = Eog,
                !.cancelled = IF corrected THEN late ELSE stop,
                !.pos = c.base + IF corrected THEN j + 1 ELSE j,
                !.missed = @ \/ (corrected /\ j + 1 = Len(c.guesses)
                                  /\ ~late /\ checked[j + 1] # Eog /\ Len(out) < shape.budget)]
    BY Zenon DEF Applied, taken, tail
  <1>17. PICK halt \in BOOLEAN : halt = IF corrected THEN late ELSE stop
    BY Zenon
  <1> HIDE DEF out, corrected
  <1>11. a = [answer EXCEPT !.out = out, !.last = out[Len(out)], !.eog = eog, !.cancelled = halt,
                 !.pos = c.base + IF more THEN j + 1 ELSE j, !.missed = missed]
    <2>1. eog = (out[Len(out)] = Eog)
      BY <1>8
    <2>2. missed = (answer.missed \/ (corrected /\ j + 1 = Len(c.guesses)
                             /\ ~late /\ checked[j + 1] # Eog /\ Len(out) < shape.budget))
      BY <1>9, <1>1 DEF AnswerSet
    <2>3. QED
      BY <1>1, <1>5, <1>10, <1>17, <2>1, <2>2 DEF AnswerSet
  <1>12. PICK p : p = c.base + IF more THEN j + 1 ELSE j
    OBVIOUS
  <1>13. p \in Nat /\ p >= c.base /\ p <= c.base + shape.width
    BY <1>0, <1>1, <1>5, <1>12
  <1>14. PICK o, l : o = out /\ l = out[Len(out)]
    OBVIOUS
  <1>15. a = [answer EXCEPT !.out = o, !.last = l, !.eog = eog, !.cancelled = halt,
                 !.pos = p, !.missed = missed]
    BY <1>11, <1>12, <1>14
  <1>16. QED
    BY <1>1, <1>6, <1>7, <1>13, <1>14, <1>15 DEF AnswerSet

ApplyEffect(a, complete) ==
    /\ receiver.pc = "apply"
    /\ receiver' = [pc |-> "wait", chunk |-> NoChunk, apply |-> FALSE, frame |-> <<>>]
    /\ UNCHANGED <<shape, stage, chan, reply, dead, sender, relay, draft>>
    /\ ~receiver.apply => UNCHANGED <<shared, answer>>
    /\ receiver.apply =>
         /\ answer' = a
         /\ \E j \in 0..Right(receiver.chunk.guesses, receiver.frame), stop, late \in BOOLEAN :
              a = Applied(receiver.chunk, receiver.frame, j, stop, late)
         /\ shared' = IF complete THEN [shared EXCEPT !.finished = TRUE]
                      ELSE IF FullyAccepted(receiver.chunk, a) THEN shared
                      ELSE [shared EXCEPT !.epoch = @ + 1,
                             !.correction = [pending |-> TRUE, pos |-> a.pos, tok |-> a.last]]

LEMMA ReceiverApplySplit ==
    ASSUME ReceiverApply
    PROVE  \E a, complete : ApplyEffect(a, complete)
  <1> DEFINE c == receiver.chunk
             right == Right(c.guesses, receiver.frame)
             complete(x) == x.cancelled \/ x.eog \/ Len(x.out) >= shape.budget
  <1>1. CASE ~receiver.apply
    BY <1>1, Zenon DEF ReceiverApply, ApplyEffect
  <1>2. CASE receiver.apply
    <2>1. \E j \in 0..right, stop, late \in BOOLEAN :
             LET a == Applied(c, receiver.frame, j, stop, late)
             IN  /\ answer' = a
                 /\ shared' = IF complete(a) THEN [shared EXCEPT !.finished = TRUE]
                              ELSE IF FullyAccepted(c, a) THEN shared
                              ELSE [shared EXCEPT !.epoch = @ + 1,
                                     !.correction = [pending |-> TRUE, pos |-> a.pos, tok |-> a.last]]
      BY <1>2, ZenonT(60) DEF ReceiverApply
    <2>2. PICK j \in 0..right, stop, late \in BOOLEAN :
             LET a == Applied(c, receiver.frame, j, stop, late)
             IN  /\ answer' = a
                 /\ shared' = IF complete(a) THEN [shared EXCEPT !.finished = TRUE]
                              ELSE IF FullyAccepted(c, a) THEN shared
                              ELSE [shared EXCEPT !.epoch = @ + 1,
                                     !.correction = [pending |-> TRUE, pos |-> a.pos, tok |-> a.last]]
      BY <2>1
    <2> DEFINE a == Applied(c, receiver.frame, j, stop, late)
    <2>3. /\ receiver.pc = "apply"
          /\ receiver' = [pc |-> "wait", chunk |-> NoChunk, apply |-> FALSE, frame |-> <<>>]
          /\ UNCHANGED <<shape, stage, chan, reply, dead, sender, relay, draft>>
      BY DEF ReceiverApply
    <2>4. ApplyEffect(a, complete(a))
      BY <1>2, <2>2, <2>3, Zenon DEF ApplyEffect
    <2>5. QED
      BY <2>4
  <1>3. QED
    BY <1>1, <1>2

LEMMA ReceiverApplyType == TypeInv /\ Sizes /\ ReceiverApply => TypeInv' /\ answer'.out # <<>>
  <1> SUFFICES ASSUME TypeInv, Sizes, ReceiverApply PROVE TypeInv' /\ answer'.out # <<>>
    OBVIOUS
  <1>1. PICK a, complete : ApplyEffect(a, complete)
    BY ReceiverApplySplit
  <1>2. shape' = shape /\ N' = N /\ Slots' = Slots /\ LastSlot' = LastSlot
    BY <1>1 DEF ApplyEffect, N, Slots, LastSlot
  <1>3. receiver.pc = "apply" /\ receiver \in ReceiverSet /\ answer \in AnswerSet
        /\ shared \in SharedSet(Slots)
    BY <1>1 DEF ApplyEffect, TypeInv
  <1>4. answer.out # <<>>
    BY <1>3 DEF Sizes, Unstarted
  <1>5. receiver' \in ReceiverSet
    <2>1. <<>> \in Seq(Vocabulary)
      OBVIOUS
    <2>2. NoChunk \in ChunkSet
      BY <2>1 DEF NoChunk, ChunkSet
    <2>3. QED
      BY <1>1, <2>1, <2>2 DEF ApplyEffect, ReceiverSet
  <1>6. CASE ~receiver.apply
    BY <1>1, <1>2, <1>4, <1>5, <1>6 DEF ApplyEffect, TypeInv
  <1>7. CASE receiver.apply
    <2>1. /\ receiver.chunk \in ChunkSet /\ receiver.frame \in Seq(Vocabulary)
          /\ Len(receiver.chunk.guesses) = shape.width /\ Len(receiver.frame) = shape.width
          /\ receiver.chunk.guesses \in Seq(Vocabulary)
      BY <1>3 DEF ReceiverSet, Sizes, ChunkSet
    <2>2. Right(receiver.chunk.guesses, receiver.frame) \in 0..shape.width
      BY <2>1, RightType
    <2>3. PICK j \in 0..Right(receiver.chunk.guesses, receiver.frame), stop, late \in BOOLEAN :
             a = Applied(receiver.chunk, receiver.frame, j, stop, late)
      BY <1>1, <1>7 DEF ApplyEffect
    <2>7. j \in 0..shape.width
      BY <2>2, ShapeFacts DEF TypeInv
    <2>4. a \in AnswerSet /\ a.out # <<>>
      BY <1>4, <2>1, <2>3, <2>7, AppliedType
    <2>5. shared' \in SharedSet(Slots)
      <3>1. CASE shared' = [shared EXCEPT !.finished = TRUE]
        BY <1>3, <3>1, PutFinished
      <3>2. CASE shared' = shared
        BY <1>3, <3>2
      <3>3. CASE shared' = [shared EXCEPT !.epoch = @ + 1,
                              !.correction = [pending |-> TRUE, pos |-> a.pos, tok |-> a.last]]
        <4>1. PICK c : c = [pending |-> TRUE, pos |-> a.pos, tok |-> a.last]
          OBVIOUS
        <4>2. c \in CorrectionSet
          BY <2>4, <4>1 DEF AnswerSet, CorrectionSet
        <4>3. shared' = [shared EXCEPT !.epoch = @ + 1, !.correction = c]
          BY <3>3, <4>1
        <4>4. QED
          BY <1>3, <4>2, <4>3, PutCorrection
      <3>4. QED
        BY <1>1, <1>7, <3>1, <3>2, <3>3 DEF ApplyEffect
    <2>6. QED
      BY <1>1, <1>2, <1>5, <1>7, <2>4, <2>5 DEF ApplyEffect, TypeInv
  <1>8. QED
    BY <1>6, <1>7

LEMMA EndRequestType ==
    ASSUME NEW s \in SessionSet
    PROVE  EndRequest(s, 1).s \in SessionSet
  BY DEF EndRequest, Outcome, SessionSet

LEMMA RollbackType ==
    ASSUME NEW s \in SessionSet
    PROVE  Rollback(s, 1, 0).s \in SessionSet
  <1>1. s.kv \in Seq(Vocabulary) /\ 0 \in 0..Len(s.kv)
    BY DEF SessionSet, Texts
  <1>2. Truncated(s.kv, 0) \in Texts
    BY <1>1, TruncatedType, ContextNat DEF Texts
  <1>3. QED
    BY <1>2 DEF Rollback, Outcome, SessionSet

LEMMA FinishType == TypeInv /\ Finish => TypeInv' /\ answer'.out = answer.out
  <1> SUFFICES ASSUME TypeInv, Finish PROVE TypeInv' /\ answer'.out = answer.out
    OBVIOUS
  <1> DEFINE final == Frame("commit_token", 1, 1, answer.pos, <<answer.last>>, <<>>)
             kept(k) == IF answer.cancelled THEN Rollback(stage[k], 1, 0)
                        ELSE Execute(k = 1, stage[k], IF k = 1 THEN final ELSE HandsOn(final), FALSE)
  <1>1. shape' = shape /\ N' = N /\ Slots' = Slots /\ LastSlot' = LastSlot
    BY DEF Finish, N, Slots, LastSlot
  <1>2. answer \in AnswerSet /\ stage \in [1..N -> SessionSet]
    BY DEF TypeInv
  <1>3. final \in FrameSet /\ HandsOn(final) \in FrameSet
    <2>1. <<answer.last>> \in Seq(Vocabulary) /\ <<>> \in Seq(Vocabulary) /\ answer.pos \in Nat
      BY <1>2 DEF AnswerSet
    <2>2. final \in FrameSet
      BY <2>1 DEF Frame, FrameSet, Types, Reasons
    <2>3. QED
      BY <2>2, HandsOnType
  <1>4. ASSUME NEW k \in 1..N
        PROVE  kept(k).s \in SessionSet
    <2>1. stage[k] \in SessionSet
      BY <1>2
    <2>2. CASE answer.cancelled
      BY <2>1, <2>2, RollbackType
    <2>3. CASE ~answer.cancelled
      <3>1. PICK f \in FrameSet : f = IF k = 1 THEN final ELSE HandsOn(final)
        BY <1>3
      <3>2. kept(k) = Execute(k = 1, stage[k], f, FALSE)
        BY <2>3, <3>1
      <3>3. Execute(k = 1, stage[k], f, FALSE).s \in SessionSet
        BY <2>1, ExecuteType
      <3>4. QED
        BY <3>2, <3>3
    <2>4. QED
      BY <2>2, <2>3
  <1>5. \/ answer' = [answer EXCEPT !.pc = "failed"] /\ stage' = stage
        \/ /\ answer' = [answer EXCEPT !.pc = "done"]
           /\ stage' = [k \in 1..N |-> EndRequest(kept(k).s, 1).s]
    BY Zenon DEF Finish
  <1> HIDE DEF kept
  <1>6. stage' \in [1..N -> SessionSet]
    BY <1>2, <1>4, <1>5, EndRequestType
  <1>7. answer' \in AnswerSet /\ answer'.out = answer.out
    BY <1>2, <1>5 DEF AnswerSet
  <1>8. UNCHANGED <<shape, chan, reply, dead, shared, sender, relay, receiver, draft>>
    BY DEF Finish
  <1>9. QED
    BY <1>1, <1>6, <1>7, <1>8 DEF TypeInv

-----------------------------------------------------------------------------
(* What each action does to the fields the invariant speaks of.            *)

SenderWaitEffect ==
    /\ sender.pc = "wait"
    /\ UNCHANGED <<shape, stage, chan, reply, dead, relay, receiver, answer>>
    /\ shared'.inflight = shared.inflight /\ shared'.unread = shared.unread
    /\ shared'.epoch = shared.epoch /\ shared'.error = shared.error
    /\ \/ /\ sender'.pc = "end" /\ sender'.base = sender.base /\ draft' = draft
          /\ shared'.correction = shared.correction
          /\ shared'.ended = [shared.ended EXCEPT ![1] = TRUE]
       \/ /\ sender'.pc = "send" /\ sender'.epoch = shared.epoch /\ shared.error = ""
          /\ shared'.ended = shared.ended /\ ~shared'.correction.pending
          /\ sender'.base = (IF shared.correction.pending THEN shared.correction.pos ELSE sender.base)
          /\ draft' = (IF shared.correction.pending THEN shared.correction.pos ELSE draft)

LEMMA SenderWaitDoes == TypeInv /\ SenderWait => SenderWaitEffect
  <1> SUFFICES ASSUME TypeInv, SenderWait PROVE SenderWaitEffect
    OBVIOUS
  <1>1. shared \in SharedSet(Slots) /\ 1 \in Slots /\ sender \in SenderSet
    BY ShapeFacts DEF TypeInv
  <1>2. CASE /\ sender' = [sender EXCEPT !.pc = "end"]
             /\ shared' = [shared EXCEPT !.ended[1] = TRUE]
             /\ UNCHANGED draft
    <2>1. /\ shared'.inflight = shared.inflight /\ shared'.unread = shared.unread
          /\ shared'.epoch = shared.epoch /\ shared'.error = shared.error
          /\ shared'.correction = shared.correction
          /\ shared'.ended = [shared.ended EXCEPT ![1] = TRUE]
      BY <1>1, <1>2, PutEnded
    <2>2. sender'.pc = "end" /\ sender'.base = sender.base
      BY <1>1, <1>2 DEF SenderSet
    <2>3. QED
      BY <1>2, <2>1, <2>2 DEF SenderWait, SenderWaitEffect
  <1>3. CASE /\ shared.error = ""
             /\ sender' = [sender EXCEPT !.pc = "send", !.epoch = shared.epoch,
                             !.base = IF shared.correction.pending THEN shared.correction.pos ELSE @,
                             !.carry = IF shared.correction.pending THEN shared.correction.tok ELSE @]
             /\ shared' = [shared EXCEPT !.correction.pending = FALSE]
             /\ draft' = DraftRolledBack
    <2>1. /\ shared'.inflight = shared.inflight /\ shared'.unread = shared.unread
          /\ shared'.epoch = shared.epoch /\ shared'.error = shared.error
          /\ shared'.correction.pending = FALSE /\ shared'.ended = shared.ended
      <3>1. shared' = [shared EXCEPT !.correction.pending = FALSE] /\ shared \in SharedSet(Slots)
        BY <1>1, <1>3
      <3>2. QED
        BY <3>1 DEF SharedSet, CorrectionSet
    <2>2. /\ sender'.pc = "send" /\ sender'.epoch = shared.epoch
          /\ sender'.base = IF shared.correction.pending THEN shared.correction.pos ELSE sender.base
      BY <1>1, <1>3 DEF SenderSet
    <2>3. QED
      BY <1>3, <2>1, <2>2 DEF SenderWait, SenderWaitEffect, DraftRolledBack
  <1>4. QED
    BY <1>2, <1>3 DEF SenderWait

SenderSendEffect(g, f) ==
    /\ sender.pc = "send"
    /\ UNCHANGED <<shape, stage, reply, dead, relay, receiver, answer>>
    /\ sender'.base = sender.base /\ sender'.epoch = sender.epoch
    /\ \/ /\ DraftFits /\ sender'.pc = "count" /\ sender'.guesses = g
          /\ g \in Seq(Vocabulary) /\ Len(g) = shape.width
          /\ f \in FrameSet /\ f.type = "token" /\ f.req = 1 /\ f.pos = sender.base
          /\ f.guesses # <<>> /\ Len(f.toks) = shape.width
          /\ chan' = [chan EXCEPT ![1] = Append(@, f)]
          /\ shared' = shared /\ draft' = draft + shape.width
       \/ /\ 1 \in dead \/ ~DraftFits
          /\ sender'.pc = "end" /\ chan' = chan /\ draft' = draft
          /\ shared'.inflight = shared.inflight /\ shared'.unread = shared.unread
          /\ shared'.error = (IF shared.error = "" THEN "sender" ELSE shared.error)

LEMMA SenderSendDoes == TypeInv /\ SenderSend => \E g, f : SenderSendEffect(g, f)
  <1> SUFFICES ASSUME TypeInv, SenderSend PROVE \E g, f : SenderSendEffect(g, f)
    OBVIOUS
  <1>1. 1 \in Slots /\ sender \in SenderSet /\ shape.width >= 1
    BY ShapeFacts DEF TypeInv
  <1>2. sender.pc = "send" /\ UNCHANGED <<shape, stage, reply, dead, relay, receiver, answer>>
    BY DEF SenderSend
  <1>3. CASE DraftFits /\ draft' = draft + shape.width /\ shared' = shared /\ \E guesses \in Proposed :
              /\ chan' = [chan EXCEPT ![1] = Append(@,
                            Frame("token", 1, 1, sender.base,
                                  <<sender.carry>> \o Front(guesses), guesses))]
              /\ sender' = [sender EXCEPT !.pc = "count", !.guesses = guesses]
    <2>1. PICK guesses \in Proposed :
              /\ chan' = [chan EXCEPT ![1] = Append(@,
                            Frame("token", 1, 1, sender.base,
                                  <<sender.carry>> \o Front(guesses), guesses))]
              /\ sender' = [sender EXCEPT !.pc = "count", !.guesses = guesses]
      BY <1>3
    <2>2. PICK f : f = Frame("token", 1, 1, sender.base, <<sender.carry>> \o Front(guesses), guesses)
      OBVIOUS
    <2>3. /\ guesses \in Seq(Vocabulary) /\ Len(guesses) = shape.width
          /\ Len(<<sender.carry>> \o Front(guesses)) = shape.width /\ f \in FrameSet
      BY <2>2, SentFrame
    <2>4. /\ f.type = "token" /\ f.req = 1 /\ f.pos = sender.base
          /\ f.guesses = guesses /\ f.toks = <<sender.carry>> \o Front(guesses)
      BY <2>2 DEF Frame
    <2>5. guesses # <<>>
      BY <1>1, <2>3
    <2>6. /\ sender'.pc = "count" /\ sender'.guesses = guesses /\ sender'.base = sender.base
          /\ sender'.epoch = sender.epoch
      BY <1>1, <2>1 DEF SenderSet
    <2>7. chan' = [chan EXCEPT ![1] = Append(@, f)]
      BY <2>1, <2>2
    <2>8. SenderSendEffect(guesses, f)
      BY <1>2, <1>3, <2>3, <2>4, <2>5, <2>6, <2>7 DEF SenderSendEffect
    <2>9. QED
      BY <2>8
  <1>4. CASE /\ 1 \in dead \/ ~DraftFits
             /\ shared' = [Fail("sender") EXCEPT !.ended[1] = TRUE] /\ draft' = draft /\ chan' = chan
             /\ sender' = [sender EXCEPT !.pc = "end"]
    <2>1. "sender" \in Errors
      BY DEF Errors
    <2>2. /\ shared'.inflight = shared.inflight /\ shared'.unread = shared.unread
          /\ shared'.error = IF shared.error = "" THEN "sender" ELSE shared.error
      BY <1>1, <1>4, <2>1, FailType
    <2>3. sender'.pc = "end" /\ sender'.base = sender.base /\ sender'.epoch = sender.epoch
      BY <1>1, <1>4 DEF SenderSet
    <2>4. SenderSendEffect(0, 0)
      BY <1>2, <1>4, <2>2, <2>3 DEF SenderSendEffect
    <2>5. QED
      BY <2>4
  <1>5. QED
    BY <1>3, <1>4 DEF SenderSend

SenderCountEffect ==
    /\ sender.pc = "count"
    /\ UNCHANGED <<shape, stage, chan, reply, dead, relay, receiver, draft, answer>>
    /\ sender'.pc = "wait" /\ sender'.base = sender.base + shape.width
    /\ Uncounted \in ChunkSet /\ shared'.inflight = Append(shared.inflight, Uncounted)
    /\ shared'.unread = [shared.unread EXCEPT ![1] = @ + 1]
    /\ shared'.epoch = shared.epoch /\ shared'.error = shared.error
    /\ shared'.ended = shared.ended /\ shared'.correction = shared.correction

LEMMA SenderCountDoes == TypeInv /\ SenderCount => SenderCountEffect
  <1> SUFFICES ASSUME TypeInv, SenderCount PROVE SenderCountEffect
    OBVIOUS
  <1>1. shared \in SharedSet(Slots) /\ 1 \in Slots /\ sender \in SenderSet
    BY ShapeFacts DEF TypeInv
  <1>2. PICK c : c = Uncounted
    OBVIOUS
  <1>3. c \in ChunkSet
    BY <1>1, <1>2 DEF Uncounted, SenderSet, ChunkSet
  <1>4. shared' = [shared EXCEPT !.unread[1] = @ + 1, !.inflight = Append(@, c)]
    BY <1>2 DEF SenderCount, Uncounted
  <1>5. /\ shared'.epoch = shared.epoch /\ shared'.error = shared.error
        /\ shared'.ended = shared.ended /\ shared'.correction = shared.correction
        /\ shared'.unread = [shared.unread EXCEPT ![1] = @ + 1]
        /\ shared'.inflight = Append(shared.inflight, c)
    <2>1. shared \in SharedSet(Slots) /\ 1 \in Slots
      BY <1>1
    <2>2. QED
      BY <2>1, <1>4 DEF SharedSet
  <1>6. sender'.pc = "wait" /\ sender'.base = sender.base + shape.width
    BY <1>1 DEF SenderCount, SenderSet
  <1>7. sender.pc = "count" /\ UNCHANGED <<shape, stage, chan, reply, dead, relay, receiver, draft, answer>>
    BY DEF SenderCount
  <1>8. QED
    BY <1>2, <1>3, <1>5, <1>6, <1>7 DEF SenderCountEffect

RelayWaitEffect(i) ==
    /\ relay[i] = "wait"
    /\ UNCHANGED <<shape, stage, chan, reply, dead, sender, receiver, draft, answer>>
    /\ shared'.inflight = shared.inflight /\ shared'.unread = shared.unread
    /\ shared'.epoch = shared.epoch /\ shared'.error = shared.error
    /\ shared'.correction = shared.correction
    /\ \/ /\ shared.error # "" \/ (shared.ended[i] /\ shared.unread[i] = 0)
          /\ relay' = [relay EXCEPT ![i] = "end"]
          /\ shared'.ended = [shared.ended EXCEPT ![i + 1] = TRUE]
       \/ /\ shared.unread[i] > 0
          /\ relay' = [relay EXCEPT ![i] = "read"] /\ shared'.ended = shared.ended

LEMMA RelayWaitDoes ==
    ASSUME TypeInv, NEW i \in DOMAIN relay, RelayWait(i)
    PROVE  RelayWaitEffect(i)
  <1>1. shared \in SharedSet(Slots) /\ i + 1 \in Slots
    BY RelayIndex DEF TypeInv
  <1>2. CASE RelayDone(i) /\ relay' = [relay EXCEPT ![i] = "end"]
             /\ shared' = [shared EXCEPT !.ended[i + 1] = TRUE]
    <2>1. shared' = [shared EXCEPT !.ended[i + 1] = TRUE]
      BY <1>2
    <2>2. /\ shared'.inflight = shared.inflight /\ shared'.unread = shared.unread
          /\ shared'.epoch = shared.epoch /\ shared'.error = shared.error
          /\ shared'.correction = shared.correction
          /\ shared'.ended = [shared.ended EXCEPT ![i + 1] = TRUE]
      BY <1>1, <2>1, PutEnded
    <2>3. QED
      BY <1>2, <2>2 DEF RelayWait, RelayWaitEffect, RelayDone
  <1>3. CASE shared.error = "" /\ shared.unread[i] > 0 /\ relay' = [relay EXCEPT ![i] = "read"]
             /\ shared' = shared
    BY <1>3 DEF RelayWait, RelayWaitEffect
  <1>4. QED
    BY <1>2, <1>3 DEF RelayWait

RelayForwardEffect(i, f) ==
    /\ relay[i] = "read" /\ reply[i] # <<>> /\ f = Head(reply[i])
    /\ UNCHANGED <<shape, stage, dead, sender, receiver, draft, answer>>
    /\ reply' = [reply EXCEPT ![i] = Tail(@)]
    /\ shared'.inflight = shared.inflight
    /\ \/ /\ f.type = "speculative" /\ chan' = [chan EXCEPT ![i + 1] = Append(@, f)]
          /\ relay' = [relay EXCEPT ![i] = "count"]
          /\ shared'.unread = [shared.unread EXCEPT ![i] = @ - 1]
          /\ shared'.epoch = shared.epoch /\ shared'.error = shared.error
          /\ shared'.ended = shared.ended /\ shared'.correction = shared.correction
       \/ /\ f.type # "speculative" /\ relay' = [relay EXCEPT ![i] = "end"]
          /\ shared'.unread = shared.unread
          /\ shared'.error = (IF shared.error = "" THEN "relay" ELSE shared.error)

LEMMA RelayForwardDoes ==
    ASSUME TypeInv, Sizes, NEW i \in DOMAIN relay, RelayForward(i)
    PROVE  \E f : RelayForwardEffect(i, f)
  <1>1. i \in Slots /\ i + 1 \in Slots
    BY RelayIndex
  <1> DEFINE f == Head(reply[i])
  <1>2. /\ relay[i] = "read" /\ reply[i] # <<>> /\ reply' = [reply EXCEPT ![i] = Tail(@)]
        /\ UNCHANGED <<shape, stage, dead, sender, receiver, draft, answer>>
    BY DEF RelayForward
  <1>3. CASE f.type = "speculative"
    <2>1. /\ chan' = [chan EXCEPT ![i + 1] = Append(@, f)] /\ relay' = [relay EXCEPT ![i] = "count"]
          /\ shared' = [shared EXCEPT !.unread[i] = @ - 1]
      BY <1>3 DEF RelayForward
    <2>2. shared.unread[i] \in Nat /\ shared.unread[i] > 0 /\ shared \in SharedSet(Slots)
      BY <1>1, <1>2, SharedFields DEF Sizes, TypeInv
    <2>3. shared' = [shared EXCEPT !.unread[i] = shared.unread[i] - 1]
      BY <2>1, <2>2 DEF SharedSet
    <2>4. shared.unread[i] - 1 \in Nat
      BY <2>2
    <2>5. /\ shared'.inflight = shared.inflight
          /\ shared'.unread = [shared.unread EXCEPT ![i] = shared.unread[i] - 1]
          /\ shared'.epoch = shared.epoch /\ shared'.error = shared.error
          /\ shared'.ended = shared.ended /\ shared'.correction = shared.correction
      BY <1>1, <2>2, <2>3, <2>4, PutUnread
    <2> HIDE DEF f
    <2>6. f = Head(reply[i])
      BY DEF f
    <2>7. RelayForwardEffect(i, f)
      BY <1>2, <1>3, <2>1, <2>5, <2>6 DEF RelayForwardEffect
    <2>8. QED
      BY <2>7
  <1>4. CASE f.type # "speculative"
    <2>1. /\ relay' = [relay EXCEPT ![i] = "end"]
          /\ shared' = [Fail("relay") EXCEPT !.ended[i + 1] = TRUE]
      BY <1>4 DEF RelayForward
    <2>2. "relay" \in Errors
      BY DEF Errors
    <2>3. /\ shared'.inflight = shared.inflight /\ shared'.unread = shared.unread
          /\ shared'.error = IF shared.error = "" THEN "relay" ELSE shared.error
      BY <1>1, <2>1, <2>2, FailType
    <2> HIDE DEF f
    <2>6. f = Head(reply[i])
      BY DEF f
    <2>7. RelayForwardEffect(i, f)
      BY <1>2, <1>4, <2>1, <2>3, <2>6 DEF RelayForwardEffect
    <2>8. QED
      BY <2>7
  <1>5. QED
    BY <1>3, <1>4

RelayCountEffect(i) ==
    /\ relay[i] = "count" /\ relay' = [relay EXCEPT ![i] = "wait"]
    /\ UNCHANGED <<shape, stage, chan, reply, dead, sender, receiver, draft, answer>>
    /\ shared'.inflight = shared.inflight
    /\ shared'.unread = [shared.unread EXCEPT ![i + 1] = @ + 1]
    /\ shared'.epoch = shared.epoch /\ shared'.error = shared.error
    /\ shared'.ended = shared.ended /\ shared'.correction = shared.correction

LEMMA RelayCountDoes ==
    ASSUME TypeInv, NEW i \in DOMAIN relay, RelayCount(i)
    PROVE  RelayCountEffect(i)
  <1>1. shared \in SharedSet(Slots) /\ i + 1 \in Slots /\ shared.unread[i + 1] \in Nat
    BY RelayIndex, SharedFields DEF TypeInv
  <1>2. shared' = [shared EXCEPT !.unread[i + 1] = shared.unread[i + 1] + 1]
    BY <1>1 DEF RelayCount, SharedSet
  <1>3. shared.unread[i + 1] + 1 \in Nat
    BY <1>1
  <1>4. /\ shared'.inflight = shared.inflight
        /\ shared'.unread = [shared.unread EXCEPT ![i + 1] = shared.unread[i + 1] + 1]
        /\ shared'.epoch = shared.epoch /\ shared'.error = shared.error
        /\ shared'.ended = shared.ended /\ shared'.correction = shared.correction
    BY <1>1, <1>2, <1>3, PutUnread
  <1>5. QED
    BY <1>4 DEF RelayCount, RelayCountEffect

(* Read: a reply that fits its chunk is kept for ReceiverApply. *)
ReceiverReadEffect(f, c) ==
    /\ receiver.pc = "read" /\ reply[LastSlot] # <<>> /\ f = Head(reply[LastSlot])
    /\ reply' = [reply EXCEPT ![LastSlot] = Tail(@)]
    /\ UNCHANGED <<shape, stage, chan, dead, sender, relay, draft, answer>>
    /\ shared'.unread = [shared.unread EXCEPT ![LastSlot] =
                           IF shared.unread[LastSlot] > 0 THEN shared.unread[LastSlot] - 1 ELSE 0]
    /\ \/ /\ shared.inflight # <<>> /\ c = Head(shared.inflight) /\ f.type = "result"
          /\ f.pos = c.base + Len(c.guesses) /\ Len(f.toks) = Len(c.guesses)
          /\ shared'.inflight = Tail(shared.inflight)
          /\ shared'.epoch = shared.epoch /\ shared'.error = shared.error
          /\ shared'.ended = shared.ended /\ shared'.correction = shared.correction
          /\ receiver'.pc = "apply" /\ receiver'.chunk = c /\ receiver'.frame = f.toks
          /\ receiver'.apply = (~shared.finished /\ c.epoch = shared.epoch)
       \/ /\ shared.inflight = <<>>
          /\ receiver'.pc = "end" /\ shared'.inflight = shared.inflight
          /\ shared'.error = (IF shared.error = "" THEN "no in-flight chunk" ELSE shared.error)
       \/ /\ shared.inflight # <<>> /\ c = Head(shared.inflight)
          /\ ~(/\ f.type = "result" /\ f.pos = c.base + Len(c.guesses)
               /\ Len(f.toks) = Len(c.guesses))
          /\ receiver'.pc = "end" /\ shared'.inflight = Tail(shared.inflight)
          /\ shared'.error = (IF shared.error = ""
                              THEN (IF f.type = "error" THEN "stage" ELSE "invalid") ELSE shared.error)

LEMMA ReceiverReadDoes == TypeInv /\ ReceiverRead => \E f, c : ReceiverReadEffect(f, c)
  <1> SUFFICES ASSUME TypeInv, ReceiverRead PROVE \E f, c : ReceiverReadEffect(f, c)
    OBVIOUS
  <1>1. PICK f, c, read, valid : ReadEffect(f, c, read, valid)
    BY ReceiverReadSplit
  <1>2. read = [shared EXCEPT !.unread[LastSlot] = IF @ > 0 THEN @ - 1 ELSE 0]
    BY <1>1 DEF ReadEffect
  <1>3. /\ read \in SharedSet(Slots)
        /\ read.inflight = shared.inflight /\ read.epoch = shared.epoch
        /\ read.finished = shared.finished /\ read.error = shared.error
        /\ read.ended = shared.ended /\ read.correction = shared.correction
        /\ read.unread = [shared.unread EXCEPT ![LastSlot] =
                            IF shared.unread[LastSlot] > 0 THEN shared.unread[LastSlot] - 1 ELSE 0]
    BY <1>2, ReadUpdate
  <1>4. receiver \in ReceiverSet
    BY DEF TypeInv
  <1>5. CASE valid
    <2>1. shared' = [read EXCEPT !.inflight = Tail(@)]
          /\ receiver' = [pc |-> "apply", chunk |-> c, frame |-> f.toks,
                          apply |-> ~shared.finished /\ c.epoch = shared.epoch]
      BY <1>1, <1>5 DEF ReadEffect
    <2>2. /\ shared'.inflight = Tail(read.inflight) /\ shared'.epoch = read.epoch
          /\ shared'.error = read.error /\ shared'.unread = read.unread
          /\ shared'.ended = read.ended /\ shared'.correction = read.correction
      BY <1>3, <2>1 DEF SharedSet
    <2>3. /\ receiver'.pc = "apply" /\ receiver'.chunk = c /\ receiver'.frame = f.toks
          /\ receiver'.apply = (~shared.finished /\ c.epoch = shared.epoch)
      BY <2>1
    <2>4. ReceiverReadEffect(f, c)
      BY <1>1, <1>3, <1>5, <2>2, <2>3 DEF ReadEffect, ReceiverReadEffect
    <2>5. QED
      BY <2>4
  <1>6. CASE ~valid /\ shared.inflight = <<>>
    <2>1. shared' = [read EXCEPT !.error = IF @ = "" THEN "no in-flight chunk" ELSE @]
          /\ receiver' = [receiver EXCEPT !.pc = "end"]
      BY <1>1, <1>6 DEF ReadEffect
    <2>2. /\ shared'.inflight = read.inflight /\ shared'.unread = read.unread
          /\ shared'.error = IF read.error = "" THEN "no in-flight chunk" ELSE read.error
      BY <1>3, <2>1 DEF SharedSet
    <2>3. receiver'.pc = "end"
      BY <1>4, <2>1 DEF ReceiverSet
    <2>4. ReceiverReadEffect(f, c)
      BY <1>1, <1>3, <1>6, <2>2, <2>3 DEF ReadEffect, ReceiverReadEffect
    <2>5. QED
      BY <2>4
  <1>7. CASE ~valid /\ shared.inflight # <<>>
    <2>1. shared' = [read EXCEPT !.inflight = Tail(@), !.error = IF @ = ""
                        THEN (IF f.type = "error" THEN "stage" ELSE "invalid") ELSE @]
          /\ receiver' = [receiver EXCEPT !.pc = "end"]
      BY <1>1, <1>7 DEF ReadEffect
    <2>2. /\ shared'.inflight = Tail(read.inflight) /\ shared'.unread = read.unread
          /\ shared'.error = IF read.error = ""
                             THEN (IF f.type = "error" THEN "stage" ELSE "invalid") ELSE read.error
      BY <1>3, <2>1 DEF SharedSet
    <2>3. receiver'.pc = "end"
      BY <1>4, <2>1 DEF ReceiverSet
    <2>4. ReceiverReadEffect(f, c)
      BY <1>1, <1>3, <1>7, <2>2, <2>3 DEF ReadEffect, ReceiverReadEffect
    <2>5. QED
      BY <2>4
  <1>8. valid \in BOOLEAN
    BY <1>1 DEF ReadEffect
  <1>9. QED
    BY <1>5, <1>6, <1>7, <1>8

ReceiverApplyEffect ==
    /\ receiver.pc = "apply" /\ receiver'.pc = "wait"
    /\ UNCHANGED <<shape, stage, chan, reply, dead, sender, relay, draft>>
    /\ answer'.pc = answer.pc /\ answer'.out # <<>>
    /\ shared'.inflight = shared.inflight /\ shared'.unread = shared.unread
    /\ shared'.error = shared.error /\ shared'.ended = shared.ended
    /\ \/ shared'.epoch = shared.epoch /\ shared'.correction = shared.correction
       \/ /\ receiver.apply /\ shared'.epoch = shared.epoch + 1
          /\ shared'.correction.pending
          /\ shared'.correction.pos <= receiver.chunk.base + shape.width

LEMMA ReceiverApplyDoes == TypeInv /\ Sizes /\ ReceiverApply => ReceiverApplyEffect
  <1> SUFFICES ASSUME TypeInv, Sizes, ReceiverApply PROVE ReceiverApplyEffect
    OBVIOUS
  <1>1. PICK a, complete : ApplyEffect(a, complete)
    BY ReceiverApplySplit
  <1>2. receiver.pc = "apply" /\ receiver \in ReceiverSet /\ answer \in AnswerSet
        /\ shared \in SharedSet(Slots)
    BY <1>1 DEF ApplyEffect, TypeInv
  <1>3. answer.out # <<>>
    BY <1>2 DEF Sizes, Unstarted
  <1>4. /\ receiver'.pc = "wait"
        /\ UNCHANGED <<shape, stage, chan, reply, dead, sender, relay, draft>>
    BY <1>1 DEF ApplyEffect
  <1>5. CASE ~receiver.apply
    BY <1>1, <1>2, <1>3, <1>4, <1>5 DEF ApplyEffect, ReceiverApplyEffect
  <1>6. CASE receiver.apply
    <2>1. /\ receiver.chunk \in ChunkSet /\ receiver.frame \in Seq(Vocabulary)
          /\ Len(receiver.chunk.guesses) = shape.width /\ Len(receiver.frame) = shape.width
          /\ receiver.chunk.guesses \in Seq(Vocabulary)
      BY <1>2 DEF ReceiverSet, Sizes, ChunkSet
    <2>2. Right(receiver.chunk.guesses, receiver.frame) \in 0..shape.width
      BY <2>1, RightType
    <2>3. PICK j \in 0..Right(receiver.chunk.guesses, receiver.frame), stop, late \in BOOLEAN :
             a = Applied(receiver.chunk, receiver.frame, j, stop, late)
      BY <1>1, <1>6 DEF ApplyEffect
    <2>4. j \in 0..shape.width
      BY <2>2, ShapeFacts DEF TypeInv
    <2>5. /\ a \in AnswerSet /\ a.out # <<>> /\ a.pc = answer.pc
          /\ a.pos <= receiver.chunk.base + shape.width
      BY <1>3, <2>1, <2>3, <2>4, AppliedType
    <2>6. answer' = a
      BY <1>1, <1>6 DEF ApplyEffect
    <2>7. /\ shared'.inflight = shared.inflight /\ shared'.unread = shared.unread
          /\ shared'.error = shared.error /\ shared'.ended = shared.ended
          /\ \/ shared'.epoch = shared.epoch /\ shared'.correction = shared.correction
             \/ /\ shared'.epoch = shared.epoch + 1 /\ shared'.correction.pending
                /\ shared'.correction.pos = a.pos
      <3>1. CASE shared' = [shared EXCEPT !.finished = TRUE]
        BY <1>2, <3>1 DEF SharedSet
      <3>2. CASE shared' = shared
        BY <3>2
      <3>3. CASE shared' = [shared EXCEPT !.epoch = @ + 1,
                              !.correction = [pending |-> TRUE, pos |-> a.pos, tok |-> a.last]]
        BY <1>2, <3>3 DEF SharedSet
      <3>4. QED
        BY <1>1, <1>6, <3>1, <3>2, <3>3 DEF ApplyEffect
    <2>8. QED
      BY <1>2, <1>4, <1>6, <2>5, <2>6, <2>7 DEF ReceiverApplyEffect
  <1>7. QED
    BY <1>5, <1>6

PrefillEffect ==
    /\ answer.pc = "idle" /\ answer'.pc \in {"decode", "finish"} /\ answer'.out # <<>>
    /\ UNCHANGED <<shape, chan, reply, dead, shared>>
    /\ draft' = Len(Prompt)
    /\ \A k \in 1..N : /\ stage'[k].open /\ stage'[k].active = 1 /\ stage'[k].prompted
                       /\ stage'[k].kv = Prompt
    /\ DOMAIN relay' = DOMAIN relay
    /\ \/ /\ sender'.pc = "wait" /\ sender'.base = Len(Prompt) /\ receiver'.pc = "wait"
          /\ \A i \in DOMAIN relay : relay'[i] = "wait"
       \/ /\ sender'.pc = "end" /\ receiver'.pc = "end"
          /\ \A i \in DOMAIN relay : relay'[i] = "end"

LEMMA PrefillDoes == TypeInv /\ Prefill => PrefillEffect
  <1> SUFFICES ASSUME TypeInv, Prefill PROVE PrefillEffect
    OBVIOUS
  <1> DEFINE t == Sample(Prompt, shape.endAt)
  <1> HIDE DEF t
  <1>1. PICK cancelled \in BOOLEAN :
          LET more == ~cancelled /\ t # Eog /\ shape.budget > 1
          IN  /\ answer' = [NoAnswer EXCEPT !.pc = IF more THEN "decode" ELSE "finish", !.out = <<t>>,
                               !.pos = Len(Prompt), !.last = t, !.eog = t = Eog, !.cancelled = cancelled]
              /\ sender' = IF more THEN [Idle EXCEPT !.pc = "wait", !.base = Len(Prompt), !.carry = t]
                           ELSE [Idle EXCEPT !.pc = "end"]
              /\ relay' = [i \in DOMAIN relay |-> IF more THEN "wait" ELSE "end"]
              /\ receiver' = [receiver EXCEPT !.pc = IF more THEN "wait" ELSE "end"]
    BY DEF Prefill, t
  <1>2. PICK more \in BOOLEAN : more <=> ~cancelled /\ t # Eog /\ shape.budget > 1
    OBVIOUS
  <1>3. answer'.pc \in {"decode", "finish"} /\ answer'.out = <<t>>
    BY <1>1 DEF NoAnswer
  <1>4. <<t>> # <<>>
    OBVIOUS
  <1>5. /\ sender'.pc = IF more THEN "wait" ELSE "end"
        /\ more => sender'.base = Len(Prompt)
    BY <1>1, <1>2 DEF Idle
  <1>6. receiver \in ReceiverSet
    BY DEF TypeInv
  <1>7. receiver'.pc = IF more THEN "wait" ELSE "end"
    BY <1>1, <1>2, <1>6 DEF ReceiverSet
  <1>8. relay' = [i \in DOMAIN relay |-> IF more THEN "wait" ELSE "end"]
    BY <1>1, <1>2
  <1>9. \A k \in 1..N : /\ stage'[k].open /\ stage'[k].active = 1 /\ stage'[k].prompted
                        /\ stage'[k].kv = Prompt
    BY DEF Prefill, Fresh, Absent
  <1>10. answer.pc = "idle" /\ draft' = Len(Prompt) /\ UNCHANGED <<shape, chan, reply, dead, shared>>
    BY DEF Prefill
  <1>11. DOMAIN relay' = DOMAIN relay /\ \A i \in DOMAIN relay : relay'[i] = IF more THEN "wait" ELSE "end"
    BY <1>8
  <1>12. CASE more
    BY <1>3, <1>4, <1>5, <1>7, <1>9, <1>10, <1>11, <1>12 DEF PrefillEffect
  <1>13. CASE ~more
    BY <1>3, <1>4, <1>5, <1>7, <1>9, <1>10, <1>11, <1>13 DEF PrefillEffect
  <1>14. QED
    BY <1>12, <1>13

FinishEffect ==
    /\ answer.pc \in {"decode", "finish"} /\ Joined /\ answer'.pc \in {"done", "failed"}
    /\ answer'.out = answer.out
    /\ answer'.pc = "done" => shared.error = ""
    /\ UNCHANGED <<shape, chan, reply, dead, shared, sender, relay, receiver, draft>>

LEMMA FinishDoes == TypeInv /\ Finish => FinishEffect
  <1> SUFFICES ASSUME TypeInv, Finish PROVE FinishEffect
    OBVIOUS
  <1>1. answer \in AnswerSet /\ answer'.out = answer.out
    BY FinishType DEF TypeInv
  <1>2. /\ answer.pc \in {"decode", "finish"} /\ Joined
        /\ UNCHANGED <<shape, chan, reply, dead, shared, sender, relay, receiver, draft>>
    BY DEF Finish
  <1>3. \/ answer' = [answer EXCEPT !.pc = "failed"]
        \/ shared.error = "" /\ answer' = [answer EXCEPT !.pc = "done"]
    BY Zenon DEF Finish
  <1>4. answer'.pc = "failed" \/ (shared.error = "" /\ answer'.pc = "done")
    BY <1>1, <1>3 DEF AnswerSet
  <1>5. QED
    BY <1>1, <1>2, <1>4 DEF FinishEffect

-----------------------------------------------------------------------------
(* Sizes.                                                                  *)

LEMMA InitSizes == Init => Sizes
  <1> SUFFICES ASSUME Init PROVE Sizes
    OBVIOUS
  <1>1. sender.pc = "off" /\ receiver.pc = "off" /\ answer.pc = "idle"
    BY DEF Init, Idle, NoAnswer
  <1>2. \A i \in DOMAIN relay : relay[i] = "off"
    BY DEF Init
  <1>3. DOMAIN reply = Slots /\ N = shape.n
    BY DEF Init, Slots, N
  <1>4. shared.inflight = <<>> /\ shared.error = "" /\ ~shared.correction.pending
    BY DEF Init, NoCorrection
  <1>5. \A i \in Slots : reply[i] = <<>> /\ shared.unread[i] = 0 /\ ~shared.ended[i]
    BY <1>3 DEF Init
  <1>6. (\A k \in 1..N : chan[k] = <<>>) /\ dead = {}
    BY <1>3 DEF Init
  <1>7. Unstarted
    BY <1>1, <1>2, <1>4, <1>5, <1>6 DEF Unstarted
  <1>8. \A j \in 1..Len(shared.inflight) : FALSE
    <2>1. Len(shared.inflight) = 0
      BY <1>4, EmptySeq
    <2>2. QED
      BY <2>1
  <1>9. QED
    BY <1>1, <1>2, <1>7, <1>8 DEF Sizes

LEMMA PrefillSizes == TypeInv /\ Sizes /\ PrefillEffect => Sizes'
  <1> SUFFICES ASSUME TypeInv, Sizes, PrefillEffect PROVE Sizes'
    OBVIOUS
  <1>1. shape' = shape /\ shared' = shared /\ shared.inflight = <<>>
    BY DEF PrefillEffect, Sizes, Unstarted
  <1>2. answer'.pc # "idle" /\ answer'.out # <<>> /\ sender'.pc # "count" /\ receiver'.pc # "apply"
        /\ DOMAIN relay' = DOMAIN relay /\ \A i \in DOMAIN relay : relay'[i] # "read"
    BY DEF PrefillEffect
  <1>3. QED
    BY <1>1, <1>2 DEF Sizes

LEMMA SenderWaitSizes == Sizes /\ SenderWaitEffect => Sizes'
  <1> SUFFICES ASSUME Sizes, SenderWaitEffect PROVE Sizes'
    OBVIOUS
  <1>1. answer.pc # "idle"
    BY DEF Sizes, Unstarted, SenderWaitEffect
  <1>2. QED
    BY <1>1 DEF Sizes, SenderWaitEffect

LEMMA SenderSendSizes == ASSUME Sizes, NEW g, NEW f, SenderSendEffect(g, f) PROVE Sizes'
  <1>1. answer.pc # "idle"
    BY DEF Sizes, Unstarted, SenderSendEffect
  <1>2. QED
    BY <1>1 DEF Sizes, SenderSendEffect

LEMMA SenderCountSizes == TypeInv /\ Sizes /\ SenderCountEffect => Sizes'
  <1> SUFFICES ASSUME TypeInv, Sizes, SenderCountEffect PROVE Sizes'
    OBVIOUS
  <1>1. answer.pc # "idle" /\ shape' = shape /\ answer' = answer /\ receiver' = receiver
        /\ relay' = relay /\ sender'.pc = "wait"
    BY DEF Sizes, Unstarted, SenderCountEffect
  <1>2. shared.inflight \in Seq(ChunkSet) /\ shared.unread \in [Slots -> Nat]
    BY SharedFields
  <1>3. ASSUME NEW j \in 1..Len(shared'.inflight)
        PROVE  Len(shared'.inflight[j].guesses) = shape.width
    <2>1. Len(Uncounted.guesses) = shape.width
      BY DEF Sizes, SenderCountEffect, Uncounted
    <2>2. PICK c : c = Uncounted
      OBVIOUS
    <2>3. c \in ChunkSet /\ shared'.inflight = Append(shared.inflight, c) /\ Len(c.guesses) = shape.width
      BY <2>1, <2>2 DEF SenderCountEffect
    <2>4. CASE j <= Len(shared.inflight)
      BY <1>2, <2>3, <2>4 DEF Sizes
    <2>5. CASE j = Len(shared.inflight) + 1
      BY <1>2, <2>3, <2>5
    <2>6. QED
      BY <1>2, <2>3, <2>4, <2>5
  <1>4. ASSUME NEW i \in DOMAIN relay, relay[i] = "read"
        PROVE  shared'.unread[i] > 0
    <2>1. i \in Slots /\ shared.unread[i] > 0
      BY <1>4, RelayIndex DEF Sizes
    <2>2. shared'.unread = [shared.unread EXCEPT ![1] = @ + 1]
      BY DEF SenderCountEffect
    <2>3. QED
      BY <1>2, <2>1, <2>2
  <1>5. QED
    BY <1>1, <1>3, <1>4 DEF Sizes

LEMMA StageStepSizes ==
    ASSUME Sizes, TypeInv, NEW k \in 1..N, NEW f, NEW fails, NEW r, NEW g, StageEffect(k, f, fails, r, g)
    PROVE  Sizes'
  <1>1. answer.pc # "idle"
    BY DEF Sizes, Unstarted, StageEffect
  <1>2. UNCHANGED <<shape, shared, sender, relay, receiver, draft, answer>>
    BY DEF StageEffect
  <1>3. QED
    BY <1>1, <1>2 DEF Sizes

LEMMA RelayWaitSizes ==
    ASSUME TypeInv, Sizes, NEW i \in DOMAIN relay, RelayWaitEffect(i)
    PROVE  Sizes'
  <1>1. answer.pc # "idle"
    BY DEF Sizes, Unstarted, RelayWaitEffect
  <1>2. \A m \in DOMAIN relay' : relay'[m] = "read" => shared'.unread[m] > 0
    <2>1. DOMAIN relay' = DOMAIN relay
      BY DEF RelayWaitEffect
    <2>2. QED
      BY <2>1 DEF Sizes, RelayWaitEffect
  <1>3. QED
    BY <1>1, <1>2 DEF Sizes, RelayWaitEffect

LEMMA RelayForwardSizes ==
    ASSUME TypeInv, Sizes, NEW i \in DOMAIN relay, NEW f, RelayForwardEffect(i, f)
    PROVE  Sizes'
  <1>1. answer.pc # "idle"
    BY DEF Sizes, Unstarted, RelayForwardEffect
  <1>2. \A m \in DOMAIN relay' : relay'[m] = "read" => shared'.unread[m] > 0
    <2>1. DOMAIN relay' = DOMAIN relay /\ relay'[i] # "read"
          /\ \A m \in DOMAIN relay : m # i => relay'[m] = relay[m]
      BY DEF RelayForwardEffect
    <2>2. \A m \in DOMAIN relay : m # i => shared'.unread[m] = shared.unread[m]
      BY RelayIndex, SharedFields DEF RelayForwardEffect
    <2>3. QED
      BY <2>1, <2>2 DEF Sizes
  <1>3. QED
    BY <1>1, <1>2 DEF Sizes, RelayForwardEffect

LEMMA RelayCountSizes ==
    ASSUME TypeInv, Sizes, NEW i \in DOMAIN relay, RelayCountEffect(i)
    PROVE  Sizes'
  <1>1. answer.pc # "idle"
    BY DEF Sizes, Unstarted, RelayCountEffect
  <1>2. \A m \in DOMAIN relay' : relay'[m] = "read" => shared'.unread[m] > 0
    <2>1. DOMAIN relay' = DOMAIN relay /\ \A m \in DOMAIN relay : relay'[m] = "read" => relay[m] = "read"
      BY DEF RelayCountEffect
    <2>2. shared.unread \in [Slots -> Nat]
      BY SharedFields
    <2>3. \A m \in DOMAIN relay : shared'.unread[m] >= shared.unread[m] /\ shared.unread[m] \in Nat
                                  /\ shared'.unread[m] \in Nat
      BY <2>2, RelayIndex DEF RelayCountEffect
    <2>4. QED
      BY <2>1, <2>3 DEF Sizes
  <1>3. QED
    BY <1>1, <1>2 DEF Sizes, RelayCountEffect

LEMMA ReceiverWaitSizes == TypeInv /\ Sizes /\ ReceiverWait => Sizes'
  <1> SUFFICES ASSUME TypeInv, Sizes, ReceiverWait PROVE Sizes'
    OBVIOUS
  <1>1. answer.pc # "idle"
    BY DEF Sizes, Unstarted, ReceiverWait
  <1>2. receiver'.pc # "apply"
    BY DEF ReceiverWait, TypeInv, ReceiverSet
  <1>3. QED
    BY <1>1, <1>2 DEF Sizes, ReceiverWait

LEMMA ReceiverReadSizes ==
    ASSUME TypeInv, Sizes, NEW f, NEW c, ReceiverReadEffect(f, c)
    PROVE  Sizes'
  <1>1. answer.pc # "idle"
    BY DEF Sizes, Unstarted, ReceiverReadEffect
  <1>2. shared.inflight \in Seq(ChunkSet) /\ shared.unread \in [Slots -> Nat] /\ LastSlot \in Slots
    BY SharedFields, ShapeFacts DEF TypeInv
  <1>3. shape' = shape /\ answer' = answer /\ sender' = sender /\ relay' = relay
    BY DEF ReceiverReadEffect
  <1>4. \A m \in DOMAIN relay : m \in Slots /\ m # LastSlot
    BY DEF TypeInv
  <1>5. \A m \in DOMAIN relay : shared'.unread[m] = shared.unread[m]
    BY <1>2, <1>4 DEF ReceiverReadEffect
  <1>6. \A j \in 1..Len(shared'.inflight) : Len(shared'.inflight[j].guesses) = shape.width
    <2>1. CASE shared.inflight # <<>> /\ shared'.inflight = Tail(shared.inflight)
      <3>1. /\ Len(Tail(shared.inflight)) = Len(shared.inflight) - 1
            /\ \A j \in 1..Len(shared.inflight) - 1 : Tail(shared.inflight)[j] = shared.inflight[j + 1]
        BY <1>2, <2>1, HeadTailProperties
      <3>2. \A j \in 1..Len(shared.inflight) - 1 : j + 1 \in 1..Len(shared.inflight)
        BY <1>2
      <3>3. QED
        BY <2>1, <3>1, <3>2 DEF Sizes
    <2>2. CASE shared'.inflight = shared.inflight
      BY <2>2 DEF Sizes
    <2>3. QED
      BY <2>1, <2>2 DEF ReceiverReadEffect
  <1>7. receiver'.pc = "apply" => /\ Len(receiver'.chunk.guesses) = shape.width
                                  /\ Len(receiver'.frame) = shape.width
    <2>1. SUFFICES ASSUME receiver'.pc = "apply"
                   PROVE  Len(receiver'.chunk.guesses) = shape.width /\ Len(receiver'.frame) = shape.width
      OBVIOUS
    <2>2. /\ shared.inflight # <<>> /\ receiver'.chunk = Head(shared.inflight)
          /\ Len(receiver'.frame) = Len(receiver'.chunk.guesses)
      BY <2>1 DEF ReceiverReadEffect
    <2>3. Head(shared.inflight) = shared.inflight[1] /\ 1 \in 1..Len(shared.inflight)
      BY <1>2, <2>2
    <2>4. QED
      BY <2>2, <2>3 DEF Sizes
  <1>8. QED
    BY <1>1, <1>3, <1>5, <1>6, <1>7 DEF Sizes

LEMMA ReceiverApplySizes == TypeInv /\ Sizes /\ ReceiverApplyEffect => Sizes'
  <1> SUFFICES ASSUME TypeInv, Sizes, ReceiverApplyEffect PROVE Sizes'
    OBVIOUS
  <1>1. answer.pc # "idle"
    BY DEF Sizes, Unstarted, ReceiverApplyEffect
  <1>2. QED
    BY <1>1 DEF Sizes, ReceiverApplyEffect

LEMMA FinishSizes == Sizes /\ FinishEffect => Sizes'
  BY DEF Sizes, FinishEffect

-----------------------------------------------------------------------------
(* The line of chunks.                                                     *)

LEMMA QueueType ==
    ASSUME TypeInv, Sizes
    PROVE  /\ Queue \in Seq(ChunkSet) /\ Len(Queue) \in Nat /\ Len(shared.inflight) \in Nat
           /\ Len(Queue) = Len(shared.inflight) + Counted /\ Counted \in {0, 1}
           /\ \A j \in 1..Len(Queue) : Queue[j] \in ChunkSet /\ Len(Queue[j].guesses) = shape.width
  <1>1. shared.inflight \in Seq(ChunkSet)
    BY SharedFields
  <1>2. CASE sender.pc = "count"
    <2>1. PICK c : c = Uncounted
      OBVIOUS
    <2>2. c \in ChunkSet /\ Len(c.guesses) = shape.width
      BY <1>2, <2>1 DEF Uncounted, ChunkSet, TypeInv, SenderSet, Sizes
    <2>3. Queue = Append(shared.inflight, c) /\ Counted = 1
      BY <1>2, <2>1 DEF Queue, Counted
    <2>4. /\ Queue \in Seq(ChunkSet) /\ Len(Queue) = Len(shared.inflight) + 1
          /\ \A j \in 1..Len(shared.inflight) : Queue[j] = shared.inflight[j]
          /\ Queue[Len(shared.inflight) + 1] = c
      BY <1>1, <2>2, <2>3
    <2>5. ASSUME NEW j \in 1..Len(Queue)
          PROVE  Queue[j] \in ChunkSet /\ Len(Queue[j].guesses) = shape.width
      <3>1. CASE j \in 1..Len(shared.inflight)
        BY <1>1, <2>4, <3>1 DEF Sizes
      <3>2. CASE j = Len(shared.inflight) + 1
        BY <2>2, <2>4, <3>2
      <3>3. QED
        BY <1>1, <2>4, <3>1, <3>2
    <2>6. QED
      BY <1>1, <2>3, <2>4, <2>5
  <1>3. CASE sender.pc # "count"
    <2>1. Queue = shared.inflight /\ Counted = 0
      BY <1>3 DEF Queue, Counted
    <2>2. QED
      BY <1>1, <2>1 DEF Sizes
  <1>4. QED
    BY <1>2, <1>3

LEMMA LineTypes ==
    ASSUME TypeInv, NEW k \in 1..N
    PROVE  /\ chan[k] \in Seq(FrameSet) /\ Len(chan[k]) \in Nat
           /\ Leaving(k) \in Seq(FrameSet) /\ Len(Leaving(k)) \in Nat
  <1>1. chan \in [1..N -> Seq(FrameSet)] /\ reply \in [Slots -> Seq(FrameSet)]
        /\ 1 \in Slots /\ (~shape.ring => k \in Slots)
    BY ShapeFacts DEF TypeInv
  <1>2. <<>> \in Seq(FrameSet)
    OBVIOUS
  <1>3. Leaving(k) \in Seq(FrameSet)
    BY <1>1, <1>2 DEF Leaving
  <1>4. QED
    BY <1>1, <1>3

LEMMA Bounds ==
    ASSUME TypeInv, Sizes, NEW d \in [1..N -> Nat], Line(d), NEW k \in 1..N
    PROVE  d[k] + Len(chan[k]) <= Len(Queue) /\ Len(Leaving(k)) <= d[k]
  <1>1. N \in Nat /\ N >= 1 /\ 1 \in 1..N /\ N \in 1..N
    BY ShapeFacts DEF TypeInv
  <1>2. Len(Queue) \in Nat /\ Len(chan[k]) \in Nat /\ Len(Leaving(k)) \in Nat /\ d[k] \in Nat
        /\ Len(chan[1]) \in Nat /\ d[1] \in Nat
    BY <1>1, QueueType, LineTypes
  <1>3. d[k] + Len(chan[k]) <= Len(Queue)
    <2>1. CASE k = 1
      BY <1>2, <2>1 DEF Line
    <2>2. CASE k > 1
      <3>1. k - 1 \in 1..N - 1 /\ k - 1 \in 1..N /\ (k - 1) + 1 = k
        BY <1>1, <2>2
      <3>2. d[k] + Len(chan[k]) + Len(Leaving(k - 1)) = d[k - 1]
        BY <3>1 DEF Line
      <3>3. Len(Leaving(k - 1)) \in Nat /\ d[k - 1] \in Nat
        BY <3>1, LineTypes
      <3>4. d[k - 1] <= d[1]
        <4>1. CASE k - 1 = 1
          BY <4>1, <1>2
        <4>2. CASE 1 < k - 1
          BY <1>1, <3>1, <4>2 DEF Line
        <4>3. QED
          BY <3>1, <4>1, <4>2
      <3>5. d[1] + Len(chan[1]) = Len(Queue)
        BY DEF Line
      <3>6. QED
        BY <1>2, <3>2, <3>3, <3>4, <3>5, SMTT(30)
    <2>3. QED
      BY <2>1, <2>2
  <1>4. Len(Leaving(k)) <= d[k]
    <2>1. CASE k = N
      BY <1>2, <2>1 DEF Line
    <2>2. CASE k < N
      <3>1. k \in 1..N - 1 /\ k + 1 \in 1..N
        BY <1>1, <2>2
      <3>2. d[k + 1] + Len(chan[k + 1]) + Len(Leaving(k)) = d[k]
        BY <3>1 DEF Line
      <3>3. d[k + 1] \in Nat /\ Len(chan[k + 1]) \in Nat
        BY <3>1, LineTypes
      <3>4. QED
        BY <1>2, <3>2, <3>3
    <2>3. QED
      BY <1>1, <2>1, <2>2
  <1>5. QED
    BY <1>3, <1>4

(* Steps that move no frame. *)
LEMMA LineStays ==
    ASSUME NEW d, UNCHANGED <<shape, chan, reply>>, Queue' = Queue, Line(d), Frames(d)
    PROVE  Line(d)' /\ Frames(d)'
  <1>1. N' = N /\ \A k : Leaving(k)' = Leaving(k)
    BY DEF N, Leaving
  <1>2. Line(d)'
    BY <1>1 DEF Line
  <1>3. \A k, f, c : Arriving(k, f, c)' = Arriving(k, f, c) /\ Departing(k, f, c)' = Departing(k, f, c)
    BY <1>1 DEF Arriving, Departing, Carries
  <1>4. Frames(d)'
    BY <1>1, <1>3 DEF Frames
  <1>5. QED
    BY <1>2, <1>4

(* A chunk enters. *)
LEMMA SendQueue ==
    ASSUME TypeInv, Sizes, NEW g, NEW f, SenderSendEffect(g, f), sender'.pc = "count", NEW c,
           c = [epoch |-> sender.epoch, base |-> sender.base, guesses |-> g]
    PROVE  /\ Queue' = Append(Queue, c) /\ c \in ChunkSet /\ Len(c.guesses) = shape.width
           /\ Queue = shared.inflight /\ Len(Queue') = Len(Queue) + 1
           /\ \A j \in 1..Len(Queue) : Queue'[j] = Queue[j]
           /\ Queue'[Len(Queue) + 1] = c
  <1>1. /\ sender.pc = "send" /\ shared' = shared /\ sender'.guesses = g /\ sender'.base = sender.base
        /\ sender'.epoch = sender.epoch /\ g \in Seq(Vocabulary) /\ Len(g) = shape.width
    BY DEF SenderSendEffect
  <1>2. c \in ChunkSet /\ Len(c.guesses) = shape.width
    BY <1>1 DEF TypeInv, SenderSet, ChunkSet
  <1>3. Queue = shared.inflight
    BY <1>1 DEF Queue
  <1>4. Queue' = Append(Queue, c)
    BY <1>1, <1>3 DEF Queue, Uncounted
  <1>5. Queue \in Seq(ChunkSet)
    BY QueueType
  <1>6. QED
    BY <1>2, <1>3, <1>4, <1>5

LEMMA SendLine ==
    ASSUME TypeInv, Sizes, NEW d \in [1..N -> Nat], Line(d), Frames(d),
           NEW g, NEW f, SenderSendEffect(g, f), sender'.pc = "count"
    PROVE  Line(d)' /\ Frames(d)'
  <1>1. PICK c : c = [epoch |-> sender.epoch, base |-> sender.base, guesses |-> g]
    OBVIOUS
  <1>2. /\ c \in ChunkSet /\ Len(c.guesses) = shape.width
        /\ Len(Queue') = Len(Queue) + 1
        /\ \A j \in 1..Len(Queue) : Queue'[j] = Queue[j]
        /\ Queue'[Len(Queue) + 1] = c
    BY <1>1, SendQueue
  <1>3. /\ shape' = shape /\ reply' = reply /\ chan' = [chan EXCEPT ![1] = Append(@, f)]
        /\ f.type = "token" /\ f.req = 1 /\ f.pos = sender.base
        /\ f.guesses # <<>> /\ Len(f.toks) = shape.width /\ f \in FrameSet
    BY DEF SenderSendEffect
  <1>4. N' = N /\ \A k : Leaving(k)' = Leaving(k)
    BY <1>3 DEF N, Leaving
  <1>5. N \in Nat /\ 1 \in 1..N
    BY ShapeFacts DEF TypeInv
  <1>6. \A k \in 1..N : Len(chan[k]) \in Nat /\ chan[k] \in Seq(FrameSet) /\ d[k] \in Nat
                        /\ d[k] + Len(chan[k]) <= Len(Queue) /\ Len(Leaving(k)) \in Nat
                        /\ Len(Leaving(k)) <= d[k]
    BY LineTypes, Bounds
  <1>7. Len(Queue) \in Nat
    BY QueueType
  <1>8. /\ chan'[1] = Append(chan[1], f) /\ Len(chan'[1]) = Len(chan[1]) + 1
        /\ chan'[1][Len(chan[1]) + 1] = f
        /\ \A j \in 1..Len(chan[1]) : chan'[1][j] = chan[1][j]
        /\ \A k \in 1..N : k # 1 => chan'[k] = chan[k]
    <2>1. chan \in [1..N -> Seq(FrameSet)]
      BY DEF TypeInv
    <2>2. QED
      BY <1>3, <1>5, <1>6, <2>1
  <1>9. Line(d)'
    <2>1. d[1] + Len(chan'[1]) = Len(Queue')
      <3>1. d[1] + Len(chan[1]) = Len(Queue)
        BY DEF Line
      <3>2. d[1] \in Nat /\ Len(chan[1]) \in Nat
        BY <1>5, <1>6
      <3>3. Len(Queue') = Len(Queue) + 1 /\ Len(chan'[1]) = Len(chan[1]) + 1
        BY <1>2, <1>8
      <3>4. QED
        BY <1>7, <3>1, <3>2, <3>3
    <2>2. \A k \in 1..N - 1 : chan'[k + 1] = chan[k + 1]
      BY <1>5, <1>8
    <2>3. QED
      BY <1>4, <2>1, <2>2 DEF Line
  <1>10. \A k, x, y : Arriving(k, x, y)' = Arriving(k, x, y) /\ Departing(k, x, y)' = Departing(k, x, y)
    BY <1>3, <1>4 DEF Arriving, Departing, Carries
  <1>11. ASSUME NEW k \in 1..N, NEW j \in 1..Len(chan'[k])
         PROVE  Arriving(k, chan'[k][j], Queue'[d[k] + j])
    <2>1. CASE j <= Len(chan[k])
      <3>1. d[k] + j \in 1..Len(Queue) /\ j \in 1..Len(chan[k])
        BY <1>6, <1>7, <2>1
      <3>2. chan'[k][j] = chan[k][j]
        BY <1>8, <3>1
      <3>3. QED
        BY <1>2, <3>1, <3>2 DEF Frames
    <2>2. CASE j > Len(chan[k])
      <3>1. k = 1 /\ j = Len(chan[1]) + 1
        BY <1>6, <1>8, <2>2, SMTT(30)
      <3>2. d[1] + Len(chan[1]) = Len(Queue)
        BY DEF Line
      <3>3. d[k] + j = Len(Queue) + 1
        <4>1. d[1] \in Nat /\ Len(chan[1]) \in Nat
          BY <1>5, <1>6
        <4>2. QED
          BY <1>7, <3>1, <3>2, <4>1, SMTT(30)
      <3>4. chan'[k][j] = f /\ Queue'[d[k] + j] = c
        BY <1>2, <1>8, <3>1, <3>3
      <3>5. Carries(f, "token", c)
        BY <1>1, <1>2, <1>3 DEF Carries
      <3>6. QED
        BY <3>1, <3>4, <3>5 DEF Arriving
    <2>3. QED
      BY <1>6, <2>1, <2>2
  <1>12. ASSUME NEW k \in 1..N, NEW j \in 1..Len(Leaving(k))
         PROVE  Departing(k, Leaving(k)[j], Queue'[d[k] - Len(Leaving(k)) + j])
    <2>1. d[k] - Len(Leaving(k)) + j \in 1..Len(Queue)
      BY <1>6, <1>7, SMTT(30)
    <2>2. QED
      BY <1>2, <2>1 DEF Frames
  <1>13. Frames(d)'
    BY <1>4, <1>10, <1>11, <1>12 DEF Frames
  <1>14. QED
    BY <1>9, <1>13

(* A stage takes a chunk. *)
TookChunk(r, c) ==
    /\ r.ok /\ r.s.open /\ r.s.active = 1 /\ r.s.prompted
    /\ Len(r.s.kv) = c.base + shape.width

LEMMA StageAccepts ==
    ASSUME TypeInv, NEW k \in 1..N, NEW f \in FrameSet, NEW c, NEW fails \in {FALSE}, NEW r,
           r = Ran(k, f, fails), Arriving(k, f, c), ~shape.faulty,
           Len(c.guesses) = shape.width, c.base + shape.width <= Context,
           Accepting, c.base <= Len(stage[k].kv)
    PROVE  TookChunk(r, c)
  <1>1. PICK s : s = stage[k]
    OBVIOUS
  <1>2. s \in SessionSet
    BY <1>1 DEF TypeInv
  <1>3. f.type = (IF k = 1 THEN "token" ELSE "speculative") /\ f.req = 1 /\ f.pos = c.base
        /\ Len(f.toks) = shape.width
    BY DEF Arriving, Carries
  <1>4. r = Execute(k = 1, s, f, fails)
    BY <1>1, <1>3 DEF Ran
  <1>5. PICK first \in BOOLEAN : first = (k = 1)
    OBVIOUS
  <1>6. s.open /\ s.prompted /\ s.active = f.req /\ f.pos <= Len(s.kv) /\ f.pos + Len(f.toks) <= Context
    BY <1>1, <1>3 DEF Accepting
  <1>7. f.type = IF first THEN "token" ELSE "speculative"
    BY <1>3, <1>5
  <1>8. PICK x : /\ Execute(first, s, f, fails) = Outcome(x, TRUE, "")
                 /\ x.open = s.open /\ x.active = s.active /\ x.prompted = s.prompted
                 /\ x.kv = Truncated(s.kv, f.pos) \o f.toks
    BY <1>2, <1>6, <1>7, ExecuteAccepts
  <1>9. r.ok /\ r.s = x
    <2>1. PICK y : y = Outcome(x, TRUE, "")
      OBVIOUS
    <2>2. y.ok = TRUE /\ y.s = x
      BY <2>1 DEF Outcome
    <2>3. r = y
      BY <1>4, <1>5, <1>8, <2>1
    <2>4. QED
      BY <2>2, <2>3
  <1>10. s.kv \in Seq(Vocabulary) /\ f.toks \in Seq(Vocabulary) /\ f.pos \in 0..Len(s.kv)
    BY <1>2, <1>6 DEF SessionSet, Texts, FrameSet
  <1>11. PICK t, u \in Seq(Vocabulary) : t = Truncated(s.kv, f.pos) /\ Len(t) = f.pos /\ u = f.toks
    BY <1>10, TruncatedType
  <1>12. Len(t \o u) = Len(t) + Len(u)
    OBVIOUS
  <1>13. QED
    BY <1>3, <1>6, <1>8, <1>9, <1>11, <1>12 DEF TookChunk

LEMMA MadeFrame ==
    ASSUME TypeInv, NEW k \in 1..N, NEW f \in FrameSet, NEW c, NEW fails, NEW r, NEW g,
           Arriving(k, f, c), r = Ran(k, f, fails), r.ok \/ shape.faulty, g = Made(k, f, r)
    PROVE  Departing(k, g, c) /\ (k < N => Arriving(k + 1, g, c))
  <1>1. CASE ~r.ok
    <2>1. g = ErrorFrame(f, r.why)
      BY <1>1 DEF Made
    <2>2. g.type = "error"
      BY <2>1 DEF ErrorFrame, FrameSet
    <2>3. k + 1 > 1
      OBVIOUS
    <2>4. QED
      BY <1>1, <2>2, <2>3 DEF Departing, Arriving
  <1>2. CASE r.ok
    <2>1. f.type # "error"
      BY <1>2 DEF Ran, Outcome
    <2>2. Carries(f, IF k = 1 THEN "token" ELSE "speculative", c)
      BY <2>1 DEF Arriving
    <2>3. CASE k < N
      <3>1. g = HandsOn(f)
        BY <1>2, <2>3 DEF Made
      <3>2. g.type = "speculative" /\ g.req = f.req /\ g.pos = f.pos /\ g.guesses = f.guesses
            /\ g.toks = f.toks
        BY <2>2, <3>1 DEF HandsOn, Carries, FrameSet
      <3>3. Carries(g, "speculative", c)
        BY <2>2, <3>2 DEF Carries
      <3>4. k + 1 # 1
        OBVIOUS
      <3>5. QED
        BY <2>3, <3>3, <3>4 DEF Departing, Arriving
    <2>4. CASE k = N
      <3>1. PICK t : t = Samples(Truncated(stage[k].kv, f.pos), f.toks, shape.endAt)
        OBVIOUS
      <3>2. ~(k < N)
        BY <2>4, ShapeFacts DEF TypeInv
      <3>3. g = [f EXCEPT !.type = "result", !.pos = @ + Len(f.toks), !.toks = t]
        BY <1>2, <3>1, <3>2 DEF Made
      <3>4. f.toks \in Seq(Vocabulary)
        BY DEF FrameSet
      <3>5. Len(t) = Len(f.toks)
        BY <3>1, <3>4, SamplesType
      <3>6. g.type = "result" /\ g.pos = f.pos + Len(f.toks) /\ g.toks = t
        BY <3>3 DEF FrameSet
      <3>7. g.pos = c.base + Len(c.guesses) /\ Len(g.toks) = Len(c.guesses)
        BY <2>2, <3>5, <3>6 DEF Carries
      <3>8. QED
        BY <2>4, <3>2, <3>6, <3>7 DEF Departing
    <2>5. QED
      BY <2>3, <2>4, ShapeFacts DEF TypeInv
  <1>3. QED
    BY <1>1, <1>2

(* What a stage's step does to the connections. *)
LEMMA StageMoves ==
    ASSUME TypeInv, NEW k \in 1..N, NEW f, NEW fails, NEW r, NEW g, StageEffect(k, f, fails, r, g)
    PROVE  /\ f \in FrameSet /\ f = chan[k][1] /\ Len(chan[k]) > 0
           /\ Len(chan'[k]) = Len(chan[k]) - 1
           /\ \A j \in 1..Len(chan[k]) - 1 : chan'[k][j] = chan[k][j + 1]
           /\ \A m \in 1..N : m # k /\ ~(shape.ring /\ m = k + 1) => chan'[m] = chan[m]
           /\ \A m \in 1..N : m # k => Leaving(m)' = Leaving(m)
           /\ shape.ring /\ k < N => /\ Leaving(k)' = Leaving(k) /\ Leaving(k) = <<>>
                                     /\ chan'[k + 1] = Append(chan[k + 1], g)
           /\ ~(shape.ring /\ k < N) => Leaving(k)' = Append(Leaving(k), g)
  <1>1. chan \in [1..N -> Seq(FrameSet)] /\ reply \in [Slots -> Seq(FrameSet)] /\ N \in Nat
        /\ chan[k] \in Seq(FrameSet)
    BY ShapeFacts DEF TypeInv
  <1>2. chan[k] # <<>> /\ f = Head(chan[k]) /\ shape' = shape /\ N' = N
    BY DEF StageEffect, N
  <1>3. /\ f \in FrameSet /\ f = chan[k][1] /\ Len(chan[k]) > 0
        /\ Len(Tail(chan[k])) = Len(chan[k]) - 1
        /\ \A j \in 1..Len(chan[k]) - 1 : Tail(chan[k])[j] = chan[k][j + 1]
    BY <1>1, <1>2, HeadTailProperties
  <1>4. CASE shape.ring /\ k < N
    <2>1. chan' = [chan EXCEPT ![k] = Tail(@), ![k + 1] = Append(@, g)] /\ reply' = reply
      BY <1>4 DEF StageEffect
    <2>2. k + 1 \in 1..N /\ k + 1 # k
      BY <1>1, <1>4
    <2>3. /\ chan'[k] = Tail(chan[k]) /\ chan'[k + 1] = Append(chan[k + 1], g)
          /\ \A m \in 1..N : m # k /\ m # k + 1 => chan'[m] = chan[m]
      BY <1>1, <2>1, <2>2
    <2>4. \A m : Leaving(m)' = Leaving(m)
      BY <1>2, <2>1 DEF Leaving
    <2>5. Leaving(k) = <<>>
      BY <1>1, <1>4 DEF Leaving
    <2>6. QED
      BY <1>3, <1>4, <2>3, <2>4, <2>5
  <1>5. CASE ~(shape.ring /\ k < N)
    <2>1. PICK i : i = IF shape.ring THEN 1 ELSE k
      OBVIOUS
    <2>2. chan' = [chan EXCEPT ![k] = Tail(@)] /\ reply' = [reply EXCEPT ![i] = Append(@, g)]
      BY <1>5, <2>1 DEF StageEffect
    <2>3. i \in Slots /\ (shape.ring => k = N)
      BY <1>1, <1>5, <2>1, ShapeFacts DEF TypeInv
    <2>4. /\ chan'[k] = Tail(chan[k]) /\ \A m \in 1..N : m # k => chan'[m] = chan[m]
      BY <1>1, <2>2
    <2>5. reply'[i] = Append(reply[i], g) /\ \A m \in Slots : m # i => reply'[m] = reply[m]
      BY <1>1, <2>2, <2>3
    <2>6. Leaving(k)' = Append(Leaving(k), g)
      BY <1>2, <2>1, <2>3, <2>5 DEF Leaving
    <2>7. \A m \in 1..N : m # k => Leaving(m)' = Leaving(m)
      <3>1. CASE shape.ring
        BY <1>2, <2>3, <3>1 DEF Leaving
      <3>2. CASE ~shape.ring
        <4>1. Slots = 1..N /\ i = k
          BY <2>1, <3>2, ShapeFacts DEF TypeInv
        <4>2. QED
          BY <1>2, <2>5, <3>2, <4>1 DEF Leaving
      <3>3. QED
        BY <3>1, <3>2
    <2>8. QED
      BY <1>3, <1>5, <2>4, <2>6, <2>7
  <1>6. QED
    BY <1>4, <1>5

LEMMA Sums ==
    ASSUME NEW a \in Nat, NEW b \in Nat, NEW l \in Nat, NEW s \in Nat, a + b + l = s
    PROVE  /\ a + (b + 1) + l = s + 1 /\ a + b + (l + 1) = s + 1 /\ (a + 1) + (b - 1) + l = s
           /\ a + (b + 1) + (l - 1) = s /\ (a - 1) + b + l = s - 1
  OBVIOUS

LEMMA StageLine ==
    ASSUME TypeInv, Sizes, NEW d \in [1..N -> Nat], Line(d), Frames(d), NEW k \in 1..N,
           NEW f, NEW fails, NEW r, NEW g, StageEffect(k, f, fails, r, g), r.ok \/ shape.faulty,
           NEW e \in [1..N -> Nat], e[k] = d[k] + 1, \A m \in 1..N : m # k => e[m] = d[m]
    PROVE  /\ Queue' = Queue /\ d[k] + 1 \in 1..Len(Queue) /\ Arriving(k, f, Queue[d[k] + 1])
           /\ Line(e)' /\ Frames(e)'
  <1>1. /\ f \in FrameSet /\ f = chan[k][1] /\ Len(chan[k]) > 0
        /\ Len(chan'[k]) = Len(chan[k]) - 1
        /\ \A j \in 1..Len(chan[k]) - 1 : chan'[k][j] = chan[k][j + 1]
        /\ \A m \in 1..N : m # k /\ ~(shape.ring /\ m = k + 1) => chan'[m] = chan[m]
        /\ \A m \in 1..N : m # k => Leaving(m)' = Leaving(m)
        /\ shape.ring /\ k < N => /\ Leaving(k)' = Leaving(k) /\ Leaving(k) = <<>>
                                  /\ chan'[k + 1] = Append(chan[k + 1], g)
        /\ ~(shape.ring /\ k < N) => Leaving(k)' = Append(Leaving(k), g)
    BY StageMoves
  <1>2. N' = N /\ shape' = shape /\ Queue' = Queue /\ N \in Nat
    BY ShapeFacts DEF StageEffect, N, Queue, Uncounted, TypeInv
  <1>3. \A m \in 1..N : /\ Len(chan[m]) \in Nat /\ chan[m] \in Seq(FrameSet) /\ d[m] \in Nat
                        /\ Len(Leaving(m)) \in Nat /\ Leaving(m) \in Seq(FrameSet)
    BY LineTypes
  <1>4. \A m \in 1..N : d[m] + Len(chan[m]) <= Len(Queue) /\ Len(Leaving(m)) <= d[m]
    BY Bounds
  <1>5. Len(Queue) \in Nat
    BY QueueType
  <1>6. d[k] + 1 \in 1..Len(Queue)
    BY <1>1, <1>3, <1>4, <1>5, SMTT(30)
  <1>7. Arriving(k, f, Queue[d[k] + 1])
    <2>1. 1 \in 1..Len(chan[k])
      BY <1>1, <1>3
    <2>2. QED
      BY <1>1, <2>1 DEF Frames
  <1>8. /\ Departing(k, g, Queue[d[k] + 1])
        /\ k < N => Arriving(k + 1, g, Queue[d[k] + 1])
    <2>1. r = Ran(k, f, fails) /\ g = Made(k, f, r)
      BY DEF StageEffect
    <2>2. QED
      BY <1>1, <1>7, <2>1, MadeFrame
  <1>9. e[k] = d[k] + 1 /\ \A m \in 1..N : m # k => e[m] = d[m]
    OBVIOUS
  <1>10. g \in FrameSet
    <2>1. r = Ran(k, f, fails) /\ g = Made(k, f, r) /\ fails \in BOOLEAN
      BY DEF StageEffect
    <2>2. r.why \in Reasons
      BY <1>1, <2>1, RanType
    <2>3. QED
      BY <1>1, <2>1, <2>2, MadeType
  (* The lengths. *)
  <1>11. shape.ring /\ k < N =>
           /\ k + 1 \in 1..N /\ Len(chan'[k + 1]) = Len(chan[k + 1]) + 1
           /\ chan'[k + 1][Len(chan[k + 1]) + 1] = g
           /\ \A j \in 1..Len(chan[k + 1]) : chan'[k + 1][j] = chan[k + 1][j]
           /\ Len(Leaving(k)') = Len(Leaving(k)) /\ Len(Leaving(k)) = 0
    <2>1. SUFFICES ASSUME shape.ring, k < N
                   PROVE  /\ k + 1 \in 1..N /\ Len(chan'[k + 1]) = Len(chan[k + 1]) + 1
                          /\ chan'[k + 1][Len(chan[k + 1]) + 1] = g
                          /\ \A j \in 1..Len(chan[k + 1]) : chan'[k + 1][j] = chan[k + 1][j]
                          /\ Len(Leaving(k)') = Len(Leaving(k)) /\ Len(Leaving(k)) = 0
      OBVIOUS
    <2>2. k + 1 \in 1..N
      BY <1>2, <2>1
    <2>3. PICK q \in Seq(FrameSet) : q = chan[k + 1]
      BY <1>3, <2>2
    <2>4. Len(Append(q, g)) = Len(q) + 1 /\ Append(q, g)[Len(q) + 1] = g
          /\ \A j \in 1..Len(q) : Append(q, g)[j] = q[j]
      BY <1>10
    <2>5. Len(Leaving(k)) = 0 /\ Leaving(k)' = Leaving(k)
      BY <1>1, <2>1, EmptySeq
    <2>6. chan'[k + 1] = Append(q, g)
      BY <1>1, <2>1, <2>3
    <2>7. QED
      BY <2>2, <2>3, <2>4, <2>5, <2>6
  <1>12. ~(shape.ring /\ k < N) =>
           /\ Len(Leaving(k)') = Len(Leaving(k)) + 1
           /\ Leaving(k)'[Len(Leaving(k)) + 1] = g
           /\ \A j \in 1..Len(Leaving(k)) : Leaving(k)'[j] = Leaving(k)[j]
           /\ \A m \in 1..N : m # k => chan'[m] = chan[m]
    <2>1. SUFFICES ASSUME ~(shape.ring /\ k < N)
                   PROVE  /\ Len(Leaving(k)') = Len(Leaving(k)) + 1
                          /\ Leaving(k)'[Len(Leaving(k)) + 1] = g
                          /\ \A j \in 1..Len(Leaving(k)) : Leaving(k)'[j] = Leaving(k)[j]
                          /\ \A m \in 1..N : m # k => chan'[m] = chan[m]
      OBVIOUS
    <2>2. PICK q \in Seq(FrameSet) : q = Leaving(k)
      BY <1>3
    <2>3. Len(Append(q, g)) = Len(q) + 1 /\ Append(q, g)[Len(q) + 1] = g
          /\ \A j \in 1..Len(q) : Append(q, g)[j] = q[j]
      BY <1>10
    <2>4. \A m \in 1..N : m # k => chan'[m] = chan[m]
      BY <1>1, <1>2, <2>1
    <2>5. QED
      BY <1>1, <2>1, <2>2, <2>3, <2>4
  <1>13. Line(e)'
    <2>1. e[N] = Len(Leaving(N)')
      <3>1. d[N] = Len(Leaving(N)) /\ N \in 1..N
        BY <1>2 DEF Line
      <3>2. CASE k = N
        BY <1>3, <1>9, <1>12, <3>1, <3>2, <1>2
      <3>3. CASE k # N
        <4>1. e[N] = d[N] /\ Leaving(N)' = Leaving(N)
          BY <1>1, <1>2, <1>9, <3>1, <3>3
        <4>2. QED
          BY <3>1, <4>1
      <3>4. QED
        BY <3>2, <3>3
    <2>2. e[1] + Len(chan'[1]) = Len(Queue)
      <3>1. d[1] + Len(chan[1]) = Len(Queue) /\ 1 \in 1..N
        BY <1>2 DEF Line
      <3>2. CASE k = 1
        <4>1. e[1] = d[1] + 1 /\ Len(chan'[1]) = Len(chan[1]) - 1 /\ d[1] \in Nat /\ Len(chan[1]) \in Nat
          BY <1>1, <1>3, <1>9, <3>2
        <4>2. QED
          BY <3>1, <4>1
      <3>3. CASE k # 1
        <4>1. k + 1 # 1
          OBVIOUS
        <4>2. QED
          BY <1>1, <1>9, <3>1, <3>3, <4>1
      <3>4. QED
        BY <3>2, <3>3
    <2>3. ASSUME NEW m \in 1..N - 1
          PROVE  e[m + 1] + Len(chan'[m + 1]) + Len(Leaving(m)') = e[m]
      <3>1. m \in 1..N /\ m + 1 \in 1..N /\ m + 1 # m /\ m \in Nat
        BY <1>2
      <3>2. d[m + 1] + Len(chan[m + 1]) + Len(Leaving(m)) = d[m]
        BY DEF Line
      <3>3. /\ d[m + 1] \in Nat /\ Len(chan[m + 1]) \in Nat /\ Len(Leaving(m)) \in Nat
            /\ d[m] \in Nat
        BY <1>3, <3>1
      <3>9. /\ d[m + 1] + (Len(chan[m + 1]) + 1) + Len(Leaving(m)) = d[m] + 1
            /\ d[m + 1] + Len(chan[m + 1]) + (Len(Leaving(m)) + 1) = d[m] + 1
            /\ (d[m + 1] + 1) + (Len(chan[m + 1]) - 1) + Len(Leaving(m)) = d[m]
        <4>1. PICK a \in Nat, b \in Nat, l \in Nat, s \in Nat :
                 a = d[m + 1] /\ b = Len(chan[m + 1]) /\ l = Len(Leaving(m)) /\ s = d[m]
          BY <3>3
        <4>2. a + b + l = s
          BY <3>2, <4>1
        <4>3. /\ a + (b + 1) + l = s + 1 /\ a + b + (l + 1) = s + 1 /\ (a + 1) + (b - 1) + l = s
          BY <4>2, Sums
        <4>4. QED
          BY <4>1, <4>3
      <3>4. CASE k = m + 1
        <4>1. e[m + 1] = d[m + 1] + 1 /\ e[m] = d[m] /\ Leaving(m)' = Leaving(m)
          BY <1>1, <1>9, <3>1, <3>4
        <4>2. Len(chan'[m + 1]) = Len(chan[m + 1]) - 1
          BY <1>1, <3>4
        <4>3. QED
          BY <3>9, <4>1, <4>2
      <3>5. CASE k = m /\ shape.ring
        <4>1. k < N
          BY <1>2, <3>1, <3>5
        <4>2. e[m + 1] = d[m + 1] /\ e[m] = d[m] + 1 /\ Len(Leaving(m)') = Len(Leaving(m))
          BY <1>9, <1>11, <3>1, <3>5, <4>1
        <4>3. Len(chan'[m + 1]) = Len(chan[m + 1]) + 1
          BY <1>11, <3>5, <4>1
        <4>4. QED
          BY <3>9, <4>2, <4>3
      <3>6. CASE k = m /\ ~shape.ring
        <4>1. e[m + 1] = d[m + 1] /\ e[m] = d[m] + 1 /\ Len(Leaving(m)') = Len(Leaving(m)) + 1
          BY <1>9, <1>12, <3>1, <3>6
        <4>2. chan'[m + 1] = chan[m + 1]
          BY <1>12, <3>1, <3>6
        <4>3. QED
          BY <3>9, <4>1, <4>2
      <3>7. CASE k # m /\ k # m + 1
        <4>1. m + 1 # k + 1
          BY <3>1, <3>7
        <4>2. e[m + 1] = d[m + 1] /\ e[m] = d[m] /\ Leaving(m)' = Leaving(m) /\ chan'[m + 1] = chan[m + 1]
          BY <1>1, <1>9, <3>1, <3>7, <4>1
        <4>3. QED
          BY <3>2, <4>2
      <3>8. QED
        BY <3>4, <3>5, <3>6, <3>7
    <2>4. ASSUME NEW m \in 1..N, NEW n \in 1..N, m < n
          PROVE  e[n] <= e[m]
      <3>1. d[n] <= d[m] /\ d[n] \in Nat /\ d[m] \in Nat
        BY <1>3, <2>4 DEF Line
      <3>2. CASE n = k
        <4>1. k - 1 \in 1..N - 1 /\ k - 1 \in 1..N /\ (k - 1) + 1 = k /\ m <= k - 1
          BY <1>2, <2>4, <3>2
        <4>2. d[k] + Len(chan[k]) + Len(Leaving(k - 1)) = d[k - 1]
          BY <4>1 DEF Line
        <4>3. d[k - 1] <= d[m]
          <5>1. CASE m = k - 1
            BY <3>1, <5>1
          <5>2. CASE m < k - 1
            BY <4>1, <5>2 DEF Line
          <5>3. QED
            BY <4>1, <5>1, <5>2
        <4>4. d[k - 1] \in Nat /\ Len(Leaving(k - 1)) \in Nat /\ Len(chan[k]) \in Nat /\ Len(chan[k]) > 0
          BY <1>1, <1>3, <4>1
        <4>5. d[k] + 1 <= d[m]
          BY <3>1, <3>2, <4>2, <4>3, <4>4
        <4>6. m # k
          BY <2>4, <3>2
        <4>7. QED
          BY <1>9, <3>2, <4>5, <4>6
      <3>3. CASE n # k
        BY <1>9, <3>1, <3>3
      <3>4. QED
        BY <3>2, <3>3
    <2>5. QED
      BY <1>2, <2>1, <2>2, <2>3, <2>4 DEF Line
  <1>14. \A m, x, y : Arriving(m, x, y)' = Arriving(m, x, y) /\ Departing(m, x, y)' = Departing(m, x, y)
    BY <1>2 DEF Arriving, Departing, Carries
  <1>15. ASSUME NEW m \in 1..N, NEW j \in 1..Len(chan'[m])
         PROVE  Arriving(m, chan'[m][j], Queue[e[m] + j])
    <2>1. CASE m = k
      <3>1. j \in 1..Len(chan[k]) - 1 /\ j + 1 \in 1..Len(chan[k])
        <4>1. Len(chan[k]) \in Nat /\ j \in 1..Len(chan'[k]) /\ Len(chan'[k]) = Len(chan[k]) - 1
          BY <1>1, <1>3, <2>1
        <4>2. QED
          BY <4>1
      <3>2. chan'[m][j] = chan[k][j + 1]
        BY <1>1, <2>1, <3>1
      <3>3. e[m] + j = d[k] + (j + 1)
        <4>1. e[m] = d[k] + 1 /\ d[k] \in Nat /\ j \in Nat
          BY <1>3, <1>9, <2>1, <3>1
        <4>2. QED
          BY <4>1
      <3>4. QED
        BY <2>1, <3>1, <3>2, <3>3 DEF Frames
    <2>2. CASE m # k /\ ~(shape.ring /\ m = k + 1)
      BY <1>1, <1>9, <2>2 DEF Frames
    <2>3. CASE shape.ring /\ m = k + 1
      <3>1. k < N /\ m # k
        BY <1>2, <2>3
      <3>2. CASE j \in 1..Len(chan[m])
        BY <1>9, <1>11, <2>3, <3>1, <3>2 DEF Frames
      <3>3. CASE j \notin 1..Len(chan[m])
        <4>1. j = Len(chan[m]) + 1
          BY <1>3, <1>11, <2>3, <3>1, <3>3, SMTT(30)
        <4>2. d[k + 1] + Len(chan[k + 1]) + Len(Leaving(k)) = d[k]
          <5>1. k \in 1..N - 1
            BY <1>2, <3>1
          <5>2. QED
            BY <5>1 DEF Line
        <4>3. d[m] \in Nat /\ Len(chan[m]) \in Nat /\ d[k] \in Nat /\ Len(Leaving(k)) = 0
          BY <1>3, <1>11, <2>3, <3>1
        <4>4. e[m] + j = d[k] + 1
          BY <1>9, <2>3, <3>1, <4>1, <4>2, <4>3
        <4>5. chan'[m][j] = g
          BY <1>11, <2>3, <3>1, <4>1
        <4>6. QED
          BY <1>8, <2>3, <3>1, <4>4, <4>5
      <3>4. QED
        BY <3>2, <3>3
    <2>4. QED
      BY <2>1, <2>2, <2>3
  <1>16. ASSUME NEW m \in 1..N, NEW j \in 1..Len(Leaving(m)')
         PROVE  Departing(m, Leaving(m)'[j], Queue[e[m] - Len(Leaving(m)') + j])
    <2>1. CASE m # k
      BY <1>1, <1>9, <2>1 DEF Frames
    <2>2. CASE m = k /\ shape.ring /\ k < N
      <3>1. Leaving(m)' = Leaving(m) /\ Len(Leaving(m)) = 0
        BY <1>1, <1>11, <2>2
      <3>2. QED
        BY <3>1
    <2>3. CASE m = k /\ ~(shape.ring /\ k < N)
      <3>1. /\ e[m] = d[k] + 1 /\ Len(Leaving(m)') = Len(Leaving(k)) + 1
            /\ d[k] \in Nat /\ Len(Leaving(k)) \in Nat
        BY <1>3, <1>9, <1>12, <2>3
      <3>2. e[m] - Len(Leaving(m)') + j = d[k] - Len(Leaving(k)) + j
        BY <3>1
      <3>3. CASE j \in 1..Len(Leaving(k))
        BY <1>12, <2>3, <3>2, <3>3 DEF Frames
      <3>4. CASE j \notin 1..Len(Leaving(k))
        <4>1. j = Len(Leaving(k)) + 1
          BY <3>1, <3>4
        <4>2. d[k] - Len(Leaving(k)) + j = d[k] + 1
          BY <3>1, <4>1
        <4>3. QED
          BY <1>8, <1>12, <2>3, <3>2, <4>1, <4>2
      <3>5. QED
        BY <3>3, <3>4
    <2>4. QED
      BY <2>1, <2>2, <2>3
  <1>17. Frames(e)'
    BY <1>2, <1>14, <1>15, <1>16 DEF Frames
  <1>18. QED
    BY <1>2, <1>6, <1>7, <1>13, <1>17

(* A relay carries a chunk on. *)
LEMMA ForwardLine ==
    ASSUME TypeInv, Sizes, NEW d \in [1..N -> Nat], Line(d), Frames(d), NEW i \in DOMAIN relay,
           NEW f, RelayForwardEffect(i, f), f.type = "speculative"
    PROVE  Queue' = Queue /\ Line(d)' /\ Frames(d)'
  <1>1. /\ ~shape.ring /\ i \in 1..N - 1 /\ i \in 1..N /\ i + 1 \in 1..N /\ Slots = 1..N /\ i + 1 # i
    BY RelayIndex
  <1>2. /\ reply[i] # <<>> /\ f = Head(reply[i]) /\ reply' = [reply EXCEPT ![i] = Tail(@)]
        /\ chan' = [chan EXCEPT ![i + 1] = Append(@, f)] /\ shape' = shape
        /\ shared'.inflight = shared.inflight /\ sender' = sender
    BY DEF RelayForwardEffect
  <1>3. N' = N /\ Queue' = Queue /\ N \in Nat
    BY <1>2, ShapeFacts DEF N, Queue, Uncounted, TypeInv
  <1>4. \A m \in 1..N : /\ Len(chan[m]) \in Nat /\ chan[m] \in Seq(FrameSet) /\ d[m] \in Nat
                        /\ Len(reply[m]) \in Nat /\ reply[m] \in Seq(FrameSet) /\ Leaving(m) = reply[m]
                        /\ Leaving(m)' = reply'[m]
    BY <1>1, <1>2, LineTypes DEF Leaving
  <1>5. /\ f \in FrameSet /\ f = reply[i][1] /\ Len(reply[i]) > 0
        /\ Len(Tail(reply[i])) = Len(reply[i]) - 1
        /\ \A j \in 1..Len(reply[i]) - 1 : Tail(reply[i])[j] = reply[i][j + 1]
    BY <1>1, <1>2, <1>4, HeadTailProperties
  <1>6. reply'[i] = Tail(reply[i]) /\ \A m \in 1..N : m # i => reply'[m] = reply[m]
    <2>1. reply \in [1..N -> Seq(FrameSet)]
      BY <1>1 DEF TypeInv
    <2>2. QED
      BY <1>1, <1>2, <2>1
  <1>7. chan'[i + 1] = Append(chan[i + 1], f) /\ \A m \in 1..N : m # i + 1 => chan'[m] = chan[m]
    <2>1. chan \in [1..N -> Seq(FrameSet)]
      BY DEF TypeInv
    <2>2. QED
      BY <1>1, <1>2, <2>1
  <1>8. /\ Len(chan'[i + 1]) = Len(chan[i + 1]) + 1 /\ chan'[i + 1][Len(chan[i + 1]) + 1] = f
        /\ \A j \in 1..Len(chan[i + 1]) : chan'[i + 1][j] = chan[i + 1][j]
    <2>1. PICK q \in Seq(FrameSet) : q = chan[i + 1]
      BY <1>1, <1>4
    <2>2. Len(Append(q, f)) = Len(q) + 1 /\ Append(q, f)[Len(q) + 1] = f
          /\ \A j \in 1..Len(q) : Append(q, f)[j] = q[j]
      BY <1>5
    <2>3. QED
      BY <1>7, <2>1, <2>2
  <1>9. d[i + 1] + Len(chan[i + 1]) + Len(reply[i]) = d[i]
    BY <1>1, <1>4 DEF Line
  <1>10. Line(d)'
    <2>1. d[N] = Len(Leaving(N)')
      <3>1. N \in 1..N /\ N # i
        BY <1>1, <1>3
      <3>2. Leaving(N)' = Leaving(N)
        BY <1>3, <1>4, <1>6, <3>1
      <3>3. QED
        BY <3>2 DEF Line
    <2>2. d[1] + Len(chan'[1]) = Len(Queue)
      <3>1. 1 \in 1..N /\ 1 # i + 1
        BY <1>1, <1>3
      <3>2. QED
        BY <1>7, <3>1 DEF Line
    <2>3. ASSUME NEW m \in 1..N - 1
          PROVE  d[m + 1] + Len(chan'[m + 1]) + Len(Leaving(m)') = d[m]
      <3>1. m \in 1..N /\ m + 1 \in 1..N
        BY <1>3
      <3>2. CASE m = i
        <4>1. PICK a \in Nat, b \in Nat, l \in Nat, s \in Nat :
                 a = d[i + 1] /\ b = Len(chan[i + 1]) /\ l = Len(reply[i]) /\ s = d[i]
          BY <1>1, <1>4
        <4>2. a + b + l = s
          BY <1>9, <4>1
        <4>3. a + (b + 1) + (l - 1) = s
          BY <4>2, Sums
        <4>4. Len(chan'[m + 1]) = b + 1 /\ Len(Leaving(m)') = l - 1
          BY <1>4, <1>5, <1>6, <1>8, <3>1, <3>2, <4>1
        <4>5. QED
          BY <3>2, <4>1, <4>3, <4>4
      <3>3. CASE m # i
        <4>1. m + 1 # i + 1
          BY <1>1, <3>1, <3>3
        <4>2. chan'[m + 1] = chan[m + 1] /\ Leaving(m)' = Leaving(m)
          BY <1>4, <1>6, <1>7, <3>1, <3>3, <4>1
        <4>3. QED
          BY <4>2 DEF Line
      <3>4. QED
        BY <3>2, <3>3
    <2>4. QED
      BY <1>3, <2>1, <2>2, <2>3 DEF Line
  <1>11. \A m, x, y : Arriving(m, x, y)' = Arriving(m, x, y) /\ Departing(m, x, y)' = Departing(m, x, y)
    BY <1>2, <1>3 DEF Arriving, Departing, Carries
  <1>12. Arriving(i + 1, f, Queue[d[i] - Len(reply[i]) + 1])
    <2>1. 1 \in 1..Len(Leaving(i)) /\ Leaving(i) = reply[i]
      BY <1>1, <1>4, <1>5
    <2>2. Departing(i, f, Queue[d[i] - Len(reply[i]) + 1])
      BY <1>1, <1>5, <2>1 DEF Frames
    <2>3. i < N /\ i + 1 # 1
      BY <1>1, <1>3
    <2>4. Carries(f, "speculative", Queue[d[i] - Len(reply[i]) + 1])
      BY <2>2, <2>3 DEF Departing
    <2>5. QED
      BY <2>3, <2>4 DEF Arriving
  <1>13. ASSUME NEW m \in 1..N, NEW j \in 1..Len(chan'[m])
         PROVE  Arriving(m, chan'[m][j], Queue[d[m] + j])
    <2>1. CASE m # i + 1
      BY <1>7, <2>1 DEF Frames
    <2>2. CASE m = i + 1 /\ j \in 1..Len(chan[m])
      BY <1>8, <2>2 DEF Frames
    <2>3. CASE m = i + 1 /\ j \notin 1..Len(chan[m])
      <3>1. j = Len(chan[m]) + 1
        BY <1>4, <1>8, <2>3
      <3>2. d[m] \in Nat /\ Len(chan[m]) \in Nat /\ d[i] \in Nat /\ Len(reply[i]) \in Nat
            /\ d[m] + Len(chan[m]) + Len(reply[i]) = d[i]
        BY <1>1, <1>4, <1>9, <2>3
      <3>3. d[m] + j = d[i] - Len(reply[i]) + 1
        BY <3>1, <3>2
      <3>4. chan'[m][j] = f
        BY <1>8, <2>3, <3>1
      <3>5. QED
        BY <1>12, <2>3, <3>3, <3>4
    <2>4. QED
      BY <2>1, <2>2, <2>3
  <1>14. ASSUME NEW m \in 1..N, NEW j \in 1..Len(Leaving(m)')
         PROVE  Departing(m, Leaving(m)'[j], Queue[d[m] - Len(Leaving(m)') + j])
    <2>1. CASE m # i
      <3>1. Leaving(m)' = Leaving(m)
        BY <1>4, <1>6, <2>1
      <3>2. QED
        BY <3>1 DEF Frames
    <2>2. CASE m = i
      <3>1. /\ Len(Leaving(m)') = Len(Leaving(m)) - 1 /\ Len(Leaving(m)) \in Nat /\ d[m] \in Nat
            /\ Leaving(m)' = Tail(reply[i]) /\ Leaving(m) = reply[i]
        BY <1>4, <1>5, <1>6, <2>2
      <3>2. j \in 1..Len(reply[i]) - 1 /\ j + 1 \in 1..Len(Leaving(m))
        BY <3>1
      <3>3. Leaving(m)'[j] = Leaving(m)[j + 1]
        BY <1>5, <3>1, <3>2
      <3>4. d[m] - Len(Leaving(m)') + j = d[m] - Len(Leaving(m)) + (j + 1)
        <4>1. PICK a \in Nat, l \in Nat : a = d[m] /\ l = Len(Leaving(m))
          BY <3>1
        <4>2. a - (l - 1) + j = a - l + (j + 1)
          OBVIOUS
        <4>3. QED
          BY <3>1, <4>1, <4>2
      <3>5. QED
        BY <3>2, <3>3, <3>4 DEF Frames
    <2>3. QED
      BY <2>1, <2>2
  <1>15. Frames(d)'
    BY <1>3, <1>11, <1>13, <1>14 DEF Frames
  <1>16. QED
    BY <1>3, <1>10, <1>15

(* The receiver takes the oldest chunk's reply. *)
LEMMA ReadQueue ==
    ASSUME TypeInv, Sizes, NEW f, NEW c, ReceiverReadEffect(f, c), shared.inflight # <<>>,
           shared'.inflight = Tail(shared.inflight)
    PROVE  /\ Len(Queue) > 0 /\ Len(Queue') = Len(Queue) - 1
           /\ \A j \in 1..Len(Queue) - 1 : Queue'[j] = Queue[j + 1]
           /\ Head(shared.inflight) = Queue[1]
  <1>1. PICK q \in Seq(ChunkSet) : q = shared.inflight
    BY SharedFields
  <1>2. q # <<>> /\ Len(q) > 0 /\ Len(Tail(q)) = Len(q) - 1 /\ Tail(q) \in Seq(ChunkSet) /\ Head(q) = q[1]
        /\ \A j \in 1..Len(q) - 1 : Tail(q)[j] = q[j + 1]
    BY <1>1, HeadTailProperties
  <1>3. sender' = sender
    BY DEF ReceiverReadEffect
  <1>4. CASE sender.pc = "count"
    <2>1. PICK u : u = Uncounted
      OBVIOUS
    <2>2. u \in ChunkSet
      BY <2>1 DEF Uncounted, TypeInv, SenderSet, ChunkSet
    <2>3. Queue = Append(q, u) /\ Queue' = Append(Tail(q), u)
      BY <1>1, <1>3, <1>4, <2>1 DEF Queue, Uncounted
    <2>4. /\ Len(Append(q, u)) = Len(q) + 1 /\ Append(q, u)[Len(q) + 1] = u
          /\ \A j \in 1..Len(q) : Append(q, u)[j] = q[j]
      BY <2>2
    <2>5. /\ Len(Append(Tail(q), u)) = Len(q) /\ Append(Tail(q), u)[Len(q)] = u
          /\ \A j \in 1..Len(q) - 1 : Append(Tail(q), u)[j] = Tail(q)[j]
      <3>1. PICK p \in Seq(ChunkSet) : p = Tail(q)
        BY <1>2
      <3>2. Len(Append(p, u)) = Len(p) + 1 /\ Append(p, u)[Len(p) + 1] = u
            /\ \A j \in 1..Len(p) : Append(p, u)[j] = p[j]
        BY <2>2
      <3>3. Len(p) = Len(q) - 1 /\ Len(p) + 1 = Len(q)
        BY <1>2, <3>1
      <3>4. QED
        BY <3>1, <3>2, <3>3
    <2>6. ASSUME NEW j \in 1..Len(q)
          PROVE  Append(Tail(q), u)[j] = Append(q, u)[j + 1]
      <3>1. CASE j = Len(q)
        BY <2>4, <2>5, <3>1
      <3>2. CASE j < Len(q)
        <4>1. j \in 1..Len(q) - 1 /\ j + 1 \in 1..Len(q)
          BY <3>2
        <4>2. QED
          BY <1>2, <2>4, <2>5, <4>1
      <3>3. QED
        BY <3>1, <3>2
    <2>7. 1 \in 1..Len(q) /\ (Len(q) + 1) - 1 = Len(q)
      BY <1>2
    <2>8. Len(Queue) = Len(q) + 1 /\ Len(Queue') = Len(q) /\ Queue[1] = q[1]
      BY <2>3, <2>4, <2>5, <2>7
    <2>9. \A j \in 1..Len(q) : Queue'[j] = Queue[j + 1]
      BY <2>3, <2>6
    <2>10. Head(shared.inflight) = q[1]
      BY <1>1, <1>2
    <2>11. Len(Queue) > 0 /\ Len(Queue) - 1 = Len(q)
      BY <1>2, <2>7, <2>8
    <2>12. QED
      BY <2>8, <2>9, <2>10, <2>11
  <1>5. CASE sender.pc # "count"
    <2>1. Queue = q /\ Queue' = Tail(q)
      BY <1>1, <1>3, <1>5 DEF Queue
    <2>2. QED
      BY <1>1, <1>2, <2>1
  <1>6. QED
    BY <1>4, <1>5

LEMMA ReadLine ==
    ASSUME TypeInv, Sizes, NEW d \in [1..N -> Nat], Line(d), Frames(d), NEW f, NEW c,
           ReceiverReadEffect(f, c), shared.inflight # <<>>,
           shared'.inflight = Tail(shared.inflight),
           NEW e \in [1..N -> Nat], \A m \in 1..N : e[m] = d[m] - 1 /\ d[m] >= 1
    PROVE  Line(e)' /\ Frames(e)'
  <1>1. /\ Len(Queue) > 0 /\ Len(Queue') = Len(Queue) - 1
        /\ \A j \in 1..Len(Queue) - 1 : Queue'[j] = Queue[j + 1]
    BY ReadQueue
  <1>2. /\ reply[LastSlot] # <<>> /\ reply' = [reply EXCEPT ![LastSlot] = Tail(@)]
        /\ shape' = shape /\ chan' = chan
    BY DEF ReceiverReadEffect
  <1>3. N' = N /\ N \in Nat /\ N \in 1..N /\ 1 \in 1..N /\ LastSlot \in Slots
        /\ (shape.ring => LastSlot = 1) /\ (~shape.ring => LastSlot = N /\ Slots = 1..N)
    BY <1>2, ShapeFacts DEF N, TypeInv
  <1>4. \A m \in 1..N : /\ Len(chan[m]) \in Nat /\ d[m] \in Nat /\ d[m] >= 1 /\ e[m] = d[m] - 1
                        /\ Len(Leaving(m)) \in Nat /\ Leaving(m) \in Seq(FrameSet)
    BY LineTypes
  <1>5. \A m \in 1..N : d[m] + Len(chan[m]) <= Len(Queue) /\ Len(Leaving(m)) <= d[m]
    BY Bounds
  <1>6. Len(Queue) \in Nat
    BY QueueType
  <1>7. Leaving(N) = reply[LastSlot] /\ Leaving(N)' = Tail(reply[LastSlot])
        /\ \A m \in 1..N : m # N => Leaving(m)' = Leaving(m)
    <2>1. reply \in [Slots -> Seq(FrameSet)]
      BY DEF TypeInv
    <2>2. reply'[LastSlot] = Tail(reply[LastSlot])
      BY <1>2, <1>3, <2>1
    <2>3. CASE shape.ring
      BY <1>2, <1>3, <2>2, <2>3 DEF Leaving
    <2>4. CASE ~shape.ring
      <3>1. \A m \in 1..N : m # N => reply'[m] = reply[m]
        BY <1>2, <1>3, <2>1, <2>4
      <3>2. QED
        BY <1>2, <1>3, <2>2, <2>4, <3>1 DEF Leaving
    <2>5. QED
      BY <2>3, <2>4
  <1>8. PICK q \in Seq(FrameSet) : q = Leaving(N)
    BY <1>3, <1>4
  <1>9. /\ q # <<>> /\ Len(q) > 0 /\ Len(Tail(q)) = Len(q) - 1 /\ Len(q) \in Nat
        /\ \A j \in 1..Len(q) - 1 : Tail(q)[j] = q[j + 1]
    BY <1>2, <1>7, <1>8, HeadTailProperties
  <1>10. Leaving(N)' = Tail(q)
    BY <1>7, <1>8
  <1>11. Line(e)'
    <2>1. e[N] = Len(Leaving(N)')
      <3>1. d[N] = Len(q) /\ e[N] = d[N] - 1
        BY <1>3, <1>4, <1>8 DEF Line
      <3>2. QED
        BY <1>9, <1>10, <3>1
    <2>2. e[1] + Len(chan[1]) = Len(Queue')
      <3>1. PICK a \in Nat, b \in Nat : a = d[1] /\ b = Len(chan[1])
        BY <1>3, <1>4
      <3>2. a + b = Len(Queue) /\ e[1] = a - 1
        BY <1>3, <1>4, <3>1 DEF Line
      <3>3. (a - 1) + b = (a + b) - 1
        OBVIOUS
      <3>4. QED
        BY <1>1, <3>1, <3>2, <3>3
    <2>3. ASSUME NEW m \in 1..N - 1
          PROVE  e[m + 1] + Len(chan[m + 1]) + Len(Leaving(m)') = e[m]
      <3>1. m \in 1..N /\ m + 1 \in 1..N /\ m # N
        BY <1>3
      <3>2. PICK a \in Nat, b \in Nat, l \in Nat, s \in Nat :
               a = d[m + 1] /\ b = Len(chan[m + 1]) /\ l = Len(Leaving(m)) /\ s = d[m]
        BY <1>4, <3>1
      <3>3. a + b + l = s
        BY <3>2 DEF Line
      <3>4. (a - 1) + b + l = s - 1
        BY <3>3, Sums
      <3>5. e[m + 1] = a - 1 /\ e[m] = s - 1 /\ Leaving(m)' = Leaving(m)
        BY <1>4, <1>7, <3>1, <3>2
      <3>6. QED
        BY <3>2, <3>4, <3>5
    <2>4. ASSUME NEW m \in 1..N, NEW n \in 1..N, m < n
          PROVE  e[n] <= e[m]
      <3>1. d[n] <= d[m] /\ d[n] \in Nat /\ d[m] \in Nat /\ e[m] = d[m] - 1 /\ e[n] = d[n] - 1
        BY <1>4, <2>4 DEF Line
      <3>2. QED
        BY <3>1
    <2>5. QED
      BY <1>2, <1>3, <2>1, <2>2, <2>3, <2>4 DEF Line
  <1>12. \A m, x, y : Arriving(m, x, y)' = Arriving(m, x, y) /\ Departing(m, x, y)' = Departing(m, x, y)
    BY <1>2, <1>3 DEF Arriving, Departing, Carries
  <1>13. ASSUME NEW m \in 1..N, NEW j \in 1..Len(chan[m])
         PROVE  Arriving(m, chan[m][j], Queue'[e[m] + j])
    <2>1. PICK a \in Nat, b \in Nat : a = d[m] /\ b = Len(chan[m])
      BY <1>4
    <2>2. a >= 1 /\ a + b <= Len(Queue) /\ j \in 1..b /\ e[m] = a - 1
      BY <1>4, <1>5, <2>1
    <2>3. (a - 1) + j \in 1..Len(Queue) - 1 /\ ((a - 1) + j) + 1 = a + j
      BY <1>6, <2>1, <2>2, SMTT(30)
    <2>4. Queue'[e[m] + j] = Queue[d[m] + j]
      BY <1>1, <2>1, <2>2, <2>3
    <2>5. QED
      BY <2>4 DEF Frames
  <1>14. ASSUME NEW m \in 1..N, m # N, NEW j \in 1..Len(Leaving(m))
         PROVE  Departing(m, Leaving(m)[j], Queue'[e[m] - Len(Leaving(m)) + j])
    <2>1. PICK a \in Nat, l \in Nat : a = d[m] /\ l = Len(Leaving(m))
      BY <1>4
    <2>2. m \in 1..N - 1 /\ m + 1 \in 1..N
      BY <1>3, <1>14
    <2>3. PICK b \in Nat, g \in Nat : b = d[m + 1] /\ g = Len(chan[m + 1]) /\ b >= 1
      BY <1>4, <2>2
    <2>4. b + g + l = a /\ a <= Len(Queue) /\ j \in 1..l /\ e[m] = a - 1
      <3>1. d[m] + Len(chan[m]) <= Len(Queue) /\ Len(chan[m]) \in Nat
        BY <1>4, <1>5
      <3>2. a <= Len(Queue)
        BY <1>6, <2>1, <3>1
      <3>3. b + g + l = a
        BY <2>1, <2>2, <2>3 DEF Line
      <3>4. QED
        BY <1>4, <2>1, <3>2, <3>3
    <2>5. ((a - 1) - l) + j \in 1..Len(Queue) - 1 /\ (((a - 1) - l) + j) + 1 = (a - l) + j
      <3>1. PICK n \in Nat : n = Len(Queue)
        BY <1>6
      <3>2. b + g + l = a /\ a <= n /\ j \in 1..l /\ b >= 1
        BY <2>3, <2>4, <3>1
      <3>3. ((a - 1) - l) + j \in 1..n - 1 /\ (((a - 1) - l) + j) + 1 = (a - l) + j
        BY <3>2
      <3>4. QED
        BY <3>1, <3>3
    <2>6. Queue'[(e[m] - Len(Leaving(m))) + j] = Queue[(d[m] - Len(Leaving(m))) + j]
      BY <1>1, <2>1, <2>4, <2>5
    <2>7. QED
      BY <2>6 DEF Frames
  <1>15. ASSUME NEW j \in 1..Len(Tail(q))
         PROVE  Departing(N, Tail(q)[j], Queue'[e[N] - Len(Tail(q)) + j])
    <2>1. j \in 1..Len(q) - 1 /\ j + 1 \in 1..Len(q) /\ Tail(q)[j] = q[j + 1]
      BY <1>9
    <2>2. d[N] = Len(q) /\ e[N] = d[N] - 1
      BY <1>3, <1>4, <1>8 DEF Line
    <2>3. e[N] - Len(Tail(q)) + j = j /\ d[N] - Len(q) + (j + 1) = j + 1
      BY <1>9, <2>1, <2>2
    <2>4. Departing(N, q[j + 1], Queue[j + 1])
      BY <1>3, <1>8, <2>1, <2>3 DEF Frames
    <2>5. d[N] + Len(chan[N]) <= Len(Queue) /\ Len(chan[N]) \in Nat
      BY <1>3, <1>4, <1>5
    <2>6. Len(q) <= Len(Queue)
      BY <1>6, <1>9, <2>2, <2>5
    <2>7. j \in 1..Len(Queue) - 1
      BY <1>6, <1>9, <2>1, <2>6
    <2>8. Queue'[j] = Queue[j + 1]
      BY <1>1, <2>7
    <2>9. QED
      BY <2>1, <2>3, <2>4, <2>8
  <1>16. ASSUME NEW m \in 1..N, NEW j \in 1..Len(Leaving(m)')
         PROVE  Departing(m, Leaving(m)'[j], Queue'[e[m] - Len(Leaving(m)') + j])
    <2>1. CASE m = N
      <3>1. Leaving(m)' = Tail(q)
        BY <1>3, <1>10, <2>1
      <3>2. QED
        BY <1>15, <2>1, <3>1
    <2>2. CASE m # N
      <3>1. Leaving(m)' = Leaving(m)
        BY <1>7, <2>2
      <3>2. QED
        BY <1>14, <2>2, <3>1
    <2>3. QED
      BY <2>1, <2>2
  <1>17. Frames(e)'
    BY <1>2, <1>3, <1>12, <1>13, <1>16 DEF Frames
  <1>18. QED
    BY <1>11, <1>17

-----------------------------------------------------------------------------
(* What the threads count, and how they end.                               *)

LEMMA RelayTypes ==
    ASSUME TypeInv, NEW i \in DOMAIN relay
    PROVE  /\ Len(reply[i]) \in Nat /\ Len(reply[i + 1]) \in Nat /\ Len(chan[i]) \in Nat
           /\ Len(chan[i + 1]) \in Nat /\ shared.unread[i] \in Nat /\ shared.unread[i + 1] \in Nat
           /\ Leaving(i) = reply[i] /\ Leaving(i + 1) = reply[i + 1] /\ i + 1 # 1 /\ i + 1 # i
  <1>1. ~shape.ring /\ i \in 1..N /\ i + 1 \in 1..N /\ i \in Slots /\ i + 1 \in Slots
    BY RelayIndex
  <1>2. Leaving(i) = reply[i] /\ Leaving(i + 1) = reply[i + 1]
    BY <1>1 DEF Leaving
  <1>3. QED
    BY <1>1, <1>2, LineTypes, SharedFields

LEMMA FirstTypes ==
    ASSUME TypeInv
    PROVE  /\ 1 \in 1..N /\ 1 \in Slots /\ Len(chan[1]) \in Nat /\ Len(reply[1]) \in Nat
           /\ shared.unread[1] \in Nat /\ Len(shared.inflight) \in Nat
           /\ LastSlot \in Slots /\ shared.unread[LastSlot] \in Nat
  <1>1. 1 \in 1..N /\ 1 \in Slots /\ LastSlot \in Slots /\ reply \in [Slots -> Seq(FrameSet)]
    BY ShapeFacts DEF TypeInv
  <1>2. QED
    BY <1>1, LineTypes, SharedFields

LEMMA CountsStay ==
    ASSUME Counts, UNCHANGED <<shape, chan, reply>>, shared'.unread = shared.unread,
           shared'.inflight = shared.inflight, Counted' = Counted, DOMAIN relay' = DOMAIN relay,
           \A m \in DOMAIN relay : (relay'[m] = "count") <=> (relay[m] = "count"),
           receiver'.pc = "read" => shared.unread[LastSlot] > 0
    PROVE  Counts'
  <1>1. LastSlot' = LastSlot
    BY DEF LastSlot, N
  <1>2. \A m \in DOMAIN relay : shared'.unread[m + 1] + (IF relay'[m] = "count" THEN 1 ELSE 0)
                                  = Len(reply[m + 1]) + Len(chan[m + 1])
    <2>1. \A m \in DOMAIN relay : (IF relay'[m] = "count" THEN 1 ELSE 0) = (IF relay[m] = "count" THEN 1 ELSE 0)
      OBVIOUS
    <2>2. QED
      BY <2>1 DEF Counts
  <1>3. shape.ring => shared'.unread[1] = Len(shared'.inflight)
    BY DEF Counts
  <1>4. ~shape.ring => shared'.unread[1] + Counted = Len(reply[1]) + Len(chan[1])
    BY DEF Counts
  <1>5. receiver'.pc = "read" => shared'.unread[LastSlot] > 0
    OBVIOUS
  <1>6. QED
    BY <1>1, <1>2, <1>3, <1>4, <1>5 DEF Counts

LEMMA SenderWaitCounts == TypeInv /\ Counts /\ SenderWaitEffect => Counts'
  <1> SUFFICES ASSUME TypeInv, Counts, SenderWaitEffect PROVE Counts'
    OBVIOUS
  <1>1. Counted' = Counted /\ LastSlot' = LastSlot
    BY DEF SenderWaitEffect, Counted, LastSlot, N
  <1>2. UNCHANGED <<shape, chan, reply, relay, receiver>> /\ shared'.unread = shared.unread
        /\ shared'.inflight = shared.inflight
    BY DEF SenderWaitEffect
  <1>3. receiver'.pc = "read" => shared.unread[LastSlot] > 0
    BY <1>2 DEF Counts
  <1>4. QED
    BY <1>1, <1>2, <1>3, CountsStay

LEMMA SenderSendCounts ==
    ASSUME TypeInv, Counts, NEW g, NEW f, SenderSendEffect(g, f), sender'.pc = "count"
    PROVE  Counts'
  <1>1. /\ sender.pc = "send" /\ sender'.pc = "count" /\ shared' = shared /\ shape' = shape
        /\ reply' = reply /\ relay' = relay /\ receiver' = receiver
        /\ chan' = [chan EXCEPT ![1] = Append(@, f)] /\ f \in FrameSet
    BY DEF SenderSendEffect
  <1>2. Counted = 0 /\ Counted' = 1 /\ LastSlot' = LastSlot
    BY <1>1 DEF Counted, LastSlot, N
  <1>3. /\ Len(chan'[1]) = Len(chan[1]) + 1 /\ \A m \in 1..N : m # 1 => chan'[m] = chan[m]
    <2>1. chan \in [1..N -> Seq(FrameSet)] /\ 1 \in 1..N
      BY FirstTypes DEF TypeInv
    <2>2. PICK q \in Seq(FrameSet) : q = chan[1]
      BY <2>1
    <2>3. Len(Append(q, f)) = Len(q) + 1
      BY <1>1
    <2>4. QED
      BY <1>1, <2>1, <2>2, <2>3
  <1>4. \A i \in DOMAIN relay : chan'[i + 1] = chan[i + 1]
    BY <1>3, RelayIndex, RelayTypes
  <1>5. ~shape.ring => shared.unread[1] + 1 = Len(reply[1]) + Len(chan'[1])
    <2>1. SUFFICES ASSUME ~shape.ring PROVE shared.unread[1] + 1 = Len(reply[1]) + Len(chan'[1])
      OBVIOUS
    <2>2. PICK u \in Nat, l \in Nat, b \in Nat : u = shared.unread[1] /\ l = Len(reply[1]) /\ b = Len(chan[1])
      BY FirstTypes
    <2>3. u + 0 = l + b
      BY <1>2, <2>1, <2>2 DEF Counts
    <2>4. u + 1 = l + (b + 1)
      BY <2>3
    <2>5. QED
      BY <1>3, <2>2, <2>4
  <1>6. QED
    BY <1>1, <1>2, <1>4, <1>5 DEF Counts

LEMMA SenderCountCounts == TypeInv /\ Counts /\ SenderCountEffect => Counts'
  <1> SUFFICES ASSUME TypeInv, Counts, SenderCountEffect PROVE Counts'
    OBVIOUS
  <1>1. /\ sender.pc = "count" /\ sender'.pc = "wait" /\ UNCHANGED <<shape, chan, reply, relay, receiver>>
        /\ Uncounted \in ChunkSet /\ shared'.inflight = Append(shared.inflight, Uncounted)
        /\ shared'.unread = [shared.unread EXCEPT ![1] = @ + 1]
    BY DEF SenderCountEffect
  <1>2. Counted = 1 /\ Counted' = 0 /\ LastSlot' = LastSlot
    BY <1>1 DEF Counted, LastSlot, N
  <1>3. shared'.unread[1] = shared.unread[1] + 1 /\ \A m \in Slots : m # 1 => shared'.unread[m] = shared.unread[m]
    BY <1>1, FirstTypes, SharedFields
  <1>4. Len(shared'.inflight) = Len(shared.inflight) + 1
    <2>1. PICK q \in Seq(ChunkSet), u \in ChunkSet : q = shared.inflight /\ u = Uncounted
      BY <1>1, SharedFields
    <2>2. Len(Append(q, u)) = Len(q) + 1
      OBVIOUS
    <2>3. QED
      BY <1>1, <2>1, <2>2
  <1>5. \A i \in DOMAIN relay : shared'.unread[i + 1] = shared.unread[i + 1]
    BY <1>3, RelayIndex, RelayTypes
  <1>6. ~shape.ring => shared'.unread[1] + 0 = Len(reply[1]) + Len(chan[1])
    <2>1. SUFFICES ASSUME ~shape.ring PROVE shared'.unread[1] + 0 = Len(reply[1]) + Len(chan[1])
      OBVIOUS
    <2>2. PICK u \in Nat : u = shared.unread[1]
      BY FirstTypes
    <2>3. u + 1 = Len(reply[1]) + Len(chan[1])
      BY <1>2, <2>1, <2>2 DEF Counts
    <2>4. (u + 1) + 0 = u + 1
      OBVIOUS
    <2>5. QED
      BY <1>3, <2>2, <2>3, <2>4
  <1>7. shape.ring => shared'.unread[1] = Len(shared'.inflight)
    BY <1>3, <1>4 DEF Counts
  <1>8. shared.unread[LastSlot] > 0 => shared'.unread[LastSlot] > 0
    BY <1>3, FirstTypes
  <1>9. QED
    BY <1>1, <1>2, <1>5, <1>6, <1>7, <1>8 DEF Counts

LEMMA StageStepCounts ==
    ASSUME TypeInv, Counts, NEW k \in 1..N, NEW f, NEW fails, NEW r, NEW g, g \in FrameSet,
           StageEffect(k, f, fails, r, g)
    PROVE  Counts'
  <1>1. UNCHANGED <<shape, shared, sender, relay, receiver>>
    BY DEF StageEffect
  <1>2. Counted' = Counted /\ LastSlot' = LastSlot
    BY <1>1 DEF Counted, LastSlot, N
  <1>3. CASE shape.ring
    <2>1. DOMAIN relay = {}
      BY <1>3, RelayIndex
    <2>2. QED
      BY <1>1, <1>2, <1>3, <2>1 DEF Counts
  <1>4. CASE ~shape.ring
    <2>1. chan \in [1..N -> Seq(FrameSet)] /\ reply \in [1..N -> Seq(FrameSet)]
      BY <1>4, ShapeFacts DEF TypeInv
    <2>2. chan' = [chan EXCEPT ![k] = Tail(@)] /\ reply' = [reply EXCEPT ![k] = Append(@, g)]
          /\ chan[k] # <<>>
      BY <1>4 DEF StageEffect
    <2>3. PICK p \in Seq(FrameSet), q \in Seq(FrameSet) : p = chan[k] /\ q = reply[k]
      BY <2>1
    <2>4. p # <<>> /\ chan'[k] = Tail(p) /\ reply'[k] = Append(q, g)
          /\ \A m \in 1..N : m # k => chan'[m] = chan[m] /\ reply'[m] = reply[m]
      BY <2>1, <2>2, <2>3
    <2>5. Len(Tail(p)) = Len(p) - 1 /\ Len(Append(q, g)) = Len(q) + 1
      BY <2>4
    <2>6. ASSUME NEW m \in 1..N
          PROVE  Len(reply'[m]) + Len(chan'[m]) = Len(reply[m]) + Len(chan[m])
      <3>1. CASE m = k
        <4>1. (Len(q) + 1) + (Len(p) - 1) = Len(q) + Len(p)
          OBVIOUS
        <4>2. QED
          BY <2>3, <2>4, <2>5, <3>1, <4>1
      <3>2. CASE m # k
        BY <2>4, <3>2
      <3>3. QED
        BY <3>1, <3>2
    <2>7. \A i \in DOMAIN relay : i + 1 \in 1..N
      BY RelayIndex
    <2>8. QED
      BY <1>1, <1>2, <1>4, <2>6, <2>7, FirstTypes DEF Counts
  <1>5. QED
    BY <1>3, <1>4

LEMMA RelayWaitCounts ==
    ASSUME TypeInv, Counts, NEW i \in DOMAIN relay, RelayWaitEffect(i)
    PROVE  Counts'
  <1>1. Counted' = Counted /\ LastSlot' = LastSlot
    BY DEF RelayWaitEffect, Counted, LastSlot, N
  <1>2. relay[i] # "count" /\ relay'[i] # "count" /\ DOMAIN relay' = DOMAIN relay
        /\ \A m \in DOMAIN relay : m # i => relay'[m] = relay[m]
    BY DEF RelayWaitEffect
  <1>3. \A m \in DOMAIN relay : (relay'[m] = "count") <=> (relay[m] = "count")
    BY <1>2
  <1>4. UNCHANGED <<shape, chan, reply, receiver>> /\ shared'.unread = shared.unread
        /\ shared'.inflight = shared.inflight
    BY DEF RelayWaitEffect
  <1>5. receiver'.pc = "read" => shared.unread[LastSlot] > 0
    BY <1>4 DEF Counts
  <1>6. QED
    BY <1>1, <1>2, <1>3, <1>4, <1>5, CountsStay

LEMMA RelayForwardCounts ==
    ASSUME TypeInv, Sizes, Counts, NEW i \in DOMAIN relay, NEW f, RelayForwardEffect(i, f),
           f.type = "speculative"
    PROVE  Counts'
  <1>1. /\ ~shape.ring /\ i \in 1..N - 1 /\ i \in 1..N /\ i + 1 \in 1..N /\ Slots = 1..N
        /\ LastSlot = N /\ i # LastSlot
    BY RelayIndex
  <1>2. /\ relay[i] = "read" /\ reply[i] # <<>> /\ f = Head(reply[i])
        /\ reply' = [reply EXCEPT ![i] = Tail(@)] /\ shape' = shape
        /\ chan' = [chan EXCEPT ![i + 1] = Append(@, f)] /\ sender' = sender /\ receiver' = receiver
        /\ relay' = [relay EXCEPT ![i] = "count"]
        /\ shared'.unread = [shared.unread EXCEPT ![i] = @ - 1]
    BY DEF RelayForwardEffect
  <1>3. Counted' = Counted /\ LastSlot' = LastSlot
    BY <1>2 DEF Counted, LastSlot, N
  <1>4. chan \in [1..N -> Seq(FrameSet)] /\ reply \in [1..N -> Seq(FrameSet)]
        /\ shared.unread \in [1..N -> Nat]
    BY <1>1, SharedFields DEF TypeInv
  <1>5. PICK p \in Seq(FrameSet), q \in Seq(FrameSet), u \in Nat :
           p = reply[i] /\ q = chan[i + 1] /\ u = shared.unread[i]
    BY <1>1, <1>4
  <1>6. p # <<>> /\ f \in FrameSet /\ Len(Tail(p)) = Len(p) - 1 /\ Len(Append(q, f)) = Len(q) + 1
    BY <1>2, <1>5
  <1>7. /\ reply'[i] = Tail(p) /\ chan'[i + 1] = Append(q, f) /\ shared'.unread[i] = u - 1
        /\ \A m \in 1..N : m # i => reply'[m] = reply[m] /\ shared'.unread[m] = shared.unread[m]
        /\ \A m \in 1..N : m # i + 1 => chan'[m] = chan[m]
    BY <1>1, <1>2, <1>4, <1>5
  <1>8. i # i + 1 /\ DOMAIN relay' = DOMAIN relay /\ relay'[i] = "count"
        /\ \A m \in DOMAIN relay : m # i => relay'[m] = relay[m]
    BY <1>1, <1>2
  (* The slot it read. *)
  <1>9. ASSUME NEW x \in {0, 1}, u + x = Len(p) + Len(chan[i])
        PROVE  shared'.unread[i] + x = Len(reply'[i]) + Len(chan'[i])
    <2>1. PICK b \in Nat : b = Len(chan[i])
      BY RelayTypes
    <2>2. (u - 1) + x = (Len(p) - 1) + b
      BY <1>9, <2>1
    <2>3. chan'[i] = chan[i]
      BY <1>1, <1>7, <1>8
    <2>4. QED
      BY <1>6, <1>7, <2>1, <2>2, <2>3
  <1>10. shared'.unread[1] + Counted = Len(reply'[1]) + Len(chan'[1])
    <2>1. shared.unread[1] + Counted = Len(reply[1]) + Len(chan[1]) /\ Counted \in {0, 1}
      BY <1>1 DEF Counts, Counted
    <2>2. CASE i = 1
      BY <1>5, <1>9, <2>1, <2>2
    <2>3. CASE i # 1
      <3>1. 1 \in 1..N /\ 1 # i + 1
        BY <1>1, FirstTypes
      <3>2. QED
        BY <1>7, <2>1, <2>3, <3>1
    <2>4. QED
      BY <2>2, <2>3
  <1>11. ASSUME NEW m \in DOMAIN relay
         PROVE  shared'.unread[m + 1] + (IF relay'[m] = "count" THEN 1 ELSE 0)
                  = Len(reply'[m + 1]) + Len(chan'[m + 1])
    <2>1. PICK x \in {0, 1} : x = IF relay[m] = "count" THEN 1 ELSE 0
      OBVIOUS
    <2>2. shared.unread[m + 1] + x = Len(reply[m + 1]) + Len(chan[m + 1])
      BY <2>1 DEF Counts
    <2>3. m + 1 \in 1..N /\ m \in 1..N
      BY RelayIndex
    <2>4. CASE m = i
      <3>1. x = 0
        BY <1>2, <2>1, <2>4
      <3>2. PICK v \in Nat, l \in Nat : v = shared.unread[m + 1] /\ l = Len(reply[m + 1])
        BY RelayTypes
      <3>3. v + 0 = l + Len(q)
        BY <1>5, <2>2, <2>4, <3>1, <3>2
      <3>4. v + 1 = l + (Len(q) + 1)
        BY <3>3
      <3>5. shared'.unread[m + 1] = v /\ reply'[m + 1] = reply[m + 1]
        BY <1>7, <1>8, <2>3, <2>4, <3>2
      <3>6. QED
        BY <1>6, <1>7, <1>8, <2>4, <3>2, <3>4, <3>5
    <2>5. CASE m # i /\ m + 1 = i
      <3>1. u + x = Len(p) + Len(chan[i])
        BY <1>5, <2>2, <2>5
      <3>2. shared'.unread[i] + x = Len(reply'[i]) + Len(chan'[i])
        BY <1>9, <3>1
      <3>3. QED
        BY <1>8, <2>1, <2>5, <3>2
    <2>6. CASE m # i /\ m + 1 # i
      <3>1. m + 1 # i + 1
        BY <1>1, <2>3, <2>6
      <3>2. QED
        BY <1>7, <1>8, <2>1, <2>2, <2>3, <2>6, <3>1
    <2>7. QED
      BY <2>4, <2>5, <2>6
  <1>12. shared'.unread[LastSlot] = shared.unread[LastSlot]
    <2>1. N \in 1..N
      BY ShapeFacts DEF TypeInv
    <2>2. QED
      BY <1>1, <1>7, <2>1
  <1>13. QED
    BY <1>1, <1>2, <1>3, <1>8, <1>10, <1>11, <1>12 DEF Counts

LEMMA RelayCountCounts ==
    ASSUME TypeInv, Counts, NEW i \in DOMAIN relay, RelayCountEffect(i)
    PROVE  Counts'
  <1>1. /\ ~shape.ring /\ i \in 1..N /\ i + 1 \in 1..N /\ Slots = 1..N
    BY RelayIndex
  <1>2. /\ relay[i] = "count" /\ relay' = [relay EXCEPT ![i] = "wait"]
        /\ UNCHANGED <<shape, chan, reply, sender, receiver>>
        /\ shared'.unread = [shared.unread EXCEPT ![i + 1] = @ + 1]
    BY DEF RelayCountEffect
  <1>3. Counted' = Counted /\ LastSlot' = LastSlot
    BY <1>2 DEF Counted, LastSlot, N
  <1>4. /\ shared'.unread[i + 1] = shared.unread[i + 1] + 1
        /\ \A m \in 1..N : m # i + 1 => shared'.unread[m] = shared.unread[m]
        /\ \A m \in 1..N : shared'.unread[m] >= shared.unread[m] /\ shared.unread[m] \in Nat
                           /\ shared'.unread[m] \in Nat
    <2>1. shared.unread \in [1..N -> Nat]
      BY <1>1, SharedFields
    <2>2. /\ shared'.unread[i + 1] = shared.unread[i + 1] + 1
          /\ \A m \in 1..N : m # i + 1 => shared'.unread[m] = shared.unread[m]
      BY <1>1, <1>2, <2>1
    <2>3. \A m \in 1..N : shared.unread[m] \in Nat
      BY <2>1
    <2>4. QED
      BY <2>2, <2>3
  <1>5. DOMAIN relay' = DOMAIN relay /\ relay'[i] = "wait"
        /\ \A m \in DOMAIN relay : m # i => relay'[m] = relay[m]
    BY <1>2
  <1>6. shared'.unread[1] + Counted = Len(reply[1]) + Len(chan[1])
    <2>1. 1 \in 1..N /\ 1 # i + 1
      BY <1>1, FirstTypes
    <2>2. QED
      BY <1>1, <1>4, <2>1 DEF Counts
  <1>7. ASSUME NEW m \in DOMAIN relay
        PROVE  shared'.unread[m + 1] + (IF relay'[m] = "count" THEN 1 ELSE 0)
                 = Len(reply[m + 1]) + Len(chan[m + 1])
    <2>1. shared.unread[m + 1] + (IF relay[m] = "count" THEN 1 ELSE 0)
            = Len(reply[m + 1]) + Len(chan[m + 1])
      BY DEF Counts
    <2>2. CASE m = i
      <3>1. PICK u \in Nat : u = shared.unread[m + 1]
        BY RelayTypes
      <3>2. u + 1 = Len(reply[m + 1]) + Len(chan[m + 1])
        BY <1>2, <2>1, <2>2, <3>1
      <3>3. (u + 1) + 0 = u + 1
        OBVIOUS
      <3>4. shared'.unread[m + 1] = u + 1
        BY <1>4, <2>2, <3>1
      <3>5. relay'[m] # "count"
        BY <1>5, <2>2
      <3>6. QED
        BY <3>2, <3>3, <3>4, <3>5
    <2>3. CASE m # i
      <3>1. m + 1 # i + 1 /\ m + 1 \in 1..N
        BY <1>1, <2>3, RelayIndex
      <3>2. shared'.unread[m + 1] = shared.unread[m + 1] /\ relay'[m] = relay[m]
        BY <1>4, <1>5, <2>3, <3>1
      <3>3. QED
        BY <2>1, <3>2
    <2>4. QED
      BY <2>2, <2>3
  <1>8. receiver.pc = "read" => shared'.unread[LastSlot] > 0
    <2>1. LastSlot \in 1..N
      BY <1>1, FirstTypes
    <2>2. QED
      BY <1>4, <2>1 DEF Counts
  <1>9. QED
    BY <1>1, <1>2, <1>3, <1>5, <1>6, <1>7, <1>8 DEF Counts

LEMMA ReceiverWaitCounts == TypeInv /\ Counts /\ ReceiverWait => Counts'
  <1> SUFFICES ASSUME TypeInv, Counts, ReceiverWait PROVE Counts'
    OBVIOUS
  <1>1. UNCHANGED <<shape, chan, reply, shared, sender, relay>>
    BY DEF ReceiverWait
  <1>2. Counted' = Counted
    BY <1>1 DEF Counted
  <1>3. receiver \in ReceiverSet
    BY DEF TypeInv
  <1>4. receiver'.pc = "read" => shared.unread[LastSlot] > 0
    BY <1>3 DEF ReceiverWait, ReceiverSet, Ready
  <1>5. QED
    BY <1>1, <1>2, <1>4, CountsStay

LEMMA ReceiverReadCounts ==
    ASSUME TypeInv, Counts, NEW f, NEW c, ReceiverReadEffect(f, c), shared.inflight # <<>>,
           shared'.inflight = Tail(shared.inflight), receiver'.pc = "apply"
    PROVE  Counts'
  <1>1. /\ receiver.pc = "read" /\ reply[LastSlot] # <<>>
        /\ reply' = [reply EXCEPT ![LastSlot] = Tail(@)] /\ UNCHANGED <<shape, chan, sender, relay>>
        /\ shared'.unread = [shared.unread EXCEPT ![LastSlot] =
                               IF shared.unread[LastSlot] > 0 THEN shared.unread[LastSlot] - 1 ELSE 0]
    BY DEF ReceiverReadEffect
  <1>2. Counted' = Counted /\ LastSlot' = LastSlot /\ Counted \in {0, 1}
    BY <1>1 DEF Counted, LastSlot, N
  <1>3. PICK u \in Nat : u = shared.unread[LastSlot] /\ u > 0
    BY <1>1, FirstTypes DEF Counts
  <1>4. shared'.unread[LastSlot] = u - 1
        /\ \A m \in Slots : m # LastSlot => shared'.unread[m] = shared.unread[m]
    BY <1>1, <1>3, FirstTypes, SharedFields
  <1>5. PICK q \in Seq(FrameSet) : q = reply[LastSlot] /\ q # <<>> /\ Len(q) > 0
    <2>1. reply[LastSlot] \in Seq(FrameSet)
      BY FirstTypes DEF TypeInv
    <2>2. QED
      BY <1>1, <2>1
  <1>6. Len(Tail(q)) = Len(q) - 1
    BY <1>5
  <1>7. reply'[LastSlot] = Tail(q) /\ \A m \in Slots : m # LastSlot => reply'[m] = reply[m]
    BY <1>1, <1>5, FirstTypes DEF TypeInv
  <1>8. CASE shape.ring
    <2>1. DOMAIN relay = {} /\ LastSlot = 1
      BY <1>8, RelayIndex, ShapeFacts DEF TypeInv
    <2>2. shared'.unread[1] = Len(shared'.inflight)
      <3>1. Len(shared'.inflight) = Len(shared.inflight) - 1
        BY SharedFields
      <3>2. u = Len(shared.inflight)
        BY <1>3, <1>8, <2>1 DEF Counts
      <3>3. QED
        BY <1>4, <2>1, <3>1, <3>2
    <2>3. QED
      BY <1>1, <1>2, <1>8, <2>1, <2>2 DEF Counts
  <1>9. CASE ~shape.ring
    <2>1. Slots = 1..N /\ LastSlot = N /\ N \in Nat
      BY <1>9, ShapeFacts DEF TypeInv
    <2>2. ASSUME NEW x \in {0, 1}, u + x = Len(q) + Len(chan[LastSlot])
          PROVE  shared'.unread[LastSlot] + x = Len(reply'[LastSlot]) + Len(chan[LastSlot])
      <3>1. PICK b \in Nat : b = Len(chan[LastSlot])
        BY <2>1, FirstTypes, LineTypes
      <3>2. (u - 1) + x = (Len(q) - 1) + b
        BY <2>2, <3>1
      <3>3. QED
        BY <1>4, <1>6, <1>7, <3>1, <3>2
    <2>3. shared'.unread[1] + Counted = Len(reply'[1]) + Len(chan[1])
      <3>1. shared.unread[1] + Counted = Len(reply[1]) + Len(chan[1])
        BY <1>9 DEF Counts
      <3>2. CASE LastSlot = 1
        BY <1>2, <1>3, <1>5, <2>2, <3>1, <3>2
      <3>3. CASE LastSlot # 1
        BY <1>4, <1>7, <3>1, <3>3, FirstTypes
      <3>4. QED
        BY <3>2, <3>3
    <2>4. ASSUME NEW m \in DOMAIN relay
          PROVE  shared'.unread[m + 1] + (IF relay[m] = "count" THEN 1 ELSE 0)
                   = Len(reply'[m + 1]) + Len(chan[m + 1])
      <3>1. PICK x \in {0, 1} : x = IF relay[m] = "count" THEN 1 ELSE 0
        OBVIOUS
      <3>2. shared.unread[m + 1] + x = Len(reply[m + 1]) + Len(chan[m + 1])
        BY <3>1 DEF Counts
      <3>3. m + 1 \in Slots
        BY RelayIndex
      <3>4. CASE m + 1 = LastSlot
        <4>1. u + x = Len(q) + Len(chan[LastSlot])
          BY <1>3, <1>5, <3>2, <3>4
        <4>2. QED
          BY <2>2, <3>1, <3>4, <4>1
      <3>5. CASE m + 1 # LastSlot
        BY <1>4, <1>7, <3>1, <3>2, <3>3, <3>5
      <3>6. QED
        BY <3>4, <3>5
    <2>5. QED
      BY <1>1, <1>2, <1>9, <2>3, <2>4 DEF Counts
  <1>10. QED
    BY <1>8, <1>9

LEMMA ReceiverApplyCounts == TypeInv /\ Counts /\ ReceiverApplyEffect => Counts'
  <1> SUFFICES ASSUME TypeInv, Counts, ReceiverApplyEffect PROVE Counts'
    OBVIOUS
  <1>1. UNCHANGED <<shape, chan, reply, sender, relay>> /\ shared'.unread = shared.unread
        /\ shared'.inflight = shared.inflight /\ receiver'.pc # "read"
    BY DEF ReceiverApplyEffect
  <1>2. Counted' = Counted
    BY <1>1 DEF Counted
  <1>3. QED
    BY <1>1, <1>2, CountsStay

-----------------------------------------------------------------------------
(* How the threads end.                                                    *)

LEMMA EndsKept ==
    ASSUME NEW d, NEW e, Ends(d), DOMAIN relay' = DOMAIN relay, shared'.ended = shared.ended,
           sender.pc = "end" => sender'.pc = "end",
           \A i \in DOMAIN relay : (relay'[i] = "end") <=> (relay[i] = "end"),
           \A i \in DOMAIN relay :
             relay[i] = "end" /\ sender.pc = "end" /\ d[i] = Len(Queue) /\ reply[i] = <<>> =>
               e[i] = Len(Queue') /\ reply'[i] = <<>>,
           receiver'.pc = "end" => receiver.pc = "end",
           receiver.pc = "end" /\ sender.pc = "end" /\ Queue = <<>> => Queue' = <<>>
    PROVE  Ends(e)'
  <1>1. shared'.ended[1] => sender'.pc = "end"
    BY DEF Ends
  <1>2. ASSUME NEW i \in DOMAIN relay
        PROVE  /\ shared'.ended[i + 1] => relay'[i] = "end"
               /\ relay'[i] = "end" => sender'.pc = "end" /\ e[i] = Len(Queue') /\ reply'[i] = <<>>
    BY <1>2 DEF Ends
  <1>3. receiver'.pc = "end" => sender'.pc = "end" /\ Queue' = <<>>
    BY DEF Ends
  <1>4. QED
    BY <1>1, <1>2, <1>3 DEF Ends

LEMMA QueueStays ==
    ASSUME shared'.inflight = shared.inflight, sender.pc # "count", sender'.pc # "count"
    PROVE  Queue' = Queue
  BY DEF Queue

LEMMA SenderWaitEnds ==
    ASSUME TypeInv, NEW d, Ends(d), SenderWaitEffect
    PROVE  Ends(d)' /\ Queue' = Queue
  <1>1. Queue' = Queue
    BY QueueStays DEF SenderWaitEffect
  <1>2. CASE sender'.pc = "send"
    <2>1. UNCHANGED <<relay, reply, receiver>> /\ shared'.ended = shared.ended /\ sender.pc # "end"
      BY <1>2 DEF SenderWaitEffect
    <2>2. QED
      BY <1>1, <2>1, EndsKept
  <1>3. CASE sender'.pc # "send"
    <2>1. /\ UNCHANGED <<relay, reply, receiver>> /\ sender.pc = "wait" /\ sender'.pc = "end"
          /\ shared'.ended = [shared.ended EXCEPT ![1] = TRUE]
      BY <1>3 DEF SenderWaitEffect
    <2>2. \A i \in DOMAIN relay : shared'.ended[i + 1] = shared.ended[i + 1]
      <3>1. TAKE i \in DOMAIN relay
      <3>2. i + 1 # 1 /\ i + 1 \in Slots
        BY RelayTypes, RelayIndex
      <3>3. shared.ended \in [Slots -> BOOLEAN]
        BY SharedFields
      <3>4. QED
        BY <2>1, <3>2, <3>3
    <2>3. QED
      BY <1>1, <2>1, <2>2 DEF Ends
  <1>4. QED
    BY <1>1, <1>2, <1>3

LEMMA SenderSendEnds ==
    ASSUME TypeInv, NEW d, Ends(d), NEW g, NEW f, SenderSendEffect(g, f), sender'.pc = "count"
    PROVE  Ends(d)'
  <1>1. UNCHANGED <<relay, reply, receiver, shared>> /\ sender.pc # "end"
    BY DEF SenderSendEffect
  <1>2. QED
    BY <1>1, EndsKept

LEMMA SenderCountEnds ==
    ASSUME TypeInv, NEW d, Ends(d), SenderCountEffect
    PROVE  Ends(d)' /\ Queue' = Queue
  <1>1. UNCHANGED <<relay, reply, receiver>> /\ shared'.ended = shared.ended /\ sender.pc = "count"
        /\ sender'.pc = "wait" /\ shared'.inflight = Append(shared.inflight, Uncounted)
    BY DEF SenderCountEffect
  <1>2. Queue' = Queue
    BY <1>1 DEF Queue
  <1>3. sender.pc # "end"
    BY <1>1
  <1>4. QED
    BY <1>1, <1>2, <1>3, EndsKept

LEMMA StageStepEnds ==
    ASSUME TypeInv, Sizes, NEW d \in [1..N -> Nat], Ends(d), NEW k \in 1..N,
           NEW f, NEW fails, NEW r, NEW g, StageEffect(k, f, fails, r, g),
           Queue' = Queue, d[k] + 1 \in 1..Len(Queue),
           NEW e \in [1..N -> Nat], e[k] = d[k] + 1, \A m \in 1..N : m # k => e[m] = d[m]
    PROVE  Ends(e)'
  <1>1. UNCHANGED <<shape, relay, receiver, shared, sender>>
    BY DEF StageEffect
  <1>2. ASSUME NEW i \in DOMAIN relay, d[i] = Len(Queue), reply[i] = <<>>
        PROVE  e[i] = Len(Queue') /\ reply'[i] = <<>>
    <2>1. i \in 1..N /\ ~shape.ring /\ i \in Slots
      BY RelayIndex
    <2>2. i # k
      <3>1. d[k] \in Nat /\ Len(Queue) \in Nat
        BY QueueType
      <3>2. QED
        BY <1>2, <3>1
    <2>3. reply'[i] = reply[i]
      BY <2>1, <2>2 DEF StageEffect, TypeInv
    <2>4. QED
      BY <1>2, <2>1, <2>2, <2>3
  <1>3. QED
    BY <1>1, <1>2, EndsKept

(* What a thread reads last has passed everything in front of it. *)
LEMMA SlotDrained ==
    ASSUME TypeInv, Sizes, NEW d \in [1..N -> Nat], Line(d), Counts, Ends(d), ~shape.ring,
           NEW i \in 1..N, shared.ended[i], shared.unread[i] = 0
    PROVE  sender.pc = "end" /\ d[i] = Len(Queue) /\ reply[i] = <<>>
  <1>1. Len(Queue) \in Nat /\ N \in Nat /\ N >= 1 /\ i \in Slots /\ Slots = 1..N /\ LastSlot = N
    BY QueueType, ShapeFacts DEF TypeInv
  <1>2. CASE i = 1
    <2>1. sender.pc = "end"
      BY <1>2 DEF Ends
    <2>2. Counted = 0
      BY <2>1 DEF Counted
    <2>3. PICK a \in Nat, b \in Nat : a = Len(reply[1]) /\ b = Len(chan[1])
      BY FirstTypes
    <2>4. 0 + 0 = a + b
      BY <1>2, <2>2, <2>3 DEF Counts
    <2>5. a = 0 /\ b = 0
      BY <2>4
    <2>6. d[1] + b = Len(Queue) /\ d[1] \in Nat
      BY <2>3, FirstTypes DEF Line
    <2>7. reply[1] \in Seq(FrameSet)
      BY <1>1, <1>2 DEF TypeInv
    <2>8. reply[1] = <<>>
      BY <2>3, <2>5, <2>7, EmptySeq
    <2>9. QED
      BY <1>2, <2>1, <2>5, <2>6, <2>8
  <1>3. CASE i # 1
    <2>1. PICK m \in 1..N - 1 : m + 1 = i
      <3>1. i - 1 \in 1..N - 1 /\ (i - 1) + 1 = i
        BY <1>1, <1>3
      <3>2. QED
        BY <3>1
    <2>2. m \in DOMAIN relay
      BY <1>1 DEF TypeInv
    <2>3. relay[m] = "end" /\ sender.pc = "end" /\ d[m] = Len(Queue) /\ reply[m] = <<>>
      BY <2>1, <2>2 DEF Ends
    <2>4. Len(Leaving(m)) = 0
      BY <2>2, <2>3, RelayTypes
    <2>5. PICK a \in Nat, b \in Nat : a = Len(reply[i]) /\ b = Len(chan[i])
      BY <2>1, <2>2, RelayTypes
    <2>6. 0 + 0 = a + b
      BY <2>1, <2>2, <2>3, <2>5 DEF Counts
    <2>7. a = 0 /\ b = 0
      BY <2>6
    <2>8. d[i] + b + Len(Leaving(m)) = d[m] /\ d[i] \in Nat
      BY <2>1, <2>5 DEF Line
    <2>9. d[i] = Len(Queue)
      BY <1>1, <2>3, <2>4, <2>7, <2>8
    <2>10. reply[i] \in Seq(FrameSet)
      BY <1>1 DEF TypeInv
    <2>11. reply[i] = <<>>
      BY <2>5, <2>7, <2>10, EmptySeq
    <2>12. QED
      BY <2>3, <2>9, <2>11
  <1>4. QED
    BY <1>2, <1>3

LEMMA QueueDrained ==
    ASSUME TypeInv, Sizes, NEW d \in [1..N -> Nat], Line(d), Counts, Ends(d), Drained
    PROVE  sender.pc = "end" /\ Queue = <<>>
  <1>1. Queue \in Seq(ChunkSet) /\ Len(Queue) = Len(shared.inflight) + Counted
        /\ Len(shared.inflight) \in Nat
    BY QueueType
  <1>2. CASE shape.ring
    <2>1. LastSlot = 1
      BY <1>2 DEF LastSlot
    <2>2. sender.pc = "end" /\ Len(shared.inflight) = 0
      BY <1>2, <2>1 DEF Drained, Ends, Counts
    <2>3. Len(Queue) = 0
      BY <1>1, <2>2 DEF Counted
    <2>4. QED
      BY <1>1, <2>2, <2>3, EmptySeq
  <1>3. CASE ~shape.ring
    <2>1. LastSlot = N /\ N \in 1..N
      BY <1>3, ShapeFacts DEF TypeInv
    <2>2. sender.pc = "end" /\ d[N] = Len(Queue) /\ reply[N] = <<>>
      BY <1>3, <2>1, SlotDrained DEF Drained
    <2>3. d[N] = Len(reply[N])
      BY <1>3 DEF Line, Leaving
    <2>4. Len(Queue) = 0
      BY <2>2, <2>3
    <2>5. QED
      BY <1>1, <2>2, <2>4, EmptySeq
  <1>4. QED
    BY <1>2, <1>3

LEMMA OtherIndex ==
    ASSUME TypeInv, NEW i \in DOMAIN relay, NEW m \in DOMAIN relay, m # i
    PROVE  m + 1 # i + 1 /\ m + 1 \in Slots
  <1>1. N \in Nat
    BY ShapeFacts DEF TypeInv
  <1>2. m \in 1..N /\ i \in 1..N /\ m + 1 \in Slots
    BY RelayIndex
  <1>3. m \in Nat /\ i \in Nat
    BY <1>1, <1>2
  <1>4. QED
    BY <1>2, <1>3

LEMMA RelayWaitEnds ==
    ASSUME TypeInv, Sizes, NEW d \in [1..N -> Nat], Line(d), Counts, Ends(d), shared.error = "",
           NEW i \in DOMAIN relay, RelayWaitEffect(i)
    PROVE  Ends(d)' /\ Queue' = Queue
  <1>1. UNCHANGED <<shape, reply, sender, receiver>> /\ shared'.inflight = shared.inflight
        /\ relay[i] = "wait"
    BY DEF RelayWaitEffect
  <1>2. Queue' = Queue
    BY <1>1 DEF Queue, Uncounted
  <1>3. CASE relay' = [relay EXCEPT ![i] = "read"] /\ shared'.ended = shared.ended
    <2>1. DOMAIN relay' = DOMAIN relay
          /\ \A m \in DOMAIN relay : (relay'[m] = "end") <=> (relay[m] = "end")
      BY <1>1, <1>3
    <2>2. QED
      BY <1>1, <1>2, <1>3, <2>1, EndsKept
  <1>4. CASE /\ shared.ended[i] /\ shared.unread[i] = 0 /\ relay' = [relay EXCEPT ![i] = "end"]
             /\ shared'.ended = [shared.ended EXCEPT ![i + 1] = TRUE]
    <2>1. ~shape.ring /\ i \in 1..N /\ i + 1 # 1 /\ i + 1 \in Slots
      BY RelayIndex, RelayTypes
    <2>2. sender.pc = "end" /\ d[i] = Len(Queue) /\ reply[i] = <<>>
      BY <1>4, <2>1, SlotDrained
    <2>3. /\ DOMAIN relay' = DOMAIN relay /\ relay'[i] = "end"
          /\ \A m \in DOMAIN relay : m # i => relay'[m] = relay[m]
      BY <1>4
    <2>4. shared.ended \in [Slots -> BOOLEAN] /\ 1 \in Slots
      BY SharedFields, FirstTypes
    <2>5. shared'.ended[1] = shared.ended[1]
      BY <1>4, <2>1, <2>4
    <2>6. ASSUME NEW m \in DOMAIN relay, m # i
          PROVE  shared'.ended[m + 1] = shared.ended[m + 1]
      <3>1. m + 1 # i + 1 /\ m + 1 \in Slots
        BY <2>6, OtherIndex
      <3>2. QED
        BY <1>4, <2>4, <3>1
    <2>7. ASSUME NEW m \in DOMAIN relay
          PROVE  /\ shared'.ended[m + 1] => relay'[m] = "end"
                 /\ relay'[m] = "end" => sender'.pc = "end" /\ d[m] = Len(Queue') /\ reply'[m] = <<>>
      <3>1. CASE m = i
        BY <1>1, <1>2, <2>2, <2>3, <3>1
      <3>2. CASE m # i
        BY <1>1, <1>2, <2>3, <2>6, <3>2 DEF Ends
      <3>3. QED
        BY <3>1, <3>2
    <2>8. /\ shared'.ended[1] => sender'.pc = "end"
          /\ receiver'.pc = "end" => sender'.pc = "end" /\ Queue' = <<>>
      BY <1>1, <1>2, <2>5 DEF Ends
    <2>9. Ends(d)'
      BY <2>3, <2>7, <2>8 DEF Ends
    <2>10. QED
      BY <1>2, <2>9
  <1>5. QED
    BY <1>3, <1>4 DEF RelayWaitEffect

LEMMA RelayForwardEnds ==
    ASSUME TypeInv, NEW d, Ends(d), NEW i \in DOMAIN relay, NEW f, RelayForwardEffect(i, f),
           f.type = "speculative", Queue' = Queue
    PROVE  Ends(d)'
  <1>1. /\ UNCHANGED <<sender, receiver>> /\ relay[i] = "read" /\ shared'.ended = shared.ended
        /\ relay' = [relay EXCEPT ![i] = "count"] /\ reply' = [reply EXCEPT ![i] = Tail(@)]
    BY DEF RelayForwardEffect
  <1>2. DOMAIN relay' = DOMAIN relay
        /\ \A m \in DOMAIN relay : (relay'[m] = "end") <=> (relay[m] = "end")
    BY <1>1
  <1>3. ASSUME NEW m \in DOMAIN relay, relay[m] = "end", reply[m] = <<>>
        PROVE  reply'[m] = <<>>
    <2>1. m # i /\ m \in Slots
      BY <1>1, <1>3, RelayIndex
    <2>2. QED
      BY <1>1, <1>3, <2>1 DEF TypeInv
  <1>4. QED
    BY <1>1, <1>2, <1>3, EndsKept

LEMMA RelayCountEnds ==
    ASSUME NEW d, Ends(d), NEW i \in DOMAIN relay, RelayCountEffect(i)
    PROVE  Ends(d)' /\ Queue' = Queue
  <1>1. /\ UNCHANGED <<sender, receiver, reply>> /\ relay[i] = "count"
        /\ shared'.ended = shared.ended /\ shared'.inflight = shared.inflight
        /\ relay' = [relay EXCEPT ![i] = "wait"]
    BY DEF RelayCountEffect
  <1>2. DOMAIN relay' = DOMAIN relay
        /\ \A m \in DOMAIN relay : (relay'[m] = "end") <=> (relay[m] = "end")
    BY <1>1
  <1>3. Queue' = Queue
    BY <1>1 DEF Queue, Uncounted
  <1>4. QED
    BY <1>1, <1>2, <1>3, EndsKept

LEMMA ReceiverWaitEnds ==
    ASSUME TypeInv, Sizes, NEW d \in [1..N -> Nat], Line(d), Counts, Ends(d), shared.error = "",
           ReceiverWait
    PROVE  Ends(d)' /\ Queue' = Queue
  <1>1. UNCHANGED <<shared, sender, relay, reply>> /\ receiver.pc = "wait"
    BY DEF ReceiverWait
  <1>2. Queue' = Queue
    BY <1>1 DEF Queue, Uncounted
  <1>3. receiver'.pc = "end" => Drained
    BY DEF ReceiverWait, TypeInv, ReceiverSet
  <1>4. receiver'.pc = "end" => sender.pc = "end" /\ Queue = <<>>
    BY <1>3, QueueDrained
  <1>5. QED
    BY <1>1, <1>2, <1>4 DEF Ends

(* The receiver reads the answer to the oldest chunk in flight. *)
LEMMA ReadPairs ==
    ASSUME TypeInv, Sizes, NEW d \in [1..N -> Nat], Line(d), Frames(d), Counts,
           NEW f, NEW c, ReceiverReadEffect(f, c)
    PROVE  /\ shared.inflight # <<>> /\ Departing(N, f, Queue[1]) /\ Head(shared.inflight) = Queue[1]
           /\ \A m \in 1..N : d[m] >= 1
  <1>1. /\ N \in Nat /\ N >= 1 /\ N \in 1..N /\ 1 \in 1..N /\ LastSlot \in Slots
        /\ (shape.ring => LastSlot = 1) /\ (~shape.ring => LastSlot = N)
    BY ShapeFacts DEF TypeInv
  <1>2. Leaving(N) = reply[LastSlot] /\ reply[LastSlot] # <<>> /\ f = Head(reply[LastSlot])
        /\ reply[LastSlot] \in Seq(FrameSet)
    BY <1>1 DEF Leaving, ReceiverReadEffect, TypeInv
  <1>3. Len(Leaving(N)) >= 1 /\ Len(Leaving(N)) \in Nat /\ f = Leaving(N)[1]
    <2>1. PICK q \in Seq(FrameSet) : q = reply[LastSlot]
      BY <1>2
    <2>2. q # <<>> => Len(q) >= 1 /\ Len(q) \in Nat /\ Head(q) = q[1]
      BY EmptySeq
    <2>3. QED
      BY <1>2, <2>1, <2>2
  <1>4. d[N] = Len(Leaving(N))
    BY DEF Line
  <1>5. ASSUME NEW m \in 1..N PROVE d[m] >= 1
    <2>1. CASE m = N
      BY <1>3, <1>4, <2>1
    <2>2. CASE m < N
      <3>1. d[N] <= d[m] /\ d[m] \in Nat /\ d[N] \in Nat
        BY <1>1, <2>2 DEF Line
      <3>2. QED
        BY <1>3, <1>4, <3>1
    <2>3. QED
      BY <1>1, <2>1, <2>2
  <1>6. Departing(N, f, Queue[1])
    <2>1. 1 \in 1..Len(Leaving(N))
      BY <1>3
    <2>2. Departing(N, Leaving(N)[1], Queue[d[N] - Len(Leaving(N)) + 1])
      BY <1>1, <2>1 DEF Frames
    <2>3. d[N] - Len(Leaving(N)) + 1 = 1
      BY <1>3, <1>4
    <2>4. QED
      BY <1>3, <2>2, <2>3
  <1>7. Len(shared.inflight) >= 1
    <2>1. shared.unread[LastSlot] > 0 /\ shared.unread[LastSlot] \in Nat
      BY FirstTypes DEF Counts, ReceiverReadEffect
    <2>2. CASE shape.ring
      BY <1>1, <2>1, <2>2 DEF Counts
    <2>3. CASE ~shape.ring
      <3>1. PICK u \in Nat, w \in Nat, x \in Nat, a \in Nat, b \in Nat, y \in Nat :
              /\ u = shared.unread[1] /\ w = Len(shared.inflight) /\ x = Counted
              /\ a = Len(reply[1]) /\ b = Len(chan[1]) /\ y = d[1]
        BY <1>1, FirstTypes, QueueType
      <3>2. u + x = a + b
        BY <2>3, <3>1 DEF Counts
      <3>3. y + b = w + x
        BY <3>1, QueueType DEF Line
      <3>4. CASE N = 1
        <4>1. y = a
          BY <2>3, <3>1, <3>4 DEF Line, Leaving
        <4>2. u > 0
          BY <1>1, <2>1, <2>3, <3>1, <3>4
        <4>3. w >= 1
          BY <3>2, <3>3, <4>1, <4>2
        <4>4. QED
          BY <3>1, <4>3
      <3>5. CASE N > 1
        <4>1. 1 \in 1..N - 1 /\ 2 \in 1..N /\ 1 + 1 = 2
          BY <1>1, <3>5
        <4>2. d[2] + Len(chan[2]) + Len(Leaving(1)) = d[1]
          BY <4>1 DEF Line
        <4>3. d[2] >= 1 /\ d[2] \in Nat /\ Len(chan[2]) \in Nat
          BY <1>5, <4>1, LineTypes
        <4>4. Leaving(1) = reply[1]
          BY <2>3 DEF Leaving
        <4>5. y >= a + 1
          BY <3>1, <4>2, <4>3, <4>4
        <4>6. w >= 1
          BY <3>2, <3>3, <4>5
        <4>7. QED
          BY <3>1, <4>6
      <3>6. QED
        BY <1>1, <3>4, <3>5
    <2>4. QED
      BY <2>2, <2>3
  <1>8. shared.inflight # <<>>
    <2>1. shared.inflight = <<>> => Len(shared.inflight) = 0
      BY EmptySeq
    <2>2. QED
      BY <1>7, <2>1
  <1>9. Head(shared.inflight) = Queue[1]
    <2>1. PICK q \in Seq(ChunkSet) : q = shared.inflight
      BY SharedFields
    <2>2. Len(q) >= 1
      BY <1>7, <2>1
    <2>3. Head(q) = q[1]
      BY <2>2
    <2>4. CASE sender.pc = "count"
      <3>1. PICK w \in ChunkSet : w = Uncounted
        BY DEF Uncounted, TypeInv, SenderSet, ChunkSet
      <3>2. Append(q, w)[1] = q[1]
        BY <2>2
      <3>3. QED
        BY <2>1, <2>3, <2>4, <3>1, <3>2 DEF Queue
    <2>5. CASE sender.pc # "count"
      BY <2>1, <2>3, <2>5 DEF Queue
    <2>6. QED
      BY <2>4, <2>5
  <1>10. QED
    BY <1>5, <1>6, <1>8, <1>9

LEMMA ReceiverReadEnds ==
    ASSUME TypeInv, Sizes, NEW d \in [1..N -> Nat], Ends(d), NEW f, NEW c,
           ReceiverReadEffect(f, c), shared.inflight # <<>>, receiver'.pc = "apply",
           shared'.inflight = Tail(shared.inflight), shared'.ended = shared.ended,
           NEW e \in [1..N -> Nat], \A m \in 1..N : e[m] = d[m] - 1 /\ d[m] >= 1
    PROVE  Ends(e)'
  <1>1. UNCHANGED <<shape, sender, relay>> /\ receiver.pc = "read"
        /\ reply' = [reply EXCEPT ![LastSlot] = Tail(@)]
    BY DEF ReceiverReadEffect
  <1>2. Len(Queue') = Len(Queue) - 1
    BY ReadQueue
  <1>3. ASSUME NEW i \in DOMAIN relay, d[i] = Len(Queue), reply[i] = <<>>
        PROVE  e[i] = Len(Queue') /\ reply'[i] = <<>>
    <2>1. i \in 1..N /\ i \in Slots /\ i # LastSlot
      BY RelayIndex DEF TypeInv
    <2>2. QED
      BY <1>1, <1>2, <1>3, <2>1 DEF TypeInv
  <1>4. QED
    BY <1>1, <1>3, EndsKept

LEMMA ReceiverApplyEnds ==
    ASSUME NEW d, Ends(d), ReceiverApplyEffect
    PROVE  Ends(d)' /\ Queue' = Queue
  <1>1. /\ UNCHANGED <<sender, relay, reply>> /\ receiver'.pc = "wait"
        /\ shared'.ended = shared.ended /\ shared'.inflight = shared.inflight
    BY DEF ReceiverApplyEffect
  <1>2. Queue' = Queue
    BY <1>1 DEF Queue, Uncounted
  <1>3. QED
    BY <1>1, <1>2, EndsKept

-----------------------------------------------------------------------------
(* Positions and epochs.                                                   *)

LEMMA BaseType ==
    ASSUME TypeInv, Sizes
    PROVE  /\ NextBase \in Nat /\ sender.base \in Nat /\ shape.width \in Nat /\ shape.width >= 1
           /\ \A j \in 1..Len(Queue) + 1 : Base(j) \in Nat
           /\ \A j \in 1..Len(Queue) : Base(j) = Queue[j].base /\ Queue[j].base \in Nat
                                       /\ Queue[j].epoch \in Nat
           /\ Base(Len(Queue) + 1) = NextBase
  <1>1. sender.base \in Nat /\ shape.width \in Nat /\ shape.width >= 1
    BY ShapeFacts DEF TypeInv, SenderSet
  <1>2. shared.correction.pos \in Nat
    BY SharedFields
  <1>3. sender.base + shape.width \in Nat
    BY <1>1
  <1>4. NextBase \in Nat
    BY <1>1, <1>2, <1>3 DEF NextBase
  <1>5. Len(Queue) \in Nat /\ \A j \in 1..Len(Queue) : Queue[j] \in ChunkSet
    BY QueueType
  <1>6. \A j \in 1..Len(Queue) : Base(j) = Queue[j].base /\ Queue[j].base \in Nat
                                 /\ Queue[j].epoch \in Nat
    BY <1>5 DEF Base, ChunkSet
  <1>7. Base(Len(Queue) + 1) = NextBase
    BY <1>5 DEF Base
  <1>8. \A j \in 1..Len(Queue) + 1 : j \in 1..Len(Queue) \/ j = Len(Queue) + 1
    BY <1>5
  <1>9. QED
    BY <1>1, <1>4, <1>6, <1>7, <1>8

LEMMA AboveStays ==
    ASSUME NEW d, UNCHANGED <<shape, stage>>, Queue' = Queue, NextBase' = NextBase,
           NEW v, NEW j, Above(d, v, j)
    PROVE  Above(d, v, j)'
  <1>1. N' = N
    BY DEF N
  <1>2. \A m : Base(m)' = Base(m)
    BY DEF Base
  <1>3. QED
    BY <1>1, <1>2 DEF Above

(* Steps that neither add a chunk nor run a stage. *)
LEMMA SoundKept ==
    ASSUME NEW d, Epochs /\ Positions(d) /\ Accepting, UNCHANGED <<shape, stage>>, Queue' = Queue,
           NextBase' = NextBase, shared'.epoch = shared.epoch,
           shared'.correction.pending =>
             shared.correction.pending /\ shared'.correction.pos = shared.correction.pos,
           sender'.pc = "send" => /\ sender'.epoch <= shared.epoch
                                  /\ shared'.correction.pending => sender'.epoch # shared.epoch,
           receiver'.pc = "apply" /\ receiver'.apply =>
             receiver.pc = "apply" /\ receiver.apply /\ receiver'.chunk = receiver.chunk,
           draft' = IF sender'.pc = "count" THEN sender'.base + shape.width ELSE sender'.base
    PROVE  (Epochs /\ Positions(d) /\ Accepting)'
  <1>1. N' = N
    BY DEF N
  <1>2. \A m : Base(m)' = Base(m)
    BY DEF Base
  <1>3. Accepting'
    BY <1>1 DEF Accepting
  <1>4. Epochs'
    BY DEF Epochs
  <1>5. draft' = (IF sender.pc = "count" THEN sender.base + shape.width ELSE sender.base)'
    OBVIOUS
  <1>6. /\ \A j \in 1..Len(Queue') : Queue'[j].base + shape'.width <= Context
        /\ \A j \in 1..Len(Queue') : Base(j + 1)' <= Base(j)' + shape'.width
        /\ \A k \in 1..N' : Base(d[k] + 1)' <= Len(stage'[k].kv)
    BY <1>1, <1>2 DEF Positions
  <1>7. ASSUME NEW j \in 1..Len(Queue'), Queue'[j].epoch = shared'.epoch
        PROVE  Above(d, Queue[j].base + shape.width, j)'
    <2>1. PICK v : v = Queue[j].base + shape.width
      OBVIOUS
    <2>2. Above(d, v, j)
      BY <1>7, <2>1 DEF Positions
    <2>3. Above(d, v, j)'
      BY <2>2, AboveStays
    <2>4. v = (Queue[j].base + shape.width)'
      BY <2>1
    <2>5. QED
      BY <2>3, <2>4
  <1>8. ASSUME shared'.correction.pending PROVE Above(d, shared.correction.pos, 0)'
    <2>1. PICK v : v = shared.correction.pos
      OBVIOUS
    <2>2. Above(d, v, 0) /\ v = shared'.correction.pos
      BY <1>8, <2>1 DEF Positions
    <2>3. Above(d, v, 0)'
      BY <2>2, AboveStays
    <2>4. QED
      BY <2>2, <2>3
  <1>9. ASSUME receiver'.pc = "apply", receiver'.apply
        PROVE  Above(d, receiver.chunk.base + shape.width, 0)'
    <2>1. PICK v : v = receiver.chunk.base + shape.width
      OBVIOUS
    <2>2. Above(d, v, 0) /\ v = receiver'.chunk.base + shape'.width
      BY <1>9, <2>1 DEF Positions
    <2>3. Above(d, v, 0)'
      BY <2>2, AboveStays
    <2>4. QED
      BY <2>2, <2>3
  <1>10. Positions(d)'
    BY <1>5, <1>6, <1>7, <1>8, <1>9 DEF Positions
  <1>11. QED
    BY <1>3, <1>4, <1>10

LEMMA SenderWaitSound ==
    ASSUME TypeInv, Sizes, NEW d, Sound(d), SenderWaitEffect, Queue' = Queue
    PROVE  Sound(d)'
  <1> SUFFICES ASSUME ~shape'.faulty, receiver'.pc # "end"
               PROVE  (Epochs /\ Positions(d) /\ Accepting)'
    BY DEF Sound
  <1>1. UNCHANGED <<shape, stage, receiver>> /\ shared'.epoch = shared.epoch /\ sender.pc = "wait"
    BY DEF SenderWaitEffect
  <1>2. Epochs /\ Positions(d) /\ Accepting
    BY <1>1 DEF Sound
  <1>3. draft = sender.base
    BY <1>1, <1>2 DEF Positions
  <1>4. NextBase = IF shared.correction.pending THEN shared.correction.pos ELSE sender.base
    BY <1>1 DEF NextBase
  <1>5. CASE sender'.pc = "send"
    <2>1. /\ sender'.epoch = shared.epoch /\ ~shared'.correction.pending
          /\ sender'.base = NextBase /\ draft' = NextBase
      BY <1>3, <1>4, <1>5 DEF SenderWaitEffect
    <2>2. NextBase' = NextBase
      BY <1>5, <2>1 DEF NextBase
    <2>3. shared.epoch <= shared.epoch
      BY SharedFields
    <2>4. QED
      BY <1>1, <1>2, <1>5, <2>1, <2>2, <2>3, SoundKept
  <1>6. CASE sender'.pc # "send"
    <2>1. /\ sender'.pc = "end" /\ shared'.correction = shared.correction
          /\ sender'.base = sender.base /\ draft' = draft
      BY <1>6 DEF SenderWaitEffect
    <2>2. NextBase' = NextBase
      BY <1>4, <2>1 DEF NextBase
    <2>3. QED
      BY <1>1, <1>2, <1>3, <2>1, <2>2, SoundKept
  <1>7. QED
    BY <1>5, <1>6

LEMMA SenderCountSound ==
    ASSUME TypeInv, Sizes, NEW d, Sound(d), SenderCountEffect, Queue' = Queue
    PROVE  Sound(d)'
  <1> SUFFICES ASSUME ~shape'.faulty, receiver'.pc # "end"
               PROVE  (Epochs /\ Positions(d) /\ Accepting)'
    BY DEF Sound
  <1>1. /\ UNCHANGED <<shape, stage, receiver, draft>> /\ shared'.epoch = shared.epoch
        /\ sender.pc = "count" /\ sender'.pc = "wait" /\ sender'.base = sender.base + shape.width
        /\ shared'.correction = shared.correction
    BY DEF SenderCountEffect
  <1>2. Epochs /\ Positions(d) /\ Accepting
    BY <1>1 DEF Sound
  <1>3. draft' = sender'.base
    BY <1>1, <1>2 DEF Positions
  <1>4. NextBase' = NextBase
    BY <1>1 DEF NextBase
  <1>5. QED
    BY <1>1, <1>2, <1>3, <1>4, SoundKept

(* Relays, and the receiver unless it orders a correction. *)
LEMMA OthersSound ==
    ASSUME NEW d, Sound(d), UNCHANGED <<shape, stage, sender, draft>>, Queue' = Queue,
           shared'.epoch = shared.epoch, shared'.correction = shared.correction,
           receiver.pc = "end" => receiver'.pc = "end",
           receiver'.pc = "apply" =>
             receiver.pc = "apply" /\ receiver'.apply = receiver.apply
             /\ receiver'.chunk = receiver.chunk
    PROVE  Sound(d)'
  <1> SUFFICES ASSUME ~shape'.faulty, receiver'.pc # "end"
               PROVE  (Epochs /\ Positions(d) /\ Accepting)'
    BY DEF Sound
  <1>1. Epochs /\ Positions(d) /\ Accepting
    BY DEF Sound
  <1>2. NextBase' = NextBase
    BY DEF NextBase
  <1>3. draft' = IF sender'.pc = "count" THEN sender'.base + shape.width ELSE sender'.base
    BY <1>1 DEF Positions
  <1>4. sender'.pc = "send" => /\ sender'.epoch <= shared.epoch
                               /\ shared'.correction.pending => sender'.epoch # shared.epoch
    BY <1>1 DEF Epochs
  <1>5. QED
    BY <1>1, <1>2, <1>3, <1>4, SoundKept

(* A new chunk starts where the stages expect it. *)
LEMMA SenderSendSound ==
    ASSUME TypeInv, Sizes, NEW d \in [1..N -> Nat], Line(d), Sound(d),
           NEW g, NEW f, SenderSendEffect(g, f), sender'.pc = "count"
    PROVE  Sound(d)'
  <1> SUFFICES ASSUME ~shape'.faulty, receiver'.pc # "end"
               PROVE  (Epochs /\ Positions(d) /\ Accepting)'
    BY DEF Sound
  <1>1. /\ UNCHANGED <<shape, stage, receiver, shared>> /\ sender.pc = "send" /\ DraftFits
        /\ sender'.base = sender.base /\ draft' = draft + shape.width
    BY DEF SenderSendEffect
  <1>2. Epochs /\ Positions(d) /\ Accepting
    BY <1>1 DEF Sound
  <1>3. draft = sender.base
    BY <1>1, <1>2 DEF Positions
  <1>4. PICK c : c = [epoch |-> sender.epoch, base |-> sender.base, guesses |-> g]
    OBVIOUS
  <1>5. c.base = sender.base /\ c.epoch = sender.epoch
    BY <1>4
  <1>6. /\ Len(Queue') = Len(Queue) + 1 /\ \A j \in 1..Len(Queue) : Queue'[j] = Queue[j]
        /\ Queue'[Len(Queue) + 1] = c
    BY <1>4, SendQueue
  <1>7. PICK n \in Nat : n = Len(Queue)
    BY QueueType
  <1>8. PICK w \in Nat : w = shape.width /\ w >= 1
    BY BaseType
  <1>9. PICK b \in Nat : b = sender.base
    BY BaseType
  <1>10. NextBase = b
    BY <1>1, <1>9 DEF NextBase
  <1>11. NextBase' = IF shared.correction.pending THEN shared.correction.pos ELSE b + w
    BY <1>1, <1>8, <1>9 DEF NextBase
  <1>12. \A j \in 1..n : Base(j) = Queue[j].base /\ Base(j)' = Queue[j].base
    BY <1>6, <1>7 DEF Base
  <1>13. Base(n + 1) = b /\ Base(n + 1)' = b /\ Base(n + 2)' = NextBase'
    BY <1>5, <1>6, <1>7, <1>9, <1>10 DEF Base
  <1>14. \A j \in 1..n + 1 : Base(j)' = Base(j) /\ Base(j) \in Nat
    <2>1. TAKE j \in 1..n + 1
    <2>2. Base(j) \in Nat
      BY <1>7, BaseType
    <2>3. j \in 1..n \/ j = n + 1
      OBVIOUS
    <2>4. QED
      BY <1>12, <1>13, <2>2, <2>3
  <1>15. N' = N /\ N \in Nat
    BY <1>1, ShapeFacts DEF N, TypeInv
  <1>16. \A k \in 1..N : d[k] \in Nat /\ d[k] <= n
    <2>1. TAKE k \in 1..N
    <2>2. d[k] + Len(chan[k]) <= Len(Queue) /\ Len(chan[k]) \in Nat /\ d[k] \in Nat
      BY Bounds, LineTypes
    <2>3. QED
      BY <1>7, <2>2
  <1>17. Len(Queue') = n + 1 /\ \A j \in 1..n + 1 : j \in 1..n \/ j = n + 1
    BY <1>6, <1>7
  <1>18. shared.correction.pos \in Nat
    BY SharedFields
  (* Whatever no position was below still is below none. *)
  <1>19. ASSUME NEW v \in Nat, NEW j \in 0..n, Above(d, v, j), ~shared.correction.pending \/ v <= NextBase'
         PROVE  Above(d, v, j)'
    <2>1. \A m \in 1..n + 1 : m > j => Base(m) >= v
      BY <1>7, <1>19 DEF Above
    <2>2. b >= v
      <3>1. n + 1 \in 1..n + 1 /\ n + 1 > j
        OBVIOUS
      <3>2. QED
        BY <1>13, <2>1, <3>1
    <2>3. NextBase' >= v
      <3>1. CASE shared.correction.pending
        BY <1>11, <1>18, <1>19, <3>1
      <3>2. CASE ~shared.correction.pending
        BY <1>11, <2>2, <3>2
      <3>3. QED
        BY <3>1, <3>2
    <2>4. ASSUME NEW m \in 1..Len(Queue') + 1, m > j PROVE Base(m)' >= v
      <3>1. m \in 1..n + 1 \/ m = n + 2
        BY <1>17
      <3>2. QED
        BY <1>13, <1>14, <2>1, <2>3, <2>4, <3>1
    <2>5. \A k \in 1..N : d[k] >= j => Len(stage[k].kv) >= v
      BY <1>19 DEF Above
    <2>6. QED
      BY <1>1, <1>15, <2>4, <2>5 DEF Above
  <1>20. Accepting'
    BY <1>1, <1>2, <1>15 DEF Accepting
  <1>21. Epochs'
    <2>1. \A j \in 1..Len(Queue') : Queue'[j].epoch <= shared.epoch
                                    /\ (shared.correction.pending => Queue'[j].epoch # shared.epoch)
      <3>1. TAKE j \in 1..Len(Queue')
      <3>2. CASE j \in 1..n
        BY <1>2, <1>6, <1>7, <3>2 DEF Epochs
      <3>3. CASE j = n + 1
        BY <1>1, <1>2, <1>5, <1>6, <1>7, <3>3 DEF Epochs
      <3>4. QED
        BY <1>17, <3>2, <3>3
    <2>2. receiver.pc = "apply" /\ receiver.apply => ~shared.correction.pending
      BY <1>2 DEF Epochs
    <2>3. QED
      BY <1>1, <2>1, <2>2 DEF Epochs
  <1>22. draft' = (IF sender.pc = "count" THEN sender.base + shape.width ELSE sender.base)'
    BY <1>1, <1>3
  <1>23. \A j \in 1..Len(Queue') : Queue'[j].base + shape'.width <= Context
    <2>1. TAKE j \in 1..Len(Queue')
    <2>2. CASE j \in 1..n
      BY <1>1, <1>2, <1>6, <1>7, <2>2 DEF Positions
    <2>3. CASE j = n + 1
      BY <1>1, <1>3, <1>5, <1>6, <1>7, <2>3 DEF DraftFits
    <2>4. QED
      BY <1>17, <2>2, <2>3
  <1>24. \A j \in 1..Len(Queue') : Base(j + 1)' <= Base(j)' + shape'.width
    <2>1. TAKE j \in 1..Len(Queue')
    <2>2. CASE j \in 1..n
      <3>1. j + 1 \in 1..n + 1 /\ j \in 1..n + 1
        BY <2>2
      <3>2. Base(j + 1) <= Base(j) + shape.width
        BY <1>2, <1>7, <2>2 DEF Positions
      <3>3. QED
        BY <1>1, <1>14, <3>1, <3>2
    <2>3. CASE j = n + 1
      <3>1. NextBase' <= b + w
        <4>1. CASE shared.correction.pending
          <5>1. Above(d, shared.correction.pos, 0)
            BY <1>2, <4>1 DEF Positions
          <5>2. n + 1 \in 1..Len(Queue) + 1 /\ n + 1 > 0
            BY <1>7
          <5>3. b >= shared.correction.pos
            BY <1>13, <5>1, <5>2 DEF Above
          <5>4. QED
            BY <1>11, <1>18, <4>1, <5>3
        <4>2. CASE ~shared.correction.pending
          BY <1>11, <4>2
        <4>3. QED
          BY <4>1, <4>2
      <3>2. j + 1 = n + 2
        BY <2>3
      <3>3. QED
        BY <1>1, <1>8, <1>13, <2>3, <3>1, <3>2
    <2>4. QED
      BY <1>17, <2>2, <2>3
  <1>25. \A k \in 1..N' : Base(d[k] + 1)' <= Len(stage'[k].kv)
    <2>1. TAKE k \in 1..N'
    <2>2. d[k] + 1 \in 1..n + 1 /\ k \in 1..N
      BY <1>15, <1>16
    <2>3. Base(d[k] + 1) <= Len(stage[k].kv)
      BY <1>2, <2>2 DEF Positions
    <2>4. QED
      BY <1>1, <1>14, <2>2, <2>3
  <1>26. ASSUME NEW j \in 1..Len(Queue'), Queue'[j].epoch = shared'.epoch
         PROVE  Above(d, Queue[j].base + shape.width, j)'
    <2>1. ~shared.correction.pending
      BY <1>1, <1>21, <1>26 DEF Epochs
    <2>2. NextBase' = b + w
      BY <1>11, <2>1
    <2>3. CASE j \in 1..n
      <3>1. PICK v \in Nat : v = Queue[j].base + shape.width
        BY <1>7, <2>3, BaseType
      <3>2. Above(d, v, j)
        BY <1>1, <1>2, <1>6, <1>7, <1>26, <2>3, <3>1 DEF Positions
      <3>3. j \in 0..n
        BY <2>3
      <3>4. Above(d, v, j)'
        BY <1>19, <2>1, <3>2, <3>3
      <3>5. v = (Queue[j].base + shape.width)'
        BY <1>1, <1>6, <1>7, <2>3, <3>1
      <3>6. QED
        BY <3>4, <3>5
    <2>4. CASE j = n + 1
      <3>1. (Queue[j].base + shape.width)' = b + w
        BY <1>1, <1>5, <1>6, <1>7, <1>8, <1>9, <2>4
      <3>2. Above(d, b + w, j)'
        <4>1. ASSUME NEW m \in 1..Len(Queue') + 1, m > j PROVE Base(m)' >= b + w
          <5>1. m = n + 2
            BY <1>17, <2>4, <4>1
          <5>2. QED
            BY <1>13, <2>2, <5>1
        <4>2. \A k \in 1..N' : ~(d[k] >= j)
          BY <1>15, <1>16, <2>4
        <4>3. QED
          BY <4>1, <4>2 DEF Above
      <3>3. QED
        BY <3>1, <3>2
    <2>5. QED
      BY <1>17, <2>3, <2>4
  <1>27. ASSUME shared'.correction.pending PROVE Above(d, shared.correction.pos, 0)'
    <2>1. PICK v \in Nat : v = shared.correction.pos
      BY <1>18
    <2>2. Above(d, v, 0) /\ NextBase' = v
      BY <1>1, <1>2, <1>11, <1>27, <2>1 DEF Positions
    <2>3. Above(d, v, 0)'
      BY <1>19, <2>2
    <2>4. QED
      BY <1>1, <2>1, <2>3
  <1>28. ASSUME receiver'.pc = "apply", receiver'.apply
         PROVE  Above(d, receiver.chunk.base + shape.width, 0)'
    <2>1. PICK v \in Nat : v = receiver.chunk.base + shape.width
      <3>1. receiver.chunk.base \in Nat
        BY DEF TypeInv, ReceiverSet, ChunkSet
      <3>2. QED
        BY <1>8, <3>1
    <2>2. Above(d, v, 0) /\ ~shared.correction.pending
      BY <1>1, <1>2, <1>28, <2>1 DEF Positions, Epochs
    <2>3. Above(d, v, 0)'
      BY <1>19, <2>2
    <2>4. QED
      BY <1>1, <2>1, <2>3
  <1>29. Positions(d)'
    BY <1>22, <1>23, <1>24, <1>25, <1>26, <1>27, <1>28 DEF Positions
  <1>30. QED
    BY <1>20, <1>21, <1>29

(* A stage takes the chunk it expects, and is then as far as the chunk. *)
LEMMA StageStepOk ==
    ASSUME TypeInv, Sizes, NEW d \in [1..N -> Nat], Line(d), Frames(d), Ends(d), Sound(d),
           ~shape.faulty, NEW k \in 1..N, NEW f, NEW fails, NEW r, NEW g,
           StageEffect(k, f, fails, r, g)
    PROVE  receiver.pc # "end" /\ TookChunk(r, Queue[d[k] + 1])
  <1>1. f \in FrameSet /\ f = chan[k][1] /\ Len(chan[k]) > 0
    BY StageMoves
  <1>2. Len(chan[k]) \in Nat /\ d[k] \in Nat /\ Len(Queue) \in Nat /\ d[k] + Len(chan[k]) <= Len(Queue)
    BY LineTypes, QueueType, Bounds
  <1>3. d[k] + 1 \in 1..Len(Queue) /\ 1 \in 1..Len(chan[k])
    BY <1>1, <1>2
  <1>4. Queue # <<>>
    <2>1. Queue = <<>> => Len(Queue) = 0
      BY EmptySeq
    <2>2. Len(Queue) # 0
      BY <1>2, <1>3
    <2>3. QED
      BY <2>1, <2>2
  <1>5. receiver.pc # "end"
    BY <1>4 DEF Ends
  <1>6. Positions(d) /\ Accepting
    BY <1>5 DEF Sound
  <1>7. PICK c : c = Queue[d[k] + 1]
    OBVIOUS
  <1>8. Len(c.guesses) = shape.width
    BY <1>3, <1>7, QueueType
  <1>9. c.base + shape.width <= Context
    BY <1>3, <1>6, <1>7 DEF Positions
  <1>10. c.base <= Len(stage[k].kv)
    <2>1. Base(d[k] + 1) = c.base
      BY <1>3, <1>7, BaseType
    <2>2. QED
      BY <1>6, <2>1 DEF Positions
  <1>11. Arriving(k, f, c)
    BY <1>1, <1>3, <1>7 DEF Frames
  <1>13. fails \in {FALSE} /\ r = Ran(k, f, fails)
    BY DEF StageEffect
  <1>14. TookChunk(r, c)
    BY <1>1, <1>6, <1>8, <1>9, <1>10, <1>11, <1>13, StageAccepts
  <1>15. QED
    BY <1>5, <1>7, <1>14

LEMMA StageStepSound ==
    ASSUME TypeInv, Sizes, NEW d \in [1..N -> Nat], Line(d), Frames(d), Ends(d), Sound(d),
           NEW k \in 1..N, NEW f, NEW fails, NEW r, NEW g, StageEffect(k, f, fails, r, g),
           Queue' = Queue, d[k] + 1 \in 1..Len(Queue),
           NEW e \in [1..N -> Nat], e[k] = d[k] + 1, \A m \in 1..N : m # k => e[m] = d[m]
    PROVE  Sound(e)'
  <1> SUFFICES ASSUME ~shape'.faulty, receiver'.pc # "end"
               PROVE  (Epochs /\ Positions(e) /\ Accepting)'
    BY DEF Sound
  <1>1. UNCHANGED <<shape, shared, sender, receiver, draft>>
    BY DEF StageEffect
  <1>2. Epochs /\ Positions(d) /\ Accepting
    BY <1>1 DEF Sound
  <1>3. /\ r.ok /\ r.s.open /\ r.s.active = 1 /\ r.s.prompted
        /\ Len(r.s.kv) = Queue[d[k] + 1].base + shape.width
    <2>1. ~shape.faulty
      BY <1>1
    <2>2. TookChunk(r, Queue[d[k] + 1])
      BY <2>1, StageStepOk
    <2>3. QED
      BY <2>2 DEF TookChunk
  <1>4. N' = N /\ (\A m : Base(m)' = Base(m))
    BY <1>1 DEF N, Base, NextBase
  <1>5. /\ stage'[k] = r.s
        /\ \A m \in 1..N : m # k => stage'[m] = stage[m]
    BY <1>3 DEF StageEffect, TypeInv
  <1>6. PICK n \in Nat : n = Len(Queue)
    BY QueueType
  <1>7. PICK q \in 1..n : q = d[k] + 1
    BY <1>6
  <1>8. PICK w \in Nat : w = shape.width
    BY BaseType
  <1>9. q \in 1..n + 1 /\ q \in 1..Len(Queue) /\ q + 1 \in 1..n + 1
    BY <1>6
  <1>10. Base(q) \in Nat /\ Base(q) = Queue[q].base
    BY <1>6, <1>9, BaseType
  <1>11. Len(stage'[k].kv) = Base(q) + w
    BY <1>3, <1>5, <1>7, <1>8, <1>10
  <1>12. ASSUME NEW v \in Nat, NEW j \in 0..n, Above(d, v, j), q = j => v <= Base(q) + w
         PROVE  Above(e, v, j)'
    <2>1. \A m \in 1..Len(Queue') + 1 : m > j => Base(m)' >= v
      BY <1>4, <1>12 DEF Above
    <2>2. ASSUME NEW m \in 1..N', e[m] >= j PROVE Len(stage'[m].kv) >= v
      <3>1. CASE m = k
        <4>1. q >= j
          BY <1>7, <2>2, <3>1
        <4>2. CASE q > j
          <5>1. Base(q) >= v
            BY <1>6, <1>9, <1>12, <4>2 DEF Above
          <5>2. Base(q) + w >= v
            BY <1>10, <5>1
          <5>3. QED
            BY <1>11, <3>1, <5>2
        <4>3. CASE q = j
          BY <1>10, <1>11, <1>12, <3>1, <4>3
        <4>4. QED
          BY <4>1, <4>2, <4>3
      <3>2. CASE m # k
        <4>1. m \in 1..N /\ e[m] = d[m] /\ stage'[m] = stage[m]
          BY <1>4, <1>5, <3>2
        <4>2. QED
          BY <1>12, <2>2, <4>1 DEF Above
      <3>3. QED
        BY <3>1, <3>2
    <2>3. QED
      BY <2>1, <2>2 DEF Above
  <1>13. Accepting'
    <2>1. ASSUME NEW m \in 1..N'
          PROVE  stage'[m].open /\ stage'[m].active = 1 /\ stage'[m].prompted
      <3>1. CASE m = k
        BY <1>3, <1>5, <3>1
      <3>2. CASE m # k
        BY <1>2, <1>4, <1>5, <3>2 DEF Accepting
      <3>3. QED
        BY <3>1, <3>2
    <2>2. QED
      BY <2>1 DEF Accepting
  <1>14. Epochs'
    BY <1>1, <1>2 DEF Epochs
  <1>15. /\ draft' = (IF sender.pc = "count" THEN sender.base + shape.width ELSE sender.base)'
         /\ \A j \in 1..Len(Queue') : Queue'[j].base + shape'.width <= Context
         /\ \A j \in 1..Len(Queue') : Base(j + 1)' <= Base(j)' + shape'.width
    BY <1>1, <1>2, <1>4 DEF Positions
  <1>16. ASSUME NEW m \in 1..N' PROVE Base(e[m] + 1)' <= Len(stage'[m].kv)
    <2>1. CASE m = k
      <3>1. Base(q + 1) <= Base(q) + w
        BY <1>2, <1>8, <1>9 DEF Positions
      <3>2. e[m] = q
        BY <1>7, <2>1
      <3>3. QED
        BY <1>4, <1>11, <2>1, <3>1, <3>2
    <2>2. CASE m # k
      <3>1. m \in 1..N /\ e[m] = d[m] /\ stage'[m] = stage[m]
        BY <1>4, <1>5, <2>2
      <3>2. QED
        BY <1>2, <1>4, <3>1 DEF Positions
    <2>3. QED
      BY <2>1, <2>2
  <1>17. ASSUME NEW j \in 1..Len(Queue'), Queue'[j].epoch = shared'.epoch
         PROVE  Above(e, Queue[j].base + shape.width, j)'
    <2>1. PICK v \in Nat : v = Queue[j].base + shape.width
      <3>1. j \in 1..Len(Queue)
        OBVIOUS
      <3>2. Queue[j].base \in Nat
        BY <3>1, BaseType
      <3>3. QED
        BY <1>8, <3>2
    <2>2. Above(d, v, j)
      BY <1>1, <1>2, <1>17, <2>1 DEF Positions
    <2>3. j \in 0..n
      BY <1>6
    <2>4. q = j => v <= Base(q) + w
      BY <1>8, <1>10, <2>1
    <2>5. Above(e, v, j)'
      BY <1>12, <2>2, <2>3, <2>4
    <2>6. v = (Queue[j].base + shape.width)'
      BY <1>1, <2>1
    <2>7. QED
      BY <2>5, <2>6
  <1>18. 0 \in 0..n /\ q # 0
    OBVIOUS
  <1>19. ASSUME shared'.correction.pending PROVE Above(e, shared.correction.pos, 0)'
    <2>1. PICK v \in Nat : v = shared.correction.pos
      BY SharedFields
    <2>2. Above(d, v, 0)
      BY <1>1, <1>2, <1>19, <2>1 DEF Positions
    <2>3. Above(e, v, 0)'
      BY <1>12, <1>18, <2>2
    <2>4. QED
      BY <1>1, <2>1, <2>3
  <1>20. ASSUME receiver'.pc = "apply", receiver'.apply
         PROVE  Above(e, receiver.chunk.base + shape.width, 0)'
    <2>1. PICK v \in Nat : v = receiver.chunk.base + shape.width
      <3>1. receiver.chunk.base \in Nat
        BY DEF TypeInv, ReceiverSet, ChunkSet
      <3>2. QED
        BY <1>8, <3>1
    <2>2. Above(d, v, 0)
      BY <1>1, <1>2, <1>20, <2>1 DEF Positions
    <2>3. Above(e, v, 0)'
      BY <1>12, <1>18, <2>2
    <2>4. QED
      BY <1>1, <2>1, <2>3
  <1>21. Positions(e)'
    BY <1>15, <1>16, <1>17, <1>19, <1>20 DEF Positions
  <1>22. QED
    BY <1>13, <1>14, <1>21

(* The oldest chunk leaves the queue. *)
LEMMA ReceiverReadSound ==
    ASSUME TypeInv, Sizes, NEW d \in [1..N -> Nat], Sound(d), NEW f, NEW c,
           ReceiverReadEffect(f, c), shared.inflight # <<>>, receiver'.pc = "apply",
           c = Queue[1], Head(shared.inflight) = Queue[1],
           NEW e \in [1..N -> Nat], \A m \in 1..N : e[m] = d[m] - 1 /\ d[m] >= 1
    PROVE  Sound(e)'
  <1> SUFFICES ASSUME ~shape'.faulty PROVE (Epochs /\ Positions(e) /\ Accepting)'
    BY DEF Sound
  <1>1. /\ UNCHANGED <<shape, stage, sender, draft>> /\ receiver.pc = "read"
        /\ shared'.epoch = shared.epoch /\ shared'.correction = shared.correction
        /\ shared'.inflight = Tail(shared.inflight) /\ receiver'.chunk = c
        /\ receiver'.apply => c.epoch = shared.epoch
    BY DEF ReceiverReadEffect
  <1>2. Epochs /\ Positions(d) /\ Accepting
    BY <1>1 DEF Sound
  <1>3. PICK n \in Nat : n = Len(Queue)
    BY QueueType
  <1>4. PICK n1 \in Nat : n = n1 + 1
    <2>1. n > 0
      BY <1>1, <1>3, ReadQueue
    <2>2. n - 1 \in Nat /\ n = (n - 1) + 1
      BY <2>1
    <2>3. QED
      BY <2>2
  <1>5. Len(Queue') = n1 /\ \A j \in 1..n1 : Queue'[j] = Queue[j + 1]
    <2>1. Len(Queue') = n - 1 /\ \A j \in 1..n - 1 : Queue'[j] = Queue[j + 1]
      BY <1>1, <1>3, ReadQueue
    <2>2. n - 1 = n1
      BY <1>4
    <2>3. QED
      BY <2>1, <2>2
  <1>6. NextBase' = NextBase
    BY <1>1 DEF NextBase
  <1>7. \A j \in 1..n1 + 1 : Base(j)' = Base(j + 1)
    <2>1. TAKE j \in 1..n1 + 1
    <2>2. CASE j <= n1
      <3>1. j + 1 <= Len(Queue) /\ j <= Len(Queue') /\ j \in 1..n1
        BY <1>3, <1>4, <1>5, <2>2
      <3>2. QED
        BY <1>5, <3>1 DEF Base
    <2>3. CASE j = n1 + 1
      <3>1. ~(j + 1 <= Len(Queue)) /\ ~(j <= Len(Queue'))
        BY <1>3, <1>4, <1>5, <2>3
      <3>2. QED
        BY <1>6, <3>1 DEF Base
    <2>4. QED
      BY <2>2, <2>3
  <1>8. N' = N
    BY <1>1 DEF N
  <1>9. PICK w \in Nat : w = shape.width
    BY BaseType
  <1>10. ASSUME NEW v, NEW j \in Nat, NEW i \in {0, j + 1}, Above(d, v, i), i = 0 => j = 0
         PROVE  Above(e, v, j)'
    <2>1. ASSUME NEW m \in 1..Len(Queue') + 1, m > j PROVE Base(m)' >= v
      <3>1. m \in 1..n1 + 1 /\ m + 1 \in 1..Len(Queue) + 1 /\ m + 1 > i
        BY <1>3, <1>4, <1>5, <2>1
      <3>2. QED
        BY <1>7, <1>10, <3>1 DEF Above
    <2>2. ASSUME NEW k \in 1..N', e[k] >= j PROVE Len(stage'[k].kv) >= v
      <3>1. k \in 1..N /\ e[k] = d[k] - 1 /\ d[k] \in Nat
        BY <1>8
      <3>2. d[k] >= i
        BY <2>2, <3>1
      <3>3. QED
        BY <1>1, <1>10, <3>1, <3>2 DEF Above
    <2>3. QED
      BY <2>1, <2>2 DEF Above
  <1>11. Accepting'
    BY <1>1, <1>2, <1>8 DEF Accepting
  <1>12. Epochs'
    <2>1. \A j \in 1..Len(Queue') : j + 1 \in 1..Len(Queue) /\ Queue'[j] = Queue[j + 1]
      BY <1>3, <1>4, <1>5
    <2>2. 1 \in 1..Len(Queue)
      BY <1>3, <1>4
    <2>3. receiver'.apply => ~shared.correction.pending
      BY <1>1, <1>2, <2>2 DEF Epochs
    <2>4. QED
      BY <1>1, <1>2, <2>1, <2>3 DEF Epochs
  <1>13. draft' = (IF sender.pc = "count" THEN sender.base + shape.width ELSE sender.base)'
    BY <1>1, <1>2 DEF Positions
  <1>14. ASSUME NEW j \in 1..Len(Queue')
         PROVE  /\ Queue'[j].base + shape'.width <= Context
                /\ Base(j + 1)' <= Base(j)' + shape'.width
    <2>1. j + 1 \in 1..Len(Queue) /\ j \in 1..n1 /\ j \in 1..n1 + 1 /\ j + 1 \in 1..n1 + 1
      BY <1>3, <1>4, <1>5
    <2>2. Queue'[j] = Queue[j + 1] /\ Base(j)' = Base(j + 1) /\ Base(j + 1)' = Base((j + 1) + 1)
      BY <1>5, <1>7, <2>1
    <2>3. QED
      BY <1>1, <1>2, <2>1, <2>2 DEF Positions
  <1>15. ASSUME NEW k \in 1..N' PROVE Base(e[k] + 1)' <= Len(stage'[k].kv)
    <2>1. k \in 1..N /\ e[k] + 1 = d[k] /\ d[k] \in Nat /\ e[k] \in Nat
      BY <1>8
    <2>2. Base(d[k] + 1) <= Len(stage[k].kv)
      BY <1>2, <2>1 DEF Positions
    <2>3. CASE d[k] \in 1..n1 + 1
      BY <1>1, <1>7, <2>1, <2>2, <2>3
    <2>4. CASE d[k] > n1 + 1
      <3>1. ~(d[k] <= Len(Queue')) /\ ~(d[k] + 1 <= Len(Queue))
        BY <1>3, <1>4, <1>5, <2>1, <2>4
      <3>2. Base(d[k])' = Base(d[k] + 1)
        BY <1>6, <3>1 DEF Base
      <3>3. QED
        BY <1>1, <2>1, <2>2, <3>2
    <2>5. d[k] >= 1
      BY <2>1
    <2>6. QED
      BY <2>1, <2>3, <2>4, <2>5
  <1>16. ASSUME NEW j \in 1..Len(Queue'), Queue'[j].epoch = shared'.epoch
         PROVE  Above(e, Queue[j].base + shape.width, j)'
    <2>1. j + 1 \in 1..Len(Queue) /\ j \in 1..n1 /\ j \in Nat
      BY <1>3, <1>4, <1>5
    <2>2. PICK v : v = Queue[j + 1].base + shape.width
      OBVIOUS
    <2>3. Queue'[j] = Queue[j + 1]
      BY <1>5, <2>1
    <2>4. Above(d, v, j + 1)
      BY <1>1, <1>2, <1>16, <2>1, <2>2, <2>3 DEF Positions
    <2>5. j + 1 \in {0, j + 1} /\ j + 1 # 0
      BY <2>1
    <2>6. Above(e, v, j)'
      BY <1>10, <2>1, <2>4, <2>5
    <2>7. v = (Queue[j].base + shape.width)'
      BY <1>1, <2>2, <2>3
    <2>8. QED
      BY <2>6, <2>7
  <1>17. ASSUME shared'.correction.pending PROVE Above(e, shared.correction.pos, 0)'
    <2>1. PICK v : v = shared.correction.pos
      OBVIOUS
    <2>2. Above(d, v, 0)
      BY <1>1, <1>2, <1>17, <2>1 DEF Positions
    <2>3. 0 \in {0, 0 + 1} /\ 0 \in Nat
      OBVIOUS
    <2>4. Above(e, v, 0)'
      BY <1>10, <2>2, <2>3
    <2>5. QED
      BY <1>1, <2>1, <2>4
  <1>18. ASSUME receiver'.apply PROVE Above(e, receiver.chunk.base + shape.width, 0)'
    <2>1. PICK v : v = Queue[1].base + shape.width
      OBVIOUS
    <2>2. 1 \in 1..Len(Queue) /\ Queue[1].epoch = shared.epoch
      BY <1>1, <1>3, <1>4, <1>18
    <2>3. Above(d, v, 1)
      BY <1>2, <2>1, <2>2 DEF Positions
    <2>4. 1 \in {0, 0 + 1} /\ 0 \in Nat /\ 1 # 0
      OBVIOUS
    <2>5. Above(e, v, 0)'
      BY <1>10, <2>3, <2>4
    <2>6. v = (receiver.chunk.base + shape.width)'
      BY <1>1, <2>1
    <2>7. QED
      BY <2>5, <2>6
  <1>19. Positions(e)'
    BY <1>13, <1>14, <1>15, <1>16, <1>17, <1>18 DEF Positions
  <1>20. QED
    BY <1>11, <1>12, <1>19

(* A correction makes every chunk on its way stale. *)
LEMMA ReceiverApplySound ==
    ASSUME TypeInv, Sizes, NEW d \in [1..N -> Nat], Line(d), Sound(d), ReceiverApplyEffect,
           Queue' = Queue, shared'.correction.pos \in Nat
    PROVE  Sound(d)'
  <1>1. /\ UNCHANGED <<shape, stage, sender, draft>> /\ receiver.pc = "apply" /\ receiver'.pc = "wait"
    BY DEF ReceiverApplyEffect
  <1>2. CASE shared'.epoch = shared.epoch /\ shared'.correction = shared.correction
    BY <1>1, <1>2, OthersSound
  <1>3. CASE /\ receiver.apply /\ shared'.epoch = shared.epoch + 1
             /\ shared'.correction.pending
             /\ shared'.correction.pos <= receiver.chunk.base + shape.width
    <2> SUFFICES ASSUME ~shape'.faulty PROVE (Epochs /\ Positions(d) /\ Accepting)'
      BY DEF Sound
    <2>1. Epochs /\ Positions(d) /\ Accepting
      BY <1>1 DEF Sound
    <2>2. PICK n \in Nat : n = Len(Queue)
      BY QueueType
    <2>3. PICK v : v = receiver.chunk.base + shape.width
      OBVIOUS
    <2>4. v \in Nat
      <3>1. receiver.chunk.base \in Nat
        BY DEF TypeInv, ReceiverSet, ChunkSet
      <3>2. QED
        BY <2>3, <3>1, BaseType
    <2>5. Above(d, v, 0)
      BY <1>1, <1>3, <2>1, <2>3 DEF Positions
    <2>6. PICK p \in Nat : p = shared'.correction.pos /\ p <= v
      BY <1>3, <2>3
    <2>7. \A m \in 1..n + 1 : Base(m) >= v /\ Base(m) \in Nat
      <3>1. TAKE m \in 1..n + 1
      <3>2. m \in 1..Len(Queue) + 1 /\ m > 0
        BY <2>2
      <3>3. QED
        BY <2>5, <3>2, BaseType DEF Above
    <2>8. \A m \in 1..n : Base(m)' = Base(m) /\ Base(m) = Queue[m].base
      BY <2>2 DEF Base
    <2>9. Base(n + 1)' = NextBase' /\ Base(n + 1) = NextBase
      BY <2>2 DEF Base
    <2>10. NextBase' >= p /\ NextBase' <= NextBase
      <3>1. NextBase >= v /\ NextBase \in Nat
        BY <2>7, <2>9
      <3>2. CASE sender.pc = "send"
        <4>1. NextBase' = NextBase
          BY <1>1, <3>2 DEF NextBase
        <4>2. QED
          BY <2>4, <2>6, <3>1, <4>1
      <3>3. CASE sender.pc # "send"
        <4>1. NextBase' = p
          BY <1>1, <1>3, <2>6, <3>3 DEF NextBase
        <4>2. QED
          BY <2>4, <2>6, <3>1, <4>1
      <3>4. QED
        BY <3>2, <3>3
    <2>11. NextBase' \in Nat
      <3>1. sender.base \in Nat /\ sender.base + shape.width \in Nat
        BY BaseType
      <3>2. QED
        BY <1>1, <3>1 DEF NextBase
    <2>12. \A m \in 1..n + 1 : Base(m)' <= Base(m) /\ Base(m)' >= p /\ Base(m)' \in Nat
      <3>1. TAKE m \in 1..n + 1
      <3>2. CASE m \in 1..n
        <4>1. Base(m)' = Base(m) /\ Base(m) >= v /\ Base(m) \in Nat
          BY <2>7, <2>8, <3>2
        <4>2. QED
          BY <2>4, <2>6, <4>1
      <3>3. CASE m = n + 1
        BY <2>9, <2>10, <2>11, <3>3
      <3>4. QED
        BY <3>2, <3>3
    <2>13. N' = N
      BY <1>1 DEF N
    <2>14. Accepting'
      BY <1>1, <2>1, <2>13 DEF Accepting
    <2>15. \A j \in 1..Len(Queue) : Queue[j].epoch <= shared'.epoch /\ Queue[j].epoch # shared'.epoch
      <3>1. TAKE j \in 1..Len(Queue)
      <3>2. Queue[j].epoch <= shared.epoch /\ Queue[j].epoch \in Nat /\ shared.epoch \in Nat
        BY <2>1, BaseType, SharedFields DEF Epochs
      <3>3. QED
        BY <1>3, <3>2
    <2>16. Epochs'
      <3>1. sender.pc = "send" => sender.epoch <= shared'.epoch /\ sender.epoch # shared'.epoch
        <4>1. sender.epoch \in Nat /\ shared.epoch \in Nat
          BY SharedFields DEF TypeInv, SenderSet
        <4>2. sender.pc = "send" => sender.epoch <= shared.epoch
          BY <2>1 DEF Epochs
        <4>3. QED
          BY <1>3, <4>1, <4>2
      <3>2. QED
        BY <1>1, <2>15, <3>1 DEF Epochs
    <2>17. draft' = (IF sender.pc = "count" THEN sender.base + shape.width ELSE sender.base)'
      BY <1>1, <2>1 DEF Positions
    <2>18. ASSUME NEW j \in 1..Len(Queue')
           PROVE  /\ Queue'[j].base + shape'.width <= Context
                  /\ Base(j + 1)' <= Base(j)' + shape'.width
      <3>1. j \in 1..n /\ j + 1 \in 1..n + 1 /\ j \in 1..Len(Queue) /\ j \in 1..n + 1
        BY <2>2
      <3>2. /\ Queue[j].base + shape.width <= Context
            /\ Base(j + 1) <= Base(j) + shape.width /\ shape.width \in Nat
        BY <2>1, <3>1, BaseType DEF Positions
      <3>3. Base(j)' = Base(j) /\ Base(j + 1)' <= Base(j + 1)
            /\ Base(j) \in Nat /\ Base(j + 1) \in Nat /\ Base(j + 1)' \in Nat
        BY <2>7, <2>8, <2>12, <3>1
      <3>4. Base(j + 1)' <= Base(j)' + shape.width
        BY <3>2, <3>3
      <3>5. QED
        BY <1>1, <3>2, <3>4
    <2>19. ASSUME NEW k \in 1..N' PROVE Base(d[k] + 1)' <= Len(stage'[k].kv)
      <3>1. k \in 1..N
        BY <2>13
      <3>2. d[k] + 1 \in 1..n + 1
        <4>1. d[k] + Len(chan[k]) <= n /\ Len(chan[k]) \in Nat /\ d[k] \in Nat
          BY <2>2, <3>1, Bounds, LineTypes
        <4>2. QED
          BY <4>1
      <3>3. PICK b \in Nat, b1 \in Nat, l \in Nat :
              b = Base(d[k] + 1) /\ b1 = Base(d[k] + 1)' /\ l = Len(stage[k].kv)
        <4>1. stage[k].kv \in Seq(Vocabulary)
          BY <3>1 DEF TypeInv, SessionSet, Texts
        <4>2. Len(stage[k].kv) \in Nat
          BY <4>1
        <4>3. QED
          BY <2>7, <2>12, <3>2, <4>2
      <3>4. b1 <= b
        BY <2>12, <3>2, <3>3
      <3>5. b <= l
        BY <2>1, <3>1, <3>3 DEF Positions
      <3>6. b1 <= l
        BY <3>4, <3>5
      <3>7. QED
        BY <1>1, <3>3, <3>6
    <2>20. Above(d, shared.correction.pos, 0)'
      <3>1. \A m \in 1..Len(Queue') + 1 : m > 0 => Base(m)' >= p
        BY <2>2, <2>12
      <3>2. ASSUME NEW k \in 1..N', d[k] >= 0 PROVE Len(stage'[k].kv) >= p
        <4>1. k \in 1..N
          BY <2>13
        <4>2. Len(stage[k].kv) >= v
          BY <2>5, <3>2, <4>1 DEF Above
        <4>3. stage[k].kv \in Seq(Vocabulary)
          BY <4>1 DEF TypeInv, SessionSet, Texts
        <4>4. Len(stage[k].kv) \in Nat
          BY <4>3
        <4>5. Len(stage[k].kv) >= p
          BY <2>4, <2>6, <4>2, <4>4
        <4>6. QED
          BY <1>1, <4>5
      <3>3. Above(d, p, 0)'
        BY <3>1, <3>2 DEF Above
      <3>4. QED
        BY <2>6, <3>3
    <2>21. Positions(d)'
      <3>1. \A j \in 1..Len(Queue') : Queue'[j].epoch # shared'.epoch
        BY <2>15
      <3>2. QED
        BY <1>1, <2>17, <2>18, <2>19, <2>20, <3>1 DEF Positions
    <2>22. QED
      BY <2>14, <2>16, <2>21
  <1>4. QED
    BY <1>2, <1>3 DEF ReceiverApplyEffect

-----------------------------------------------------------------------------
(* The flow, action by action.                                             *)

LEMMA FlowingNext ==
    ASSUME N' = N, NEW e \in [1..N -> Nat], Line(e)', Frames(e)', Counts', Ends(e)', Sound(e)',
           ~shape'.faulty => dead' = {}
    PROVE  Flowing'
  BY DEF Flowing, Flow

LEMMA FlowingNow ==
    ASSUME Flowing, shared.error = "", answer.pc # "idle"
    PROVE  \E d \in [1..N -> Nat] : /\ Line(d) /\ Frames(d) /\ Counts /\ Ends(d) /\ Sound(d)
                                    /\ ~shape.faulty => dead = {}
  BY DEF Flowing, Flow

LEMMA FlowingFailed == ASSUME shared'.error # "" PROVE Flowing'
  BY DEF Flowing

(* Where nothing has been sent. *)
LEMMA EmptyLine ==
    ASSUME shape \in Shapes, NEW d, \A k \in 1..N : d[k] = 0, Queue = <<>>,
           \A k \in 1..N : chan[k] = <<>>, \A i \in Slots : reply[i] = <<>>
    PROVE  Line(d) /\ Frames(d)
  <1>1. N \in Nat /\ N >= 1 /\ 1 \in 1..N /\ N \in 1..N /\ 1 \in Slots
        /\ (~shape.ring => Slots = 1..N)
    BY ShapeFacts
  <1>2. \A k \in 1..N : Leaving(k) = <<>>
    BY <1>1 DEF Leaving
  <1>3. Len(<<>>) = 0
    OBVIOUS
  <1>4. \A k \in 1..N : Len(Leaving(k)) = 0 /\ Len(chan[k]) = 0
    BY <1>2, <1>3
  <1>5. Len(Queue) = 0
    BY <1>3
  <1>6. \A k \in 1..N - 1 : k \in 1..N /\ k + 1 \in 1..N
    BY <1>1
  <1>7. \A k \in 1..N - 1 : d[k + 1] + Len(chan[k + 1]) + Len(Leaving(k)) = d[k]
    <2>1. TAKE k \in 1..N - 1
    <2>2. d[k + 1] = 0 /\ Len(chan[k + 1]) = 0 /\ Len(Leaving(k)) = 0 /\ d[k] = 0
      BY <1>4, <1>6
    <2>3. QED
      BY <2>2
  <1>8. Line(d)
    BY <1>1, <1>4, <1>5, <1>7 DEF Line
  <1>9. \A j : j \notin 1..0
    OBVIOUS
  <1>10. Frames(d)
    BY <1>4, <1>9 DEF Frames
  <1>11. QED
    BY <1>8, <1>10

LEMMA PrefillFlow == TypeInv /\ Sizes /\ PrefillEffect => Flowing'
  <1> SUFFICES ASSUME TypeInv, Sizes, PrefillEffect PROVE Flowing'
    OBVIOUS
  <1>1. Unstarted /\ UNCHANGED <<shape, chan, reply, dead, shared>>
    BY DEF Sizes, PrefillEffect
  <1>2. PICK e \in [1..N -> Nat] : \A k \in 1..N : e[k] = 0
    <2>1. [k \in 1..N |-> 0] \in [1..N -> Nat]
      OBVIOUS
    <2>2. QED
      BY <2>1
  <1>3. /\ shared.inflight = <<>> /\ shared.error = "" /\ shared.correction.pending = FALSE
        /\ \A i \in Slots : reply[i] = <<>> /\ shared.unread[i] = 0 /\ shared.ended[i] = FALSE
        /\ \A k \in 1..N : chan[k] = <<>>
        /\ dead = {}
    BY <1>1, SharedFields DEF Unstarted
  <1>4. sender'.pc \in {"wait", "end"}
    BY DEF PrefillEffect
  <1>5. Queue' = <<>> /\ Counted' = 0
    BY <1>1, <1>3, <1>4 DEF Queue, Counted
  <1>6. N' = N /\ Slots' = Slots /\ LastSlot' = LastSlot /\ shape' \in Shapes
    BY <1>1 DEF N, Slots, LastSlot, TypeInv
  <1>7. Line(e)' /\ Frames(e)'
    <2>1. Queue = <<>>
      BY <1>1, <1>3 DEF Unstarted, Queue
    <2>2. Line(e) /\ Frames(e)
      BY <1>2, <1>3, <2>1, EmptyLine DEF TypeInv
    <2>3. QED
      BY <1>1, <1>5, <2>1, <2>2, LineStays
  <1>8. 1 \in Slots /\ 1 \in 1..N /\ Len(<<>>) = 0
    BY FirstTypes
  <1>9. ASSUME NEW i \in DOMAIN relay'
        PROVE  i \in DOMAIN relay /\ i \in Slots /\ i + 1 \in Slots /\ i \in 1..N /\ i + 1 \in 1..N
               /\ relay'[i] \in {"wait", "end"} /\ (relay'[i] = "end" => sender'.pc = "end")
    BY RelayIndex DEF PrefillEffect
  <1>10. Counts'
    <2>1. shared'.unread[1] = 0 /\ shared'.inflight = <<>> /\ reply'[1] = <<>> /\ chan'[1] = <<>>
      BY <1>1, <1>3, <1>8
    <2>2. receiver'.pc # "read"
      BY DEF PrefillEffect
    <2>3. /\ shape'.ring => shared'.unread[1] = Len(shared'.inflight)
          /\ ~shape'.ring => shared'.unread[1] + Counted' = Len(reply'[1]) + Len(chan'[1])
      <3>1. 0 + 0 = 0 + 0
        OBVIOUS
      <3>2. QED
        BY <1>5, <1>8, <2>1, <3>1
    <2>4. ASSUME NEW i \in DOMAIN relay'
          PROVE  shared'.unread[i + 1] + (IF relay'[i] = "count" THEN 1 ELSE 0)
                   = Len(reply'[i + 1]) + Len(chan'[i + 1])
      <3>1. shared'.unread[i + 1] = 0 /\ reply'[i + 1] = <<>> /\ chan'[i + 1] = <<>>
            /\ relay'[i] # "count"
        BY <1>1, <1>3, <1>9
      <3>2. 0 + 0 = 0 + 0
        OBVIOUS
      <3>3. QED
        BY <1>8, <3>1, <3>2
    <2>5. QED
      BY <2>2, <2>3, <2>4 DEF Counts
  <1>11. Ends(e)'
    <2>1. ~shared'.ended[1]
      BY <1>1, <1>3, <1>8
    <2>2. ASSUME NEW i \in DOMAIN relay'
          PROVE  /\ ~shared'.ended[i + 1] /\ e[i] = Len(Queue') /\ reply'[i] = <<>>
                 /\ relay'[i] = "end" => sender'.pc = "end"
      BY <1>1, <1>2, <1>3, <1>5, <1>8, <1>9
    <2>3. receiver'.pc = "end" => sender'.pc = "end" /\ Queue' = <<>>
      BY <1>5 DEF PrefillEffect
    <2>4. QED
      BY <2>1, <2>2, <2>3 DEF Ends
  <1>12. Sound(e)'
    <2> SUFFICES ASSUME receiver'.pc # "end" PROVE (Epochs /\ Positions(e) /\ Accepting)'
      BY DEF Sound
    <2>1. /\ sender'.pc = "wait" /\ sender'.base = Len(Prompt) /\ receiver'.pc = "wait"
          /\ draft' = Len(Prompt) /\ shared'.correction.pending = FALSE
      BY <1>1, <1>3 DEF PrefillEffect
    <2>2. \A k \in 1..N' : /\ stage'[k].open /\ stage'[k].active = 1 /\ stage'[k].prompted
                           /\ stage'[k].kv = Prompt
      BY <1>6 DEF PrefillEffect
    <2>3. Len(Queue') = 0 /\ \A j : j \notin 1..0
      BY <1>5, <1>8
    <2>4. Accepting'
      BY <2>2 DEF Accepting
    <2>5. Epochs'
      BY <2>1, <2>3 DEF Epochs
    <2>6. NextBase' = Len(Prompt)
      BY <2>1 DEF NextBase
    <2>7. Base(0 + 1)' = Len(Prompt)
      BY <2>3, <2>6 DEF Base
    <2>8. \A k \in 1..N' : Base(e[k] + 1)' <= Len(stage'[k].kv)
      <3>1. TAKE k \in 1..N'
      <3>2. e[k] = 0 /\ stage'[k].kv = Prompt
        BY <1>2, <1>6, <2>2
      <3>3. Len(Prompt) \in Nat
        BY TextAssumption
      <3>4. QED
        BY <2>7, <3>2, <3>3
    <2>9. Positions(e)'
      BY <2>1, <2>3, <2>8 DEF Positions
    <2>10. QED
      BY <2>4, <2>5, <2>9
  <1>13. QED
    BY <1>1, <1>3, <1>6, <1>7, <1>10, <1>11, <1>12, FlowingNext

LEMMA SenderWaitFlow == TypeInv /\ Sizes /\ Flowing /\ SenderWaitEffect => Flowing'
  <1> SUFFICES ASSUME TypeInv, Sizes, Flowing, SenderWaitEffect, shared'.error = "" PROVE Flowing'
    BY FlowingFailed
  <1>1. /\ UNCHANGED <<shape, chan, reply, dead>> /\ shared.error = "" /\ sender.pc = "wait"
    BY DEF SenderWaitEffect
  <1>2. answer.pc # "idle"
    BY <1>1 DEF Sizes, Unstarted
  <1>3. PICK d \in [1..N -> Nat] : /\ Line(d) /\ Frames(d) /\ Counts /\ Ends(d) /\ Sound(d)
                                   /\ ~shape.faulty => dead = {}
    BY <1>1, <1>2, FlowingNow
  <1>4. Ends(d)' /\ Queue' = Queue
    BY <1>3, SenderWaitEnds
  <1>5. Line(d)' /\ Frames(d)'
    BY <1>1, <1>3, <1>4, LineStays
  <1>6. Counts'
    BY <1>3, SenderWaitCounts
  <1>7. Sound(d)'
    BY <1>3, <1>4, SenderWaitSound
  <1>8. N' = N
    BY <1>1 DEF N
  <1>9. QED
    BY <1>1, <1>3, <1>4, <1>5, <1>6, <1>7, <1>8, FlowingNext

LEMMA SenderSendFlow ==
    ASSUME TypeInv, Sizes, Flowing, NEW g, NEW f, SenderSendEffect(g, f)
    PROVE  Flowing'
  <1>1. CASE sender'.pc # "count"
    <2>1. shared'.error # ""
      BY <1>1 DEF SenderSendEffect
    <2>2. QED
      BY <2>1, FlowingFailed
  <1>2. CASE sender'.pc = "count"
    <2>1. UNCHANGED <<shape, shared, dead, answer>> /\ sender.pc = "send"
      BY <1>2 DEF SenderSendEffect
    <2>2. CASE shared.error # ""
      BY <2>1, <2>2, FlowingFailed
    <2>3. CASE shared.error = ""
      <3>1. answer.pc # "idle"
        BY <2>1 DEF Sizes, Unstarted
      <3>2. PICK d \in [1..N -> Nat] : /\ Line(d) /\ Frames(d) /\ Counts /\ Ends(d) /\ Sound(d)
                                       /\ ~shape.faulty => dead = {}
        BY <2>3, <3>1, FlowingNow
      <3>3. Line(d)' /\ Frames(d)'
        BY <1>2, <3>2, SendLine
      <3>4. Counts'
        BY <1>2, <3>2, SenderSendCounts
      <3>5. Ends(d)'
        BY <1>2, <3>2, SenderSendEnds
      <3>6. Sound(d)'
        BY <1>2, <3>2, SenderSendSound
      <3>7. N' = N
        BY <2>1 DEF N
      <3>8. QED
        BY <2>1, <3>2, <3>3, <3>4, <3>5, <3>6, <3>7, FlowingNext
    <2>4. QED
      BY <2>2, <2>3
  <1>3. QED
    BY <1>1, <1>2

LEMMA SenderCountFlow == TypeInv /\ Sizes /\ Flowing /\ SenderCountEffect => Flowing'
  <1> SUFFICES ASSUME TypeInv, Sizes, Flowing, SenderCountEffect, shared'.error = "" PROVE Flowing'
    BY FlowingFailed
  <1>1. /\ UNCHANGED <<shape, chan, reply, dead>> /\ shared.error = "" /\ sender.pc = "count"
    BY DEF SenderCountEffect
  <1>2. answer.pc # "idle"
    BY <1>1 DEF Sizes, Unstarted
  <1>3. PICK d \in [1..N -> Nat] : /\ Line(d) /\ Frames(d) /\ Counts /\ Ends(d) /\ Sound(d)
                                   /\ ~shape.faulty => dead = {}
    BY <1>1, <1>2, FlowingNow
  <1>4. Ends(d)' /\ Queue' = Queue
    BY <1>3, SenderCountEnds
  <1>5. Line(d)' /\ Frames(d)'
    BY <1>1, <1>3, <1>4, LineStays
  <1>6. Counts'
    BY <1>3, SenderCountCounts
  <1>7. Sound(d)'
    BY <1>3, <1>4, SenderCountSound
  <1>8. N' = N
    BY <1>1 DEF N
  <1>9. QED
    BY <1>1, <1>3, <1>4, <1>5, <1>6, <1>7, <1>8, FlowingNext

LEMMA StageStepFlow ==
    ASSUME TypeInv, Sizes, Flowing, NEW k \in 1..N, NEW f, NEW fails, NEW r, NEW g,
           StageEffect(k, f, fails, r, g)
    PROVE  Flowing'
  <1>1. UNCHANGED <<shape, shared, answer>>
    BY DEF StageEffect
  <1>2. CASE shared.error # ""
    BY <1>1, <1>2, FlowingFailed
  <1>3. CASE shared.error = ""
    <2>1. answer.pc # "idle"
      BY DEF Sizes, Unstarted, StageEffect
    <2>2. PICK d \in [1..N -> Nat] : /\ Line(d) /\ Frames(d) /\ Counts /\ Ends(d) /\ Sound(d)
                                     /\ ~shape.faulty => dead = {}
      BY <1>3, <2>1, FlowingNow
    <2>3. ~shape.faulty => r.ok
      <3>1. ~shape.faulty => TookChunk(r, Queue[d[k] + 1])
        BY <2>2, StageStepOk
      <3>2. QED
        BY <3>1 DEF TookChunk
    <2>4. r.ok \/ shape.faulty
      BY <2>3
    <2>5. PICK e \in [1..N -> Nat] : e[k] = d[k] + 1 /\ \A m \in 1..N : m # k => e[m] = d[m]
      <3>1. [d EXCEPT ![k] = d[k] + 1] \in [1..N -> Nat]
        OBVIOUS
      <3>2. /\ [d EXCEPT ![k] = d[k] + 1][k] = d[k] + 1
            /\ \A m \in 1..N : m # k => [d EXCEPT ![k] = d[k] + 1][m] = d[m]
        OBVIOUS
      <3>3. QED
        BY <3>1, <3>2
    <2>6. /\ Queue' = Queue /\ d[k] + 1 \in 1..Len(Queue)
          /\ Line(e)' /\ Frames(e)'
      BY <2>2, <2>4, <2>5, StageLine
    <2>7. Counts'
      <3>1. g \in FrameSet
        <4>1. f \in FrameSet
          BY StageMoves
        <4>2. r = Ran(k, f, fails) /\ g = Made(k, f, r) /\ fails \in BOOLEAN
          BY DEF StageEffect
        <4>3. r.why \in Reasons
          BY <4>1, <4>2, RanType
        <4>4. Made(k, f, r) \in FrameSet
          BY <4>1, <4>3, MadeType
        <4>5. QED
          BY <4>2, <4>4
      <3>2. QED
        BY <2>2, <3>1, StageStepCounts
    <2>8. Ends(e)'
      BY <2>2, <2>5, <2>6, StageStepEnds
    <2>9. Sound(e)'
      BY <2>2, <2>5, <2>6, StageStepSound
    <2>10. ~shape'.faulty => dead' = {}
      BY <1>1, <2>2, <2>3 DEF StageEffect
    <2>11. N' = N
      BY <1>1 DEF N
    <2>12. QED
      BY <2>5, <2>6, <2>7, <2>8, <2>9, <2>10, <2>11, FlowingNext
  <1>4. QED
    BY <1>2, <1>3

LEMMA RelayWaitFlow ==
    ASSUME TypeInv, Sizes, Flowing, NEW i \in DOMAIN relay, RelayWaitEffect(i)
    PROVE  Flowing'
  <1> SUFFICES ASSUME shared'.error = "" PROVE Flowing'
    BY FlowingFailed
  <1>1. /\ UNCHANGED <<shape, stage, chan, reply, dead, sender, receiver, draft>>
        /\ shared.error = "" /\ relay[i] = "wait"
        /\ shared'.epoch = shared.epoch /\ shared'.correction = shared.correction
    BY DEF RelayWaitEffect
  <1>2. answer.pc # "idle"
    BY <1>1 DEF Sizes, Unstarted
  <1>3. PICK d \in [1..N -> Nat] : /\ Line(d) /\ Frames(d) /\ Counts /\ Ends(d) /\ Sound(d)
                                   /\ ~shape.faulty => dead = {}
    BY <1>1, <1>2, FlowingNow
  <1>4. Ends(d)' /\ Queue' = Queue
    BY <1>1, <1>3, RelayWaitEnds
  <1>5. Line(d)' /\ Frames(d)'
    BY <1>1, <1>3, <1>4, LineStays
  <1>6. Counts'
    BY <1>3, RelayWaitCounts
  <1>7. Sound(d)'
    BY <1>1, <1>3, <1>4, OthersSound
  <1>8. N' = N
    BY <1>1 DEF N
  <1>9. QED
    BY <1>1, <1>3, <1>4, <1>5, <1>6, <1>7, <1>8, FlowingNext

LEMMA RelayForwardFlow ==
    ASSUME TypeInv, Sizes, Flowing, NEW i \in DOMAIN relay, NEW f, RelayForwardEffect(i, f)
    PROVE  Flowing'
  <1>1. CASE f.type # "speculative"
    <2>1. shared'.error # ""
      BY <1>1 DEF RelayForwardEffect
    <2>2. QED
      BY <2>1, FlowingFailed
  <1>2. CASE f.type = "speculative"
    <2> SUFFICES ASSUME shared'.error = "" PROVE Flowing'
      BY FlowingFailed
    <2>1. /\ UNCHANGED <<shape, stage, dead, sender, receiver, draft>>
          /\ shared.error = "" /\ relay[i] = "read"
          /\ shared'.epoch = shared.epoch /\ shared'.correction = shared.correction
      BY <1>2 DEF RelayForwardEffect
    <2>2. answer.pc # "idle"
      BY <2>1 DEF Sizes, Unstarted
    <2>3. PICK d \in [1..N -> Nat] : /\ Line(d) /\ Frames(d) /\ Counts /\ Ends(d) /\ Sound(d)
                                     /\ ~shape.faulty => dead = {}
      BY <2>1, <2>2, FlowingNow
    <2>4. Queue' = Queue /\ Line(d)' /\ Frames(d)'
      BY <1>2, <2>3, ForwardLine
    <2>5. Ends(d)'
      BY <1>2, <2>3, <2>4, RelayForwardEnds
    <2>6. Counts'
      BY <1>2, <2>3, RelayForwardCounts
    <2>7. Sound(d)'
      BY <2>1, <2>3, <2>4, OthersSound
    <2>8. N' = N
      BY <2>1 DEF N
    <2>9. QED
      BY <2>1, <2>3, <2>4, <2>5, <2>6, <2>7, <2>8, FlowingNext
  <1>3. QED
    BY <1>1, <1>2

LEMMA RelayCountFlow ==
    ASSUME TypeInv, Sizes, Flowing, NEW i \in DOMAIN relay, RelayCountEffect(i)
    PROVE  Flowing'
  <1> SUFFICES ASSUME shared'.error = "" PROVE Flowing'
    BY FlowingFailed
  <1>1. /\ UNCHANGED <<shape, stage, chan, reply, dead, sender, receiver, draft>>
        /\ shared.error = "" /\ relay[i] = "count"
        /\ shared'.epoch = shared.epoch /\ shared'.correction = shared.correction
    BY DEF RelayCountEffect
  <1>2. answer.pc # "idle"
    BY <1>1 DEF Sizes, Unstarted
  <1>3. PICK d \in [1..N -> Nat] : /\ Line(d) /\ Frames(d) /\ Counts /\ Ends(d) /\ Sound(d)
                                   /\ ~shape.faulty => dead = {}
    BY <1>1, <1>2, FlowingNow
  <1>4. Ends(d)' /\ Queue' = Queue
    BY <1>3, RelayCountEnds
  <1>5. Line(d)' /\ Frames(d)'
    BY <1>1, <1>3, <1>4, LineStays
  <1>6. Counts'
    BY <1>3, RelayCountCounts
  <1>7. Sound(d)'
    BY <1>1, <1>3, <1>4, OthersSound
  <1>8. N' = N
    BY <1>1 DEF N
  <1>9. QED
    BY <1>1, <1>3, <1>4, <1>5, <1>6, <1>7, <1>8, FlowingNext

LEMMA ReceiverWaitFlow == TypeInv /\ Sizes /\ Flowing /\ ReceiverWait => Flowing'
  <1> SUFFICES ASSUME TypeInv, Sizes, Flowing, ReceiverWait, shared'.error = "" PROVE Flowing'
    BY FlowingFailed
  <1>1. /\ UNCHANGED <<shape, stage, chan, reply, dead, sender, draft, shared>>
        /\ shared.error = "" /\ receiver.pc = "wait"
        /\ receiver'.pc \in {"read", "end"}
    BY DEF ReceiverWait, TypeInv, ReceiverSet
  <1>2. answer.pc # "idle"
    BY <1>1 DEF Sizes, Unstarted
  <1>3. PICK d \in [1..N -> Nat] : /\ Line(d) /\ Frames(d) /\ Counts /\ Ends(d) /\ Sound(d)
                                   /\ ~shape.faulty => dead = {}
    BY <1>1, <1>2, FlowingNow
  <1>4. Ends(d)' /\ Queue' = Queue
    BY <1>1, <1>3, ReceiverWaitEnds
  <1>5. Line(d)' /\ Frames(d)'
    BY <1>1, <1>3, <1>4, LineStays
  <1>6. Counts'
    BY <1>3, ReceiverWaitCounts
  <1>7. Sound(d)'
    BY <1>1, <1>3, <1>4, OthersSound
  <1>8. N' = N
    BY <1>1 DEF N
  <1>9. QED
    BY <1>1, <1>3, <1>4, <1>5, <1>6, <1>7, <1>8, FlowingNext

LEMMA Predecessor == \A a \in Nat : a >= 1 => a - 1 \in Nat
  OBVIOUS

LEMMA ReceiverReadFlow ==
    ASSUME TypeInv, Sizes, Flowing, NEW f, NEW c, ReceiverReadEffect(f, c)
    PROVE  Flowing'
  <1> SUFFICES ASSUME shared'.error = "" PROVE Flowing'
    BY FlowingFailed
  <1>1. /\ UNCHANGED <<shape, stage, chan, dead, sender, draft>> /\ receiver.pc = "read"
        /\ shared.error = "" /\ receiver'.pc = "apply" /\ shared'.inflight = Tail(shared.inflight)
        /\ shared.inflight # <<>> /\ c = Head(shared.inflight) /\ shared'.ended = shared.ended
    BY DEF ReceiverReadEffect
  <1>2. answer.pc # "idle"
    BY <1>1 DEF Sizes, Unstarted
  <1>3. PICK d \in [1..N -> Nat] : /\ Line(d) /\ Frames(d) /\ Counts /\ Ends(d) /\ Sound(d)
                                   /\ ~shape.faulty => dead = {}
    BY <1>1, <1>2, FlowingNow
  <1>4. Head(shared.inflight) = Queue[1] /\ \A m \in 1..N : d[m] >= 1
    BY <1>3, ReadPairs
  <1>5. PICK e \in [1..N -> Nat] : \A m \in 1..N : e[m] = d[m] - 1 /\ d[m] >= 1
    <2>1. \A m \in 1..N : d[m] - 1 \in Nat
      <3>1. TAKE m \in 1..N
      <3>2. d[m] \in Nat /\ d[m] >= 1
        BY <1>4
      <3>3. QED
        BY <3>2, Predecessor
    <2>2. [m \in 1..N |-> d[m] - 1] \in [1..N -> Nat]
      BY <2>1
    <2>3. QED
      BY <1>4, <2>2
  <1>6. Line(e)' /\ Frames(e)'
    BY <1>1, <1>3, <1>5, ReadLine
  <1>7. Counts'
    BY <1>1, <1>3, ReceiverReadCounts
  <1>8. Ends(e)'
    BY <1>1, <1>3, <1>5, ReceiverReadEnds
  <1>9. Sound(e)'
    <2>1. c = Queue[1]
      BY <1>1, <1>4
    <2>2. QED
      BY <1>1, <1>3, <1>4, <1>5, <2>1, ReceiverReadSound
  <1>10. N' = N
    BY <1>1 DEF N
  <1>11. QED
    BY <1>1, <1>3, <1>5, <1>6, <1>7, <1>8, <1>9, <1>10, FlowingNext

LEMMA ReceiverApplyFlow ==
    ASSUME TypeInv, Sizes, Flowing, ReceiverApplyEffect, shared'.correction.pos \in Nat
    PROVE  Flowing'
  <1> SUFFICES ASSUME shared'.error = "" PROVE Flowing'
    BY FlowingFailed
  <1>1. /\ UNCHANGED <<shape, chan, reply, dead>> /\ shared.error = "" /\ receiver.pc = "apply"
    BY DEF ReceiverApplyEffect
  <1>2. answer.pc # "idle"
    BY <1>1 DEF Sizes, Unstarted
  <1>3. PICK d \in [1..N -> Nat] : /\ Line(d) /\ Frames(d) /\ Counts /\ Ends(d) /\ Sound(d)
                                   /\ ~shape.faulty => dead = {}
    BY <1>1, <1>2, FlowingNow
  <1>4. Ends(d)' /\ Queue' = Queue
    BY <1>3, ReceiverApplyEnds
  <1>5. Line(d)' /\ Frames(d)'
    BY <1>1, <1>3, <1>4, LineStays
  <1>6. Counts'
    BY <1>3, ReceiverApplyCounts
  <1>7. Sound(d)'
    BY <1>3, <1>4, ReceiverApplySound
  <1>8. N' = N
    BY <1>1 DEF N
  <1>9. QED
    BY <1>1, <1>3, <1>4, <1>5, <1>6, <1>7, <1>8, FlowingNext

LEMMA FinishFlow == TypeInv /\ Flowing /\ FinishEffect => Flowing'
  <1> SUFFICES ASSUME TypeInv, Flowing, FinishEffect, shared'.error = "" PROVE Flowing'
    BY FlowingFailed
  <1>1. /\ UNCHANGED <<shape, chan, reply, dead, shared, sender, relay, receiver>>
        /\ shared.error = "" /\ answer.pc # "idle" /\ receiver'.pc = "end"
    BY DEF FinishEffect, Joined
  <1>2. PICK d \in [1..N -> Nat] : /\ Line(d) /\ Frames(d) /\ Counts /\ Ends(d)
                                   /\ ~shape.faulty => dead = {}
    BY <1>1, FlowingNow
  <1>3. Queue' = Queue
    BY <1>1 DEF Queue, Uncounted
  <1>4. Line(d)' /\ Frames(d)'
    BY <1>1, <1>2, <1>3, LineStays
  <1>5. Counts'
    <2>1. Counted' = Counted
      BY <1>1 DEF Counted
    <2>2. receiver'.pc # "read"
      BY <1>1
    <2>3. QED
      BY <1>1, <1>2, <2>1, <2>2, CountsStay
  <1>6. Ends(d)'
    BY <1>1, <1>2, <1>3, EndsKept
  <1>7. Sound(d)'
    BY <1>1 DEF Sound
  <1>8. N' = N
    BY <1>1 DEF N
  <1>9. QED
    BY <1>1, <1>2, <1>4, <1>5, <1>6, <1>7, <1>8, FlowingNext

-----------------------------------------------------------------------------
(* Failures have causes.                                                   *)

LEMMA CausesKept ==
    ASSUME Causes, UNCHANGED shape, shared'.error = shared.error,
           sender.pc = "end" => sender'.pc = "end" /\ draft' = draft,
           answer'.pc = "done" => answer.pc = "done", Joined => Joined'
    PROVE  Causes'
  BY DEF Causes, DraftFits

LEMMA SenderSendCauses ==
    ASSUME TypeInv, Sizes, Flowing, Causes, NEW g, NEW f, SenderSendEffect(g, f)
    PROVE  Causes'
  <1>1. UNCHANGED <<shape, answer>> /\ sender.pc = "send" /\ ~Joined
    BY DEF SenderSendEffect, Joined
  <1>2. CASE sender'.pc = "count"
    <2>1. shared' = shared /\ sender.pc # "end"
      BY <1>1, <1>2 DEF SenderSendEffect
    <2>2. QED
      BY <1>1, <2>1, CausesKept
  <1>3. CASE sender'.pc # "count"
    <2>1. /\ 1 \in dead \/ ~DraftFits
          /\ sender'.pc = "end" /\ draft' = draft
          /\ shared'.error = (IF shared.error = "" THEN "sender" ELSE shared.error)
      BY <1>3 DEF SenderSendEffect
    <2>2. answer.pc # "idle" /\ answer'.pc # "done"
      BY <1>1 DEF Sizes, Unstarted, Causes
    <2>3. ASSUME ~shape.faulty PROVE shared'.error = "sender" /\ ~DraftFits
      <3>1. shared.error = ""
        BY <1>1, <2>3 DEF Causes
      <3>2. dead = {}
        BY <2>2, <2>3, <3>1, FlowingNow
      <3>3. QED
        BY <2>1, <3>1, <3>2
    <2>4. shared'.error \in {"stage", "relay", "sender"}
      BY <2>1 DEF Causes
    <2>5. DraftFits' = DraftFits
      BY <1>1, <2>1 DEF DraftFits
    <2>6. QED
      BY <1>1, <2>1, <2>2, <2>3, <2>4, <2>5 DEF Causes
  <1>4. QED
    BY <1>2, <1>3

LEMMA RelayForwardCauses ==
    ASSUME TypeInv, Sizes, Flowing, Causes, NEW i \in DOMAIN relay, NEW f, RelayForwardEffect(i, f)
    PROVE  Causes'
  <1>1. UNCHANGED <<shape, sender, draft, answer>> /\ relay[i] = "read" /\ ~Joined
    BY DEF RelayForwardEffect, Joined
  <1>2. CASE f.type = "speculative"
    <2>1. shared'.error = shared.error
      BY <1>2 DEF RelayForwardEffect
    <2>2. QED
      BY <1>1, <2>1, CausesKept
  <1>3. CASE f.type # "speculative"
    <2>1. shared'.error = (IF shared.error = "" THEN "relay" ELSE shared.error)
      BY <1>3 DEF RelayForwardEffect
    <2>2. CASE shared.error # ""
      BY <1>1, <2>1, <2>2, CausesKept
    <2>3. CASE shared.error = ""
      <3>1. answer.pc # "idle" /\ answer'.pc # "done"
        BY <1>1 DEF Sizes, Unstarted, Causes
      <3>2. PICK d \in [1..N -> Nat] : Line(d) /\ Frames(d)
        BY <2>3, <3>1, FlowingNow
      <3>3. i \in 1..N - 1 /\ i \in 1..N /\ N \in Nat /\ i \in Slots
        BY RelayIndex, ShapeFacts DEF TypeInv
      <3>4. Leaving(i) = reply[i] /\ reply[i] # <<>> /\ f = Head(reply[i])
            /\ reply[i] \in Seq(FrameSet)
        BY <3>3, RelayTypes DEF RelayForwardEffect, TypeInv
      <3>5. PICK q \in Seq(FrameSet) : q = reply[i]
        BY <3>4
      <3>6. q # <<>> => 1 \in 1..Len(q) /\ Head(q) = q[1]
        BY EmptySeq
      <3>7. PICK c : Departing(i, f, c)
        <4>1. 1 \in 1..Len(Leaving(i)) /\ f = Leaving(i)[1]
          BY <3>4, <3>5, <3>6
        <4>2. Departing(i, Leaving(i)[1], Queue[d[i] - Len(Leaving(i)) + 1])
          BY <3>2, <3>3, <4>1 DEF Frames
        <4>3. QED
          BY <4>1, <4>2
      <3>8. i # N
        BY <3>3
      <3>9. shape.faulty
        BY <1>3, <3>7, <3>8 DEF Departing, Carries
      <3>10. QED
        BY <1>1, <2>1, <2>3, <3>1, <3>9 DEF Causes
    <2>4. QED
      BY <2>2, <2>3
  <1>4. QED
    BY <1>2, <1>3

LEMMA ReceiverReadCauses ==
    ASSUME TypeInv, Sizes, Flowing, Causes, NEW f, NEW c, ReceiverReadEffect(f, c)
    PROVE  Causes'
  <1>1. UNCHANGED <<shape, sender, draft, answer>> /\ receiver.pc = "read" /\ ~Joined
    BY DEF ReceiverReadEffect, Joined
  <1>2. CASE shared'.error = shared.error
    BY <1>1, <1>2, CausesKept
  <1>3. CASE shared'.error # shared.error
    <2>1. shared.error = ""
      BY <1>3 DEF ReceiverReadEffect
    <2>2. answer.pc # "idle" /\ answer'.pc # "done"
      BY <1>1 DEF Sizes, Unstarted, Causes
    <2>3. PICK d \in [1..N -> Nat] : Line(d) /\ Frames(d) /\ Counts
      BY <2>1, <2>2, FlowingNow
    <2>4. shared.inflight # <<>> /\ Departing(N, f, Queue[1]) /\ Head(shared.inflight) = Queue[1]
      BY <2>3, ReadPairs
    <2>5. PICK q : q = Queue[1]
      OBVIOUS
    <2>6. Departing(N, f, q) /\ Head(shared.inflight) = q
      BY <2>4, <2>5
    <2>7. /\ ~(f.type = "result" /\ f.pos = q.base + Len(q.guesses) /\ Len(f.toks) = Len(q.guesses))
          /\ shared'.error = (IF f.type = "error" THEN "stage" ELSE "invalid")
      BY <1>3, <2>1, <2>4, <2>6 DEF ReceiverReadEffect
    <2>8. ~(N < N)
      BY ShapeFacts DEF TypeInv
    <2>9. f.type = "error" /\ shape.faulty
      BY <2>6, <2>7, <2>8 DEF Departing
    <2>10. QED
      BY <1>1, <2>2, <2>7, <2>9 DEF Causes
  <1>4. QED
    BY <1>2, <1>3

-----------------------------------------------------------------------------
(* The invariant.                                                          *)

LEMMA InitInv == Init => IInv
  <1> SUFFICES ASSUME Init PROVE IInv
    OBVIOUS
  <1>1. TypeInv /\ Sizes
    BY InitType, InitSizes
  <1>2. shared.error = "" /\ answer.pc = "idle"
    BY DEF Init, NoAnswer
  <1>3. QED
    BY <1>1, <1>2 DEF IInv, Causes, Flowing

LEMMA PrefillInv == IInv /\ Prefill => IInv'
  <1> SUFFICES ASSUME IInv, Prefill PROVE IInv'
    OBVIOUS
  <1>1. TypeInv /\ Sizes /\ PrefillEffect
    BY PrefillDoes DEF IInv
  <1>2. TypeInv' /\ Sizes' /\ Flowing'
    BY <1>1, PrefillType, PrefillSizes, PrefillFlow
  <1>3. shared'.error = "" /\ answer'.pc # "done"
    BY <1>1 DEF PrefillEffect, Sizes, Unstarted
  <1>4. QED
    BY <1>2, <1>3 DEF IInv, Causes

LEMMA SenderWaitInv == IInv /\ SenderWait => IInv'
  <1> SUFFICES ASSUME IInv, SenderWait PROVE IInv'
    OBVIOUS
  <1>1. TypeInv /\ Sizes /\ Flowing /\ Causes /\ SenderWaitEffect
    BY SenderWaitDoes DEF IInv
  <1>2. TypeInv' /\ Sizes' /\ Flowing'
    BY <1>1, SenderWaitType, SenderWaitSizes, SenderWaitFlow
  <1>3. Causes'
    <2>1. /\ UNCHANGED <<shape, answer>> /\ shared'.error = shared.error /\ sender.pc # "end" /\ ~Joined
      BY <1>1 DEF SenderWaitEffect, Joined
    <2>2. QED
      BY <1>1, <2>1, CausesKept
  <1>4. QED
    BY <1>2, <1>3 DEF IInv

LEMMA SenderSendInv == IInv /\ SenderSend => IInv'
  <1> SUFFICES ASSUME IInv, SenderSend PROVE IInv'
    OBVIOUS
  <1>1. TypeInv /\ Sizes /\ Flowing /\ Causes
    BY DEF IInv
  <1>2. PICK g, f : SenderSendEffect(g, f)
    BY <1>1, SenderSendDoes
  <1>3. QED
    BY <1>1, <1>2, SenderSendType, SenderSendSizes, SenderSendFlow, SenderSendCauses DEF IInv

LEMMA SenderCountInv == IInv /\ SenderCount => IInv'
  <1> SUFFICES ASSUME IInv, SenderCount PROVE IInv'
    OBVIOUS
  <1>1. TypeInv /\ Sizes /\ Flowing /\ Causes /\ SenderCountEffect
    BY SenderCountDoes DEF IInv
  <1>2. TypeInv' /\ Sizes' /\ Flowing'
    BY <1>1, SenderCountType, SenderCountSizes, SenderCountFlow
  <1>3. Causes'
    <2>1. /\ UNCHANGED <<shape, answer>> /\ shared'.error = shared.error /\ sender.pc # "end" /\ ~Joined
      BY <1>1 DEF SenderCountEffect, Joined
    <2>2. QED
      BY <1>1, <2>1, CausesKept
  <1>4. QED
    BY <1>2, <1>3 DEF IInv

LEMMA StageStepInv == ASSUME NEW k \in 1..N PROVE IInv /\ StageStep(k) => IInv'
  <1> SUFFICES ASSUME IInv, StageStep(k) PROVE IInv'
    OBVIOUS
  <1>1. TypeInv /\ Sizes /\ Flowing /\ Causes /\ shape \in Shapes
    BY DEF IInv, TypeInv
  <1>2. PICK f, fails, r, g : StageEffect(k, f, fails, r, g)
    BY <1>1, StageStepEffect
  <1>3. TypeInv'
    BY <1>1, StageStepType
  <1>4. Sizes' /\ Flowing'
    BY <1>1, <1>2, StageStepSizes, StageStepFlow
  <1>5. Causes'
    <2>1. UNCHANGED <<shape, answer, shared, sender, relay, receiver, draft>>
      BY <1>2 DEF StageEffect
    <2>2. Joined => Joined'
      BY <2>1 DEF Joined
    <2>3. QED
      BY <1>1, <2>1, <2>2, CausesKept
  <1>6. QED
    BY <1>3, <1>4, <1>5 DEF IInv

LEMMA RelayInv ==
    ASSUME NEW i \in DOMAIN relay, IInv, RelayWait(i) \/ RelayForward(i) \/ RelayCount(i)
    PROVE  IInv'
  <1>1. TypeInv /\ Sizes /\ Flowing /\ Causes
    BY DEF IInv
  <1>2. CASE RelayWait(i)
    <2>1. RelayWaitEffect(i)
      BY <1>1, <1>2, RelayWaitDoes
    <2>2. TypeInv' /\ Sizes' /\ Flowing'
      BY <1>1, <1>2, <2>1, RelayWaitType, RelayWaitSizes, RelayWaitFlow
    <2>3. /\ UNCHANGED <<shape, answer, sender, draft>> /\ shared'.error = shared.error /\ ~Joined
      BY <2>1 DEF RelayWaitEffect, Joined
    <2>4. Causes'
      BY <1>1, <2>3, CausesKept
    <2>5. QED
      BY <2>2, <2>4 DEF IInv
  <1>3. CASE RelayForward(i)
    <2>1. PICK f : RelayForwardEffect(i, f)
      BY <1>1, <1>3, RelayForwardDoes
    <2>2. TypeInv' /\ Sizes'
      BY <1>1, <1>3, <2>1, RelayForwardType, RelayForwardSizes
    <2>3. Flowing' /\ Causes'
      BY <1>1, <2>1, RelayForwardFlow, RelayForwardCauses
    <2>4. QED
      BY <2>2, <2>3 DEF IInv
  <1>4. CASE RelayCount(i)
    <2>1. RelayCountEffect(i)
      BY <1>1, <1>4, RelayCountDoes
    <2>2. TypeInv' /\ Sizes' /\ Flowing'
      BY <1>1, <1>4, <2>1, RelayCountType, RelayCountSizes, RelayCountFlow
    <2>3. /\ UNCHANGED <<shape, answer, sender, draft>> /\ shared'.error = shared.error /\ ~Joined
      BY <2>1 DEF RelayCountEffect, Joined
    <2>4. Causes'
      BY <1>1, <2>3, CausesKept
    <2>5. QED
      BY <2>2, <2>4 DEF IInv
  <1>5. QED
    BY <1>2, <1>3, <1>4

LEMMA ReceiverInv == IInv /\ (ReceiverWait \/ ReceiverRead \/ ReceiverApply) => IInv'
  <1> SUFFICES ASSUME IInv, ReceiverWait \/ ReceiverRead \/ ReceiverApply PROVE IInv'
    OBVIOUS
  <1>1. TypeInv /\ Sizes /\ Flowing /\ Causes
    BY DEF IInv
  <1>2. CASE ReceiverWait
    <2>1. TypeInv' /\ Sizes' /\ Flowing'
      BY <1>1, <1>2, ReceiverWaitType, ReceiverWaitSizes, ReceiverWaitFlow
    <2>2. UNCHANGED <<shape, answer, sender, draft, shared>> /\ ~Joined
      BY <1>2 DEF ReceiverWait, Joined
    <2>3. Causes'
      BY <1>1, <2>2, CausesKept
    <2>4. QED
      BY <2>1, <2>3 DEF IInv
  <1>3. CASE ReceiverRead
    <2>1. PICK f, c : ReceiverReadEffect(f, c)
      BY <1>1, <1>3, ReceiverReadDoes
    <2>2. TypeInv' /\ Sizes'
      BY <1>1, <1>3, <2>1, ReceiverReadType, ReceiverReadSizes
    <2>3. Flowing' /\ Causes'
      BY <1>1, <2>1, ReceiverReadFlow, ReceiverReadCauses
    <2>4. QED
      BY <2>2, <2>3 DEF IInv
  <1>4. CASE ReceiverApply
    <2>1. ReceiverApplyEffect
      BY <1>1, <1>4, ReceiverApplyDoes
    <2>2. TypeInv' /\ Sizes'
      BY <1>1, <1>4, <2>1, ReceiverApplyType, ReceiverApplySizes
    <2>3. shared'.correction.pos \in Nat
      BY <2>2 DEF TypeInv, SharedSet, CorrectionSet
    <2>4. Flowing'
      BY <1>1, <2>1, <2>3, ReceiverApplyFlow
    <2>5. /\ UNCHANGED <<shape, sender, draft>> /\ answer'.pc = answer.pc
          /\ shared'.error = shared.error /\ ~Joined
      BY <2>1 DEF ReceiverApplyEffect, Joined
    <2>6. Causes'
      BY <1>1, <2>5, CausesKept
    <2>7. QED
      BY <2>2, <2>4, <2>6 DEF IInv
  <1>5. QED
    BY <1>2, <1>3, <1>4

LEMMA FinishInv == IInv /\ Finish => IInv'
  <1> SUFFICES ASSUME IInv, Finish PROVE IInv'
    OBVIOUS
  <1>1. TypeInv /\ Sizes /\ Flowing /\ Causes /\ FinishEffect
    BY FinishDoes DEF IInv
  <1>2. TypeInv' /\ Sizes' /\ Flowing'
    BY <1>1, FinishType, FinishSizes, FinishFlow
  <1>3. Causes'
    <2>1. /\ UNCHANGED <<shape, shared, sender, relay, receiver, draft>> /\ Joined
          /\ answer'.pc = "done" => shared.error = ""
      BY <1>1 DEF FinishEffect
    <2>2. Joined' /\ DraftFits' = DraftFits
      BY <2>1 DEF Joined, DraftFits
    <2>3. QED
      BY <1>1, <2>1, <2>2 DEF Causes
  <1>4. QED
    BY <1>2, <1>3 DEF IInv

LEMMA StutterInv == IInv /\ UNCHANGED vars => IInv'
  <1> SUFFICES ASSUME IInv, UNCHANGED vars PROVE IInv'
    OBVIOUS
  <1>1. UNCHANGED <<shape, stage, chan, reply, dead, shared, sender, relay, receiver, draft, answer>>
    BY DEF vars
  <1>2. N' = N /\ Slots' = Slots /\ LastSlot' = LastSlot
    BY <1>1 DEF N, Slots, LastSlot
  <1>3. TypeInv'
    BY <1>1, <1>2 DEF IInv, TypeInv
  <1>4. Sizes'
    BY <1>1, <1>2 DEF IInv, Sizes, Unstarted
  <1>5. Causes'
    BY <1>1 DEF IInv, Causes, DraftFits, Joined
  <1>6. Flowing'
    <2> SUFFICES ASSUME shared'.error = "", answer'.pc # "idle" PROVE Flowing'
      BY DEF Flowing
    <2>1. Flowing /\ shared.error = "" /\ answer.pc # "idle"
      BY <1>1 DEF IInv
    <2>2. PICK d \in [1..N -> Nat] : /\ Line(d) /\ Frames(d) /\ Counts /\ Ends(d) /\ Sound(d)
                                     /\ ~shape.faulty => dead = {}
      BY <2>1, FlowingNow
    <2>3. Queue' = Queue /\ Counted' = Counted
      BY <1>1 DEF Queue, Uncounted, Counted
    <2>4. Line(d)' /\ Frames(d)'
      BY <1>1, <2>2, <2>3, LineStays
    <2>5. Counts'
      BY <1>1, <1>2, <2>2 DEF Counts, Counted
    <2>6. Ends(d)'
      BY <1>1, <2>2, <2>3, EndsKept
    <2>7. Sound(d)'
      BY <1>1, <2>2, <2>3, OthersSound
    <2>8. QED
      BY <1>1, <1>2, <2>2, <2>4, <2>5, <2>6, <2>7, FlowingNext
  <1>7. QED
    BY <1>3, <1>4, <1>5, <1>6 DEF IInv

LEMMA NextInv == IInv /\ [Next]_vars => IInv'
  BY PrefillInv, SenderWaitInv, SenderSendInv, SenderCountInv, StageStepInv, RelayInv, ReceiverInv,
     FinishInv, StutterInv DEF Next

LEMMA InvPaired == IInv => Paired
  <1> SUFFICES ASSUME IInv PROVE Paired
    OBVIOUS
  <1>1. TypeInv /\ Sizes /\ Flowing /\ Causes
    BY DEF IInv
  <1>2. shared.error # "" =>
          shared.error \in {"stage", "relay", "sender"} /\ (shape.faulty \/ ~DraftFits)
    BY <1>1 DEF Causes
  <1>3. ASSUME answer.pc = "done"
        PROVE  /\ \A k \in 1..N : chan[k] = <<>>
               /\ \A i \in Slots : reply[i] = <<>>
               /\ shared.inflight = <<>>
    <2>1. shared.error = "" /\ receiver.pc = "end" /\ answer.pc # "idle"
      BY <1>1, <1>3 DEF Causes, Joined
    <2>2. PICK d \in [1..N -> Nat] : Line(d) /\ Ends(d)
      BY <1>1, <2>1, FlowingNow
    <2>3. sender.pc = "end" /\ Queue = <<>>
      BY <2>1, <2>2 DEF Ends
    <2>4. shared.inflight = <<>>
      BY <2>3 DEF Queue
    <2>5. Len(Queue) = 0
      BY <2>3, EmptySeq
    <2>6. ASSUME NEW k \in 1..N PROVE chan[k] = <<>> /\ Leaving(k) = <<>>
      <3>1. /\ d[k] \in Nat /\ d[k] + Len(chan[k]) <= Len(Queue) /\ Len(Leaving(k)) <= d[k]
            /\ Len(chan[k]) \in Nat /\ Len(Leaving(k)) \in Nat
        BY <1>1, <2>2, Bounds, LineTypes
      <3>2. Len(chan[k]) = 0 /\ Len(Leaving(k)) = 0
        BY <2>5, <3>1
      <3>3. chan[k] \in Seq(FrameSet) /\ Leaving(k) \in Seq(FrameSet)
        BY <1>1, LineTypes
      <3>4. QED
        BY <3>2, <3>3, EmptySeq
    <2>7. ASSUME NEW i \in Slots PROVE reply[i] = <<>>
      <3>1. /\ N \in 1..N /\ (shape.ring => Slots = 1..1) /\ (~shape.ring => Slots = 1..N)
        BY <1>1, ShapeFacts DEF TypeInv
      <3>2. CASE shape.ring
        <4>1. i = 1 /\ Leaving(N) = reply[1]
          BY <3>1, <3>2 DEF Leaving
        <4>2. QED
          BY <2>6, <3>1, <4>1
      <3>3. CASE ~shape.ring
        <4>1. i \in 1..N /\ Leaving(i) = reply[i]
          BY <3>1, <3>3 DEF Leaving
        <4>2. QED
          BY <2>6, <4>1
      <3>4. QED
        BY <3>2, <3>3
    <2>8. QED
      BY <2>4, <2>6, <2>7
  <1>4. QED
    BY <1>2, <1>3 DEF Paired

(* The inductive invariant holds of pipelined speculation. *)
THEOREM PipelineInvariant == Spec => []IInv
  BY InitInv, NextInv, PTL DEF Spec

(* Whatever the number of stages, the depth, the width and the timing of   *)
(* the threads, every reply the receiver reads belongs to the oldest chunk *)
(* in flight, a request fails only when a stage did or the draft has run   *)
(* out of context, and after a good end no connection holds anything.      *)
THEOREM PipelinePaired == Spec => []Paired
  BY PipelineInvariant, InvPaired, PTL
=============================================================================
