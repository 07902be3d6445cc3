--------------------------- MODULE GatewayProofs ---------------------------
(***************************************************************************)
(* What the API gateway keeps apart, for every number of requests, chats,  *)
(* endpoints and faults.                                                   *)
(*                                                                         *)
(* Local mode: one dan-client at a time, and no request reads what was     *)
(* said for another.  The point is what a client that is kept may still    *)
(* hold: between two exchanges it is silent or its pipes are shut (Quiet), *)
(* and during one it works for the request that has the turn only          *)
(* (AnswersOnly).                                                          *)
(*                                                                         *)
(* Coordinator mode: a session is in one pair of hands.  A handler that    *)
(* waits and a record never share one, at most one call is on its way to   *)
(* it, and an ID that a chat may still choose has never been used (Hands). *)
(* From that follows what a session has read when it is continued.         *)
(***************************************************************************)
EXTENDS Gateway, SequenceTheorems, TLAPS

-----------------------------------------------------------------------------
(***************************************************************************)
(* Local mode                                                              *)
(***************************************************************************)
Stages == {"new", "wait", "client", "retire", "reap", "start", "send", "read", "leave", "closing",
           "done"}
\* The stages of a handler that has the turn.
InTurn == {"client", "retire", "start", "send", "read", "leave", "closing"}
Handlers == [at : Stages, mine : Nat, over : BOOLEAN, clean : BOOLEAN, heard : SUBSET Request]
Event == [what : {"model", "text", "done", "error"}, of : Request]
Scopes == {ScopeOf[r] : r \in Request} \cup {"none"}
Models == Model \cup {NoModel}
Process == [
    scope : Scopes, pin : Models, model : Models, runs : BOOLEAN, reaped : BOOLEAN, open : BOOLEAN,
    closed : {"no", "begun", "over"}, idle : {"none", "set", "fired", "stopped"},
    doomed : BOOLEAN, work : Seq(Request), spoke : BOOLEAN, said : Seq(Event)]
Pin == Scopes \X Models

LocalShape ==
    /\ hdl \in [Request -> Handlers] /\ turn \in Request \cup {"nobody", "main"}
    /\ process \in 0..Len(proc) /\ proc \in Seq(Process) /\ pins \in Seq(Pin)
    /\ server \in {"up", "stopping", "closing", "exited"}

\* What a client does for r and has said, and r has not read, is all for r; the end
\* mark comes last and when nothing is left to do.
AnswersOnly(p, r) ==
    /\ p.work = <<>> \/ p.work = <<r>>
    /\ \A k \in 1..Len(p.said) :
        /\ p.said[k].of = r
        /\ p.said[k].what = "done" => k = Len(p.said) /\ p.work = <<>>

Silent(p) == p.work = <<>> /\ p.said = <<>>

\* An exchange with the client is going on, or was broken off and the client is
\* about to be closed for it.
Busy(r) ==
    \/ hdl[r].at = "read"
    \/ hdl[r].at = "leave" /\ hdl[r].mine # 0 /\ ~hdl[r].clean

TurnOK(r) == hdl[r].at \in InTurn <=> turn = r
MineOK(r) ==
    /\ hdl[r].mine # 0 => hdl[r].at \in {"send", "read", "leave", "closing"} /\ hdl[r].mine = process
    /\ hdl[r].at \in {"send", "read", "closing"} => hdl[r].mine # 0
    /\ hdl[r].at = "retire" => process # 0
    /\ hdl[r].at = "start" => process = 0
    /\ hdl[r].clean => hdl[r].at = "leave"
ExchangeOK(r) ==
    /\ hdl[r].heard \subseteq {r}
    /\ hdl[r].at \in {"send", "read"} => proc[process].scope = ScopeOf[r]
    /\ hdl[r].at = "read" /\ proc[process].open => AnswersOnly(proc[process], r)
ProcOK(i) ==
    /\ proc[i].runs => i = process
    /\ proc[i].reaped => ~proc[i].runs
    /\ proc[i].closed # "no" => ~proc[i].open
Quiet ==
    process # 0 /\ proc[process].open /\ (\A r \in Request : ~Busy(r)) => Silent(proc[process])
ServerOK ==
    /\ turn = "main" <=> server \in {"closing", "exited"}
    /\ server = "exited" /\ process # 0 => ~proc[process].runs

LocalInv ==
    /\ LocalShape /\ Quiet /\ ServerOK
    /\ \A r \in Request : TurnOK(r) /\ MineOK(r) /\ ExchangeOK(r)
    /\ \A i \in 1..Len(proc) : ProcOK(i)

\* What one step of a client, of its closing or of its end may do to it.
Follows(p, q) ==
    /\ q.runs => p.runs
    /\ q.reaped => ~q.runs
    /\ q.closed # "no" => ~q.open
    /\ q.open => p.open
    /\ q.scope = p.scope
GoesOn(p, q) ==
    q.open =>
        \/ q.work = p.work /\ q.said = p.said
        \/ p.runs /\ p.work # <<>> /\ \A r \in Request : AnswersOnly(p, r) => AnswersOnly(q, r)

-----------------------------------------------------------------------------
(***************************************************************************)
(* Lemmas on the exchange                                                  *)
(***************************************************************************)
\* What the client says next is for the request it works on.
LEMMA SayMore ==
    ASSUME NEW r \in Request, NEW p \in Process, NEW q \in Process, NEW e \in Event,
           AnswersOnly(p, r), p.work # <<>>, e.of = Head(p.work), q.said = Append(p.said, e),
           \/ q.work = p.work /\ e.what # "done"
           \/ q.work = Tail(p.work)
    PROVE  AnswersOnly(q, r)
<1>1. p.work = <<r>> /\ Head(p.work) = r /\ Tail(p.work) = <<>>
  <2>1. p.work = <<r>>
    BY DEF AnswersOnly
  <2>2. Head(<<r>>) = r /\ Tail(<<r>>) = <<>>
    OBVIOUS
  <2>. QED  BY <2>1, <2>2
<1>2. p.said \in Seq(Event) /\ q.said \in Seq(Event)
  BY DEF Process
<1>3. Len(q.said) = Len(p.said) + 1 /\ Len(p.said) \in Nat
  BY <1>2
<1>4. ASSUME NEW k \in 1..Len(q.said)
      PROVE  q.said[k].of = r /\ (q.said[k].what = "done" => k = Len(q.said) /\ q.work = <<>>)
  <2>1. CASE k = Len(q.said)
    <3>1. q.said[k] = e
      BY <1>2, <1>3, <2>1
    <3>. QED  BY <3>1, <2>1, <1>1
  <2>2. CASE k # Len(q.said)
    <3>1. k \in 1..Len(p.said) /\ q.said[k] = p.said[k]
      BY <1>2, <1>3, <2>2
    <3>. QED  BY <3>1, <1>1 DEF AnswersOnly
  <2>. QED  BY <2>1, <2>2
<1>. QED  BY <1>1, <1>4 DEF AnswersOnly

\* What r reads was said for r, and the end mark is the last of it.
LEMMA ReadOne ==
    ASSUME NEW r \in Request, NEW p \in Process, NEW q \in Process,
           AnswersOnly(p, r), p.said # <<>>, q.said = Tail(p.said), q.work = p.work
    PROVE  /\ AnswersOnly(q, r)
           /\ Head(p.said) \in Event /\ Head(p.said).of = r
           /\ Head(p.said).what = "done" => Silent(q)
<1>1. p.said \in Seq(Event)
  BY DEF Process
<1>2. Len(p.said) \in Nat /\ Len(p.said) # 0 /\ Head(p.said) = p.said[1] /\ q.said \in Seq(Event)
      /\ Len(q.said) = Len(p.said) - 1 /\ \A k \in 1..Len(q.said) : q.said[k] = p.said[k + 1]
  BY <1>1
<1>3. 1 \in 1..Len(p.said) /\ p.said[1] \in Event
  BY <1>1, <1>2
<1>4. p.said[1].of = r /\ (p.said[1].what = "done" => 1 = Len(p.said) /\ p.work = <<>>)
  BY <1>3 DEF AnswersOnly
<1>5. ASSUME NEW k \in 1..Len(q.said)
      PROVE  q.said[k].of = r /\ (q.said[k].what = "done" => k = Len(q.said) /\ q.work = <<>>)
  <2>1. k + 1 \in 1..Len(p.said) /\ q.said[k] = p.said[k + 1]
    BY <1>2
  <2>2. /\ p.said[k + 1].of = r
        /\ p.said[k + 1].what = "done" => k + 1 = Len(p.said) /\ p.work = <<>>
    BY <2>1 DEF AnswersOnly
  <2>3. k + 1 = Len(p.said) => k = Len(q.said)
    BY <1>2
  <2>. QED  BY <2>1, <2>2, <2>3
<1>6. AnswersOnly(q, r)
  BY <1>5 DEF AnswersOnly
<1>7. Len(p.said) = 1 => q.said = <<>>
  <2>1. Len(p.said) = 1 => Len(q.said) = 0
    BY <1>2
  <2>2. q.said \in Seq(Event)
    BY <1>2
  <2>. QED  BY ONLY <2>1, <2>2
<1>. QED  BY <1>2, <1>3, <1>4, <1>6, <1>7 DEF Silent

\* A request sent to a silent client is all it works on.
LEMMA SendOne ==
    ASSUME NEW r \in Request, NEW p \in Process, NEW q \in Process,
           Silent(p), q.said = p.said, q.work = Append(p.work, r)
    PROVE  AnswersOnly(q, r)
<1>1. q.work = <<r>>
  BY DEF Silent
<1>2. q.said = <<>> /\ Len(q.said) = 0
  BY DEF Silent
<1>. QED  BY <1>1, <1>2 DEF AnswersOnly

-----------------------------------------------------------------------------
(***************************************************************************)
(* Steps that change one thing                                             *)
(***************************************************************************)
\* A step of process i alone.
LEMMA ProcStep ==
    ASSUME LocalInv, NEW i \in 1..Len(proc), NEW q \in Process, proc' = [proc EXCEPT ![i] = q],
           UNCHANGED <<hdl, turn, process, pins, server>>, Follows(proc[i], q), GoesOn(proc[i], q)
    PROVE  LocalInv'
<1>i. LocalShape /\ Quiet /\ ServerOK
      /\ (\A r \in Request : TurnOK(r) /\ MineOK(r) /\ ExchangeOK(r))
      /\ \A j \in 1..Len(proc) : ProcOK(j)
  BY DEF LocalInv
<1>0. proc \in Seq(Process) /\ proc' \in Seq(Process) /\ Len(proc') = Len(proc) /\ Len(proc) \in Nat
      /\ (\A j \in 1..Len(proc) : j # i => proc'[j] = proc[j]) /\ proc'[i] = q
      /\ process \in 0..Len(proc) /\ (process # 0 => process \in 1..Len(proc))
  BY <1>i DEF LocalShape
<1>1. LocalShape'
  BY <1>i, <1>0 DEF LocalShape
<1>p. ProcOK(i) /\ (proc[i].runs => i = process)
  BY <1>i DEF ProcOK
<1>2. Quiet'
  <2>. SUFFICES ASSUME process # 0, proc'[process].open, \A r \in Request : ~Busy(r)
                PROVE  Silent(proc'[process])
    BY DEF Quiet, Busy
  <2>1. CASE process # i
    BY <2>1, <1>0, <1>i DEF Quiet
  <2>2. CASE process = i
    <3>1. q.open /\ proc[i].open
      BY <2>2, <1>0 DEF Follows
    <3>2. Silent(proc[i])
      BY <3>1, <2>2, <1>i DEF Quiet
    <3>. QED  BY <3>1, <3>2, <2>2, <1>0 DEF GoesOn, Silent
  <2>. QED  BY <2>1, <2>2
<1>3. ServerOK'
  BY <1>i, <1>0 DEF ServerOK, Follows
<1>4. ASSUME NEW r \in Request PROVE TurnOK(r)' /\ MineOK(r)' /\ ExchangeOK(r)'
  <2>1. TurnOK(r)' /\ MineOK(r)'
    BY <1>i DEF TurnOK, MineOK
  <2>2. ExchangeOK(r) /\ MineOK(r)
    BY <1>i
  <2>3. CASE process # i \/ hdl[r].at \notin {"send", "read"}
    <3>1. hdl[r].at \in {"send", "read"} => process # 0
      BY <2>2 DEF MineOK
    <3>. QED  BY <2>1, <2>2, <2>3, <3>1, <1>0 DEF ExchangeOK
  <2>4. CASE process = i
    <3>1. q.open /\ AnswersOnly(proc[i], r) => AnswersOnly(q, r)
      BY DEF GoesOn, AnswersOnly
    <3>2. hdl'[r] = hdl[r] /\ proc'[process'] = q /\ proc[process] = proc[i] /\ q.scope = proc[i].scope
          /\ (q.open => proc[i].open)
      BY <2>4, <1>0 DEF Follows
    <3>. QED  BY <2>1, <2>2, <3>1, <3>2 DEF ExchangeOK
  <2>. QED  BY <2>3, <2>4
<1>5. ASSUME NEW j \in 1..Len(proc) PROVE ProcOK(j)'
  <2>1. CASE j # i
    BY <2>1, <1>0, <1>i DEF ProcOK
  <2>2. CASE j = i
    BY <2>2, <1>0, <1>p DEF ProcOK, Follows
  <2>. QED  BY <2>1, <2>2
<1>. QED  BY <1>0, <1>1, <1>2, <1>3, <1>4, <1>5 DEF LocalInv

\* A step that only ends contexts.
LEMMA OverStep ==
    ASSUME LocalInv, hdl' \in [Request -> Handlers], UNCHANGED <<turn, process, proc, pins>>,
           \A r \in Request : /\ hdl'[r].at = hdl[r].at /\ hdl'[r].mine = hdl[r].mine
                              /\ hdl'[r].clean = hdl[r].clean /\ hdl'[r].heard = hdl[r].heard,
           \/ server' = server
           \/ server = "up" /\ server' = "stopping"
    PROVE  LocalInv'
<1>i. LocalShape /\ Quiet /\ ServerOK
      /\ (\A r \in Request : TurnOK(r) /\ MineOK(r) /\ ExchangeOK(r))
      /\ \A j \in 1..Len(proc) : ProcOK(j)
  BY DEF LocalInv
<1>1. LocalShape'
  BY <1>i DEF LocalShape
<1>2. Quiet'
  BY <1>i DEF Quiet, Busy
<1>3. ServerOK'
  BY <1>i DEF ServerOK
<1>4. ASSUME NEW r \in Request PROVE TurnOK(r)' /\ MineOK(r)' /\ ExchangeOK(r)'
  BY <1>i DEF TurnOK, MineOK, ExchangeOK
<1>5. \A j \in 1..Len(proc') : ProcOK(j)'
  BY <1>i DEF ProcOK
<1>. QED  BY <1>1, <1>2, <1>3, <1>4, <1>5 DEF LocalInv

\* A step of a handler that has no turn, before or after it.
LEMMA OutStep ==
    ASSUME LocalInv, NEW r \in Request, NEW h \in Handlers, hdl' = [hdl EXCEPT ![r] = h],
           UNCHANGED <<turn, process, proc, pins, server>>, hdl[r].at \notin InTurn,
           h.at \notin InTurn, h.mine = 0, ~h.clean, h.heard \subseteq {r}
    PROVE  LocalInv'
<1>i. LocalShape /\ Quiet /\ ServerOK
      /\ (\A s \in Request : TurnOK(s) /\ MineOK(s) /\ ExchangeOK(s))
      /\ \A j \in 1..Len(proc) : ProcOK(j)
  BY DEF LocalInv
<1>0. hdl \in [Request -> Handlers] /\ hdl' \in [Request -> Handlers] /\ hdl'[r] = h
      /\ \A s \in Request : s # r => hdl'[s] = hdl[s]
  BY <1>i DEF LocalShape
<1>1. LocalShape'
  BY <1>i, <1>0 DEF LocalShape
<1>2. Quiet'
  <2>1. ~Busy(r)
    BY DEF Busy, InTurn
  <2>2. \A s \in Request : s # r => (Busy(s)' <=> Busy(s))
    BY <1>0 DEF Busy
  <2>. QED  BY <1>i, <2>1, <2>2 DEF Quiet
<1>3. ServerOK'
  BY <1>i DEF ServerOK
<1>4. ASSUME NEW s \in Request PROVE TurnOK(s)' /\ MineOK(s)' /\ ExchangeOK(s)'
  <2>1. CASE s # r
    BY <2>1, <1>i, <1>0 DEF TurnOK, MineOK, ExchangeOK
  <2>2. CASE s = r
    <3>1. TurnOK(r)
      BY <1>i
    <3>. QED  BY <2>2, <3>1, <1>0 DEF TurnOK, MineOK, ExchangeOK, InTurn
  <2>. QED  BY <2>1, <2>2
<1>5. \A j \in 1..Len(proc') : ProcOK(j)'
  BY <1>i DEF ProcOK
<1>. QED  BY <1>1, <1>2, <1>3, <1>4, <1>5 DEF LocalInv

\* The client is silent while the one who has the turn, if any, is in no exchange.
LEMMA StaySilent ==
    ASSUME LocalInv, NEW r \in Request, turn \in {r, "nobody", "main"}, ~Busy(r), process # 0,
           proc[process].open
    PROVE  Silent(proc[process])
<1>1. ASSUME NEW s \in Request PROVE ~Busy(s)
  BY LocalConstants DEF LocalInv, TurnOK, Busy, InTurn
<1>. QED  BY <1>1 DEF LocalInv, Quiet

\* A step of the handler r that has the turn, before or after it, and of the process
\* it talks to.
LEMMA InStep ==
    ASSUME LocalInv, NEW r \in Request, NEW h \in Handlers, NEW q \in Process,
           hdl' = [hdl EXCEPT ![r] = h], turn \in {r, "nobody"}, turn' \in {r, "nobody"},
           h.at \in InTurn <=> turn' = r,
           process' = process, server' = server, server # "exited", pins' \in Seq(Pin),
           process = 0 => proc' = proc,
           process # 0 => proc' = [proc EXCEPT ![process] = q] /\ Follows(proc[process], q),
           MineOK(r)', h.heard \subseteq {r},
           h.at \in {"send", "read"} => q.scope = ScopeOf[r],
           h.at = "read" /\ q.open => AnswersOnly(q, r),
           process # 0 /\ q.open /\ ~Busy(r)' => Silent(q)
    PROVE  LocalInv'
<1>i. LocalShape /\ Quiet /\ ServerOK
      /\ (\A s \in Request : TurnOK(s) /\ MineOK(s) /\ ExchangeOK(s))
      /\ \A j \in 1..Len(proc) : ProcOK(j)
  BY DEF LocalInv
<1>0. hdl \in [Request -> Handlers] /\ hdl' \in [Request -> Handlers] /\ hdl'[r] = h
      /\ \A s \in Request : s # r => hdl'[s] = hdl[s]
  BY <1>i DEF LocalShape
<1>p. proc \in Seq(Process) /\ proc' \in Seq(Process) /\ Len(proc') = Len(proc) /\ Len(proc) \in Nat
      /\ process \in 0..Len(proc) /\ (process # 0 => process \in 1..Len(proc) /\ proc'[process] = q)
      /\ (\A j \in 1..Len(proc) : j # process => proc'[j] = proc[j])
  <2>1. proc \in Seq(Process) /\ Len(proc) \in Nat /\ process \in 0..Len(proc)
    BY <1>i DEF LocalShape
  <2>2. CASE process = 0
    BY <2>1, <2>2
  <2>3. CASE process # 0
    <3>1. process \in 1..Len(proc) /\ proc' = [proc EXCEPT ![process] = q]
      BY <2>1, <2>3
    <3>. QED  BY <2>1, <3>1
  <2>. QED  BY <2>2, <2>3
<1>t. r \notin {"nobody", "main"}
  BY LocalConstants
<1>1. LocalShape'
  BY <1>i, <1>0, <1>p DEF LocalShape
<1>2. Quiet'
  BY <1>p DEF Quiet
<1>3. ServerOK'
  BY <1>i, <1>t DEF ServerOK
<1>4. ASSUME NEW s \in Request PROVE TurnOK(s)' /\ MineOK(s)' /\ ExchangeOK(s)'
  <2>1. CASE s # r
    <3>1. s # "nobody" /\ turn # s /\ turn' # s
      BY <2>1, LocalConstants
    <3>2. hdl[s].at \notin InTurn /\ hdl'[s] = hdl[s] /\ MineOK(s) /\ ExchangeOK(s)
      BY <1>i, <1>0, <2>1, <3>1 DEF TurnOK
    <3>. QED  BY <3>1, <3>2 DEF TurnOK, MineOK, ExchangeOK, InTurn
  <2>2. CASE s = r
    <3>1. TurnOK(r)' /\ MineOK(r)'
      BY <1>0 DEF TurnOK
    <3>2. h.at \in {"send", "read"} => process # 0
      BY <1>0 DEF MineOK
    <3>3. h.at \in {"send", "read"} => proc'[process'] = q
      BY <3>2, <1>p
    <3>4. ExchangeOK(r)'
      BY <3>3, <1>0 DEF ExchangeOK
    <3>. QED  BY <2>2, <3>1, <3>4
  <2>. QED  BY <2>1, <2>2
<1>5. ASSUME NEW j \in 1..Len(proc) PROVE ProcOK(j)'
  <2>1. CASE j # process
    BY <2>1, <1>i, <1>p DEF ProcOK
  <2>2. CASE j = process
    <3>1. process # 0 /\ proc'[j] = q /\ Follows(proc[process], q)
      BY <2>2, <1>p
    <3>. QED  BY <2>2, <3>1 DEF ProcOK, Follows
  <2>. QED  BY <2>1, <2>2
<1>. QED  BY <1>p, <1>1, <1>2, <1>3, <1>4, <1>5 DEF LocalInv

\* The same when the process stays as it is.
LEMMA AloneStep ==
    ASSUME LocalInv, NEW r \in Request, NEW h \in Handlers,
           hdl' = [hdl EXCEPT ![r] = h], turn \in {r, "nobody"}, turn' \in {r, "nobody"},
           h.at \in InTurn <=> turn' = r,
           UNCHANGED <<process, proc, server>>, server # "exited", pins' \in Seq(Pin),
           MineOK(r)', h.heard \subseteq {r}, h.at \notin {"send", "read"}, ~Busy(r)' => ~Busy(r)
    PROVE  LocalInv'
<1>i. LocalShape /\ Quiet /\ ServerOK
      /\ (\A s \in Request : TurnOK(s) /\ MineOK(s) /\ ExchangeOK(s))
      /\ \A j \in 1..Len(proc) : ProcOK(j)
  BY DEF LocalInv
<1>1. CASE process = 0
  <2>0. Forgotten \in Process
    <3>1. <<>> \in Seq(Request) /\ <<>> \in Seq(Event)
      OBVIOUS
    <3>. QED  BY <3>1 DEF Forgotten, Process, Scopes, Models
  <2>. QED  BY <1>1, <2>0, InStep
<1>2. CASE process # 0
  <2>1. proc \in Seq(Process) /\ process \in 1..Len(proc)
    BY <1>i, <1>2 DEF LocalShape
  <2>2. proc[process] \in Process /\ proc = [proc EXCEPT ![process] = proc[process]]
    BY <2>1
  <2>3. Follows(proc[process], proc[process])
    BY <2>1, <1>i DEF Follows, ProcOK
  <2>4. proc[process].open /\ ~Busy(r)' => Silent(proc[process])
    BY <1>2, StaySilent
  <2>. QED  BY <1>2, <2>2, <2>3, <2>4, InStep
<1>. QED  BY <1>1, <1>2

-----------------------------------------------------------------------------
(***************************************************************************)
(* The processes                                                           *)
(***************************************************************************)
\* What the invariant says of one process record.
LEMMA TheProc ==
    ASSUME LocalInv, NEW i \in 1..Len(proc)
    PROVE  /\ proc \in Seq(Process) /\ proc[i] \in Process /\ (proc[i].runs => i = process)
           /\ (proc[i].reaped => ~proc[i].runs) /\ (proc[i].closed # "no" => ~proc[i].open)
BY DEF LocalInv, LocalShape, ProcOK

\* Closing a process, whoever asks first.
LEMMA ClosedIsShut ==
    ASSUME NEW p \in Process, p.closed # "no" => ~p.open
    PROVE  LET q == Closed(p) IN
           /\ q \in Process /\ ~q.open /\ q.closed # "no" /\ q.runs = p.runs /\ q.reaped = p.reaped
           /\ q.scope = p.scope /\ q.idle = p.idle
<1>1. <<>> \in Seq(Event)
  OBVIOUS
<1>. QED  BY <1>1 DEF Closed, Process

\* One event more of the process that works.
LEMMA ClientTalks ==
    ASSUME LocalInv, NEW i \in 1..Len(proc), NEW q \in Process, NEW what \in {"model", "text", "done", "error"},
           proc' = [proc EXCEPT ![i] = q], UNCHANGED <<hdl, turn, process, pins, server>>,
           proc[i].runs, proc[i].open, proc[i].work # <<>>, Follows(proc[i], q), q.said = Says(i, what),
           \/ q.work = proc[i].work /\ what # "done"
           \/ q.work = Tail(proc[i].work)
    PROVE  LocalInv'
<1>1. proc[i] \in Process /\ proc[i].work \in Seq(Request)
  BY TheProc DEF Process
<1>2. Head(proc[i].work) \in Request
  BY <1>1
<1>. DEFINE e == [what |-> what, of |-> Head(proc[i].work)]
<1>3. e \in Event /\ e.of = Head(proc[i].work) /\ e.what = what /\ q.said = Append(proc[i].said, e)
  BY <1>2 DEF Event, Says
<1>. HIDE DEF e
<1>4. ASSUME NEW r \in Request, AnswersOnly(proc[i], r) PROVE AnswersOnly(q, r)
  BY <1>1, <1>3, <1>4, SayMore
<1>5. GoesOn(proc[i], q)
  BY <1>4 DEF GoesOn
<1>. QED  BY <1>5, ProcStep

LEMMA SaysTyped ==
    ASSUME NEW i \in 1..Len(proc), proc[i] \in Process, proc[i].work # <<>>,
           NEW what \in {"model", "text", "done", "error"}
    PROVE  Says(i, what) \in Seq(Event) /\ Tail(proc[i].work) \in Seq(Request)
<1>1. proc[i].work \in Seq(Request) /\ proc[i].said \in Seq(Event)
  BY DEF Process
<1>2. Head(proc[i].work) \in Request /\ Tail(proc[i].work) \in Seq(Request)
  BY <1>1
<1>3. [what |-> what, of |-> Head(proc[i].work)] \in Event
  BY <1>2 DEF Event
<1>. QED  BY <1>1, <1>2, <1>3 DEF Says

\* Whatever happens to a client process on its own.
LEMMA ProcessSteps ==
    ASSUME LocalInv, NEW i \in DOMAIN proc,
           \/ CloseEnds(i) \/ Reap(i) \/ IdleFires(i) \/ LateClose(i)
           \/ ClientPlaces(i) \/ ClientSpeaks(i) \/ ClientFails(i) \/ ClientEnds(i)
    PROVE  LocalInv'
<1>. DEFINE p == proc[i]
<1>i. i \in 1..Len(proc)
  BY DEF LocalInv, LocalShape
<1>0. p \in Process /\ (p.reaped => ~p.runs) /\ (p.closed # "no" => ~p.open)
  BY <1>i, TheProc
<1>1. CASE CloseEnds(i)
  <2>. DEFINE q == [p EXCEPT !.closed = "over"]
  <2>1. q \in Process /\ Follows(p, q) /\ GoesOn(p, q)
    BY <1>0, <1>1 DEF CloseEnds, Process, Follows, GoesOn
  <2>2. proc' = [proc EXCEPT ![i] = q] /\ UNCHANGED <<hdl, turn, process, pins, server>>
    BY <1>1 DEF CloseEnds
  <2>. QED  BY <1>i, <2>1, <2>2, ProcStep
<1>2. CASE Reap(i)
  <2>. DEFINE q == [p EXCEPT !.reaped = TRUE, !.open = FALSE, !.said = <<>>]
  <2>0. <<>> \in Seq(Event)
    OBVIOUS
  <2>1. q \in Process /\ Follows(p, q) /\ GoesOn(p, q)
    BY <1>0, <1>2, <2>0 DEF Reap, Process, Follows, GoesOn
  <2>2. proc' = [proc EXCEPT ![i] = q] /\ UNCHANGED <<hdl, turn, process, pins, server>>
    BY <1>2 DEF Reap
  <2>. QED  BY <1>i, <2>1, <2>2, ProcStep
<1>3. CASE IdleFires(i)
  <2>. DEFINE q == [Closed(p) EXCEPT !.idle = "fired"]
  <2>0. Closed(p) \in Process /\ ~Closed(p).open /\ Closed(p).closed # "no" /\ Closed(p).runs = p.runs
        /\ Closed(p).reaped = p.reaped /\ Closed(p).scope = p.scope
    BY <1>0, ClosedIsShut
  <2>1. q \in Process /\ Follows(p, q) /\ GoesOn(p, q)
    BY <1>0, <2>0 DEF Process, Follows, GoesOn
  <2>2. proc' = [proc EXCEPT ![i] = q] /\ UNCHANGED <<hdl, turn, process, pins, server>>
    BY <1>3 DEF IdleFires
  <2>. QED  BY <1>i, <2>1, <2>2, ProcStep
<1>4. CASE LateClose(i)
  <2>. DEFINE q == [Closed(p) EXCEPT !.doomed = FALSE]
  <2>0. Closed(p) \in Process /\ ~Closed(p).open /\ Closed(p).closed # "no" /\ Closed(p).runs = p.runs
        /\ Closed(p).reaped = p.reaped /\ Closed(p).scope = p.scope
    BY <1>0, ClosedIsShut
  <2>1. q \in Process /\ Follows(p, q) /\ GoesOn(p, q)
    BY <1>0, <2>0 DEF Process, Follows, GoesOn
  <2>2. proc' = [proc EXCEPT ![i] = q] /\ UNCHANGED <<hdl, turn, process, pins, server>>
    BY <1>4 DEF LateClose
  <2>. QED  BY <1>i, <2>1, <2>2, ProcStep
<1>5. CASE ClientPlaces(i)
  <2>1. PICK m \in IF p.pin = NoModel THEN Model ELSE {p.pin} :
            proc' = [proc EXCEPT ![i].model = m, ![i].said = Says(i, "model")]
    BY <1>5 DEF ClientPlaces
  <2>. DEFINE q == [p EXCEPT !.model = m, !.said = Says(i, "model")]
  <2>2. m \in Models
    BY <1>0, <2>1 DEF Process, Models
  <2>3. p.runs /\ p.open /\ p.work # <<>> /\ UNCHANGED <<hdl, turn, process, pins, server>>
    BY <1>5 DEF ClientPlaces
  <2>4. Says(i, "model") \in Seq(Event)
    BY <1>i, <1>0, <2>3, SaysTyped
  <2>5. q \in Process /\ Follows(p, q) /\ q.said = Says(i, "model") /\ q.work = p.work
    BY <1>0, <2>2, <2>4 DEF Process, Follows
  <2>6. proc' = [proc EXCEPT ![i] = q]
    BY <2>1
  <2>. QED  BY <1>i, <2>3, <2>5, <2>6, ClientTalks
<1>6. CASE ClientSpeaks(i)
  <2>3. p.runs /\ p.open /\ p.work # <<>> /\ UNCHANGED <<hdl, turn, process, pins, server>>
    BY <1>6 DEF ClientSpeaks
  <2>4. Says(i, "text") \in Seq(Event) /\ Says(i, "done") \in Seq(Event) /\ Tail(p.work) \in Seq(Request)
    BY <1>i, <1>0, <2>3, SaysTyped
  <2>5. CASE p.spoke
    <3>. DEFINE q == [p EXCEPT !.spoke = FALSE, !.work = Tail(@), !.said = Says(i, "done")]
    <3>1. q \in Process /\ Follows(p, q) /\ q.said = Says(i, "done") /\ q.work = Tail(p.work)
      BY <1>0, <2>4 DEF Process, Follows
    <3>2. proc' = [proc EXCEPT ![i] = q]
      BY <1>6, <2>5 DEF ClientSpeaks
    <3>. QED  BY <1>i, <2>3, <3>1, <3>2, ClientTalks
  <2>6. CASE ~p.spoke
    <3>. DEFINE q == [p EXCEPT !.spoke = TRUE, !.said = Says(i, "text")]
    <3>1. q \in Process /\ Follows(p, q) /\ q.said = Says(i, "text") /\ q.work = p.work
      BY <1>0, <2>4 DEF Process, Follows
    <3>2. proc' = [proc EXCEPT ![i] = q]
      BY <1>6, <2>6 DEF ClientSpeaks
    <3>. QED  BY <1>i, <2>3, <3>1, <3>2, ClientTalks
  <2>. QED  BY <2>5, <2>6
<1>7. CASE ClientFails(i)
  <2>1. PICK said \in {p.said, Says(i, "error")} : proc' = [proc EXCEPT ![i].runs = FALSE, ![i].said = said]
    BY <1>7 DEF ClientFails
  <2>3. p.runs /\ p.open /\ p.work # <<>> /\ UNCHANGED <<hdl, turn, process, pins, server>>
    BY <1>7 DEF ClientFails
  <2>4. Says(i, "error") \in Seq(Event)
    BY <1>i, <1>0, <2>3, SaysTyped
  <2>. DEFINE q == [p EXCEPT !.runs = FALSE, !.said = said]
  <2>5. q \in Process /\ Follows(p, q) /\ q.said = said /\ q.work = p.work
    BY <1>0, <2>1, <2>4 DEF Process, Follows
  <2>6. proc' = [proc EXCEPT ![i] = q]
    BY <2>1
  <2>. HIDE DEF q
  <2>7. CASE said = p.said
    <3>1. GoesOn(p, q)
      BY <2>5, <2>7 DEF GoesOn
    <3>. QED  BY <1>i, <2>3, <2>5, <2>6, <3>1, ProcStep
  <2>8. CASE said = Says(i, "error")
    BY <1>i, <2>3, <2>5, <2>6, <2>8, ClientTalks
  <2>. QED  BY <2>1, <2>7, <2>8
<1>8. CASE ClientEnds(i)
  <2>. DEFINE q == [p EXCEPT !.runs = FALSE]
  <2>1. q \in Process /\ Follows(p, q) /\ GoesOn(p, q)
    BY <1>0, <1>8 DEF ClientEnds, Process, Follows, GoesOn
  <2>2. proc' = [proc EXCEPT ![i] = q] /\ UNCHANGED <<hdl, turn, process, pins, server>>
    BY <1>8 DEF ClientEnds
  <2>. QED  BY <1>i, <2>1, <2>2, ProcStep
<1>. QED  BY <1>1, <1>2, <1>3, <1>4, <1>5, <1>6, <1>7, <1>8

-----------------------------------------------------------------------------
(***************************************************************************)
(* The handlers                                                            *)
(***************************************************************************)
LEMMA PinsTyped ==
    ASSUME pins \in Seq(Pin), NEW s \in Scopes, NEW m \in Models
    PROVE  PinOf(s) \in Models /\ Without(s) \in Seq(Pin) /\ PinnedTo(s, m) \in Seq(Pin)
<1>1. PinOf(s) \in Models
  <2>1. CASE Pinned(s)
    <3>1. PICK n \in DOMAIN pins : pins[n][1] = s
      BY <2>1 DEF Pinned
    <3>. DEFINE j == CHOOSE k \in DOMAIN pins : pins[k][1] = s
    <3>2. j \in DOMAIN pins
      BY <3>1
    <3>3. pins[j] \in Pin
      BY <3>2
    <3>. QED  BY <2>1, <3>3 DEF PinOf, Pin
  <2>2. CASE ~Pinned(s)
    BY <2>2 DEF PinOf, Models
  <2>. QED  BY <2>1, <2>2
<1>2. Without(s) \in Seq(Pin)
  <2>1. CASE Pinned(s)
    <3>1. PICK n \in DOMAIN pins : pins[n][1] = s
      BY <2>1 DEF Pinned
    <3>. DEFINE j == CHOOSE k \in DOMAIN pins : pins[k][1] = s
    <3>2. j \in 1..Len(pins)
      BY <3>1
    <3>. HIDE DEF j
    <3>3. SubSeq(pins, 1, j - 1) \in Seq(Pin) /\ SubSeq(pins, j + 1, Len(pins)) \in Seq(Pin)
      BY <3>2
    <3>4. SubSeq(pins, 1, j - 1) \o SubSeq(pins, j + 1, Len(pins)) \in Seq(Pin)
      BY <3>3
    <3>. QED  BY <2>1, <3>4 DEF Without, j
  <2>2. CASE ~Pinned(s)
    BY <2>2 DEF Without
  <2>. QED  BY <2>1, <2>2
<1>3. PinnedTo(s, m) \in Seq(Pin)
  <2>1. <<s, m>> \in Pin
    BY DEF Pin
  <2>2. Len(pins) >= MaxPins => Tail(pins) \in Seq(Pin)
    BY LocalConstants
  <2>. DEFINE kept == IF ~Pinned(s) /\ Len(pins) >= MaxPins THEN Tail(pins) ELSE Without(s)
  <2>3. kept \in Seq(Pin)
    BY <1>2, <2>2
  <2>. HIDE DEF kept
  <2>4. Append(kept, <<s, m>>) \in Seq(Pin)
    BY <2>1, <2>3
  <2>. QED  BY <2>4 DEF PinnedTo, kept
<1>. QED  BY <1>1, <1>2, <1>3

\* What the invariant says of one handler.
LEMMA TheHandler ==
    ASSUME LocalInv, NEW r \in Request
    PROVE  /\ hdl \in [Request -> Handlers] /\ hdl[r] \in Handlers /\ TurnOK(r) /\ MineOK(r) /\ ExchangeOK(r)
           /\ r # "nobody" /\ r # "main" /\ pins \in Seq(Pin) /\ ScopeOf[r] \in Scopes
           /\ (process # 0 => process \in 1..Len(proc)) /\ process \in 0..Len(proc)
           /\ NewHandler \in Handlers /\ Finished \in Handlers /\ Finished.at = "done" /\ Finished.mine = 0
           /\ ~Finished.clean /\ Finished.heard = {}
<1>1. NewHandler \in Handlers /\ Finished \in Handlers /\ Finished.at = "done" /\ Finished.mine = 0
      /\ ~Finished.clean /\ Finished.heard = {}
  BY DEF NewHandler, Finished, Handlers, Stages
<1>. QED  BY <1>1, LocalConstants DEF LocalInv, LocalShape, Scopes

LEMMA ArriveStep ==
    ASSUME LocalInv, NEW r \in Request, Arrive(r)
    PROVE  LocalInv'
<1>. DEFINE h == IF Cardinality(InQueue) < QueueSize THEN [hdl[r] EXCEPT !.at = "wait"] ELSE Finished
<1>1. hdl' = [hdl EXCEPT ![r] = h] /\ hdl[r].at = "new" /\ UNCHANGED <<turn, process, proc, pins, server>>
  BY DEF Arrive, Goes, Finishes
<1>2. hdl[r] \in Handlers /\ MineOK(r) /\ ExchangeOK(r)
  BY TheHandler
<1>3. hdl[r].mine = 0 /\ ~hdl[r].clean /\ hdl[r].heard \subseteq {r}
  BY <1>1, <1>2 DEF MineOK, ExchangeOK, Handlers
<1>4. h \in Handlers /\ h.at \in {"wait", "done"} /\ h.mine = 0 /\ ~h.clean /\ h.heard \subseteq {r}
  <2>1. CASE Cardinality(InQueue) < QueueSize
    BY <1>2, <1>3, <2>1 DEF Handlers, Stages
  <2>2. CASE ~(Cardinality(InQueue) < QueueSize)
    BY <2>2, TheHandler
  <2>. QED  BY <2>1, <2>2
<1>. HIDE DEF h
<1>5. hdl[r].at \notin InTurn /\ h.at \notin InTurn
  BY <1>1, <1>4 DEF InTurn
<1>. QED  BY <1>1, <1>4, <1>5, OutStep

LEMMA GiveUpStep ==
    ASSUME LocalInv, NEW r \in Request, GiveUp(r)
    PROVE  LocalInv'
<1>1. hdl' = [hdl EXCEPT ![r] = Finished] /\ hdl[r].at = "wait"
      /\ UNCHANGED <<turn, process, proc, pins, server>>
  BY DEF GiveUp, Finishes
<1>2. Finished \in Handlers /\ Finished.at = "done" /\ Finished.mine = 0 /\ ~Finished.clean
      /\ Finished.heard \subseteq {r}
  BY TheHandler
<1>3. hdl[r].at \notin InTurn /\ Finished.at \notin InTurn
  BY <1>1, <1>2 DEF InTurn
<1>. QED  BY <1>1, <1>2, <1>3, OutStep

LEMMA CancelStep ==
    ASSUME LocalInv, NEW r \in Request, Cancel(r)
    PROVE  LocalInv'
<1>1. hdl \in [Request -> Handlers] /\ hdl' = [hdl EXCEPT ![r].over = TRUE]
      /\ UNCHANGED <<turn, process, proc, pins, server>>
  BY TheHandler DEF Cancel
<1>. DEFINE h == [hdl[r] EXCEPT !.over = TRUE]
<1>0. hdl[r] \in Handlers
  BY <1>1
<1>2. h \in Handlers /\ h.at = hdl[r].at /\ h.mine = hdl[r].mine /\ h.clean = hdl[r].clean
      /\ h.heard = hdl[r].heard
  BY <1>0 DEF Handlers
<1>3. hdl' = [hdl EXCEPT ![r] = h]
  BY <1>1
<1>. HIDE DEF h
<1>4. hdl' \in [Request -> Handlers] /\ hdl'[r] = h /\ \A s \in Request : s # r => hdl'[s] = hdl[s]
  BY <1>1, <1>2, <1>3
<1>5. \A s \in Request : /\ hdl'[s].at = hdl[s].at /\ hdl'[s].mine = hdl[s].mine
                         /\ hdl'[s].clean = hdl[s].clean /\ hdl'[s].heard = hdl[s].heard
  BY <1>2, <1>4
<1>. QED  BY <1>1, <1>4, <1>5, OverStep

LEMMA StopStep ==
    ASSUME LocalInv, StopServer
    PROVE  LocalInv'
<1>1. hdl \in [Request -> Handlers]
  BY DEF LocalInv, LocalShape
<1>2. hdl' = [r \in Request |-> [hdl[r] EXCEPT !.over = @ \/ hdl[r].at \notin {"new", "done"}]]
      /\ UNCHANGED <<turn, process, proc, pins>> /\ server = "up" /\ server' = "stopping"
  BY DEF StopServer
<1>3. ASSUME NEW s \in Request
      PROVE  /\ hdl'[s] \in Handlers /\ hdl'[s].at = hdl[s].at /\ hdl'[s].mine = hdl[s].mine
             /\ hdl'[s].clean = hdl[s].clean /\ hdl'[s].heard = hdl[s].heard
  <2>. DEFINE over == hdl[s].over \/ hdl[s].at \notin {"new", "done"}
  <2>1. over \in BOOLEAN
    OBVIOUS
  <2>2. hdl'[s] = [hdl[s] EXCEPT !.over = over]
    BY <1>2
  <2>. HIDE DEF over
  <2>. QED  BY <1>1, <2>1, <2>2 DEF Handlers
<1>4. hdl' \in [Request -> Handlers]
  BY <1>2, <1>3
<1>. QED  BY <1>2, <1>3, <1>4, OverStep

LEMMA GetTurnStep ==
    ASSUME LocalInv, NEW r \in Request, GetTurn(r)
    PROVE  LocalInv'
<1>. DEFINE at == IF hdl[r].over THEN "leave" ELSE "client"
            h == [hdl[r] EXCEPT !.at = at]
<1>1. hdl' = [hdl EXCEPT ![r] = h] /\ hdl[r].at = "wait" /\ turn = "nobody" /\ turn' = r
      /\ UNCHANGED <<process, proc, pins, server>> /\ server # "exited"
  BY DEF GetTurn, Goes, Alive
<1>2. hdl \in [Request -> Handlers] /\ hdl[r] \in Handlers /\ MineOK(r) /\ ExchangeOK(r) /\ pins' \in Seq(Pin)
  BY <1>1, TheHandler
<1>3. hdl[r].mine = 0 /\ ~hdl[r].clean /\ hdl[r].heard \subseteq {r}
  BY <1>1, <1>2 DEF MineOK, ExchangeOK
<1>4. h \in Handlers /\ h.at \in {"leave", "client"} /\ h.mine = 0 /\ ~h.clean /\ h.heard \subseteq {r}
  BY <1>2, <1>3 DEF Handlers, Stages
<1>. HIDE DEF h
<1>5. hdl'[r] = h
  BY <1>1, <1>2
<1>6. MineOK(r)' /\ ~Busy(r) /\ h.at \in InTurn
  BY <1>1, <1>4, <1>5 DEF MineOK, Busy, InTurn
<1>. QED  BY <1>1, <1>2, <1>4, <1>6, AloneStep

LEMMA CancelClosesStep ==
    ASSUME LocalInv, NEW r \in Request, CancelCloses(r)
    PROVE  LocalInv'
<1>. DEFINE i == hdl[r].mine
            p == proc[i]
<1>1. i \in 1..Len(proc)
  BY TheHandler DEF CancelCloses, MineOK
<1>2. p \in Process /\ (p.reaped => ~p.runs) /\ (p.closed # "no" => ~p.open)
  BY <1>1, TheProc
<1>3. Closed(p) \in Process /\ ~Closed(p).open /\ Closed(p).closed # "no" /\ Closed(p).runs = p.runs
      /\ Closed(p).reaped = p.reaped /\ Closed(p).scope = p.scope
  BY <1>2, ClosedIsShut
<1>4. proc' = [proc EXCEPT ![i] = Closed(p)] /\ UNCHANGED <<hdl, turn, process, pins, server>>
  BY DEF CancelCloses, Close
<1>5. Follows(p, Closed(p)) /\ GoesOn(p, Closed(p))
  BY <1>2, <1>3 DEF Follows, GoesOn
<1>. QED  BY <1>1, <1>3, <1>4, <1>5, ProcStep

LEMMA FindClientStep ==
    ASSUME LocalInv, NEW r \in Request, FindClient(r)
    PROVE  LocalInv'
<1>. DEFINE p == proc[process]
<1>0. hdl \in [Request -> Handlers] /\ hdl[r] \in Handlers /\ MineOK(r) /\ ExchangeOK(r) /\ pins' \in Seq(Pin)
      /\ TurnOK(r)
  BY TheHandler DEF FindClient
<1>1. hdl[r].at = "client" /\ UNCHANGED <<turn, process, server>> /\ server # "exited"
  BY DEF FindClient, Alive
<1>2. turn = r /\ turn' = r /\ hdl[r].mine = 0 /\ ~hdl[r].clean /\ hdl[r].heard \subseteq {r} /\ ~Busy(r)
  BY <1>0, <1>1 DEF TurnOK, MineOK, ExchangeOK, InTurn, Busy
<1>3. CASE process = 0 /\ Goes(r, "start") /\ UNCHANGED proc
  <2>. DEFINE h == [hdl[r] EXCEPT !.at = "start"]
  <2>1. hdl' = [hdl EXCEPT ![r] = h]
    BY <1>3 DEF Goes
  <2>2. h \in Handlers /\ h.at = "start" /\ h.mine = 0 /\ ~h.clean /\ h.heard \subseteq {r}
    BY <1>0, <1>2 DEF Handlers, Stages
  <2>. HIDE DEF h
  <2>3. hdl'[r] = h
    BY <2>1, <1>0
  <2>4. MineOK(r)' /\ h.at \in InTurn
    BY <2>2, <2>3, <1>1, <1>3 DEF MineOK, InTurn
  <2>. QED  BY <1>0, <1>1, <1>2, <1>3, <2>1, <2>2, <2>4, AloneStep
<1>4. CASE /\ process # 0 /\ Reusable(r)
           /\ proc' = [proc EXCEPT ![process] = TimerStopped(@)]
           /\ hdl' = [hdl EXCEPT ![r].at = "send", ![r].mine = process]
  <2>0. process \in 1..Len(proc) /\ process \in Nat
    BY <1>4, TheHandler
  <2>1. p \in Process /\ (p.reaped => ~p.runs) /\ (p.closed # "no" => ~p.open)
    BY <2>0, TheProc
  <2>. DEFINE h == [hdl[r] EXCEPT !.at = "send", !.mine = process]
              q == TimerStopped(p)
  <2>2. hdl' = [hdl EXCEPT ![r] = h] /\ proc' = [proc EXCEPT ![process] = q]
    BY <1>4
  <2>3. h \in Handlers /\ h.at = "send" /\ h.mine = process /\ ~h.clean /\ h.heard \subseteq {r}
    BY <1>0, <1>2, <2>0 DEF Handlers, Stages
  <2>4. q \in Process /\ Follows(p, q) /\ q.work = p.work /\ q.said = p.said /\ q.open = p.open
        /\ q.scope = ScopeOf[r]
    BY <2>1, <1>4 DEF Process, Follows, Reusable, TimerStopped
  <2>. HIDE DEF h, q
  <2>5. hdl'[r] = h
    BY <2>2, <1>0
  <2>6. MineOK(r)' /\ h.at \in InTurn
    BY <2>3, <2>5, <1>1, <1>4 DEF MineOK, InTurn
  <2>7. q.open => Silent(q)
    BY <1>2, <1>4, <2>4, StaySilent DEF Silent
  <2>. QED  BY <1>0, <1>1, <1>2, <1>4, <2>2, <2>3, <2>4, <2>6, <2>7, InStep
<1>5. CASE /\ process # 0 /\ ~Reusable(r) /\ Goes(r, "retire")
           /\ proc' = [proc EXCEPT ![process] = TimerStopped(Closed(@))]
  <2>0. process \in 1..Len(proc) /\ process \in Nat
    BY <1>5, TheHandler
  <2>1. p \in Process /\ (p.reaped => ~p.runs) /\ (p.closed # "no" => ~p.open)
    BY <2>0, TheProc
  <2>. DEFINE h == [hdl[r] EXCEPT !.at = "retire"]
              q == TimerStopped(Closed(p))
  <2>2. hdl' = [hdl EXCEPT ![r] = h] /\ proc' = [proc EXCEPT ![process] = q]
    <3>1. hdl' = [hdl EXCEPT ![r] = h]
      BY <1>5 DEF Goes
    <3>2. proc' = [proc EXCEPT ![process] = q]
      BY <1>5
    <3>. QED  BY <3>1, <3>2
  <2>3. h \in Handlers /\ h.at = "retire" /\ h.mine = 0 /\ ~h.clean /\ h.heard \subseteq {r}
    BY <1>0, <1>2 DEF Handlers, Stages
  <2>a. Closed(p) \in Process /\ ~Closed(p).open /\ Closed(p).closed # "no" /\ Closed(p).runs = p.runs
        /\ Closed(p).reaped = p.reaped /\ Closed(p).scope = p.scope
    BY <2>1, ClosedIsShut
  <2>4. q \in Process /\ Follows(p, q) /\ ~q.open
    BY <2>1, <2>a DEF Process, Follows, TimerStopped
  <2>. HIDE DEF h, q
  <2>5. hdl'[r] = h
    BY <2>2, <1>0
  <2>6. MineOK(r)' /\ h.at \in InTurn
    BY <2>3, <2>5, <1>1, <1>5 DEF MineOK, InTurn
  <2>. QED  BY <1>0, <1>1, <1>2, <1>5, <2>2, <2>3, <2>4, <2>6, InStep
<1>. QED  BY <1>3, <1>4, <1>5 DEF FindClient

\* A client process is replaced, or a first one started: r has the turn, so no other
\* handler refers to one.
LEMMA SwapStep ==
    ASSUME LocalInv, NEW r \in Request, NEW h \in Handlers, hdl' = [hdl EXCEPT ![r] = h],
           turn = r, UNCHANGED <<turn, server>>, server # "exited", pins' \in Seq(Pin),
           proc' \in Seq(Process), process' \in 0..Len(proc'), h.at \in InTurn, ~Busy(r)', MineOK(r)',
           h.heard \subseteq {r}, h.at = "send" => proc'[process'].scope = ScopeOf[r],
           process' # 0 => Silent(proc'[process']),
           \A j \in 1..Len(proc') : ProcOK(j)'
    PROVE  LocalInv'
<1>i. LocalShape /\ Quiet /\ ServerOK
      /\ (\A s \in Request : TurnOK(s) /\ MineOK(s) /\ ExchangeOK(s))
      /\ \A j \in 1..Len(proc) : ProcOK(j)
  BY DEF LocalInv
<1>0. hdl \in [Request -> Handlers] /\ hdl' \in [Request -> Handlers] /\ hdl'[r] = h
      /\ \A s \in Request : s # r => hdl'[s] = hdl[s]
  BY <1>i DEF LocalShape
<1>1. LocalShape'
  BY <1>i, <1>0 DEF LocalShape
<1>2. Quiet'
  BY DEF Quiet
<1>3. ServerOK'
  BY <1>i DEF ServerOK
<1>4. ASSUME NEW s \in Request PROVE TurnOK(s)' /\ MineOK(s)' /\ ExchangeOK(s)'
  <2>1. CASE s # r
    <3>1. hdl[s].at \notin InTurn /\ hdl'[s] = hdl[s] /\ MineOK(s) /\ ExchangeOK(s)
      BY <1>i, <1>0, <2>1 DEF TurnOK
    <3>. QED  BY <2>1, <3>1 DEF TurnOK, MineOK, ExchangeOK, InTurn
  <2>2. CASE s = r
    <3>1. TurnOK(r)' /\ MineOK(r)'
      BY <1>0 DEF TurnOK
    <3>2. h.at # "read"
      BY <1>0 DEF Busy
    <3>3. ExchangeOK(r)'
      BY <3>2, <1>0 DEF ExchangeOK
    <3>. QED  BY <2>2, <3>1, <3>3
  <2>. QED  BY <2>1, <2>2
<1>. QED  BY <1>1, <1>2, <1>3, <1>4 DEF LocalInv

LEMMA RetireClientStep ==
    ASSUME LocalInv, NEW r \in Request, RetireClient(r)
    PROVE  LocalInv'
<1>. DEFINE h == [hdl[r] EXCEPT !.at = "start"]
<1>0. hdl \in [Request -> Handlers] /\ hdl[r] \in Handlers /\ MineOK(r) /\ ExchangeOK(r) /\ pins' \in Seq(Pin)
      /\ TurnOK(r)
  BY TheHandler DEF RetireClient
<1>1. /\ hdl[r].at = "retire" /\ UNCHANGED <<turn, server>> /\ server # "exited" /\ process' = 0
      /\ hdl' = [hdl EXCEPT ![r] = h] /\ proc' = [proc EXCEPT ![process] = Forgotten]
  BY DEF RetireClient, Alive, Goes
<1>2. turn = r /\ hdl[r].mine = 0 /\ ~hdl[r].clean /\ hdl[r].heard \subseteq {r} /\ process # 0
  BY <1>0, <1>1 DEF TurnOK, MineOK, ExchangeOK, InTurn
<1>3. h \in Handlers /\ h.at = "start" /\ h.mine = 0 /\ ~h.clean /\ h.heard \subseteq {r}
  BY <1>0, <1>2 DEF Handlers, Stages
<1>. HIDE DEF h
<1>4. hdl'[r] = h
  BY <1>0, <1>1
<1>5. MineOK(r)' /\ ~Busy(r)' /\ h.at \in InTurn
  BY <1>1, <1>3, <1>4 DEF MineOK, Busy, InTurn
<1>6. Forgotten \in Process /\ ~Forgotten.runs /\ ~Forgotten.open
  <2>1. <<>> \in Seq(Request) /\ <<>> \in Seq(Event)
    OBVIOUS
  <2>. QED  BY <2>1 DEF Forgotten, Process, Scopes, Models
<1>7. process \in 1..Len(proc) /\ proc \in Seq(Process)
  BY <1>2, TheHandler DEF LocalInv, LocalShape
<1>8. proc' \in Seq(Process) /\ Len(proc') = Len(proc) /\ 0 \in 0..Len(proc') /\ proc'[process] = Forgotten
      /\ \A j \in 1..Len(proc) : j # process => proc'[j] = proc[j]
  BY <1>1, <1>6, <1>7
<1>9. ASSUME NEW j \in 1..Len(proc') PROVE ProcOK(j)'
  <2>1. CASE j = process
    BY <1>6, <1>8, <2>1 DEF ProcOK
  <2>2. CASE j # process
    <3>1. ProcOK(j) /\ proc'[j] = proc[j]
      BY <1>8, <2>2 DEF LocalInv
    <3>. QED  BY <2>2, <3>1 DEF ProcOK
  <2>. QED  BY <2>1, <2>2
<1>. QED  BY <1>0, <1>1, <1>2, <1>3, <1>5, <1>8, <1>9, SwapStep

LEMMA StartClientStep ==
    ASSUME LocalInv, NEW r \in Request, StartClient(r)
    PROVE  LocalInv'
<1>0. hdl \in [Request -> Handlers] /\ hdl[r] \in Handlers /\ MineOK(r) /\ ExchangeOK(r) /\ pins \in Seq(Pin)
      /\ TurnOK(r) /\ ScopeOf[r] \in Scopes
  BY TheHandler
<1>1. hdl[r].at = "start" /\ UNCHANGED <<turn, server>> /\ server # "exited"
  BY DEF StartClient, Alive
<1>2. turn = r /\ turn' = r /\ hdl[r].mine = 0 /\ ~hdl[r].clean /\ hdl[r].heard \subseteq {r} /\ process = 0
      /\ ~Busy(r)
  BY <1>0, <1>1 DEF TurnOK, MineOK, ExchangeOK, InTurn, Busy
<1>3. NoModel \in Models
  BY DEF Models
<1>4. Without(ScopeOf[r]) \in Seq(Pin) /\ PinOf(ScopeOf[r]) \in Models
  BY <1>0, <1>3, PinsTyped
<1>p. proc \in Seq(Process) /\ Len(proc) \in Nat
  BY DEF LocalInv, LocalShape
<1>. DEFINE New(kept) == [
        scope |-> ScopeOf[r],
        pin |-> IF kept = pins THEN PinOf(ScopeOf[r]) ELSE NoModel, model |-> NoModel,
        runs |-> TRUE, reaped |-> FALSE, open |-> TRUE, closed |-> "no",
        idle |-> "none", doomed |-> FALSE, work |-> <<>>, spoke |-> FALSE, said |-> <<>>]
<1>5. ASSUME NEW kept \in Seq(Pin), pins' = kept, proc' = Append(proc, New(kept)), process' = Len(proc'),
             hdl' = [hdl EXCEPT ![r].at = "send", ![r].mine = Len(proc')]
      PROVE  LocalInv'
  <2>. DEFINE q == New(kept)
              h == [hdl[r] EXCEPT !.at = "send", !.mine = Len(proc')]
  <2>1. q \in Process /\ q.scope = ScopeOf[r] /\ ~q.reaped /\ q.closed = "no" /\ Silent(q)
    <3>1. <<>> \in Seq(Request) /\ <<>> \in Seq(Event)
      OBVIOUS
    <3>. QED  BY <3>1, <1>0, <1>3, <1>4 DEF Process, Silent
  <2>2. proc' = Append(proc, q) /\ hdl' = [hdl EXCEPT ![r] = h]
    BY <1>5
  <2>. HIDE DEF q
  <2>3. proc' \in Seq(Process) /\ Len(proc') = Len(proc) + 1 /\ process' = Len(proc) + 1
        /\ proc'[process'] = q /\ Len(proc') \in Nat \ {0} /\ process' \in 0..Len(proc')
        /\ \A j \in 1..Len(proc) : proc'[j] = proc[j]
    BY <1>p, <1>5, <2>1, <2>2
  <2>4. h \in Handlers /\ h.at = "send" /\ h.mine = process' /\ h.mine # 0 /\ ~h.clean /\ h.heard \subseteq {r}
    BY <1>0, <1>2, <1>5, <2>3 DEF Handlers, Stages
  <2>. HIDE DEF h
  <2>5. hdl'[r] = h
    BY <1>0, <2>2
  <2>6. MineOK(r)' /\ ~Busy(r)' /\ h.at \in InTurn
    BY <2>4, <2>5 DEF MineOK, Busy, InTurn
  <2>7. ASSUME NEW j \in 1..Len(proc') PROVE ProcOK(j)'
    <3>1. CASE j = process'
      BY <2>1, <2>3, <3>1 DEF ProcOK
    <3>2. CASE j # process'
      <4>1. j \in 1..Len(proc)
        BY <2>3, <3>2
      <4>2. ProcOK(j) /\ proc'[j] = proc[j]
        BY <4>1, <2>3 DEF LocalInv
      <4>3. ~proc[j].runs
        BY <4>1, <4>2, <1>2 DEF ProcOK
      <4>. QED  BY <4>2, <4>3 DEF ProcOK
    <3>. QED  BY <3>1, <3>2
  <2>. QED  BY <1>1, <1>2, <1>5, <2>1, <2>2, <2>3, <2>4, <2>6, <2>7, SwapStep
<1>6. ASSUME Goes(r, "leave"), UNCHANGED <<proc, process>>, pins' \in Seq(Pin)
      PROVE  LocalInv'
  <2>. DEFINE h == [hdl[r] EXCEPT !.at = "leave"]
  <2>1. hdl' = [hdl EXCEPT ![r] = h]
    BY <1>6 DEF Goes
  <2>2. h \in Handlers /\ h.at = "leave" /\ h.mine = 0 /\ ~h.clean /\ h.heard \subseteq {r}
    BY <1>0, <1>2 DEF Handlers, Stages
  <2>. HIDE DEF h
  <2>3. hdl'[r] = h
    BY <1>0, <2>1
  <2>4. MineOK(r)' /\ h.at \in InTurn
    BY <2>2, <2>3 DEF MineOK, InTurn
  <2>. QED  BY <1>1, <1>2, <1>6, <2>1, <2>2, <2>4, AloneStep
<1>7. PICK kept \in {pins, Without(ScopeOf[r])} :
        /\ pins' = kept
        /\ \/ /\ proc' = Append(proc, New(kept)) /\ process' = Len(proc')
              /\ hdl' = [hdl EXCEPT ![r].at = "send", ![r].mine = Len(proc')]
           \/ Goes(r, "leave") /\ UNCHANGED <<proc, process>>
  BY DEF StartClient
<1>8. kept \in Seq(Pin)
  BY <1>0, <1>4, <1>7
<1>. HIDE DEF New
<1>. QED  BY <1>5, <1>6, <1>7, <1>8

LEMMA SendStep ==
    ASSUME LocalInv, NEW r \in Request, Send(r)
    PROVE  LocalInv'
<1>. DEFINE p == proc[process]
<1>0. hdl \in [Request -> Handlers] /\ hdl[r] \in Handlers /\ MineOK(r) /\ ExchangeOK(r) /\ pins' \in Seq(Pin)
      /\ TurnOK(r)
  BY TheHandler DEF Send
<1>1. hdl[r].at = "send" /\ UNCHANGED <<turn, process, server>> /\ server # "exited"
  BY DEF Send, Alive
<1>2. turn = r /\ turn' = r /\ hdl[r].mine # 0 /\ hdl[r].mine = process /\ ~hdl[r].clean
      /\ hdl[r].heard \subseteq {r} /\ ~Busy(r) /\ p.scope = ScopeOf[r]
  BY <1>0, <1>1 DEF TurnOK, MineOK, ExchangeOK, InTurn, Busy
<1>3. process # 0 /\ process \in 1..Len(proc)
  BY <1>2, TheHandler
<1>4. p \in Process /\ (p.reaped => ~p.runs) /\ (p.closed # "no" => ~p.open)
  BY <1>3, TheProc
<1>5. CASE p.open /\ p.runs
  <2>. DEFINE h == [hdl[r] EXCEPT !.at = "read"]
              q == [p EXCEPT !.work = Append(@, r)]
  <2>1. hdl' = [hdl EXCEPT ![r] = h] /\ proc' = [proc EXCEPT ![process] = q]
    BY <1>2, <1>5 DEF Send, Goes
  <2>2. h \in Handlers /\ h.at = "read" /\ h.mine = process /\ ~h.clean /\ h.heard \subseteq {r}
    BY <1>0, <1>2 DEF Handlers, Stages
  <2>3. Append(p.work, r) \in Seq(Request)
    BY <1>4 DEF Process
  <2>4. q \in Process /\ Follows(p, q) /\ q.scope = ScopeOf[r] /\ q.said = p.said /\ q.work = Append(p.work, r)
    BY <1>2, <1>4, <2>3 DEF Process, Follows
  <2>. HIDE DEF h, q
  <2>5. hdl'[r] = h
    BY <1>0, <2>1
  <2>6. MineOK(r)' /\ h.at \in InTurn /\ Busy(r)'
    BY <1>1, <1>3, <2>2, <2>5 DEF MineOK, InTurn, Busy
  <2>7. Silent(p)
    BY <1>2, <1>3, <1>5, StaySilent
  <2>8. AnswersOnly(q, r)
    BY <1>4, <2>4, <2>7, SendOne
  <2>. QED  BY <1>0, <1>1, <1>2, <1>3, <2>1, <2>2, <2>4, <2>6, <2>8, InStep
<1>6. CASE ~(p.open /\ p.runs)
  <2>. DEFINE h == [hdl[r] EXCEPT !.at = "leave"]
  <2>1. hdl' = [hdl EXCEPT ![r] = h] /\ proc' = proc
    BY <1>2, <1>6 DEF Send, Goes
  <2>2. h \in Handlers /\ h.at = "leave" /\ h.mine = process /\ ~h.clean /\ h.heard \subseteq {r}
    BY <1>0, <1>2 DEF Handlers, Stages
  <2>. HIDE DEF h
  <2>3. hdl'[r] = h
    BY <1>0, <2>1
  <2>4. MineOK(r)' /\ h.at \in InTurn /\ Busy(r)'
    BY <1>1, <1>3, <2>2, <2>3 DEF MineOK, InTurn, Busy
  <2>. QED  BY <1>0, <1>1, <1>2, <2>1, <2>2, <2>4, AloneStep
<1>. QED  BY <1>5, <1>6

LEMMA ReadEndsStep ==
    ASSUME LocalInv, NEW r \in Request, ReadEnds(r)
    PROVE  LocalInv'
<1>0. hdl \in [Request -> Handlers] /\ hdl[r] \in Handlers /\ MineOK(r) /\ ExchangeOK(r) /\ pins' \in Seq(Pin)
      /\ TurnOK(r)
  BY TheHandler DEF ReadEnds
<1>. DEFINE h == [hdl[r] EXCEPT !.at = "leave", !.over = TRUE]
<1>1. /\ hdl[r].at = "read" /\ UNCHANGED <<turn, process, proc, server>> /\ server # "exited"
      /\ hdl' = [hdl EXCEPT ![r] = h]
  BY DEF ReadEnds, Alive
<1>2. turn = r /\ turn' = r /\ hdl[r].mine # 0 /\ hdl[r].mine = process /\ ~hdl[r].clean
      /\ hdl[r].heard \subseteq {r}
  BY <1>0, <1>1 DEF TurnOK, MineOK, ExchangeOK, InTurn
<1>3. h \in Handlers /\ h.at = "leave" /\ h.mine = process /\ h.mine # 0 /\ ~h.clean /\ h.heard \subseteq {r}
  BY <1>0, <1>2 DEF Handlers, Stages
<1>. HIDE DEF h
<1>4. hdl'[r] = h
  BY <1>0, <1>1
<1>5. MineOK(r)' /\ h.at \in InTurn /\ Busy(r)'
  BY <1>1, <1>3, <1>4 DEF MineOK, InTurn, Busy
<1>. QED  BY <1>0, <1>1, <1>2, <1>3, <1>5, AloneStep

\* What r has read is r's; and once it has read the end mark the client is silent,
\* so that it may be kept.
LEMMA ReadEventStep ==
    ASSUME LocalInv, NEW r \in Request, ReadEvent(r)
    PROVE  LocalInv'
<1>. DEFINE p == proc[process]
            q == [p EXCEPT !.said = Tail(@)]
            event == Head(p.said)
<1>0. hdl \in [Request -> Handlers] /\ hdl[r] \in Handlers /\ MineOK(r) /\ ExchangeOK(r) /\ pins \in Seq(Pin)
      /\ TurnOK(r) /\ ScopeOf[r] \in Scopes
  BY TheHandler
<1>1. hdl[r].at = "read" /\ UNCHANGED <<turn, process, server>> /\ server # "exited"
  BY DEF ReadEvent, Alive
<1>2. turn = r /\ turn' = r /\ hdl[r].mine # 0 /\ hdl[r].mine = process /\ ~hdl[r].clean
      /\ hdl[r].heard \subseteq {r} /\ p.scope = ScopeOf[r]
  BY <1>0, <1>1 DEF TurnOK, MineOK, ExchangeOK, InTurn
<1>3. process # 0 /\ process \in 1..Len(proc)
  BY <1>2, TheHandler
<1>4. p \in Process /\ (p.reaped => ~p.runs) /\ (p.closed # "no" => ~p.open)
  BY <1>3, TheProc
<1>5. p.open /\ p.said # <<>> /\ proc' = [proc EXCEPT ![process] = q]
  BY <1>2 DEF ReadEvent
<1>6. AnswersOnly(p, r)
  BY <1>0, <1>1, <1>5 DEF ExchangeOK
<1>7. Tail(p.said) \in Seq(Event)
  BY <1>4, <1>5 DEF Process
<1>8. q \in Process /\ Follows(p, q) /\ q.scope = ScopeOf[r] /\ q.said = Tail(p.said) /\ q.work = p.work
  BY <1>2, <1>4, <1>7 DEF Process, Follows
<1>. HIDE DEF q
<1>9. AnswersOnly(q, r) /\ event \in Event /\ event.of = r /\ (event.what = "done" => Silent(q))
  BY <1>4, <1>5, <1>6, <1>8, ReadOne
<1>10. p.model \in Models
  BY <1>4 DEF Process
<1>11. PinnedTo(ScopeOf[r], p.model) \in Seq(Pin)
  BY <1>0, <1>10, PinsTyped
<1>. HIDE DEF event
<1>12. event.what \in {"model", "text", "done", "error"}
  BY <1>9 DEF Event
<1>13. ASSUME NEW h \in Handlers, hdl' = [hdl EXCEPT ![r] = h], h.at \in {"read", "leave"}, h.mine = process,
              h.heard \subseteq {r}, h.clean => h.at = "leave" /\ event.what = "done", pins' \in Seq(Pin)
       PROVE  LocalInv'
  <2>1. hdl'[r] = h
    BY <1>0, <1>13
  <2>2. MineOK(r)' /\ h.at \in InTurn
    BY <1>1, <1>3, <1>13, <2>1 DEF MineOK, InTurn
  <2>3. ~Busy(r)' => h.clean
    BY <1>3, <1>13, <2>1 DEF Busy
  <2>. QED  BY <1>1, <1>2, <1>3, <1>5, <1>8, <1>9, <1>13, <2>2, <2>3, InStep
<1>14. CASE event.what = "model"
  <2>1. pins' = PinnedTo(ScopeOf[r], p.model) /\ UNCHANGED hdl
    BY <1>2, <1>14 DEF ReadEvent, event
  <2>2. hdl' = [hdl EXCEPT ![r] = hdl[r]]
    BY <1>0, <2>1
  <2>. QED  BY <1>0, <1>1, <1>2, <1>11, <1>13, <2>1, <2>2
<1>15. CASE event.what = "text"
  <2>0. pins' \in Seq(Pin)
    BY <1>0, <1>2, <1>15 DEF ReadEvent, event
  <2>1. CASE hdl' = [hdl EXCEPT ![r].heard = @ \cup {event.of}]
    <3>. DEFINE h == [hdl[r] EXCEPT !.heard = @ \cup {event.of}]
    <3>1. hdl' = [hdl EXCEPT ![r] = h]
      BY <2>1
    <3>2. h \in Handlers /\ h.at = "read" /\ h.mine = process /\ h.heard \subseteq {r} /\ ~h.clean
      BY <1>0, <1>1, <1>2, <1>9 DEF Handlers
    <3>. HIDE DEF h
    <3>. QED  BY <1>13, <2>0, <3>1, <3>2
  <2>2. CASE Goes(r, "leave")
    <3>. DEFINE h == [hdl[r] EXCEPT !.at = "leave"]
    <3>1. hdl' = [hdl EXCEPT ![r] = h]
      BY <2>2 DEF Goes
    <3>2. h \in Handlers /\ h.at = "leave" /\ h.mine = process /\ h.heard \subseteq {r} /\ ~h.clean
      BY <1>0, <1>2 DEF Handlers, Stages
    <3>. HIDE DEF h
    <3>. QED  BY <1>13, <2>0, <3>1, <3>2
  <2>. QED  BY <1>2, <1>15, <2>1, <2>2 DEF ReadEvent, event
<1>16. CASE event.what = "done"
  <2>0. pins' \in Seq(Pin)
    BY <1>0, <1>2, <1>16 DEF ReadEvent, event
  <2>1. PICK clean \in BOOLEAN : hdl' =
            [hdl EXCEPT ![r].at = "leave", ![r].clean = clean, ![r].heard = @ \cup {event.of}]
    BY <1>2, <1>16 DEF ReadEvent, event
  <2>. DEFINE h == [hdl[r] EXCEPT !.at = "leave", !.clean = clean, !.heard = @ \cup {event.of}]
  <2>2. hdl' = [hdl EXCEPT ![r] = h]
    BY <2>1
  <2>3. h \in Handlers /\ h.at = "leave" /\ h.mine = process /\ h.heard \subseteq {r}
    BY <1>0, <1>2, <1>9 DEF Handlers, Stages
  <2>. HIDE DEF h
  <2>. QED  BY <1>13, <1>16, <2>0, <2>2, <2>3
<1>17. CASE event.what = "error"
  <2>0. pins' \in Seq(Pin)
    BY <1>0, <1>2, <1>17 DEF ReadEvent, event
  <2>. DEFINE h == [hdl[r] EXCEPT !.at = "leave", !.over = TRUE]
  <2>1. hdl' = [hdl EXCEPT ![r] = h]
    BY <1>2, <1>17 DEF ReadEvent, event
  <2>2. h \in Handlers /\ h.at = "leave" /\ h.mine = process /\ h.heard \subseteq {r} /\ ~h.clean
    BY <1>0, <1>2 DEF Handlers, Stages
  <2>. HIDE DEF h
  <2>. QED  BY <1>13, <2>0, <2>1, <2>2
<1>. QED  BY <1>12, <1>14, <1>15, <1>16, <1>17

LEMMA LeaveStep ==
    ASSUME LocalInv, NEW r \in Request, Leave(r)
    PROVE  LocalInv'
<1>. DEFINE p == proc[process]
<1>0. /\ hdl \in [Request -> Handlers] /\ hdl[r] \in Handlers /\ MineOK(r) /\ ExchangeOK(r) /\ pins' \in Seq(Pin)
      /\ TurnOK(r) /\ r # "nobody" /\ Finished \in Handlers /\ Finished.at = "done" /\ Finished.mine = 0
      /\ ~Finished.clean /\ Finished.heard = {}
  BY TheHandler DEF Leave
<1>1. hdl[r].at = "leave" /\ UNCHANGED <<process, server>> /\ server # "exited"
  BY DEF Leave, Alive
<1>2. turn = r /\ hdl[r].heard \subseteq {r} /\ (hdl[r].mine # 0 => hdl[r].mine = process)
  BY <1>0, <1>1 DEF TurnOK, MineOK, ExchangeOK, InTurn
<1>3. Finished.at \notin InTurn /\ Finished.at \notin {"send", "read"}
  BY <1>0 DEF InTurn
<1>4. ASSUME hdl' = [hdl EXCEPT ![r] = Finished] PROVE MineOK(r)' /\ ~Busy(r)'
  <2>1. hdl'[r] = Finished
    BY <1>0, <1>4
  <2>. QED  BY <1>0, <2>1 DEF MineOK, Busy
<1>5. CASE hdl[r].mine = 0 /\ Finishes(r) /\ turn' = "nobody" /\ UNCHANGED proc
  <2>1. hdl' = [hdl EXCEPT ![r] = Finished]
    BY <1>5 DEF Finishes
  <2>2. ~Busy(r)
    BY <1>1, <1>5 DEF Busy
  <2>. QED  BY <1>0, <1>1, <1>2, <1>3, <1>4, <1>5, <2>1, <2>2, AloneStep
<1>6. CASE /\ hdl[r].mine # 0 /\ hdl[r].clean /\ Finishes(r) /\ turn' = "nobody"
           /\ proc' = [proc EXCEPT ![hdl[r].mine].idle = "set",
                                   ![hdl[r].mine].doomed = hdl[r].over /\ proc[hdl[r].mine].closed = "no"]
  <2>1. hdl' = [hdl EXCEPT ![r] = Finished]
    BY <1>6 DEF Finishes
  <2>2. process # 0 /\ process \in 1..Len(proc) /\ hdl[r].mine = process
    BY <1>2, <1>6, TheHandler
  <2>3. p \in Process /\ (p.reaped => ~p.runs) /\ (p.closed # "no" => ~p.open)
    BY <2>2, TheProc
  <2>. DEFINE doomed == hdl[r].over /\ p.closed = "no"
              q == [p EXCEPT !.idle = "set", !.doomed = doomed]
  <2>4. proc' = [proc EXCEPT ![process] = q]
    BY <1>6, <2>2
  <2>5. doomed \in BOOLEAN
    OBVIOUS
  <2>. HIDE DEF doomed
  <2>6. q \in Process /\ Follows(p, q) /\ q.work = p.work /\ q.said = p.said /\ q.open = p.open
    BY <2>3, <2>5 DEF Process, Follows
  <2>. HIDE DEF q
  <2>7. q.open => Silent(q)
    <3>1. ~Busy(r)
      BY <1>1, <1>6 DEF Busy
    <3>. QED  BY <1>2, <2>2, <2>6, <3>1, StaySilent DEF Silent
  <2>. QED  BY <1>0, <1>1, <1>2, <1>3, <1>4, <1>6, <2>1, <2>2, <2>4, <2>6, <2>7, InStep
<1>7. CASE hdl[r].mine # 0 /\ ~hdl[r].clean /\ Goes(r, "closing") /\ Close(hdl[r].mine) /\ UNCHANGED turn
  <2>. DEFINE h == [hdl[r] EXCEPT !.at = "closing"]
              q == Closed(p)
  <2>1. hdl' = [hdl EXCEPT ![r] = h]
    BY <1>7 DEF Goes
  <2>2. process # 0 /\ process \in 1..Len(proc) /\ hdl[r].mine = process
    BY <1>2, <1>7, TheHandler
  <2>3. p \in Process /\ (p.reaped => ~p.runs) /\ (p.closed # "no" => ~p.open)
    BY <2>2, TheProc
  <2>4. proc' = [proc EXCEPT ![process] = q]
    BY <1>7, <2>2 DEF Close
  <2>5. q \in Process /\ ~q.open /\ q.closed # "no" /\ q.runs = p.runs /\ q.reaped = p.reaped /\ q.scope = p.scope
    BY <2>3, ClosedIsShut
  <2>6. h \in Handlers /\ h.at = "closing" /\ h.mine = process /\ h.heard \subseteq {r} /\ ~h.clean
    BY <1>0, <1>2, <1>7, <2>2 DEF Handlers, Stages
  <2>. HIDE DEF h, q
  <2>7. Follows(p, q)
    BY <2>3, <2>5 DEF Follows
  <2>8. hdl'[r] = h
    BY <1>0, <2>1
  <2>9. MineOK(r)' /\ h.at \in InTurn
    BY <1>1, <2>2, <2>6, <2>8 DEF MineOK, InTurn
  <2>. QED  BY <1>0, <1>1, <1>2, <1>7, <2>1, <2>2, <2>4, <2>5, <2>6, <2>7, <2>9, InStep
<1>. QED  BY <1>5, <1>6, <1>7 DEF Leave

LEMMA LeaveClosedStep ==
    ASSUME LocalInv, NEW r \in Request, LeaveClosed(r)
    PROVE  LocalInv'
<1>0. /\ hdl \in [Request -> Handlers] /\ MineOK(r) /\ ExchangeOK(r) /\ pins' \in Seq(Pin)
      /\ TurnOK(r) /\ r # "nobody" /\ Finished \in Handlers /\ Finished.at = "done" /\ Finished.mine = 0
      /\ ~Finished.clean /\ Finished.heard = {}
  BY TheHandler DEF LeaveClosed
<1>1. /\ hdl[r].at = "closing" /\ UNCHANGED <<process, proc, server>> /\ server # "exited" /\ turn' = "nobody"
      /\ hdl' = [hdl EXCEPT ![r] = Finished]
  BY DEF LeaveClosed, Alive, Finishes
<1>2. turn = r /\ ~Busy(r)
  BY <1>0, <1>1 DEF TurnOK, InTurn, Busy
<1>3. Finished.at \notin InTurn /\ Finished.at \notin {"send", "read"}
  BY <1>0 DEF InTurn
<1>4. hdl'[r] = Finished
  BY <1>0, <1>1
<1>5. MineOK(r)'
  BY <1>0, <1>4 DEF MineOK
<1>. QED  BY <1>0, <1>1, <1>2, <1>3, <1>5, AloneStep

-----------------------------------------------------------------------------
(***************************************************************************)
(* The shutdown                                                            *)
(***************************************************************************)
LEMMA MainTakesTurnStep ==
    ASSUME LocalInv, MainTakesTurn
    PROVE  LocalInv'
<1>i. LocalShape /\ Quiet /\ ServerOK
      /\ (\A s \in Request : TurnOK(s) /\ MineOK(s) /\ ExchangeOK(s))
      /\ \A j \in 1..Len(proc) : ProcOK(j)
  BY DEF LocalInv
<1>1. /\ server = "stopping" /\ turn = "nobody" /\ turn' = "main" /\ server' = "closing"
      /\ UNCHANGED <<hdl, process, pins>>
  BY DEF MainTakesTurn
<1>p. proc \in Seq(Process) /\ process \in 0..Len(proc) /\ Len(proc) \in Nat
  BY <1>i DEF LocalShape
<1>2. /\ proc' \in Seq(Process) /\ Len(proc') = Len(proc)
      /\ \A j \in 1..Len(proc) : j # process => proc'[j] = proc[j]
      /\ process # 0 => ~proc'[process].open /\ Follows(proc[process], proc'[process])
  <2>1. CASE process = 0
    BY <1>p, <2>1 DEF MainTakesTurn
  <2>2. CASE process # 0
    <3>. DEFINE p == proc[process]
                q == TimerStopped(Closed(p))
    <3>1. process \in 1..Len(proc)
      BY <1>p, <2>2
    <3>2. p \in Process /\ (p.reaped => ~p.runs) /\ (p.closed # "no" => ~p.open)
      BY <3>1, TheProc
    <3>3. Closed(p) \in Process /\ ~Closed(p).open /\ Closed(p).closed # "no" /\ Closed(p).runs = p.runs
          /\ Closed(p).reaped = p.reaped /\ Closed(p).scope = p.scope
      BY <3>2, ClosedIsShut
    <3>4. q \in Process /\ Follows(p, q) /\ ~q.open
      BY <3>2, <3>3 DEF Process, Follows, TimerStopped
    <3>5. proc' = [proc EXCEPT ![process] = q]
      BY <2>2 DEF MainTakesTurn
    <3>. HIDE DEF q
    <3>. QED  BY <1>p, <3>1, <3>4, <3>5
  <2>. QED  BY <2>1, <2>2
<1>3. LocalShape'
  BY <1>i, <1>1, <1>2 DEF LocalShape
<1>4. Quiet'
  BY <1>1, <1>2 DEF Quiet
<1>5. ServerOK'
  BY <1>1 DEF ServerOK
<1>6. ASSUME NEW s \in Request PROVE TurnOK(s)' /\ MineOK(s)' /\ ExchangeOK(s)'
  <2>1. s # "nobody" /\ s # "main"
    BY LocalConstants
  <2>2. hdl[s].at \notin InTurn /\ hdl'[s] = hdl[s] /\ MineOK(s) /\ ExchangeOK(s)
    BY <1>i, <1>1, <2>1 DEF TurnOK
  <2>. QED  BY <1>1, <2>1, <2>2 DEF TurnOK, MineOK, ExchangeOK, InTurn
<1>7. ASSUME NEW j \in 1..Len(proc) PROVE ProcOK(j)'
  <2>1. CASE j # process
    BY <2>1, <1>i, <1>1, <1>2 DEF ProcOK
  <2>2. CASE j = process
    <3>1. Follows(proc[j], proc'[j]) /\ process' = j
      BY <2>2, <1>1, <1>2
    <3>. QED  BY <2>2, <3>1 DEF ProcOK, Follows
  <2>. QED  BY <2>1, <2>2
<1>. QED  BY <1>2, <1>3, <1>4, <1>5, <1>6, <1>7 DEF LocalInv

LEMMA MainExitsStep ==
    ASSUME LocalInv, MainExits
    PROVE  LocalInv'
<1>i. LocalShape /\ Quiet /\ ServerOK
      /\ (\A s \in Request : TurnOK(s) /\ MineOK(s) /\ ExchangeOK(s))
      /\ \A j \in 1..Len(proc) : ProcOK(j)
  BY DEF LocalInv
<1>1. /\ server = "closing" /\ server' = "exited" /\ UNCHANGED <<hdl, turn, process, proc, pins>>
      /\ process # 0 => proc[process].reaped
  BY DEF MainExits
<1>2. LocalShape'
  BY <1>i, <1>1 DEF LocalShape
<1>3. Quiet'
  BY <1>i, <1>1 DEF Quiet, Busy
<1>4. ServerOK'
  <2>1. process # 0 => process \in 1..Len(proc)
    BY <1>i DEF LocalShape
  <2>2. process # 0 => ~proc[process].runs
    BY <1>i, <1>1, <2>1 DEF ProcOK
  <2>. QED  BY <1>i, <1>1, <2>2 DEF ServerOK
<1>5. \A s \in Request : TurnOK(s)' /\ MineOK(s)' /\ ExchangeOK(s)'
  BY <1>i, <1>1 DEF TurnOK, MineOK, ExchangeOK
<1>6. \A j \in 1..Len(proc') : ProcOK(j)'
  BY <1>i, <1>1 DEF ProcOK
<1>. QED  BY <1>2, <1>3, <1>4, <1>5, <1>6 DEF LocalInv

-----------------------------------------------------------------------------
(***************************************************************************)
(* The theorems of local mode                                              *)
(***************************************************************************)
LEMMA LocalInitOK ==
    ASSUME LocalInit
    PROVE  LocalInv
<1>1. <<>> \in Seq(Process) /\ Len(<<>>) = 0 /\ <<>> \in Seq(Pin)
  OBVIOUS
<1>2. NewHandler \in Handlers /\ NewHandler.at = "new" /\ NewHandler.mine = 0 /\ ~NewHandler.clean
      /\ NewHandler.heard = {}
  BY DEF NewHandler, Handlers, Stages
<1>3. hdl \in [Request -> Handlers] /\ \A r \in Request : hdl[r] = NewHandler
  BY <1>2 DEF LocalInit
<1>4. LocalShape
  BY <1>1, <1>3 DEF LocalShape, LocalInit
<1>5. Quiet /\ ServerOK /\ \A i \in 1..Len(proc) : ProcOK(i)
  BY <1>1 DEF Quiet, ServerOK, LocalInit
<1>6. ASSUME NEW r \in Request PROVE TurnOK(r) /\ MineOK(r) /\ ExchangeOK(r)
  <2>1. hdl[r] = NewHandler /\ turn = "nobody" /\ r # "nobody"
    BY <1>3, LocalConstants DEF LocalInit
  <2>. QED  BY <1>2, <2>1 DEF TurnOK, MineOK, ExchangeOK, InTurn
<1>. QED  BY <1>4, <1>5, <1>6 DEF LocalInv

LEMMA LocalSteps ==
    ASSUME LocalInv, LocalNext
    PROVE  LocalInv'
<1>1. ASSUME NEW r \in Request, Arrive(r) \/ Handler(r) \/ Cancel(r) PROVE LocalInv'
  BY <1>1, ArriveStep, CancelStep, GetTurnStep, GiveUpStep, FindClientStep, RetireClientStep, StartClientStep,
     CancelClosesStep, SendStep, ReadEventStep, ReadEndsStep, LeaveStep, LeaveClosedStep DEF Handler
<1>2. CASE StopServer \/ MainTakesTurn \/ MainExits
  BY <1>2, StopStep, MainTakesTurnStep, MainExitsStep
<1>. QED  BY <1>1, <1>2, ProcessSteps DEF LocalNext

LEMMA LocalStutters ==
    ASSUME LocalInv, UNCHANGED localVars
    PROVE  LocalInv'
<1>1. UNCHANGED <<hdl, turn, process, proc, pins, server>>
  BY DEF localVars
<1>. QED  BY <1>1 DEF LocalInv, LocalShape, Quiet, Busy, ServerOK, TurnOK, MineOK, ExchangeOK, ProcOK

\* The inductive invariant of local mode holds in every behaviour of the gateway.
THEOREM LocalInvariant == Spec => []LocalInv
<1>1. Init => LocalInv
  BY LocalInitOK DEF Init
<1>2. LocalInv /\ [Next]_vars => LocalInv'
  BY LocalSteps, LocalStutters DEF Next, vars, localVars
<1>. QED  BY <1>1, <1>2, PTL DEF Spec

\* There is never more than one dan-client process, and none once the gateway has
\* exited: a retired one has been reaped before the next is started.
THEOREM AlwaysOneClient == Spec => []OneClient
<1>1. LocalInv => OneClient
  <2>. SUFFICES ASSUME LocalInv PROVE OneClient
    OBVIOUS
  <2>1. DOMAIN proc = 1..Len(proc)
    BY DEF LocalInv, LocalShape
  <2>2. \A i \in DOMAIN proc : proc[i].runs => i = process
    BY <2>1 DEF LocalInv, ProcOK
  <2>3. server = "exited" => \A i \in DOMAIN proc : ~proc[i].runs
    BY <2>1, <2>2 DEF LocalInv, ServerOK
  <2>. QED  BY <2>2, <2>3 DEF OneClient
<1>. QED  BY <1>1, LocalInvariant, PTL

\* What a request reads was generated for it, by a client of its conversation: the
\* rest of an answer that was broken off is never in a client that is kept.
THEOREM AlwaysOwnText == Spec => []OwnText
<1>1. LocalInv => OwnText
  BY DEF LocalInv, ExchangeOK, MineOK, OwnText
<1>. QED  BY <1>1, LocalInvariant, PTL

-----------------------------------------------------------------------------
(***************************************************************************)
(* Coordinator mode                                                        *)
(***************************************************************************)
Ids == Chat \X Nat
Text == Seq(Message)
Rec == [key : Text, id : Ids, ep : Endpoint, old : BOOLEAN]
Call == [kind : {"create", "prompt", "running"}, of : Chat, ep : Endpoint, id : Ids, text : Text]
Session == [ep : Endpoint, id : Ids, text : Text]
Chats == [
    at : {"new", "fresh", "continue", "create", "generate", "done"}, ses : Ids \cup {NoSession},
    ep : Endpoint, todo : Seq(Endpoint), emitted : BOOLEAN, over : BOOLEAN]

RemoteShape ==
    /\ chat \in [Chat -> Chats] /\ recs \in SUBSET Rec /\ calls \in SUBSET Call /\ sess \in SUBSET Session
    /\ turns \in Nat
    /\ \A c \in Chat : /\ chat[c].at = "fresh" => chat[c].todo # <<>>
                       /\ Waiting(c) => chat[c].ses \in Ids

\* The session IDs that chat c may still choose are in nobody's hands.
Spare(c, k) ==
    \/ chat[c].at \in {"new", "continue"}
    \/ chat[c].at \in {"fresh", "create", "generate"} /\ k <= Len(chat[c].todo)
InRecs(id) == \E rec \in recs : rec.id = id
InCalls(id) == \E call \in calls : call.id = id
InSess(id) == \E s \in sess : s.id = id
InHand(id) == \E c \in Chat : Waiting(c) /\ chat[c].ses = id
Unused ==
    \A c \in Chat : \A k \in Nat : Spare(c, k) =>
        ~InRecs(<<c, k>>) /\ ~InCalls(<<c, k>>) /\ ~InSess(<<c, k>>) /\ ~InHand(<<c, k>>)

\* A session is in one pair of hands: one record, or one handler, and at most one
\* call is on its way to it.
OneRecord == \A one, two \in recs : one.key = two.key <=> one.id = two.id
OneHand == \A c, d \in Chat : Waiting(c) /\ Waiting(d) /\ chat[c].ses = chat[d].ses => c = d
HandOrTable == \A c \in Chat : Waiting(c) => ~InRecs(chat[c].ses)
CallOrTable == \A call \in calls : ~InRecs(call.id)
OneCall == \A one, two \in calls : one.id = two.id => one = two
CallOfHand ==
    \A call \in calls : \A c \in Chat :
        Waiting(c) /\ chat[c].ses = call.id => call.of = c /\ call.ep = chat[c].ep

\* Where a session is and what it has read.
NotYet == \A call \in calls : call.kind = "create" => ~InSess(call.id)
HandPlace == \A s \in sess : \A c \in Chat : Waiting(c) /\ chat[c].ses = s.id => s.ep = chat[c].ep
RecordText == \A s \in sess : \A rec \in recs : s.id = rec.id => s.ep = rec.ep /\ s.text = rec.key
CallText ==
    \A s \in sess : \A call \in calls : Awaited(call) /\ s.id = call.id =>
        /\ call.kind = "prompt" => s.text \o call.text = AskOf[call.of]
        /\ call.kind = "running" => s.text = AskOf[call.of]

Hands ==
    /\ Unused /\ OneRecord /\ OneHand /\ HandOrTable /\ CallOrTable /\ OneCall /\ CallOfHand
    /\ NotYet /\ HandPlace /\ RecordText /\ CallText

RemoteInv == RemoteShape /\ Hands /\ NoForgottenSession

\* A step that only takes away: no new record (one may age), call or session, and no
\* handler that waits for anything new.
LEMMA Shrinks ==
    ASSUME Hands, calls' \subseteq calls, sess' \subseteq sess, \A call \in calls : call.of \in Chat,
           \A new \in recs' : \E rec \in recs : rec.key = new.key /\ rec.id = new.id /\ rec.ep = new.ep,
           \A c \in Chat : Waiting(c)' => /\ Waiting(c)
                                          /\ chat'[c].ses = chat[c].ses /\ chat'[c].ep = chat[c].ep,
           \A c \in Chat : \A k \in Nat : Spare(c, k)' => Spare(c, k)
    PROVE  Hands'
<1>1. ASSUME NEW id, InRecs(id)' PROVE InRecs(id)
  BY <1>1 DEF InRecs
<1>2. ASSUME NEW id, InCalls(id)' PROVE InCalls(id)
  BY <1>2 DEF InCalls
<1>3. ASSUME NEW id, InSess(id)' PROVE InSess(id)
  BY <1>3 DEF InSess
<1>4. ASSUME NEW id, InHand(id)' PROVE InHand(id)
  BY <1>4 DEF InHand
<1>5. Unused'
  BY <1>1, <1>2, <1>3, <1>4 DEF Hands, Unused
<1>6. OneRecord'
  BY DEF Hands, OneRecord
<1>7. OneHand'
  BY DEF Hands, OneHand
<1>8. HandOrTable'
  BY <1>1 DEF Hands, HandOrTable
<1>9. CallOrTable'
  BY <1>1 DEF Hands, CallOrTable
<1>10. OneCall'
  BY DEF Hands, OneCall
<1>11. CallOfHand'
  BY DEF Hands, CallOfHand
<1>12. NotYet'
  BY <1>3 DEF Hands, NotYet
<1>13. HandPlace'
  BY DEF Hands, HandPlace
<1>14. RecordText'
  BY DEF Hands, RecordText
<1>15. CallText'
  <2>1. ASSUME NEW call \in calls', Awaited(call)' PROVE Awaited(call)
    BY <2>1 DEF Awaited
  <2>. QED  BY <2>1 DEF Hands, CallText
<1>. QED  BY <1>5, <1>6, <1>7, <1>8, <1>9, <1>10, <1>11, <1>12, <1>13, <1>14, <1>15 DEF Hands

LEMMA RemoteTypes ==
    ASSUME RemoteShape
    PROVE  /\ \A call \in calls : /\ call \in Call /\ call.of \in Chat /\ call.ep \in Endpoint /\ call.id \in Ids
                                  /\ call.text \in Text
           /\ \A rec \in recs : /\ rec \in Rec /\ rec.key \in Text /\ rec.ep \in Endpoint /\ rec.id \in Ids
           /\ \A s \in sess : /\ s \in Session /\ s.ep \in Endpoint /\ s.id \in Ids /\ s.text \in Text
           /\ \A c \in Chat : chat[c] \in Chats
BY DEF RemoteShape, Call, Rec, Session

\* A sequence is all but its last element, then that.
LEMMA JoinLast ==
    ASSUME NEW S, NEW a \in Seq(S), NEW u \in Seq(S), NEW v \in Seq(S),
           Len(u) = Len(a) - 1, Len(v) = 1, v[1] = a[Len(a)], \A k \in 1..(Len(a) - 1) : u[k] = a[k]
    PROVE  u \o v = a
<1>. DEFINE b == u \o v
<1>1. /\ b \in Seq(S) /\ Len(b) = Len(u) + Len(v)
      /\ \A i \in 1..(Len(u) + Len(v)) : b[i] = IF i <= Len(u) THEN u[i] ELSE v[i - Len(u)]
  BY ConcatProperties
<1>. HIDE DEF b
<1>2. Len(b) = Len(a) /\ \A k \in 1..Len(a) : b[k] = a[k]
  BY <1>1
<1>3. b = a
  BY <1>1, <1>2, SeqEqual
<1>. QED  BY <1>3 DEF b

\* A chat's messages are its history and the new one.
LEMMA TextParts ==
    ASSUME NEW c \in Chat
    PROVE  /\ AskOf[c] \in Text /\ History(c) \in Text /\ Newest(c) \in Text /\ <<>> \in Text
           /\ History(c) \o Newest(c) = AskOf[c] /\ <<>> \o AskOf[c] = AskOf[c]
<1>1. AskOf[c] \in Seq(Message) /\ AskOf[c] # <<>>
  BY RemoteConstants
<1>. DEFINE a == AskOf[c]
            n == Len(AskOf[c])
<1>2. n \in Nat /\ n >= 1
  BY <1>1
<1>3. History(c) \in Seq(Message) /\ Newest(c) \in Seq(Message) /\ Len(History(c)) = n - 1 /\ Len(Newest(c)) = 1
  BY <1>1, <1>2 DEF History, Newest
<1>4. Newest(c)[1] = a[n] /\ \A k \in 1..(n - 1) : History(c)[k] = a[k]
  BY <1>1, <1>2 DEF History, Newest
<1>5. History(c) \o Newest(c) = a
  BY <1>1, <1>3, <1>4, JoinLast
<1>6. <<>> \in Seq(Message) /\ <<>> \o a = a
  BY <1>1
<1>. QED  BY <1>1, <1>3, <1>5, <1>6 DEF Text

LEMMA RotatedOK ==
    ASSUME turns \in Nat
    PROVE  Rotated \in Seq(Endpoint) /\ Rotated # <<>> /\ (turns + 1) % Len(Endpoints) \in Nat
<1>. DEFINE n == Len(Endpoints)
<1>1. n \in Nat /\ n >= 1 /\ DOMAIN Endpoints = 1..n
  BY RemoteConstants
<1>2. \A a \in Nat : a % n \in 0..(n - 1)
  BY <1>1
<1>. HIDE DEF n
<1>3. ASSUME NEW k \in 1..n PROVE Endpoints[((turns + k - 1) % n) + 1] \in Endpoint
  <2>1. turns + k - 1 \in Nat
    BY <1>1
  <2>2. (turns + k - 1) % n \in 0..(n - 1)
    BY <1>2, <2>1
  <2>3. ((turns + k - 1) % n) + 1 \in 1..n
    BY <1>1, <2>2
  <2>. QED  BY <1>1, <2>3 DEF Endpoint
<1>4. Rotated \in [1..n -> Endpoint]
  BY <1>1, <1>3 DEF Rotated, n
<1>5. Rotated \in Seq(Endpoint) /\ Len(Rotated) = n
  BY <1>1, <1>4
<1>6. Rotated # <<>>
  BY <1>1, <1>5
<1>7. (turns + 1) % n \in Nat
  BY <1>1, <1>2
<1>. QED  BY <1>5, <1>6, <1>7 DEF n

LEMMA EndedOK == Ended \in Chats /\ Ended.at = "done" /\ NewChat \in Chats /\ NewChat.at = "new"
<1>1. Endpoints[1] \in Endpoint
  BY RemoteConstants DEF Endpoint
<1>2. <<>> \in Seq(Endpoint)
  OBVIOUS
<1>. QED  BY <1>1, <1>2 DEF Ended, NewChat, Chats

\* A session is in somebody's hands.
Held(s) == s.id \in lost \/ <<s.ep, s.id>> \in destroying \/ InRecs(s.id) \/ InHand(s.id)

LEMMA HeldIs == NoForgottenSession <=> \A s \in sess : Held(s)
BY DEF NoForgottenSession, Held, InRecs, InHand

\* One handler goes on; the others wait for what they waited for.
LEMMA OthersWait ==
    ASSUME RemoteShape, NEW c \in Chat, NEW h \in Chats, chat' = [chat EXCEPT ![c] = h]
    PROVE  /\ chat' \in [Chat -> Chats] /\ chat'[c] = h
           /\ Waiting(c)' <=> h.at \in {"continue", "create", "generate"}
           /\ \A d \in Chat : d # c => chat'[d] = chat[d] /\ (Waiting(d)' <=> Waiting(d))
           /\ \A d \in Chat : \A k \in Nat : d # c => (Spare(d, k)' <=> Spare(d, k))
<1>1. chat' \in [Chat -> Chats] /\ chat'[c] = h /\ \A d \in Chat : d # c => chat'[d] = chat[d]
  BY DEF RemoteShape
<1>2. \A d \in Chat : d # c => (Waiting(d)' <=> Waiting(d))
  BY <1>1 DEF Waiting
<1>3. \A d \in Chat : \A k \in Nat : d # c => (Spare(d, k)' <=> Spare(d, k))
  BY <1>1 DEF Spare
<1>. QED  BY <1>1, <1>2, <1>3 DEF Waiting

-----------------------------------------------------------------------------
(***************************************************************************)
(* Steps that take away                                                    *)
(***************************************************************************)
LEMMA FailsStep ==
    ASSUME RemoteInv, NEW c \in Chat, Waiting(c), NEW over \in BOOLEAN, NEW final \in BOOLEAN,
           Fails(c, over, final), calls' \subseteq calls, sess' = sess
    PROVE  RemoteInv'
<1>i. RemoteShape /\ Hands /\ NoForgottenSession
  BY DEF RemoteInv
<1>. DEFINE h == chat[c]
            fresh == [h EXCEPT !.at = "fresh", !.over = over, !.emitted = FALSE]
            again == [fresh EXCEPT !.todo = Rotated]
<1>0. h \in Chats /\ turns \in Nat /\ Rotated \in Seq(Endpoint) /\ Rotated # <<>>
      /\ (turns + 1) % Len(Endpoints) \in Nat
  BY <1>i, RotatedOK DEF RemoteShape
<1>1. fresh \in Chats /\ fresh.at = "fresh" /\ fresh.todo = h.todo
  BY <1>0 DEF Chats
<1>2. again \in Chats /\ again.at = "fresh" /\ again.todo = Rotated
  BY <1>0 DEF Chats
<1>3. Ended \in Chats /\ Ended.at = "done"
  BY EndedOK
<1>4. destroying' = destroying \cup {<<h.ep, h.ses>>} /\ UNCHANGED <<recs, lost>>
  BY DEF Fails
<1>. HIDE DEF fresh, again
<1>5. turns' \in Nat /\ \E g \in Chats :
        /\ chat' = [chat EXCEPT ![c] = g] /\ g.at \in {"fresh", "done"}
        /\ g.at = "fresh" => g.todo # <<>> /\ (h.at = "continue" \/ g.todo = h.todo)
  <2>1. CASE h.at = "continue"
    <3>1. chat' = [chat EXCEPT ![c] = again] /\ turns' = (turns + 1) % Len(Endpoints)
      BY <2>1 DEF Fails, fresh, again, NextTurn
    <3>. QED  BY <1>0, <1>2, <2>1, <3>1
  <2>2. CASE h.at # "continue"
    <3>. DEFINE stop == h.emitted \/ over \/ final \/ h.todo = <<>>
    <3>1. chat' = [chat EXCEPT ![c] = IF stop THEN Ended ELSE fresh] /\ turns' = turns
      BY <2>2 DEF Fails, fresh
    <3>2. CASE stop
      BY <1>0, <1>3, <3>1, <3>2
    <3>3. CASE ~stop
      BY <1>0, <1>1, <3>1, <3>3
    <3>. QED  BY <3>2, <3>3
  <2>. QED  BY <2>1, <2>2
<1>6. PICK g \in Chats :
        /\ chat' = [chat EXCEPT ![c] = g] /\ g.at \in {"fresh", "done"}
        /\ g.at = "fresh" => g.todo # <<>> /\ (h.at = "continue" \/ g.todo = h.todo)
  BY <1>5
<1>7. /\ chat' \in [Chat -> Chats] /\ chat'[c] = g /\ ~Waiting(c)'
      /\ \A d \in Chat : d # c => chat'[d] = chat[d] /\ (Waiting(d)' <=> Waiting(d))
      /\ \A d \in Chat : \A k \in Nat : d # c => (Spare(d, k)' <=> Spare(d, k))
  BY <1>i, <1>6, OthersWait
<1>8. \A k \in Nat : Spare(c, k)' => Spare(c, k)
  BY <1>6, <1>7 DEF Spare, Waiting
<1>9. Hands'
  BY <1>i, <1>4, <1>7, <1>8, Shrinks, RemoteTypes
<1>10. RemoteShape'
  <2>1. ASSUME NEW d \in Chat
        PROVE  (chat'[d].at = "fresh" => chat'[d].todo # <<>>) /\ (Waiting(d)' => chat'[d].ses \in Ids)
    BY <1>i, <1>6, <1>7 DEF RemoteShape
  <2>. QED  BY <1>i, <1>4, <1>5, <1>7, <2>1 DEF RemoteShape
<1>11. NoForgottenSession'
  <2>1. ASSUME NEW s \in sess PROVE Held(s)'
    <3>1. Held(s)
      BY <1>i, HeldIs
    <3>2. InRecs(s.id)' <=> InRecs(s.id)
      BY <1>4 DEF InRecs
    <3>3. CASE h.ses = s.id
      <4>1. s.ep = h.ep
        BY <1>i, <3>3 DEF Hands, HandPlace
      <4>. QED  BY <1>4, <3>3, <4>1 DEF Held
    <3>4. CASE h.ses # s.id
      <4>1. InHand(s.id) => InHand(s.id)'
        BY <1>7, <3>4 DEF InHand
      <4>. QED  BY <1>4, <3>1, <3>2, <4>1 DEF Held
    <3>. QED  BY <3>3, <3>4
  <2>2. sess' = sess
    OBVIOUS
  <2>3. \A s \in sess' : Held(s)'
    BY <2>1, <2>2
  <2>. QED  BY <2>3 DEF NoForgottenSession, Held, InRecs, InHand
<1>. QED  BY <1>9, <1>10, <1>11 DEF RemoteInv

LEMMA HeldThen ==
    ASSUME \A s \in sess' : Held(s)'
    PROVE  NoForgottenSession'
BY DEF NoForgottenSession, Held, InRecs, InHand

LEMMA GivesUpStep ==
    ASSUME RemoteInv, NEW c \in Chat, GivesUp(c)
    PROVE  RemoteInv'
<1>1. PICK over \in {chat[c].over, TRUE} : Fails(c, over, FALSE)
  BY DEF GivesUp
<1>2. over \in BOOLEAN
  BY <1>1 DEF RemoteInv, RemoteShape, Chats
<1>3. Waiting(c) /\ calls' \subseteq calls /\ sess' = sess
  BY DEF GivesUp
<1>. QED  BY <1>1, <1>2, <1>3, FailsStep

\* A step that leaves the handlers alone.
LEMMA TakesAway ==
    ASSUME RemoteInv, UNCHANGED <<chat, turns>>, calls' \subseteq calls, sess' \subseteq sess,
           recs' \in SUBSET Rec,
           \A new \in recs' : \E rec \in recs : rec.key = new.key /\ rec.id = new.id /\ rec.ep = new.ep,
           \A s \in sess' : Held(s)'
    PROVE  RemoteInv'
<1>i. RemoteShape /\ Hands
  BY DEF RemoteInv
<1>1. \A c \in Chat : /\ Waiting(c)' <=> Waiting(c)
                      /\ \A k \in Nat : Spare(c, k)' <=> Spare(c, k)
  BY DEF Waiting, Spare
<1>2. Hands'
  BY <1>i, <1>1, Shrinks, RemoteTypes
<1>3. RemoteShape'
  BY <1>i, <1>1 DEF RemoteShape
<1>. QED  BY <1>2, <1>3, HeldThen DEF RemoteInv

LEMMA ErrorHandledStep ==
    ASSUME RemoteInv, NEW call \in calls, ErrorHandled(call)
    PROVE  RemoteInv'
<1>i. RemoteShape /\ NoForgottenSession /\ call.of \in Chat
  BY RemoteTypes DEF RemoteInv
<1>1. calls' \subseteq calls /\ sess' = sess
  BY DEF ErrorHandled
<1>2. CASE Awaited(call)
  <2>1. PICK final \in BOOLEAN : Fails(call.of, chat[call.of].over, final)
    BY <1>2 DEF ErrorHandled
  <2>2. chat[call.of].over \in BOOLEAN /\ Waiting(call.of)
    BY <1>i, <1>2 DEF RemoteShape, Chats, Awaited
  <2>. QED  BY <1>i, <1>1, <2>1, <2>2, FailsStep
<1>3. CASE ~Awaited(call)
  <2>1. UNCHANGED <<chat, recs, turns, destroying, lost>>
    BY <1>3 DEF ErrorHandled
  <2>2. ASSUME NEW s \in sess PROVE Held(s)'
    <3>1. Held(s)
      BY <1>i, HeldIs
    <3>. QED  BY <2>1, <3>1 DEF Held, InRecs, InHand, Waiting
  <2>3. recs' \in SUBSET Rec
    BY <1>i, <2>1 DEF RemoteShape
  <2>. QED  BY <1>1, <2>1, <2>2, <2>3, TakesAway
<1>. QED  BY <1>2, <1>3

LEMMA ReformStep ==
    ASSUME RemoteInv, NEW e \in Endpoint, Reform(e)
    PROVE  RemoteInv'
<1>i. RemoteShape /\ NoForgottenSession
  BY DEF RemoteInv
<1>1. UNCHANGED <<chat, recs, turns, destroying, calls, lost>> /\ sess' \subseteq sess
  BY DEF Reform
<1>2. ASSUME NEW s \in sess' PROVE Held(s)'
  <2>1. Held(s)
    BY <1>i, <1>1, HeldIs
  <2>. QED  BY <1>1, <2>1 DEF Held, InRecs, InHand, Waiting
<1>3. recs' \in SUBSET Rec
  BY <1>i, <1>1 DEF RemoteShape
<1>. QED  BY <1>1, <1>2, <1>3, TakesAway

LEMMA ExpireStep ==
    ASSUME RemoteInv, NEW rec \in recs, Expire(rec)
    PROVE  RemoteInv'
<1>i. RemoteShape /\ NoForgottenSession /\ rec \in Rec
  BY RemoteTypes DEF RemoteInv
<1>. DEFINE aged == [rec EXCEPT !.old = TRUE]
<1>1. UNCHANGED <<chat, turns, destroying, calls, sess, lost>> /\ recs' = (recs \ {rec}) \cup {aged}
  BY DEF Expire
<1>2. aged \in Rec /\ aged.key = rec.key /\ aged.id = rec.id /\ aged.ep = rec.ep
  BY <1>i DEF Rec
<1>. HIDE DEF aged
<1>3. recs' \in SUBSET Rec
  BY <1>i, <1>1, <1>2 DEF RemoteShape
<1>4. \A new \in recs' : \E old \in recs : old.key = new.key /\ old.id = new.id /\ old.ep = new.ep
  BY <1>1, <1>2
<1>5. ASSUME NEW s \in sess' PROVE Held(s)'
  <2>1. Held(s)
    BY <1>i, <1>1, HeldIs
  <2>2. InRecs(s.id) => InRecs(s.id)'
    BY <1>1, <1>2 DEF InRecs
  <2>3. InHand(s.id) => InHand(s.id)'
    BY <1>1 DEF InHand, Waiting
  <2>. QED  BY <1>1, <2>1, <2>2, <2>3 DEF Held
<1>. QED  BY <1>1, <1>3, <1>4, <1>5, TakesAway

LEMMA SweepStep ==
    ASSUME RemoteInv, Sweep
    PROVE  RemoteInv'
<1>i. RemoteShape /\ Hands /\ NoForgottenSession
  BY DEF RemoteInv
<1>1. /\ UNCHANGED <<chat, turns, calls, sess, lost>> /\ recs' = {rec \in recs : ~rec.old}
      /\ destroying' = destroying \cup {<<rec.ep, rec.id>> : rec \in {r \in recs : r.old}}
  BY DEF Sweep
<1>2. recs' \in SUBSET Rec
  BY <1>i, <1>1 DEF RemoteShape
<1>3. ASSUME NEW s \in sess' PROVE Held(s)'
  <2>1. Held(s) /\ s \in sess
    BY <1>i, <1>1, HeldIs
  <2>2. CASE InRecs(s.id)
    <3>1. PICK rec \in recs : rec.id = s.id
      BY <2>2 DEF InRecs
    <3>2. s.ep = rec.ep
      BY <1>i, <2>1, <3>1 DEF Hands, RecordText
    <3>3. CASE rec.old
      BY <1>1, <3>1, <3>2, <3>3 DEF Held
    <3>4. CASE ~rec.old
      BY <1>1, <3>1, <3>4 DEF Held, InRecs
    <3>. QED  BY <3>3, <3>4
  <2>3. InHand(s.id) => InHand(s.id)'
    BY <1>1 DEF InHand, Waiting
  <2>. QED  BY <1>1, <2>1, <2>2, <2>3 DEF Held
<1>4. \A new \in recs' : \E rec \in recs : rec.key = new.key /\ rec.id = new.id /\ rec.ep = new.ep
  BY <1>1
<1>. QED  BY <1>1, <1>2, <1>3, <1>4, TakesAway

LEMMA DestroyStep ==
    ASSUME RemoteInv, NEW e, NEW id, Destroy(e, id)
    PROVE  RemoteInv'
<1>i. RemoteShape /\ NoForgottenSession
  BY DEF RemoteInv
<1>1. /\ UNCHANGED <<chat, recs, turns, calls>> /\ destroying' = destroying \ {<<e, id>>}
      /\ \/ sess' = {s \in sess : s.ep # e \/ s.id # id} /\ UNCHANGED lost
         \/ lost' = lost \cup {id} /\ UNCHANGED sess
  BY DEF Destroy
<1>2. recs' \in SUBSET Rec /\ sess' \subseteq sess
  BY <1>i, <1>1 DEF RemoteShape
<1>3. ASSUME NEW s \in sess' PROVE Held(s)'
  <2>1. Held(s)
    BY <1>i, <1>2, HeldIs
  <2>2. (InRecs(s.id) => InRecs(s.id)') /\ (InHand(s.id) => InHand(s.id)')
    BY <1>1 DEF InRecs, InHand, Waiting
  <2>3. s.id \in lost => s.id \in lost'
    BY <1>1
  <2>4. CASE <<s.ep, s.id>> = <<e, id>>
    <3>1. s.ep = e /\ s.id = id
      BY <2>4
    <3>2. s.id \in lost'
      BY <1>1, <3>1
    <3>. QED  BY <3>2 DEF Held
  <2>5. CASE <<s.ep, s.id>> # <<e, id>>
    BY <1>1, <2>1, <2>2, <2>3, <2>5 DEF Held
  <2>. QED  BY <2>4, <2>5
<1>. QED  BY <1>1, <1>2, <1>3, TakesAway

LEMMA ChunkStep ==
    ASSUME RemoteInv, NEW call \in calls, Chunk(call)
    PROVE  RemoteInv'
<1>i. RemoteShape /\ Hands /\ NoForgottenSession /\ call.of \in Chat
  BY RemoteTypes DEF RemoteInv
<1>. DEFINE c == call.of
            h == [chat[c] EXCEPT !.emitted = TRUE]
<1>1. UNCHANGED <<recs, turns, destroying, calls, sess, lost>> /\ chat' = [chat EXCEPT ![c] = h]
  BY DEF Chunk
<1>2. h \in Chats /\ h.at = chat[c].at /\ h.ses = chat[c].ses /\ h.ep = chat[c].ep /\ h.todo = chat[c].todo
  BY <1>i DEF RemoteShape, Chats
<1>. HIDE DEF h, c
<1>c. c \in Chat
  BY <1>i DEF c
<1>3. \A d \in Chat : /\ chat'[d].at = chat[d].at /\ chat'[d].ses = chat[d].ses /\ chat'[d].ep = chat[d].ep
                      /\ chat'[d].todo = chat[d].todo /\ chat'[d] \in Chats
  BY <1>i, <1>c, <1>1, <1>2 DEF RemoteShape
<1>4. \A d \in Chat : (Waiting(d)' <=> Waiting(d)) /\ \A k \in Nat : (Spare(d, k)' <=> Spare(d, k))
  BY <1>3 DEF Waiting, Spare
<1>5. Hands'
  BY <1>i, <1>1, <1>3, <1>4, Shrinks, RemoteTypes
<1>6. RemoteShape'
  BY <1>i, <1>c, <1>1, <1>2, <1>3, <1>4 DEF RemoteShape
<1>7. ASSUME NEW s \in sess' PROVE Held(s)'
  <2>1. Held(s)
    BY <1>i, <1>1, HeldIs
  <2>2. InHand(s.id) => InHand(s.id)'
    BY <1>3, <1>4 DEF InHand
  <2>. QED  BY <1>1, <2>1, <2>2 DEF Held, InRecs
<1>. QED  BY <1>5, <1>6, <1>7, HeldThen DEF RemoteInv

-----------------------------------------------------------------------------
(***************************************************************************)
(* Steps that take a session in hand, and the answers                      *)
(***************************************************************************)
\* A handler takes a session nobody else has and may write a call to it.
LEMMA Takes ==
    ASSUME RemoteShape, Hands, NEW c \in Chat, NEW h \in Chats, NEW p \in Call,
           chat' = [chat EXCEPT ![c] = h], ~Waiting(c), h.at \in {"continue", "create"},
           h.ses = p.id, h.ep = p.ep, p.of = c, calls' \subseteq calls \cup {p}, recs' \subseteq recs, sess' = sess,
           ~InCalls(p.id), ~InHand(p.id), ~InRecs(p.id)', p.kind # "running",
           \A s \in sess : s.id = p.id => p.kind = "prompt" /\ s.ep = p.ep /\ s.text \o p.text = AskOf[c],
           \A k \in Nat : Spare(c, k)' => Spare(c, k),
           \A d \in Chat : \A k \in Nat : Spare(d, k)' => <<d, k>> # p.id
    PROVE  Hands'
<1>1. /\ chat'[c] = h /\ Waiting(c)'
      /\ \A d \in Chat : d # c => chat'[d] = chat[d] /\ (Waiting(d)' <=> Waiting(d))
      /\ \A d \in Chat : \A k \in Nat : Spare(d, k)' => Spare(d, k)
  <2>1. /\ chat'[c] = h /\ (Waiting(c)' <=> h.at \in {"continue", "create", "generate"})
        /\ \A d \in Chat : d # c => chat'[d] = chat[d] /\ (Waiting(d)' <=> Waiting(d))
        /\ \A d \in Chat : \A k \in Nat : d # c => (Spare(d, k)' <=> Spare(d, k))
    BY OthersWait
  <2>2. Waiting(c)'
    BY <2>1
  <2>3. ASSUME NEW d \in Chat, NEW k \in Nat, Spare(d, k)' PROVE Spare(d, k)
    <3>1. CASE d = c
      BY <2>3, <3>1
    <3>2. CASE d # c
      BY <2>1, <2>3, <3>2
    <3>. QED  BY <3>1, <3>2
  <2>. QED  BY <2>1, <2>2, <2>3
<1>2. ASSUME NEW id, InRecs(id)' PROVE InRecs(id)
  BY <1>2 DEF InRecs
<1>3. ASSUME NEW id, InCalls(id)', id # p.id PROVE InCalls(id)
  BY <1>3 DEF InCalls
<1>4. ASSUME NEW id, InSess(id)' PROVE InSess(id)
  BY <1>4 DEF InSess
<1>5. ASSUME NEW id, InHand(id)', id # p.id PROVE InHand(id)
  BY <1>1, <1>5 DEF InHand
<1>6. \A call \in calls : call.id # p.id
  BY DEF InCalls
<1>7. \A d \in Chat : Waiting(d) => chat[d].ses # p.id
  BY DEF InHand
<1>8. Unused'
  BY <1>1, <1>2, <1>3, <1>4, <1>5 DEF Hands, Unused
<1>9. OneRecord'
  BY DEF Hands, OneRecord
<1>10. OneHand'
  BY <1>1, <1>7 DEF Hands, OneHand
<1>11. HandOrTable'
  BY <1>1, <1>2 DEF Hands, HandOrTable
<1>12. CallOrTable'
  BY <1>2 DEF Hands, CallOrTable
<1>13. OneCall'
  BY <1>6 DEF Hands, OneCall
<1>14. CallOfHand'
  BY <1>1, <1>6, <1>7 DEF Hands, CallOfHand
<1>15. NotYet'
  <2>1. ASSUME NEW call \in calls', call.kind = "create" PROVE ~InSess(call.id)
    <3>1. CASE call \in calls
      BY <2>1, <3>1 DEF Hands, NotYet
    <3>2. CASE call = p
      BY <2>1, <3>2 DEF InSess
    <3>. QED  BY <3>1, <3>2
  <2>. QED  BY <1>4, <2>1 DEF NotYet
<1>16. HandPlace'
  <2>1. ASSUME NEW s \in sess, NEW d \in Chat, Waiting(d)', chat'[d].ses = s.id PROVE s.ep = chat'[d].ep
    <3>1. CASE d = c
      <4>1. chat'[d] = h
        BY <1>1, <3>1
      <4>2. s.id = p.id /\ chat'[d].ep = p.ep
        BY <2>1, <4>1
      <4>. QED  BY <4>2
    <3>2. CASE d # c
      <4>1. Waiting(d) /\ chat[d].ses = s.id /\ chat'[d].ep = chat[d].ep
        BY <1>1, <2>1, <3>2
      <4>. QED  BY <4>1 DEF Hands, HandPlace
    <3>. QED  BY <3>1, <3>2
  <2>. QED  BY <2>1 DEF HandPlace
<1>17. RecordText'
  BY DEF Hands, RecordText
<1>18. CallText'
  <2>1. ASSUME NEW call \in calls', NEW s \in sess, Awaited(call)', s.id = call.id
        PROVE  /\ call.kind = "prompt" => s.text \o call.text = AskOf[call.of]
               /\ call.kind = "running" => s.text = AskOf[call.of]
    <3>1. CASE call = p
      BY <2>1, <3>1
    <3>2. CASE call \in calls
      <4>1. call.of \in Chat /\ call.id # p.id
        BY <3>2, <1>6, RemoteTypes
      <4>2. call.of # c
        BY <1>1, <2>1, <4>1 DEF Awaited
      <4>3. Awaited(call)
        BY <1>1, <2>1, <4>1, <4>2 DEF Awaited
      <4>. QED  BY <2>1, <3>2, <4>3 DEF Hands, CallText
    <3>. QED  BY <3>1, <3>2
  <2>. QED  BY <2>1 DEF CallText
<1>. QED  BY <1>8, <1>9, <1>10, <1>11, <1>12, <1>13, <1>14, <1>15, <1>16, <1>17, <1>18 DEF Hands

\* A coordinator handles a call: it goes on as another, or is over.
LEMMA Handles ==
    ASSUME RemoteShape, Hands, NEW call \in calls, NEW new \in Call,
           new.id = call.id, new.of = call.of, new.ep = call.ep, new.kind # "create",
           calls' \subseteq (calls \ {call}) \cup {new}, recs' = recs,
           \A d \in Chat : /\ Waiting(d)' <=> Waiting(d)
                           /\ chat'[d].ses = chat[d].ses /\ chat'[d].ep = chat[d].ep,
           \A d \in Chat : \A k \in Nat : Spare(d, k)' => Spare(d, k),
           \A s \in sess' : \/ s \in sess /\ s.id # call.id
                            \/ s.id = call.id /\ s.ep = call.ep
                            \/ s.id = call.id /\ s \in sess,
           \A s \in sess' : s.id = call.id /\ Awaited(call) =>
                /\ new.kind = "prompt" => s.text \o new.text = AskOf[call.of]
                /\ new.kind = "running" => s.text = AskOf[call.of]
    PROVE  Hands'
<1>1. ASSUME NEW id, InRecs(id)' PROVE InRecs(id)
  BY <1>1 DEF InRecs
<1>2. ASSUME NEW id, InCalls(id)' PROVE InCalls(id)
  BY <1>2 DEF InCalls
<1>3. ASSUME NEW id, InSess(id)' PROVE InSess(id) \/ id = call.id
  BY <1>3 DEF InSess
<1>4. ASSUME NEW id, InHand(id)' PROVE InHand(id)
  BY <1>4 DEF InHand
<1>5. InCalls(call.id)
  BY DEF InCalls
<1>6. \A other \in calls' : other = new \/ (other \in calls /\ other.id # call.id)
  BY DEF Hands, OneCall
<1>7. Unused'
  BY <1>1, <1>2, <1>3, <1>4, <1>5 DEF Hands, Unused
<1>8. OneRecord'
  BY DEF Hands, OneRecord
<1>9. OneHand'
  BY DEF Hands, OneHand
<1>10. HandOrTable'
  BY <1>1 DEF Hands, HandOrTable
<1>11. CallOrTable'
  BY <1>1 DEF Hands, CallOrTable
<1>12. OneCall'
  BY <1>6 DEF Hands, OneCall
<1>13. CallOfHand'
  BY DEF Hands, CallOfHand
<1>14. NotYet'
  BY <1>3, <1>6 DEF Hands, NotYet
<1>15. HandPlace'
  BY DEF Hands, HandPlace, CallOfHand
<1>16. RecordText'
  BY DEF Hands, RecordText, CallOrTable, InRecs
<1>17. CallText'
  <2>1. ASSUME NEW other \in calls', NEW s \in sess', Awaited(other)', s.id = other.id
        PROVE  /\ other.kind = "prompt" => s.text \o other.text = AskOf[other.of]
               /\ other.kind = "running" => s.text = AskOf[other.of]
    <3>0. other.of \in Chat
      BY <1>6, RemoteTypes
    <3>1. CASE other = new
      <4>1. Awaited(call)
        BY <2>1, <3>0, <3>1 DEF Awaited
      <4>. QED  BY <2>1, <3>1, <4>1
    <3>2. CASE other \in calls /\ other.id # call.id
      <4>1. Awaited(other) /\ s \in sess
        BY <2>1, <3>0, <3>2 DEF Awaited
      <4>. QED  BY <2>1, <3>2, <4>1 DEF Hands, CallText
    <3>. QED  BY <1>6, <3>1, <3>2
  <2>. QED  BY <2>1 DEF CallText
<1>. QED  BY <1>7, <1>8, <1>9, <1>10, <1>11, <1>12, <1>13, <1>14, <1>15, <1>16, <1>17 DEF Hands

\* A chat without a usable record: what it took out of the table is lost.
LEMMA BeginFresh ==
    ASSUME RemoteInv, NEW c \in Chat, Begin(c), ~\E rec \in Kept(c) : ~rec.old
    PROVE  RemoteInv'
<1>i. RemoteShape /\ Hands /\ NoForgottenSession
  BY DEF RemoteInv
<1>. DEFINE h == [chat[c] EXCEPT !.at = "fresh", !.todo = Rotated]
<1>1. /\ chat' = [chat EXCEPT ![c] = h] /\ turns' = (turns + 1) % Len(Endpoints) /\ chat[c].at = "new"
      /\ recs' = recs \ Kept(c) /\ lost' = lost \cup {rec.id : rec \in Kept(c)}
      /\ UNCHANGED <<destroying, sess, calls>>
  BY DEF Begin, NextTurn
<1>2. turns \in Nat /\ Rotated \in Seq(Endpoint) /\ Rotated # <<>> /\ turns' \in Nat
  BY <1>i, <1>1, RotatedOK DEF RemoteShape
<1>3. h \in Chats /\ h.at = "fresh" /\ h.todo = Rotated
  BY <1>i, <1>2 DEF RemoteShape, Chats
<1>. HIDE DEF h
<1>4. /\ chat' \in [Chat -> Chats] /\ chat'[c] = h /\ ~Waiting(c)'
      /\ \A d \in Chat : d # c => chat'[d] = chat[d] /\ (Waiting(d)' <=> Waiting(d))
      /\ \A d \in Chat : \A k \in Nat : d # c => (Spare(d, k)' <=> Spare(d, k))
  BY <1>i, <1>1, <1>3, OthersWait
<1>5. \A k \in Nat : Spare(c, k)
  BY <1>1 DEF Spare
<1>6. recs' \subseteq recs
  BY <1>1
<1>7. Hands'
  BY <1>i, <1>1, <1>4, <1>5, <1>6, Shrinks, RemoteTypes
<1>8. RemoteShape'
  <2>1. ASSUME NEW d \in Chat
        PROVE  (chat'[d].at = "fresh" => chat'[d].todo # <<>>) /\ (Waiting(d)' => chat'[d].ses \in Ids)
    BY <1>i, <1>2, <1>3, <1>4 DEF RemoteShape
  <2>. QED  BY <1>i, <1>1, <1>2, <1>4, <1>6, <2>1 DEF RemoteShape
<1>9. ASSUME NEW s \in sess' PROVE Held(s)'
  <2>1. Held(s)
    BY <1>i, <1>1, HeldIs
  <2>2. CASE InRecs(s.id)
    <3>1. PICK rec \in recs : rec.id = s.id
      BY <2>2 DEF InRecs
    <3>2. CASE rec \in Kept(c)
      BY <1>1, <3>1, <3>2 DEF Held
    <3>3. CASE rec \notin Kept(c)
      BY <1>1, <3>1, <3>3 DEF Held, InRecs
    <3>. QED  BY <3>2, <3>3
  <2>3. ~Waiting(c)
    BY <1>1 DEF Waiting
  <2>4. InHand(s.id) => InHand(s.id)'
    BY <1>4, <2>3 DEF InHand
  <2>. QED  BY <1>1, <2>1, <2>2, <2>4 DEF Held
<1>. QED  BY <1>7, <1>8, <1>9, HeldThen DEF RemoteInv

\* A chat that continues takes the session of its history out of the table: it has
\* read that history, and nobody else refers to it any more.
LEMMA BeginContinue ==
    ASSUME RemoteInv, NEW c \in Chat, Begin(c), \E rec \in Kept(c) : ~rec.old
    PROVE  RemoteInv'
<1>i. RemoteShape /\ Hands /\ NoForgottenSession
  BY DEF RemoteInv
<1>0. PICK rec \in Kept(c) : rec = CHOOSE r \in Kept(c) : TRUE
  OBVIOUS
<1>. DEFINE h == [chat[c] EXCEPT !.at = "continue", !.ses = rec.id, !.ep = rec.ep]
            p == Prompt(c, rec.ep, rec.id, Newest(c))
<1>1. /\ chat' = [chat EXCEPT ![c] = h] /\ chat[c].at = "new" /\ recs' = recs \ Kept(c)
      /\ calls' \subseteq calls \cup {p} /\ UNCHANGED <<turns, lost, destroying, sess>>
  BY <1>0 DEF Begin
<1>2. rec \in recs /\ rec.key = History(c) /\ rec.id \in Ids /\ rec.ep \in Endpoint
  BY <1>i, <1>0, RemoteTypes DEF Kept
<1>t. AskOf[c] \in Text /\ Newest(c) \in Text /\ History(c) \o Newest(c) = AskOf[c]
  BY TextParts
<1>3. p \in Call /\ p.kind = "prompt" /\ p.of = c /\ p.ep = rec.ep /\ p.id = rec.id /\ p.text = Newest(c)
  BY <1>2, <1>t DEF Prompt, Call
<1>4. h \in Chats /\ h.at = "continue" /\ h.ses = rec.id /\ h.ep = rec.ep
  BY <1>i, <1>2 DEF RemoteShape, Chats
<1>. HIDE DEF h, p
<1>5. /\ chat' \in [Chat -> Chats] /\ chat'[c] = h /\ Waiting(c)'
      /\ \A d \in Chat : d # c => chat'[d] = chat[d] /\ (Waiting(d)' <=> Waiting(d))
      /\ \A d \in Chat : \A k \in Nat : d # c => (Spare(d, k)' <=> Spare(d, k))
  <2>1. h.at \in {"continue", "create", "generate"}
    BY <1>4
  <2>. QED  BY <1>i, <1>1, <1>4, <2>1, OthersWait
<1>6. ~Waiting(c) /\ \A k \in Nat : Spare(c, k)
  BY <1>1 DEF Waiting, Spare
<1>7. ~InRecs(rec.id)'
  <2>1. ASSUME NEW other \in recs', other.id = rec.id PROVE FALSE
    <3>1. other \in recs /\ other \notin Kept(c)
      BY <1>1, <2>1
    <3>2. other.key = rec.key
      BY <1>i, <1>2, <2>1, <3>1 DEF Hands, OneRecord
    <3>. QED  BY <1>0, <1>2, <3>1, <3>2 DEF Kept
  <2>. QED  BY <2>1 DEF InRecs
<1>8. InRecs(rec.id)
  BY <1>2 DEF InRecs
<1>9. ~InCalls(rec.id) /\ ~InHand(rec.id)
  BY <1>i, <1>8 DEF Hands, CallOrTable, HandOrTable, InCalls, InHand
<1>10. ASSUME NEW s \in sess, s.id = rec.id PROVE s.ep = rec.ep /\ s.text \o Newest(c) = AskOf[c]
  <2>1. s.ep = rec.ep /\ s.text = rec.key
    BY <1>i, <1>2, <1>10 DEF Hands, RecordText
  <2>. QED  BY <1>2, <1>t, <2>1
<1>11. \A d \in Chat : \A k \in Nat : Spare(d, k)' => <<d, k>> # rec.id
  <2>1. ASSUME NEW d \in Chat, NEW k \in Nat, Spare(d, k)' PROVE <<d, k>> # rec.id
    <3>1. Spare(d, k)
      BY <1>5, <1>6, <2>1
    <3>. QED  BY <1>i, <1>8, <3>1 DEF Hands, Unused
  <2>. QED  BY <2>1
<1>12. Hands'
  <2>1. /\ h.at \in {"continue", "create"} /\ h.ses = p.id /\ h.ep = p.ep /\ p.of = c /\ p.kind # "running"
        /\ recs' \subseteq recs /\ sess' = sess /\ ~InCalls(p.id) /\ ~InHand(p.id) /\ ~InRecs(p.id)'
    BY <1>1, <1>3, <1>4, <1>7, <1>9
  <2>2. \A s \in sess : s.id = p.id => p.kind = "prompt" /\ s.ep = p.ep /\ s.text \o p.text = AskOf[c]
    BY <1>3, <1>10
  <2>3. \A d \in Chat : \A k \in Nat : Spare(d, k)' => <<d, k>> # p.id
    BY <1>3, <1>11
  <2>. QED  BY <1>i, <1>1, <1>3, <1>4, <1>6, <2>1, <2>2, <2>3, Takes
<1>13. RemoteShape'
  <2>1. ASSUME NEW d \in Chat
        PROVE  (chat'[d].at = "fresh" => chat'[d].todo # <<>>) /\ (Waiting(d)' => chat'[d].ses \in Ids)
    BY <1>i, <1>2, <1>4, <1>5 DEF RemoteShape
  <2>2. recs' \in SUBSET Rec /\ calls' \in SUBSET Call /\ sess' \in SUBSET Session /\ turns' \in Nat
    BY <1>i, <1>1, <1>3 DEF RemoteShape
  <2>. QED  BY <1>5, <2>1, <2>2 DEF RemoteShape
<1>14. ASSUME NEW s \in sess' PROVE Held(s)'
  <2>1. Held(s)
    BY <1>i, <1>1, HeldIs
  <2>2. CASE InRecs(s.id)
    <3>1. PICK one \in recs : one.id = s.id
      BY <2>2 DEF InRecs
    <3>2. CASE one \in Kept(c)
      <4>1. one.key = rec.key
        BY <1>2, <3>2 DEF Kept
      <4>2. one.id = rec.id
        BY <1>i, <1>2, <4>1 DEF Hands, OneRecord
      <4>3. InHand(s.id)'
        BY <1>4, <1>5, <3>1, <4>2 DEF InHand
      <4>. QED  BY <4>3 DEF Held
    <3>3. CASE one \notin Kept(c)
      BY <1>1, <3>1, <3>3 DEF Held, InRecs
    <3>. QED  BY <3>2, <3>3
  <2>3. InHand(s.id) => InHand(s.id)'
    BY <1>5, <1>6 DEF InHand
  <2>. QED  BY <1>1, <2>1, <2>2, <2>3 DEF Held
<1>. QED  BY <1>12, <1>13, <1>14, HeldThen DEF RemoteInv

LEMMA TryNextStep ==
    ASSUME RemoteInv, NEW c \in Chat, TryNext(c)
    PROVE  RemoteInv'
<1>i. RemoteShape /\ Hands /\ NoForgottenSession
  BY DEF RemoteInv
<1>. DEFINE todo == chat[c].todo
<1>n. PICK n : n = Len(todo)
  OBVIOUS
<1>e. PICK ep : ep = Head(todo)
  OBVIOUS
<1>. DEFINE id == <<c, n>>
            h == [chat[c] EXCEPT !.at = "create", !.ses = id, !.ep = ep, !.todo = Tail(@), !.emitted = FALSE]
            p == [Prompt(c, ep, id, <<>>) EXCEPT !.kind = "create"]
<1>1. /\ chat' = [chat EXCEPT ![c] = h] /\ chat[c].at = "fresh"
      /\ calls' \subseteq calls \cup {p} /\ UNCHANGED <<turns, lost, destroying, sess, recs>>
  BY <1>n, <1>e DEF TryNext
<1>2. chat[c] \in Chats /\ todo \in Seq(Endpoint) /\ todo # <<>>
  BY <1>i, <1>1 DEF RemoteShape, Chats
<1>3. n \in Nat /\ n >= 1 /\ ep \in Endpoint /\ Tail(todo) \in Seq(Endpoint) /\ Len(Tail(todo)) = n - 1
  BY <1>2, <1>n, <1>e
<1>4. id \in Ids
  BY <1>3 DEF Ids
<1>5. Spare(c, n)
  BY <1>1, <1>3, <1>n DEF Spare
<1>6. ~InRecs(id) /\ ~InCalls(id) /\ ~InSess(id) /\ ~InHand(id)
  BY <1>i, <1>3, <1>5 DEF Hands, Unused
<1>7. \A d \in Chat : \A k \in Nat : <<d, k>> = id => d = c /\ k = n
  OBVIOUS
<1>. HIDE DEF id
<1>t. <<>> \in Text
  BY TextParts
<1>8. p \in Call /\ p.kind = "create" /\ p.of = c /\ p.ep = ep /\ p.id = id
  BY <1>3, <1>4, <1>t DEF Prompt, Call
<1>9. h \in Chats /\ h.at = "create" /\ h.ses = id /\ h.ep = ep /\ h.todo = Tail(todo)
  BY <1>2, <1>3, <1>4 DEF Chats
<1>. HIDE DEF h, p
<1>10. /\ chat' \in [Chat -> Chats] /\ chat'[c] = h /\ Waiting(c)'
       /\ \A d \in Chat : d # c => chat'[d] = chat[d] /\ (Waiting(d)' <=> Waiting(d))
       /\ \A d \in Chat : \A k \in Nat : d # c => (Spare(d, k)' <=> Spare(d, k))
  <2>1. h.at \in {"continue", "create", "generate"}
    BY <1>9
  <2>. QED  BY <1>i, <1>1, <1>9, <2>1, OthersWait
<1>11. ~Waiting(c)
  BY <1>1 DEF Waiting
<1>12. ASSUME NEW k \in Nat, Spare(c, k)' PROVE k <= n - 1
  BY <1>3, <1>9, <1>10, <1>12 DEF Spare
<1>13. \A k \in Nat : Spare(c, k)' => Spare(c, k)
  BY <1>1, <1>3, <1>12, <1>n DEF Spare
<1>14. \A d \in Chat : \A k \in Nat : Spare(d, k)' => <<d, k>> # p.id
  <2>1. ASSUME NEW d \in Chat, NEW k \in Nat, Spare(d, k)' PROVE <<d, k>> # id
    <3>1. CASE d = c
      <4>1. k # n
        BY <1>3, <1>12, <2>1, <3>1
      <4>. QED  BY <1>7, <4>1
    <3>2. CASE d # c
      BY <1>7, <3>2
    <3>. QED  BY <3>1, <3>2
  <2>. QED  BY <1>8, <2>1
<1>15. Hands'
  <2>1. /\ h.at \in {"continue", "create"} /\ h.ses = p.id /\ h.ep = p.ep /\ p.of = c /\ p.kind # "running"
        /\ recs' \subseteq recs /\ sess' = sess /\ ~InCalls(p.id) /\ ~InHand(p.id)
    BY <1>1, <1>6, <1>8, <1>9
  <2>2. ~InRecs(p.id)'
    BY <1>1, <1>6, <1>8 DEF InRecs
  <2>3. \A s \in sess : s.id # p.id
    BY <1>6, <1>8 DEF InSess
  <2>. QED  BY <1>i, <1>1, <1>8, <1>9, <1>11, <1>13, <1>14, <2>1, <2>2, <2>3, Takes
<1>16. RemoteShape'
  <2>1. ASSUME NEW d \in Chat
        PROVE  (chat'[d].at = "fresh" => chat'[d].todo # <<>>) /\ (Waiting(d)' => chat'[d].ses \in Ids)
    BY <1>i, <1>4, <1>9, <1>10 DEF RemoteShape
  <2>2. recs' \in SUBSET Rec /\ calls' \in SUBSET Call /\ sess' \in SUBSET Session /\ turns' \in Nat
    BY <1>i, <1>1, <1>8 DEF RemoteShape
  <2>. QED  BY <1>10, <2>1, <2>2 DEF RemoteShape
<1>17. ASSUME NEW s \in sess' PROVE Held(s)'
  <2>1. Held(s)
    BY <1>i, <1>1, HeldIs
  <2>2. InHand(s.id) => InHand(s.id)'
    BY <1>10, <1>11 DEF InHand
  <2>. QED  BY <1>1, <2>1, <2>2 DEF Held, InRecs
<1>. QED  BY <1>15, <1>16, <1>17, HeldThen DEF RemoteInv

LEMMA CreateHandledStep ==
    ASSUME RemoteInv, NEW call \in calls, CreateHandled(call)
    PROVE  RemoteInv'
<1>i. /\ RemoteShape /\ Hands /\ NoForgottenSession
      /\ call \in Call /\ call.of \in Chat /\ call.ep \in Endpoint /\ call.id \in Ids
  BY RemoteTypes DEF RemoteInv
<1>. DEFINE c == call.of
            made == [ep |-> call.ep, id |-> call.id, text |-> <<>>]
            new == [call EXCEPT !.kind = "prompt", !.text = AskOf[call.of]]
            h == [chat[c] EXCEPT !.at = "generate"]
<1>t. AskOf[c] \in Text /\ <<>> \in Text /\ <<>> \o AskOf[c] = AskOf[c]
  BY <1>i, TextParts
<1>1. call.kind = "create" /\ sess' = sess \cup {made} /\ UNCHANGED <<recs, turns, destroying>>
  BY DEF CreateHandled
<1>2. made \in Session /\ made.id = call.id /\ made.ep = call.ep /\ made.text = <<>>
  BY <1>i, <1>t DEF Session
<1>3. new \in Call /\ new.id = call.id /\ new.of = call.of /\ new.ep = call.ep /\ new.kind = "prompt"
      /\ new.text = AskOf[c]
  BY <1>i, <1>t DEF Call
<1>. HIDE DEF made, new
<1>4. \A s \in sess : s.id # call.id
  BY <1>i, <1>1 DEF Hands, NotYet, InSess
<1>5. /\ chat' \in [Chat -> Chats]
      /\ \A d \in Chat : /\ Waiting(d)' <=> Waiting(d)
                         /\ chat'[d].ses = chat[d].ses /\ chat'[d].ep = chat[d].ep
                         /\ chat'[d].at = "fresh" => chat[d].at = "fresh" /\ chat'[d].todo = chat[d].todo
      /\ \A d \in Chat : \A k \in Nat : Spare(d, k)' => Spare(d, k)
  <2>1. CASE Awaited(call)
    <3>1. chat' = [chat EXCEPT ![c] = h] /\ Waiting(c)
      BY <2>1 DEF CreateHandled, Awaited
    <3>2. h \in Chats /\ h.at = "generate" /\ h.ses = chat[c].ses /\ h.ep = chat[c].ep /\ h.todo = chat[c].todo
      BY <1>i DEF RemoteShape, Chats
    <3>. HIDE DEF h, c
    <3>c. c \in Chat
      BY <1>i DEF c
    <3>3. /\ chat' \in [Chat -> Chats] /\ chat'[c] = h
          /\ (Waiting(c)' <=> h.at \in {"continue", "create", "generate"})
          /\ \A d \in Chat : d # c => chat'[d] = chat[d] /\ (Waiting(d)' <=> Waiting(d))
          /\ \A d \in Chat : \A k \in Nat : d # c => (Spare(d, k)' <=> Spare(d, k))
      BY <1>i, <3>c, <3>1, <3>2, OthersWait
    <3>4. \A k \in Nat : Spare(c, k)' => Spare(c, k)
      BY <3>1, <3>2, <3>3 DEF Spare, Waiting
    <3>5. ASSUME NEW d \in Chat
          PROVE  /\ Waiting(d)' <=> Waiting(d)
                 /\ chat'[d].ses = chat[d].ses /\ chat'[d].ep = chat[d].ep
                 /\ chat'[d].at = "fresh" => chat[d].at = "fresh" /\ chat'[d].todo = chat[d].todo
      <4>1. CASE d = c
        BY <3>1, <3>2, <3>3, <4>1
      <4>2. CASE d # c
        BY <3>3, <4>2
      <4>. QED  BY <4>1, <4>2
    <3>. QED  BY <3>3, <3>4, <3>5
  <2>2. CASE ~Awaited(call)
    <3>1. chat' = chat
      BY <2>2 DEF CreateHandled
    <3>. QED  BY <1>i, <3>1 DEF RemoteShape, Waiting, Spare
  <2>. QED  BY <2>1, <2>2
<1>6. calls' \subseteq (calls \ {call}) \cup {new}
  BY DEF CreateHandled, new
<1>7. Hands'
  <2>1. \A s \in sess' : \/ s \in sess /\ s.id # call.id
                         \/ s.id = call.id /\ s.ep = call.ep
                         \/ s.id = call.id /\ s \in sess
    BY <1>1, <1>2, <1>4
  <2>2. ASSUME NEW s \in sess', s.id = call.id PROVE s.text \o new.text = AskOf[call.of]
    <3>1. s = made
      BY <1>1, <1>4, <2>2
    <3>. QED  BY <1>2, <1>3, <1>t, <3>1
  <2>3. new.kind # "create" /\ new.kind # "running"
    BY <1>3
  <2>. QED  BY <1>i, <1>1, <1>3, <1>5, <1>6, <2>1, <2>2, <2>3, Handles
<1>8. RemoteShape'
  <2>1. ASSUME NEW d \in Chat
        PROVE  (chat'[d].at = "fresh" => chat'[d].todo # <<>>) /\ (Waiting(d)' => chat'[d].ses \in Ids)
    BY <1>i, <1>5 DEF RemoteShape
  <2>2. recs' \in SUBSET Rec /\ calls' \in SUBSET Call /\ sess' \in SUBSET Session /\ turns' \in Nat
    BY <1>i, <1>1, <1>2, <1>3, <1>6 DEF RemoteShape
  <2>. QED  BY <1>5, <2>1, <2>2 DEF RemoteShape
<1>9. lost \subseteq lost'
  BY DEF CreateHandled
<1>10. ASSUME NEW s \in sess' PROVE Held(s)'
  <2>1. InHand(s.id) => InHand(s.id)'
    BY <1>5 DEF InHand
  <2>2. CASE s \in sess
    <3>1. Held(s)
      BY <1>i, <2>2, HeldIs
    <3>. QED  BY <1>1, <1>9, <2>1, <3>1 DEF Held, InRecs
  <2>3. CASE s = made
    <3>1. CASE Awaited(call)
      <4>1. InHand(s.id)
        BY <1>i, <1>2, <2>3, <3>1 DEF InHand, Awaited
      <4>. QED  BY <2>1, <4>1 DEF Held
    <3>2. CASE ~Awaited(call)
      <4>1. s.id = call.id /\ s.ep = call.ep
        BY <1>2, <2>3
      <4>2. s.id \in lost' \/ <<s.ep, s.id>> \in destroying'
        BY <1>1, <3>2, <4>1 DEF CreateHandled
      <4>. QED  BY <4>2 DEF Held
    <3>. QED  BY <3>1, <3>2
  <2>. QED  BY <1>1, <2>2, <2>3
<1>. QED  BY <1>7, <1>8, <1>10, HeldThen DEF RemoteInv

\* An awaited prompt completes its chat's history in the session.
LEMMA PromptReadStep ==
    ASSUME RemoteInv, NEW call \in calls, PromptRead(call)
    PROVE  RemoteInv'
<1>i. /\ RemoteShape /\ Hands /\ NoForgottenSession
      /\ call \in Call /\ call.of \in Chat /\ call.ep \in Endpoint /\ call.id \in Ids /\ call.text \in Text
  BY RemoteTypes DEF RemoteInv
<1>. DEFINE new == [call EXCEPT !.kind = "running"]
            Longer(s) == [s EXCEPT !.text = @ \o call.text]
<1>1. /\ call.kind = "prompt" /\ UNCHANGED <<chat, recs, turns, destroying, lost>>
      /\ sess' = (sess \ SessionOf(call)) \cup {Longer(s) : s \in SessionOf(call)}
      /\ calls' = (calls \ {call}) \cup {new}
  BY DEF PromptRead
<1>2. new \in Call /\ new.id = call.id /\ new.of = call.of /\ new.ep = call.ep /\ new.kind = "running"
  BY <1>i DEF Call
<1>3. ASSUME NEW s \in sess
      PROVE  /\ Longer(s) \in Session /\ Longer(s).id = s.id /\ Longer(s).ep = s.ep
             /\ Longer(s).text = s.text \o call.text
  <2>1. s \in Session /\ s.text \in Text
    BY <1>i, RemoteTypes
  <2>2. s.text \o call.text \in Text
    BY <1>i, <2>1 DEF Text
  <2>. QED  BY <2>1, <2>2 DEF Session
<1>. HIDE DEF new, Longer
<1>4. ASSUME NEW s \in sess'
      PROVE  \/ s \in sess /\ s \notin SessionOf(call)
             \/ \E old \in sess : old.id = call.id /\ old.ep = call.ep /\ s = Longer(old)
  BY <1>1 DEF SessionOf
<1>5. \A d \in Chat : /\ Waiting(d)' <=> Waiting(d)
                      /\ chat'[d].ses = chat[d].ses /\ chat'[d].ep = chat[d].ep
                      /\ \A k \in Nat : Spare(d, k)' => Spare(d, k)
  BY <1>1 DEF Waiting, Spare
<1>6. Hands'
  <2>1. ASSUME NEW s \in sess'
        PROVE  \/ s \in sess /\ s.id # call.id
               \/ s.id = call.id /\ s.ep = call.ep
               \/ s.id = call.id /\ s \in sess
    BY <1>3, <1>4
  <2>2. ASSUME NEW s \in sess', s.id = call.id, Awaited(call) PROVE s.text = AskOf[call.of]
    <3>1. CASE s \in sess /\ s \notin SessionOf(call)
      <4>1. s.ep = chat[call.of].ep
        BY <1>i, <2>2, <3>1 DEF Hands, HandPlace, Awaited
      <4>2. call.ep = chat[call.of].ep
        BY <1>i, <2>2 DEF Hands, CallOfHand, Awaited
      <4>. QED  BY <2>2, <3>1, <4>1, <4>2 DEF SessionOf
    <3>2. ASSUME NEW old \in sess, old.id = call.id, s = Longer(old) PROVE s.text = AskOf[call.of]
      <4>1. old.text \o call.text = AskOf[call.of]
        BY <1>i, <1>1, <2>2, <3>2 DEF Hands, CallText
      <4>. QED  BY <1>3, <3>2, <4>1
    <3>. QED  BY <1>4, <3>1, <3>2
  <2>3. new.kind # "create" /\ new.kind # "prompt"
    BY <1>2
  <2>. QED  BY <1>i, <1>1, <1>2, <1>5, <2>1, <2>2, <2>3, Handles
<1>7. RemoteShape'
  <2>1. \A s \in sess' : s \in Session
    BY <1>i, <1>3, <1>4, RemoteTypes
  <2>2. recs' \in SUBSET Rec /\ calls' \in SUBSET Call /\ sess' \in SUBSET Session /\ turns' \in Nat
    BY <1>i, <1>1, <1>2, <2>1 DEF RemoteShape
  <2>. QED  BY <1>i, <1>1, <1>5, <2>2 DEF RemoteShape
<1>8. ASSUME NEW s \in sess' PROVE Held(s)'
  <2>1. PICK old \in sess : old.id = s.id /\ old.ep = s.ep
    BY <1>3, <1>4
  <2>2. Held(old)
    BY <1>i, HeldIs
  <2>3. InHand(s.id) => InHand(s.id)'
    BY <1>5 DEF InHand
  <2>4. s.id \in lost \/ <<s.ep, s.id>> \in destroying \/ InRecs(s.id) \/ InHand(s.id)
    BY <2>1, <2>2 DEF Held
  <2>. QED  BY <1>1, <2>3, <2>4 DEF Held, InRecs
<1>. QED  BY <1>6, <1>7, <1>8, HeldThen DEF RemoteInv

\* The handler's session becomes a record: it has read the chat's messages.
LEMMA ResultStep ==
    ASSUME RemoteInv, NEW call \in calls, Result(call)
    PROVE  RemoteInv'
<1>i. /\ RemoteShape /\ Hands /\ NoForgottenSession
      /\ call \in Call /\ call.of \in Chat /\ call.ep \in Endpoint /\ call.id \in Ids
  BY RemoteTypes DEF RemoteInv
<1>. DEFINE c == call.of
            same == {rec \in recs : rec.key = AskOf[c]}
            kept == [key |-> AskOf[c], id |-> call.id, ep |-> call.ep, old |-> FALSE]
<1>1. call.kind = "running" /\ calls' = calls \ {call} /\ UNCHANGED <<turns, destroying, sess>>
  BY DEF Result
<1>2. CASE ~Awaited(call)
  <2>1. UNCHANGED <<recs, lost, chat>>
    BY <1>2 DEF Result
  <2>2. ASSUME NEW s \in sess' PROVE Held(s)'
    <3>1. Held(s)
      BY <1>i, <1>1, HeldIs
    <3>. QED  BY <1>1, <2>1, <3>1 DEF Held, InRecs, InHand, Waiting
  <2>3. recs' \in SUBSET Rec /\ calls' \subseteq calls
    BY <1>i, <1>1, <2>1 DEF RemoteShape
  <2>. QED  BY <1>1, <2>1, <2>2, <2>3, TakesAway
<1>3. CASE Awaited(call)
  <2>1. /\ recs' = (recs \ same) \cup {kept} /\ lost' = lost \cup {rec.id : rec \in same}
        /\ chat' = [chat EXCEPT ![c] = Ended]
    BY <1>3 DEF Result
  <2>t. AskOf[c] \in Text
    BY <1>i, TextParts
  <2>2. kept \in Rec /\ kept.key = AskOf[c] /\ kept.id = call.id /\ kept.ep = call.ep
    BY <1>i, <2>t DEF Rec
  <2>. HIDE DEF kept, c
  <2>c. c \in Chat /\ c = call.of
    BY <1>i DEF c
  <2>3. Waiting(c) /\ chat[c].ses = call.id
    BY <1>3, <2>c DEF Awaited
  <2>4. /\ chat' \in [Chat -> Chats] /\ chat'[c] = Ended /\ ~Waiting(c)'
        /\ \A d \in Chat : d # c => chat'[d] = chat[d] /\ (Waiting(d)' <=> Waiting(d))
        /\ \A d \in Chat : \A k \in Nat : d # c => (Spare(d, k)' <=> Spare(d, k))
    <3>1. Ended \in Chats /\ Ended.at \notin {"continue", "create", "generate"}
      BY EndedOK
    <3>. QED  BY <1>i, <2>c, <2>1, <3>1, OthersWait
  <2>5. ASSUME NEW d \in Chat, NEW k \in Nat, Spare(d, k)' PROVE Spare(d, k)
    <3>1. CASE d = c
      BY <2>4, <2>5, <3>1, EndedOK DEF Spare
    <3>2. CASE d # c
      BY <2>4, <2>5, <3>2
    <3>. QED  BY <3>1, <3>2
  <2>6. ASSUME NEW d \in Chat, Waiting(d)' PROVE d # c /\ Waiting(d) /\ chat'[d] = chat[d] /\ chat[d].ses # call.id
    <3>1. d # c /\ Waiting(d) /\ chat'[d] = chat[d]
      BY <2>4, <2>6
    <3>. QED  BY <1>i, <2>c, <2>3, <3>1 DEF Hands, OneHand
  <2>7. \A other \in calls' : other \in calls /\ other.id # call.id
    BY <1>i, <1>1 DEF Hands, OneCall
  <2>8. \A rec \in recs : rec.id # call.id
    BY <1>i DEF Hands, CallOrTable, InRecs
  <2>9. \A rec \in recs' : rec = kept \/ (rec \in recs /\ rec.key # AskOf[c])
    BY <2>1
  <2>10. ASSUME NEW id, InRecs(id)', id # call.id PROVE InRecs(id)
    BY <2>2, <2>9, <2>10 DEF InRecs
  <2>11. Hands'
    <3>1. Unused'
      <4>1. ASSUME NEW id, InCalls(id)' PROVE InCalls(id)
        BY <1>1, <4>1 DEF InCalls
      <4>2. ASSUME NEW id, InSess(id)' PROVE InSess(id)
        BY <1>1, <4>2 DEF InSess
      <4>3. ASSUME NEW id, InHand(id)' PROVE InHand(id)
        BY <2>6, <4>3 DEF InHand
      <4>4. InCalls(call.id)
        BY DEF InCalls
      <4>. QED  BY <1>i, <2>5, <2>10, <4>1, <4>2, <4>3, <4>4 DEF Hands, Unused
    <3>2. OneRecord'
      BY <1>i, <2>2, <2>8, <2>9 DEF Hands, OneRecord
    <3>3. OneHand'
      BY <1>i, <2>6 DEF Hands, OneHand
    <3>4. HandOrTable'
      BY <1>i, <2>6, <2>10 DEF Hands, HandOrTable
    <3>5. CallOrTable'
      BY <1>i, <2>7, <2>10 DEF Hands, CallOrTable
    <3>6. OneCall'
      BY <1>i, <2>7 DEF Hands, OneCall
    <3>7. CallOfHand'
      BY <1>i, <2>6, <2>7 DEF Hands, CallOfHand
    <3>8. NotYet'
      BY <1>i, <1>1, <2>7 DEF Hands, NotYet, InSess
    <3>9. HandPlace'
      BY <1>i, <1>1, <2>6 DEF Hands, HandPlace
    <3>10. RecordText'
      <4>1. ASSUME NEW s \in sess, s.id = call.id PROVE s.ep = call.ep /\ s.text = AskOf[c]
        <5>1. s.ep = chat[c].ep
          BY <1>i, <2>c, <2>3, <4>1 DEF Hands, HandPlace
        <5>2. call.ep = chat[c].ep
          BY <1>i, <2>c, <2>3 DEF Hands, CallOfHand
        <5>3. s.text = AskOf[c]
          BY <1>i, <1>1, <1>3, <2>c, <4>1 DEF Hands, CallText
        <5>. QED  BY <5>1, <5>2, <5>3
      <4>2. ASSUME NEW s \in sess, NEW rec \in recs', s.id = rec.id PROVE s.ep = rec.ep /\ s.text = rec.key
        <5>1. CASE rec = kept
          BY <2>2, <4>1, <4>2, <5>1
        <5>2. CASE rec \in recs
          BY <1>i, <4>2, <5>2 DEF Hands, RecordText
        <5>. QED  BY <2>9, <5>1, <5>2
      <4>. QED  BY <1>1, <4>2 DEF RecordText
    <3>11. CallText'
      <4>1. ASSUME NEW other \in calls', Awaited(other)' PROVE Awaited(other) /\ other \in calls
        <5>1. other \in calls /\ other.of \in Chat
          BY <1>i, <2>7, RemoteTypes
        <5>. QED  BY <2>6, <4>1, <5>1 DEF Awaited
      <4>. QED  BY <1>i, <1>1, <4>1 DEF Hands, CallText
    <3>. QED  BY <3>1, <3>2, <3>3, <3>4, <3>5, <3>6, <3>7, <3>8, <3>9, <3>10, <3>11 DEF Hands
  <2>12. RemoteShape'
    <3>1. ASSUME NEW d \in Chat
          PROVE  (chat'[d].at = "fresh" => chat'[d].todo # <<>>) /\ (Waiting(d)' => chat'[d].ses \in Ids)
      BY <1>i, <2>4, EndedOK DEF RemoteShape
    <3>2. recs' \in SUBSET Rec /\ calls' \in SUBSET Call /\ sess' \in SUBSET Session /\ turns' \in Nat
      BY <1>i, <1>1, <2>1, <2>2 DEF RemoteShape
    <3>. QED  BY <2>4, <3>1, <3>2 DEF RemoteShape
  <2>13. ASSUME NEW s \in sess' PROVE Held(s)'
    <3>1. Held(s)
      BY <1>i, <1>1, HeldIs
    <3>2. CASE InRecs(s.id)
      <4>1. PICK rec \in recs : rec.id = s.id
        BY <3>2 DEF InRecs
      <4>2. CASE rec \in same
        BY <2>1, <4>1, <4>2 DEF Held
      <4>3. CASE rec \notin same
        BY <2>1, <4>1, <4>3 DEF Held, InRecs
      <4>. QED  BY <4>2, <4>3
    <3>3. CASE InHand(s.id)
      <4>1. PICK d \in Chat : Waiting(d) /\ chat[d].ses = s.id
        BY <3>3 DEF InHand
      <4>2. CASE d = c
        <5>1. InRecs(s.id)'
          BY <2>1, <2>2, <2>3, <4>1, <4>2 DEF InRecs
        <5>. QED  BY <5>1 DEF Held
      <4>3. CASE d # c
        <5>1. InHand(s.id)'
          BY <2>4, <4>1, <4>3 DEF InHand
        <5>. QED  BY <5>1 DEF Held
      <4>. QED  BY <4>2, <4>3
    <3>. QED  BY <1>1, <2>1, <3>1, <3>2, <3>3 DEF Held
  <2>. QED  BY <2>11, <2>12, <2>13, HeldThen DEF RemoteInv
<1>. QED  BY <1>2, <1>3

-----------------------------------------------------------------------------
(***************************************************************************)
(* The theorems of coordinator mode                                        *)
(***************************************************************************)
LEMMA RemoteInitOK ==
    ASSUME RemoteInit
    PROVE  RemoteInv
<1>1. NewChat \in Chats /\ NewChat.at = "new"
  BY EndedOK
<1>2. chat \in [Chat -> Chats] /\ recs = {} /\ calls = {} /\ sess = {} /\ turns = 0
      /\ \A c \in Chat : chat[c].at = "new"
  BY <1>1 DEF RemoteInit
<1>3. \A c \in Chat : ~Waiting(c)
  BY <1>2 DEF Waiting
<1>4. RemoteShape
  BY <1>2, <1>3 DEF RemoteShape
<1>5. Hands
  BY <1>2, <1>3 DEF Hands, Unused, OneRecord, OneHand, HandOrTable, CallOrTable, OneCall, CallOfHand, NotYet,
     HandPlace, RecordText, CallText, InRecs, InCalls, InSess, InHand
<1>6. NoForgottenSession
  BY <1>2 DEF NoForgottenSession
<1>. QED  BY <1>4, <1>5, <1>6 DEF RemoteInv

LEMMA RemoteSteps ==
    ASSUME RemoteInv, RemoteNext
    PROVE  RemoteInv'
<1>1. ASSUME NEW c \in Chat, Begin(c) \/ TryNext(c) \/ GivesUp(c) PROVE RemoteInv'
  BY <1>1, BeginFresh, BeginContinue, TryNextStep, GivesUpStep
<1>2. ASSUME NEW call \in calls,
             \/ CreateHandled(call) \/ PromptRead(call) \/ Chunk(call) \/ Result(call) \/ ErrorHandled(call)
      PROVE  RemoteInv'
  BY <1>2, CreateHandledStep, PromptReadStep, ChunkStep, ResultStep, ErrorHandledStep
<1>3. CASE Sweep
  BY <1>3, SweepStep
<1>4. ASSUME NEW pair \in destroying, Destroy(pair[1], pair[2]) PROVE RemoteInv'
  BY <1>4, DestroyStep
<1>5. ASSUME NEW e \in Endpoint, Reform(e) PROVE RemoteInv'
  BY <1>5, ReformStep
<1>6. ASSUME NEW rec \in recs, Expire(rec) PROVE RemoteInv'
  BY <1>6, ExpireStep
<1>. QED  BY <1>1, <1>2, <1>3, <1>4, <1>5, <1>6 DEF RemoteNext

LEMMA RemoteStutters ==
    ASSUME RemoteInv, UNCHANGED remoteVars
    PROVE  RemoteInv'
<1>i. RemoteShape /\ NoForgottenSession
  BY DEF RemoteInv
<1>1. UNCHANGED <<chat, recs, turns, destroying, calls, sess, lost>>
  BY DEF remoteVars
<1>2. ASSUME NEW s \in sess' PROVE Held(s)'
  <2>1. Held(s)
    BY <1>i, <1>1, HeldIs
  <2>. QED  BY <1>1, <2>1 DEF Held, InRecs, InHand, Waiting
<1>3. recs' \in SUBSET Rec
  BY <1>i, <1>1 DEF RemoteShape
<1>. QED  BY <1>1, <1>2, <1>3, TakesAway

\* The inductive invariant of coordinator mode holds in every behaviour of the gateway.
THEOREM RemoteInvariant == Spec => []RemoteInv
<1>1. Init => RemoteInv
  BY RemoteInitOK DEF Init
<1>2. RemoteInv /\ [Next]_vars => RemoteInv'
  BY RemoteSteps, RemoteStutters DEF Next, vars, remoteVars
<1>. QED  BY <1>1, <1>2, PTL DEF Spec

\* A chat is only ever continued on a session that has read exactly its history.
THEOREM AlwaysOwnHistory == Spec => []OwnHistory
<1>1. RemoteInv => OwnHistory
  <2>. SUFFICES ASSUME RemoteInv PROVE OwnHistory
    OBVIOUS
  <2>1. ASSUME NEW call \in calls, NEW s \in SessionOf(call), call.kind = "running", Awaited(call)
        PROVE  s.text = AskOf[call.of]
    BY <2>1 DEF RemoteInv, Hands, CallText, SessionOf
  <2>2. \A rec \in recs : \A s \in sess : s.id = rec.id => s.ep = rec.ep /\ s.text = rec.key
    BY DEF RemoteInv, Hands, RecordText
  <2>. QED  BY <2>1, <2>2 DEF OwnHistory
<1>. QED  BY <1>1, RemoteInvariant, PTL

\* A coordinator's session is always in somebody's hands, but for those the code is
\* known to drop: whatever fails, expires or comes late.
THEOREM AlwaysNoForgottenSession == Spec => []NoForgottenSession
<1>1. RemoteInv => NoForgottenSession
  BY DEF RemoteInv
<1>. QED  BY <1>1, RemoteInvariant, PTL

=============================================================================
