--------------------------- MODULE SchedulerProofs ---------------------------
(***************************************************************************)
(* Proofs about module Scheduler and the queue it runs on, for any jobs,   *)
(* keys and capacities, with and without recovery.                         *)
(***************************************************************************)
EXTENDS Scheduler, SequenceTheorems, WellFoundedInduction, TLAPS

-----------------------------------------------------------------------------
(***************************************************************************)
(* The inductive invariant, in named parts.                                *)
(***************************************************************************)
QueueShape(x) ==
    /\ x.queues \in [Turn -> Seq(Item)] /\ x.ready \in Seq(Turn)
    /\ x.closed \in BOOLEAN

SubStates == {"idle", "register", "push", "full", "refused", "wait", "get", "returned"}

Types ==
    /\ QueueShape(q)
    /\ pending \in [Key -> Generate \cup {NoJob}]
    /\ sub \in [Item -> SubStates]
    /\ state \in [Item -> {"queued", "active", "done", "cancelled"}]
    /\ promise \in [Item -> {"none", "set", "set twice"}]
    /\ canceller \in [Item -> {"none", "remove", "resolve"}]
    /\ ex \in {"loop", "pop", "got", "run", "settle", "erase", "resolve", "drain", "fail",
               "failErase", "failResolve", "recover", "exit"}
    /\ ex \in {"got", "run", "settle", "erase", "resolve", "failErase", "failResolve"} =>
          cur \in Item
    /\ stopper \in {"idle", "close", "fail", "erase", "resolve", "stopped"}
    /\ stopJob \in Item \cup {NoJob} /\ (stopper \in {"erase", "resolve"} <=> stopJob # NoJob)
    /\ batch \subseteq Item /\ stopBatch \subseteq Item

\* pending_ maps a key to a job of that key.
KeysMatch == \A k \in Key : pending[k] # NoJob => KeyOf[pending[k]] = k

\* Nobody has a job before its submit has pushed or registered it.
InHands(j) ==
    \/ j \in Items(q) \cup batch \cup stopBatch
    \/ cur = j /\ ex \in {"got", "run", "settle", "erase", "resolve", "failErase", "failResolve"}

Untouched(j) ==
    /\ sub[j] \in {"idle", "register"} =>
          state[j] = "queued" /\ ~InHands(j) /\ \A k \in Key : pending[k] # j
    /\ sub[j] = "register" => j \in Generate

\* Who is about to answer a job: the executor, stop() or the canceller.
ExGives(j) == cur = j /\ ex \in {"erase", "resolve", "failErase", "failResolve"}
StopGives(j) == stopJob = j
CancelGives(j) == canceller[j] # "none"

\* A job that is not settled has no answer and nobody about to give one, and
\* an active one is the executor's; a settled one has either its answer or
\* exactly one thread that will give it.
OneAnswer(j) ==
    /\ state[j] \in {"queued", "active"} =>
          promise[j] = "none" /\ ~ExGives(j) /\ ~StopGives(j) /\ ~CancelGives(j)
    /\ state[j] = "active" <=> cur = j /\ ex \in {"run", "settle"}
    /\ state[j] = "done" /\ promise[j] = "none" => cur = j /\ ex \in {"erase", "resolve"}
    /\ state[j] = "cancelled" /\ promise[j] = "none" =>
          ExGives(j) \/ StopGives(j) \/ CancelGives(j)
    /\ promise[j] # "none" => ~ExGives(j) /\ ~StopGives(j) /\ ~CancelGives(j)
    /\ ~(ExGives(j) /\ StopGives(j)) /\ ~(ExGives(j) /\ CancelGives(j))
    /\ ~(StopGives(j) /\ CancelGives(j))
    /\ promise[j] # "set twice"

\* A queued job whose submit waits is in the queue or in some thread's hands.
Held(j) ==
    sub[j] \in {"wait", "get"} /\ state[j] = "queued" =>
        \/ j \in Items(q) \cup batch \cup stopBatch
        \/ cur = j /\ ex = "got"

\* A closed queue is empty, and the executor ends only when the queue is closed
\* or stop() is about to close it.
Closing ==
    /\ q.closed => Items(q) = {}
    /\ stopping \in BOOLEAN /\ (stopping <=> stopper # "idle")
    /\ stopper \notin {"idle", "close"} => q.closed
    /\ ex \in {"fail", "failErase", "failResolve"} /\ ~recover => q.closed
    /\ ex = "exit" => q.closed \/ stopper = "close"
    /\ batch # {} => ex \in {"fail", "failErase", "failResolve"}
    /\ stopBatch # {} => stopper \in {"fail", "erase", "resolve"}

JobInv ==
    /\ Types
    /\ KeysMatch
    /\ Closing
    /\ \A j \in Item : Untouched(j) /\ OneAnswer(j) /\ Held(j)

-----------------------------------------------------------------------------
(***************************************************************************)
(* What the queue's methods do to its items                                *)
(***************************************************************************)
LEMMA ItemsType ==
    ASSUME NEW x, QueueShape(x)
    PROVE  Items(x) \subseteq Item
  BY DEF Items, QueueShape

LEMMA ItemsOfFifo ==
    ASSUME NEW x, NEW y
    PROVE  y \in Items(x) <=> \E k \in Turn : \E i \in DOMAIN x.queues[k] : x.queues[k][i] = y
  BY DEF Items

LEMMA EmptyItems ==
    ASSUME NEW n
    PROVE  /\ QueueShape(EmptyQueue(n)) /\ Items(EmptyQueue(n)) = {}
           /\ EmptyQueue(n).closed = FALSE
  <1>1. \A y : y \notin Items(EmptyQueue(n))
    BY ItemsOfFifo DEF EmptyQueue
  <1>2. QueueShape(EmptyQueue(n))
    BY DEF EmptyQueue, QueueShape
  <1>3. QED
    BY <1>1, <1>2 DEF EmptyQueue

LEMMA DrainItems ==
    ASSUME NEW x, QueueShape(x), NEW close \in BOOLEAN
    PROVE  /\ QueueShape(Drain(x, close)) /\ Items(Drain(x, close)) = {}
           /\ Drain(x, close).closed = (x.closed \/ close)
  <1>1. \A y : y \notin Items(Drain(x, close))
    BY ItemsOfFifo DEF Drain
  <1>2. QED
    BY <1>1 DEF Drain, QueueShape

LEMMA AppendItems ==
    ASSUME NEW S, NEW s \in Seq(S), NEW item \in S, NEW y
    PROVE  (\E i \in DOMAIN Append(s, item) : Append(s, item)[i] = y)
             <=> y = item \/ \E i \in DOMAIN s : s[i] = y
  <1>1. /\ DOMAIN s = 1..Len(s) /\ DOMAIN Append(s, item) = 1..(Len(s) + 1) /\ Len(s) \in Nat
        /\ \A i \in 1..Len(s) : Append(s, item)[i] = s[i]
        /\ Append(s, item)[Len(s) + 1] = item
    OBVIOUS
  <1>2. ASSUME NEW i \in 1..(Len(s) + 1)
        PROVE  i \in 1..Len(s) \/ i = Len(s) + 1
    BY <1>1
  <1>3. QED
    BY <1>1, <1>2

LEMMA PushItems ==
    ASSUME NEW x, QueueShape(x), NEW k \in Turn, NEW item \in Item
    PROVE  /\ QueueShape(Push(x, k, item))
           /\ Items(Push(x, k, item)) = Items(x) \cup {item}
           /\ Push(x, k, item).closed = x.closed
  <1> DEFINE p == Push(x, k, item)
  <1>1. QueueShape(p) /\ p.closed = x.closed
    BY DEF Push, QueueShape
  <1>2. p.queues[k] = Append(x.queues[k], item) /\ x.queues[k] \in Seq(Item)
    BY DEF Push, QueueShape
  <1>3. \A l \in Turn \ {k} : p.queues[l] = x.queues[l]
    BY DEF Push, QueueShape
  <1> HIDE DEF p
  <1>4. ASSUME NEW y
        PROVE  (\E i \in DOMAIN p.queues[k] : p.queues[k][i] = y)
                 <=> y = item \/ \E i \in DOMAIN x.queues[k] : x.queues[k][i] = y
    <2>1. (\E i \in DOMAIN Append(x.queues[k], item) : Append(x.queues[k], item)[i] = y)
             <=> y = item \/ \E i \in DOMAIN x.queues[k] : x.queues[k][i] = y
      <3> DEFINE s == x.queues[k]
      <3>1. s \in Seq(Item)
        BY <1>2
      <3> HIDE DEF s
      <3>2. (\E i \in DOMAIN Append(s, item) : Append(s, item)[i] = y)
               <=> y = item \/ \E i \in DOMAIN s : s[i] = y
        BY <3>1, AppendItems
      <3>3. QED
        BY <3>2 DEF s
    <2>2. QED
      BY <1>2, <2>1, Zenon
  <1>5. \A y : y \in Items(p) <=> y \in Items(x) \/ y = item
    BY <1>3, <1>4, ItemsOfFifo
  <1>6. QED
    BY <1>1, <1>5 DEF p

\* A set of numbers has a least one.
LEMMA Least ==
    ASSUME NEW T, T \subseteq Nat, T # {}
    PROVE  \E i \in T : \A j \in T : i <= j
  <1>1. PICK i \in T : \A j \in T : ~(<<j, i>> \in OpToRel(<, Nat))
    BY NatLessThanWellFounded, WFMin
  <1>2. ASSUME NEW j \in Nat, j < i
        PROVE  <<j, i>> \in OpToRel(<, Nat)
    BY <1>2 DEF OpToRel
  <1>3. ASSUME NEW j \in T
        PROVE  i <= j
    <2>1. i \in Nat /\ j \in Nat /\ ~(j < i)
      BY <1>1, <1>2
    <2>2. QED
      BY <2>1
  <1>4. QED
    BY <1>3

\* pop_locked finds the first key that has an item.
LEMMA LeastLive ==
    ASSUME NEW x, QueueShape(x), CanPop(x)
    PROVE  /\ NextTurn(x) \in DOMAIN x.ready /\ x.ready[NextTurn(x)] \in Turn
           /\ x.queues[x.ready[NextTurn(x)]] # <<>>
  <1>1. Live(x) \subseteq Nat /\ Live(x) # {}
    BY DEF Live, CanPop, QueueShape
  <1>2. \E i \in Live(x) : \A j \in Live(x) : i <= j
    BY <1>1, Least
  <1>3. NextTurn(x) \in Live(x)
    BY <1>2 DEF NextTurn
  <1>4. QED
    BY <1>3, ElementOfSeq DEF Live, QueueShape

LEMMA PopItems ==
    ASSUME NEW x, QueueShape(x), CanPop(x)
    PROVE  /\ QueueShape(Pop(x)) /\ Pop(x).closed = x.closed
           /\ Popped(x) \in Items(x)
           /\ Items(Pop(x)) \subseteq Items(x)
           /\ Items(x) \subseteq Items(Pop(x)) \cup {Popped(x)}
  <1> DEFINE p == Pop(x)
             k == x.ready[NextTurn(x)]
  <1>1. /\ k \in Turn /\ x.queues[k] \in Seq(Item) /\ x.queues[k] # <<>>
        /\ NextTurn(x) \in DOMAIN x.ready /\ x.ready \in Seq(Turn)
    BY LeastLive DEF QueueShape
  <1>2. p.queues[k] = Tail(x.queues[k]) /\ Popped(x) = x.queues[k][1]
    BY <1>1 DEF Pop, Popped, QueueShape
  <1>3. \A l \in Turn \ {k} : p.queues[l] = x.queues[l]
    BY <1>1 DEF Pop, QueueShape
  <1>4. QueueShape(p) /\ p.closed = x.closed
    <2>1. SubSeq(x.ready, NextTurn(x) + 1, Len(x.ready)) \in Seq(Turn)
      BY <1>1
    <2>2. p.queues \in [Turn -> Seq(Item)]
      BY <1>1 DEF Pop, QueueShape
    <2>3. QED
      BY <1>1, <2>1, <2>2 DEF Pop, QueueShape
  <1>5. \A i \in DOMAIN x.queues[k] : i = 1 \/ (i - 1 \in DOMAIN Tail(x.queues[k])
                                               /\ Tail(x.queues[k])[i - 1] = x.queues[k][i])
    <2>1. ASSUME NEW s \in Seq(Item), s # <<>>, NEW i \in DOMAIN s, i # 1
          PROVE  i - 1 \in DOMAIN Tail(s) /\ Tail(s)[i - 1] = s[i]
      <3>1. i \in 1..Len(s) /\ i - 1 \in 1..(Len(s) - 1) /\ (i - 1) + 1 = i
        BY <2>1
      <3>2. Len(Tail(s)) = Len(s) - 1 /\ DOMAIN Tail(s) = 1..(Len(s) - 1)
        BY <2>1
      <3>3. QED
        BY <2>1, <3>1, <3>2
    <2>2. QED
      BY <1>1, <2>1
  <1>6. \A i \in DOMAIN Tail(x.queues[k]) : /\ i + 1 \in DOMAIN x.queues[k]
                                            /\ Tail(x.queues[k])[i] = x.queues[k][i + 1]
    BY <1>1
  <1>7. Popped(x) \in Items(x)
    BY <1>1, <1>2, ItemsOfFifo
  <1> HIDE DEF p, k
  <1>8. ASSUME NEW y \in Items(p)
        PROVE  y \in Items(x)
    <2>1. PICK l \in Turn : \E i \in DOMAIN p.queues[l] : p.queues[l][i] = y
      BY ItemsOfFifo
    <2>2. CASE l = k
      <3>1. PICK i \in DOMAIN Tail(x.queues[k]) : Tail(x.queues[k])[i] = y
        BY <1>2, <2>1, <2>2
      <3>2. i + 1 \in DOMAIN x.queues[k] /\ x.queues[k][i + 1] = y
        BY <1>6, <3>1
      <3>3. QED
        BY <1>1, <3>2, ItemsOfFifo
    <2>3. CASE l # k
      BY <1>3, <2>1, <2>3, ItemsOfFifo
    <2>4. QED
      BY <2>2, <2>3
  <1>9. ASSUME NEW y \in Items(x), y # Popped(x)
        PROVE  y \in Items(p)
    <2>1. PICK l \in Turn : \E i \in DOMAIN x.queues[l] : x.queues[l][i] = y
      BY ItemsOfFifo
    <2>2. CASE l = k
      <3>1. PICK i \in DOMAIN x.queues[k] : x.queues[k][i] = y
        BY <2>1, <2>2
      <3>2. i # 1
        BY <1>2, <1>9, <3>1
      <3>3. i - 1 \in DOMAIN p.queues[k] /\ p.queues[k][i - 1] = y
        BY <1>2, <1>5, <3>1, <3>2
      <3>4. QED
        BY <1>1, <3>3, ItemsOfFifo
    <2>3. CASE l # k
      BY <1>3, <2>1, <2>3, ItemsOfFifo
    <2>4. QED
      BY <2>2, <2>3
  <1>10. QED
    BY <1>4, <1>7, <1>8, <1>9 DEF p

LEMMA WithoutItems ==
    ASSUME NEW S, NEW s \in Seq(S), NEW y
    PROVE  /\ Without(s, y) \in Seq(S)
           /\ \A i \in DOMAIN Without(s, y) : \E j \in DOMAIN s : s[j] = Without(s, y)[i]
           /\ \A j \in DOMAIN s : s[j] = y \/ \E i \in DOMAIN Without(s, y) : Without(s, y)[i] = s[j]
  <1>1. CASE ~\E i \in DOMAIN s : s[i] = y
    BY <1>1 DEF Without
  <1>2. CASE \E i \in DOMAIN s : s[i] = y
    <2> DEFINE n == CHOOSE i \in DOMAIN s : s[i] = y
               a == SubSeq(s, 1, n - 1)
               b == SubSeq(s, n + 1, Len(s))
    <2>1. n \in 1..Len(s) /\ s[n] = y /\ Len(s) \in Nat
      BY <1>2
    <2> HIDE DEF n
    <2>2. a \in Seq(S) /\ Len(a) = n - 1 /\ \A i \in 1..(n - 1) : a[i] = s[i]
      BY <2>1
    <2>3. b \in Seq(S) /\ Len(b) = Len(s) - n /\ \A i \in 1..(Len(s) - n) : b[i] = s[n + i]
      BY <2>1
    <2>4. Without(s, y) = a \o b
      BY <1>2 DEF Without, Erased, n
    <2> HIDE DEF a, b
    <2>5. /\ a \o b \in Seq(S) /\ Len(a \o b) = Len(s) - 1
          /\ \A i \in 1..(n - 1) : (a \o b)[i] = s[i]
          /\ \A i \in 1..(Len(s) - n) : (a \o b)[n - 1 + i] = s[n + i]
      <3>1. /\ a \o b \in Seq(S) /\ Len(a \o b) = Len(s) - 1
            /\ \A i \in 1..(Len(s) - 1) : (a \o b)[i] = IF i <= n - 1 THEN a[i] ELSE b[i - (n - 1)]
        <4>1. Len(a) + Len(b) = Len(s) - 1
          BY <2>1, <2>2, <2>3
        <4>2. /\ a \o b \in Seq(S) /\ Len(a \o b) = Len(a) + Len(b)
              /\ \A i \in 1..(Len(a) + Len(b)) : (a \o b)[i] =
                    IF i <= Len(a) THEN a[i] ELSE b[i - Len(a)]
          BY <2>2, <2>3, ConcatProperties
        <4>3. QED
          BY <2>2, <4>1, <4>2
      <3>2. \A i \in 1..(n - 1) : (a \o b)[i] = s[i]
        BY <2>1, <2>2, <3>1
      <3>3. ASSUME NEW i \in 1..(Len(s) - n)
            PROVE  (a \o b)[n - 1 + i] = s[n + i]
        <4>1. n - 1 + i \in 1..(Len(s) - 1) /\ ~(n - 1 + i <= n - 1) /\ (n - 1 + i) - (n - 1) = i
          BY <2>1
        <4>2. QED
          BY <2>3, <3>1, <4>1
      <3>4. QED
        BY <3>1, <3>2, <3>3
    <2>6. \A i \in 1..(Len(s) - 1) : \E j \in 1..Len(s) : s[j] = (a \o b)[i]
      <3> SUFFICES ASSUME NEW i \in 1..(Len(s) - 1)
                   PROVE  \E j \in 1..Len(s) : s[j] = (a \o b)[i]
        OBVIOUS
      <3>1. CASE i <= n - 1
        <4>1. i \in 1..(n - 1) /\ i \in 1..Len(s)
          BY <2>1, <3>1
        <4>2. QED
          BY <2>5, <4>1
      <3>2. CASE ~(i <= n - 1)
        <4>1. i - n + 1 \in 1..(Len(s) - n) /\ i = n - 1 + (i - n + 1)
          BY <2>1, <3>2
        <4>2. (a \o b)[i] = s[n + (i - n + 1)]
          BY <2>5, <4>1
        <4>3. n + (i - n + 1) \in 1..Len(s)
          BY <2>1, <3>2
        <4>4. QED
          BY <4>2, <4>3
      <3>3. QED
        BY <3>1, <3>2
    <2>7. \A j \in 1..Len(s) : s[j] = y \/ \E i \in 1..(Len(s) - 1) : (a \o b)[i] = s[j]
      <3> SUFFICES ASSUME NEW j \in 1..Len(s), j # n
                   PROVE  \E i \in 1..(Len(s) - 1) : (a \o b)[i] = s[j]
        BY <2>1
      <3>1. CASE j < n
        <4>1. j \in 1..(n - 1) /\ j \in 1..(Len(s) - 1)
          BY <2>1, <3>1
        <4>2. QED
          BY <2>5, <4>1
      <3>2. CASE j > n
        <4>1. j - n \in 1..(Len(s) - n) /\ n - 1 + (j - n) \in 1..(Len(s) - 1) /\ n + (j - n) = j
          BY <2>1, <3>2
        <4>2. QED
          BY <2>5, <4>1
      <3>3. j < n \/ j > n
        BY <2>1
      <3>4. QED
        BY <3>1, <3>2, <3>3
    <2>8. DOMAIN s = 1..Len(s) /\ DOMAIN (a \o b) = 1..(Len(s) - 1)
      BY <2>5
    <2>9. QED
      BY <2>4, <2>5, <2>6, <2>7, <2>8
  <1>3. QED
    BY <1>1, <1>2

LEMMA RemoveItems ==
    ASSUME NEW x, QueueShape(x), NEW k \in Turn, NEW item
    PROVE  /\ QueueShape(Remove(x, k, item)) /\ Remove(x, k, item).closed = x.closed
           /\ Items(Remove(x, k, item)) \subseteq Items(x)
           /\ Items(x) \subseteq Items(Remove(x, k, item)) \cup {item}
  <1> DEFINE p == Remove(x, k, item)
  <1>1. CASE item \notin Items(x)
    BY <1>1 DEF Remove
  <1>2. CASE item \in Items(x)
    <2>1. /\ x.queues[k] \in Seq(Item) /\ Without(x.queues[k], item) \in Seq(Item)
          /\ Without(x.ready, k) \in Seq(Turn)
      BY WithoutItems DEF QueueShape
    <2>2. p.queues[k] = Without(x.queues[k], item)
      BY <1>2 DEF Remove, QueueShape
    <2>3. \A l \in Turn \ {k} : p.queues[l] = x.queues[l]
      BY <1>2 DEF Remove, QueueShape
    <2>4. QueueShape(p) /\ p.closed = x.closed
      BY <1>2, <2>1 DEF Remove, QueueShape
    <2> HIDE DEF p
    <2>5. ASSUME NEW y \in Items(p)
          PROVE  y \in Items(x)
      <3>1. PICK l \in Turn : \E i \in DOMAIN p.queues[l] : p.queues[l][i] = y
        BY ItemsOfFifo
      <3>2. CASE l = k
        BY <2>1, <2>2, <3>1, <3>2, WithoutItems, ItemsOfFifo
      <3>3. CASE l # k
        BY <2>3, <3>1, <3>3, ItemsOfFifo
      <3>4. QED
        BY <3>2, <3>3
    <2>6. ASSUME NEW y \in Items(x), y # item
          PROVE  y \in Items(p)
      <3>1. PICK l \in Turn : \E i \in DOMAIN x.queues[l] : x.queues[l][i] = y
        BY ItemsOfFifo
      <3>2. CASE l = k
        BY <2>1, <2>2, <2>6, <3>1, <3>2, WithoutItems, ItemsOfFifo
      <3>3. CASE l # k
        BY <2>3, <3>1, <3>3, ItemsOfFifo
      <3>4. QED
        BY <3>2, <3>3
    <2>7. QED
      BY <2>4, <2>5, <2>6 DEF p
  <1>3. QED
    BY <1>1, <1>2

-----------------------------------------------------------------------------
(***************************************************************************)
(* JobInv is inductive: one lemma per thread, one step per action          *)
(***************************************************************************)
LEMMA JobInvInit == Init => JobInv
<1> SUFFICES ASSUME Init PROVE JobInv
  OBVIOUS
<1>1. QueueShape(q) /\ Items(q) = {} /\ q.closed = FALSE
  BY EmptyItems DEF Init
<1>2. Types
  BY <1>1, SchedulerConstants DEF Init, Types, SubStates
<1>3. KeysMatch /\ Closing
  BY <1>1 DEF Init, KeysMatch, Closing
<1>4. ASSUME NEW j \in Item
      PROVE  Untouched(j) /\ OneAnswer(j) /\ Held(j)
  BY <1>1, SchedulerConstants
  DEF Init, Untouched, InHands, OneAnswer, ExGives, StopGives, CancelGives, Held
<1>5. QED
  BY <1>2, <1>3, <1>4 DEF JobInv

\* erase_pending takes only entries out, and every one of its job.
LEMMA Erases ==
    ASSUME Types, KeysMatch, NEW j \in Item, ErasePending(j)
    PROVE  /\ pending' \in [Key -> Generate \cup {NoJob}]
           /\ \A k \in Key : pending'[k] \in {pending[k], NoJob} /\ pending'[k] # j
<1>1. CASE j \in Generate
  <2>1. KeyOf[j] \in Key
    BY <1>1, SchedulerConstants
  <2>2. pending' = [pending EXCEPT ![KeyOf[j]] = NoJob]
    BY <1>1 DEF ErasePending
  <2>3. \A k \in Key : pending[k] = j => k = KeyOf[j]
    BY SchedulerConstants DEF KeysMatch
  <2>4. QED
    BY <2>1, <2>2, <2>3, SchedulerConstants DEF Types
<1>2. CASE j \notin Generate
  <2>1. pending' = pending
    BY <1>2 DEF ErasePending
  <2>2. ASSUME NEW k \in Key, pending[k] = j
        PROVE  FALSE
    <3>1. pending[k] \in Generate \cup {NoJob}
      BY DEF Types
    <3>2. j # NoJob
      BY SchedulerConstants
    <3>3. QED
      BY <1>2, <2>2, <3>1, <3>2
  <2>3. QED
    BY <2>1, <2>2 DEF Types
<1>3. QED
  BY <1>1, <1>2

\* cancel() takes a queued job, or leaves everything as it is.
LEMMA CancelsEither ==
    ASSUME Types, NEW k \in Key, Cancels(k)
    PROVE  \/ UNCHANGED <<state, pending, canceller>>
           \/ \E i \in Item :
                /\ pending[k] = i /\ state[i] = "queued"
                /\ state' = [state EXCEPT ![i] = "cancelled"]
                /\ pending' = [pending EXCEPT ![k] = NoJob]
                /\ canceller' = [canceller EXCEPT ![i] = "remove"]
  BY DEF Cancels, Types

\* Entries only leave pending_.
LEMMA KeysMatchKept ==
    ASSUME KeysMatch, \A k \in Key : pending'[k] \in {pending[k], NoJob}
    PROVE  KeysMatch'
  BY DEF KeysMatch

\* A step that leaves a job alone, and whose entries in pending_ only go away,
\* keeps what is known of it.
LEMMA UntouchedKept ==
    ASSUME NEW i \in Item, Untouched(i),
           sub'[i] = sub[i] \/ sub'[i] \notin {"idle", "register"},
           state'[i] = state[i],
           \A k \in Key : pending'[k] \in {pending[k], NoJob},
           InHands(i)' => InHands(i)
    PROVE  Untouched(i)'
<1>1. i # NoJob
  BY SchedulerConstants
<1>2. sub[i] \in {"idle", "register"} => \A k \in Key : pending'[k] # i
  BY <1>1 DEF Untouched
<1>3. QED
  BY <1>2 DEF Untouched

LEMMA OneAnswerKept ==
    ASSUME NEW i \in Item, OneAnswer(i),
           state'[i] = state[i], promise'[i] = promise[i],
           ExGives(i)' <=> ExGives(i), StopGives(i)' <=> StopGives(i),
           CancelGives(i)' <=> CancelGives(i),
           (cur' = i /\ ex' \in {"run", "settle"}) <=> (cur = i /\ ex \in {"run", "settle"}),
           (cur' = i /\ ex' \in {"erase", "resolve"}) <=> (cur = i /\ ex \in {"erase", "resolve"})
    PROVE  OneAnswer(i)'
  BY DEF OneAnswer

\* cancel() takes a queued job from whoever has it.
LEMMA CancelStep ==
    ASSUME JobInv, NEW k \in Key, Cancels(k), UNCHANGED <<q, promise, exVars, stVars, recover>>,
           sub' \in [Item -> SubStates],
           \A i \in Item : sub'[i] = sub[i] \/ (sub[i] = "wait" /\ sub'[i] = "get")
    PROVE  JobInv'
<1> USE SchedulerConstants DEF JobInv, SubStates, jobVars, exVars, stVars
<1>1. CASE UNCHANGED <<state, pending, canceller>>
  <2>1. Types' /\ KeysMatch' /\ Closing'
    BY <1>1 DEF Types, KeysMatch, Closing
  <2>2. ASSUME NEW i \in Item
        PROVE  Untouched(i)' /\ OneAnswer(i)' /\ Held(i)'
    <3>1. Untouched(i) /\ OneAnswer(i) /\ Held(i)
      OBVIOUS
    <3>2. Untouched(i)'
      BY <1>1, <3>1 DEF Untouched, InHands
    <3>3. OneAnswer(i)' /\ Held(i)'
      BY <1>1, <3>1 DEF OneAnswer, ExGives, StopGives, CancelGives, Held
    <3>4. QED
      BY <3>2, <3>3
  <2>3. QED
    BY <2>1, <2>2
<1>2. CASE ~UNCHANGED <<state, pending, canceller>>
  <2>1. PICK c \in Item :
          /\ pending[k] = c /\ state[c] = "queued"
          /\ state' = [state EXCEPT ![c] = "cancelled"]
          /\ pending' = [pending EXCEPT ![k] = NoJob]
          /\ canceller' = [canceller EXCEPT ![c] = "remove"]
    BY <1>2, CancelsEither
  <2>2. Types' /\ Closing'
    BY <2>1 DEF Types, Closing
  <2>3. /\ \A l \in Key : pending'[l] \in {pending[l], NoJob} /\ pending'[l] # c
        /\ \A i \in Item : i # c => state'[i] = state[i]
    <3>1. \A l \in Key : pending[l] = c => l = k
      BY <2>1 DEF KeysMatch
    <3>2. QED
      BY <2>1, <3>1 DEF Types
  <2>4. KeysMatch'
    BY <2>3, KeysMatchKept
  <2>5. ASSUME NEW i \in Item
        PROVE  Untouched(i)' /\ OneAnswer(i)' /\ Held(i)'
    <3>1. Untouched(i) /\ OneAnswer(i) /\ Held(i)
      OBVIOUS
    <3>2. Untouched(i)'
      <4>1. CASE i = c
        BY <2>1, <3>1, <4>1 DEF Untouched, Types
      <4>2. CASE i # c
        <5>1. InHands(i)' => InHands(i)
          BY DEF InHands
        <5>2. sub'[i] = sub[i] \/ sub'[i] \notin {"idle", "register"}
          OBVIOUS
        <5>3. QED
          BY <2>3, <3>1, <4>2, <5>1, <5>2, UntouchedKept
      <4>3. QED
        BY <4>1, <4>2
    <3>3. OneAnswer(i)'
      <4>1. CASE i = c
        BY <2>1, <3>1, <4>1 DEF OneAnswer, ExGives, StopGives, CancelGives, Types
      <4>2. CASE i # c
        <5>1. state'[i] = state[i] /\ canceller'[i] = canceller[i]
          BY <2>1, <4>2 DEF Types
        <5>2. QED
          BY <3>1, <5>1, OneAnswerKept DEF ExGives, StopGives, CancelGives
      <4>3. QED
        BY <4>1, <4>2
    <3>4. Held(i)'
      BY <2>1, <3>1 DEF Held, Types
    <3>5. QED
      BY <3>2, <3>3, <3>4
  <2>6. QED
    BY <2>2, <2>4, <2>5
<1>3. QED
  BY <1>1, <1>2

LEMMA HandlerSteps ==
    ASSUME JobInv, NEW j \in Item, HandleClient(j) \/ Expire(j), UNCHANGED recover
    PROVE  JobInv'
<1> USE SchedulerConstants DEF JobInv, SubStates, jobVars, exVars, stVars
<1>1. CASE SubmitChecks(j)
  <2>1. Types'
    BY <1>1 DEF SubmitChecks, Goto, Types
  <2>2. KeysMatch'
    BY <1>1 DEF SubmitChecks, KeysMatch
  <2>3. Closing'
    BY <1>1 DEF SubmitChecks, Goto, Closing, Types
  <2>4. ASSUME NEW i \in Item
        PROVE  Untouched(i)' /\ OneAnswer(i)' /\ Held(i)'
    <3>1. Untouched(i) /\ OneAnswer(i) /\ Held(i)
      OBVIOUS
    <3>2. Untouched(i)'
      <4>1. /\ i # j => sub'[i] = sub[i]
            /\ i = j => sub[i] = "idle" /\ (sub'[i] = "register" => i \in Generate) /\ sub'[i] # "idle"
        BY <1>1 DEF SubmitChecks, Goto, Types
      <4>2. UNCHANGED <<q, pending, state, exVars, stVars>>
        BY <1>1 DEF SubmitChecks
      <4>3. QED
        BY <3>1, <4>1, <4>2 DEF Untouched, InHands
    <3>3. OneAnswer(i)'
      BY <1>1, <3>1 DEF SubmitChecks, Goto, Types, OneAnswer, ExGives, StopGives, CancelGives
    <3>4. Held(i)'
      <4>1. /\ sub'[i] \in {"wait", "get"} => sub'[i] = sub[i]
            /\ UNCHANGED <<q, state, exVars, stVars>>
        BY <1>1 DEF SubmitChecks, Goto, Types
      <4>2. QED
        BY <3>1, <4>1 DEF Held
    <3>5. QED
      BY <3>2, <3>3, <3>4
  <2>5. QED
    BY <2>1, <2>2, <2>3, <2>4
<1>2. CASE SubmitRegisters(j)
  <2>0. /\ sub[j] = "register" /\ j \in Generate /\ j # NoJob /\ KeyOf[j] \in Key
    <3>1. sub[j] = "register" /\ j \in Generate
      BY <1>2 DEF SubmitRegisters, Goto, Untouched
    <3>2. QED
      BY <3>1
  <2>1. CASE pending' = pending /\ sub' = [sub EXCEPT ![j] = "returned"]
    <3>1. Types' /\ KeysMatch' /\ Closing'
      BY <1>2, <2>1 DEF SubmitRegisters, Types, KeysMatch, Closing
    <3>2. ASSUME NEW i \in Item
          PROVE  Untouched(i)' /\ OneAnswer(i)' /\ Held(i)'
      <4>1. Untouched(i) /\ OneAnswer(i) /\ Held(i)
        OBVIOUS
      <4>2. QED
        <5>1. /\ sub'[i] = sub[i] \/ sub'[i] = "returned"
              /\ UNCHANGED <<q, pending, state, promise, canceller, exVars, stVars>>
          BY <1>2, <2>1 DEF SubmitRegisters, Types
        <5>2. InHands(i)' => InHands(i)
          BY <5>1 DEF InHands
        <5>3. Untouched(i)'
          BY <4>1, <5>1, <5>2, UntouchedKept
        <5>4. OneAnswer(i)' /\ Held(i)'
          BY <4>1, <5>1 DEF OneAnswer, ExGives, StopGives, CancelGives, Held
        <5>5. QED
          BY <5>3, <5>4
    <3>3. QED
      BY <3>1, <3>2
  <2>2. CASE /\ pending' = [pending EXCEPT ![KeyOf[j]] = j] /\ sub' = [sub EXCEPT ![j] = "push"]
    <3>1. Types' /\ Closing'
      BY <1>2, <2>0, <2>2 DEF SubmitRegisters, Types, Closing
    <3>2. KeysMatch'
      <4>1. state' = state /\ state[j] = "queued"
        BY <1>2, <2>0 DEF SubmitRegisters, Untouched
      <4>2. \A k \in Key : pending'[k] = IF k = KeyOf[j] THEN j ELSE pending[k]
        BY <2>0, <2>2 DEF Types
      <4>3. QED
        BY <4>1, <4>2 DEF KeysMatch
    <3>3. ASSUME NEW i \in Item
          PROVE  Untouched(i)' /\ OneAnswer(i)' /\ Held(i)'
      <4>1. Untouched(i) /\ OneAnswer(i) /\ Held(i)
        OBVIOUS
      <4>2. Untouched(i)'
        BY <1>2, <2>0, <2>2, <4>1 DEF SubmitRegisters, Types, Untouched, InHands
      <4>3. OneAnswer(i)' /\ Held(i)'
        BY <1>2, <2>2, <4>1 DEF SubmitRegisters, Types, OneAnswer, ExGives, StopGives, CancelGives, Held
      <4>4. QED
        BY <4>2, <4>3
    <3>4. QED
      BY <3>1, <3>2, <3>3
  <2>3. QED
    BY <1>2, <2>1, <2>2 DEF SubmitRegisters, Goto
<1>3. CASE SubmitPushes(j)
  <2>0. /\ QueueShape(q') /\ q'.closed = q.closed
        /\ Items(q') = Items(q) \/ (~q.closed /\ Items(q') = Items(q) \cup {j} /\ sub'[j] = "wait")
        /\ sub'[j] = "wait" => j \in Items(q')
    <3>1. TurnOf[j] \in Turn /\ QueueShape(q)
      BY DEF Types
    <3>2. CASE CanPush(q) /\ q' = Push(q, TurnOf[j], j) /\ Goto(j, "push", "wait")
      <4>1. /\ QueueShape(q') /\ q'.closed = q.closed /\ Items(q') = Items(q) \cup {j}
        BY <3>1, <3>2, PushItems
      <4>2. ~q.closed /\ sub'[j] = "wait"
        BY <3>2 DEF CanPush, Goto, Types
      <4>3. QED
        BY <4>1, <4>2
    <3>3. CASE q' = q /\ Goto(j, "push", "full")
      BY <3>1, <3>3 DEF Goto, Types
    <3>4. QED
      BY <1>3, <3>2, <3>3 DEF SubmitPushes
  <2>1. Types'
    <3>1. sub' \in [Item -> SubStates]
      BY <1>3 DEF SubmitPushes, Goto, Types
    <3>2. UNCHANGED <<pending, state, promise, canceller, exVars, stVars>>
      BY <1>3 DEF SubmitPushes
    <3>3. QED
      BY <2>0, <3>1, <3>2 DEF Types
  <2>2. KeysMatch'
    BY <1>3 DEF SubmitPushes, KeysMatch
  <2>3. Closing'
    BY <1>3, <2>0 DEF SubmitPushes, Goto, Closing, Types
  <2>4. ASSUME NEW i \in Item
        PROVE  Untouched(i)' /\ OneAnswer(i)' /\ Held(i)'
    <3>1. Untouched(i) /\ OneAnswer(i) /\ Held(i)
      OBVIOUS
    <3>b. /\ i # j => sub'[i] = sub[i]
          /\ i = j => sub[i] = "push" /\ sub'[i] \in {"wait", "full"}
          /\ UNCHANGED <<pending, state, exVars, stVars>>
      BY <1>3 DEF SubmitPushes, Goto, Types
    <3>2. Untouched(i)'
      BY <2>0, <3>1, <3>b DEF Untouched, InHands
    <3>3. OneAnswer(i)'
      BY <1>3, <2>0, <3>1 DEF SubmitPushes, Goto, Types, OneAnswer, ExGives, StopGives, CancelGives
    <3>4. Held(i)'
      BY <2>0, <3>1, <3>b DEF Held
    <3>5. QED
      BY <3>2, <3>3, <3>4
  <2>5. QED
    BY <2>1, <2>2, <2>3, <2>4
<1>4. CASE SubmitFull(j)
  <2>a. /\ pending' \in [Key -> Generate \cup {NoJob}]
        /\ \A k \in Key : pending'[k] \in {pending[k], NoJob} /\ (state'[j] # state[j] => pending'[k] # j)
    BY <1>4, Erases DEF SubmitFull, Goto, Types
  <2>1. Types'
    BY <1>4, <2>a DEF SubmitFull, Goto, Types
  <2>2. KeysMatch'
    BY <1>4, <2>a, KeysMatchKept DEF SubmitFull, Goto, Types
  <2>3. Closing'
    BY <1>4, <2>a DEF SubmitFull, Goto, Closing, Types
  <2>4. ASSUME NEW i \in Item
        PROVE  Untouched(i)' /\ OneAnswer(i)' /\ Held(i)'
    <3>1. Untouched(i) /\ OneAnswer(i) /\ Held(i)
      OBVIOUS
    <3>2. Untouched(i)'
      <4>1. sub'[i] = sub[i] \/ sub'[i] \notin {"idle", "register"}
        BY <1>4 DEF SubmitFull, Goto, Types
      <4>2. state'[i] = state[i] /\ (InHands(i)' => InHands(i))
        BY <1>4 DEF SubmitFull, InHands
      <4>3. QED
        BY <2>a, <3>1, <4>1, <4>2, UntouchedKept
    <3>3. OneAnswer(i)'
      BY <1>4, <2>a, <3>1 DEF SubmitFull, Goto, Types, OneAnswer, ExGives, StopGives, CancelGives
    <3>4. Held(i)'
      BY <1>4, <2>a, <3>1 DEF SubmitFull, Goto, Types, Held
    <3>5. QED
      BY <3>2, <3>3, <3>4
  <2>5. QED
    BY <2>1, <2>2, <2>3, <2>4
<1>5. CASE SubmitTimesOut(j)
  <2>1. KeyOf[j] \in Key /\ Cancels(KeyOf[j]) /\ UNCHANGED <<q, promise, exVars, stVars, recover>>
    BY <1>5 DEF SubmitTimesOut
  <2>2. /\ sub' \in [Item -> SubStates]
        /\ \A i \in Item : sub'[i] = sub[i] \/ (sub[i] = "wait" /\ sub'[i] = "get")
    BY <1>5 DEF SubmitTimesOut, Goto, Types
  <2>3. QED
    BY <2>1, <2>2, CancelStep
<1>6. CASE SubmitReturns(j)
  <2>1. Types'
    BY <1>6 DEF SubmitReturns, Goto, Types
  <2>2. KeysMatch'
    BY <1>6 DEF SubmitReturns, KeysMatch
  <2>3. Closing'
    BY <1>6 DEF SubmitReturns, Goto, Closing, Types
  <2>4. ASSUME NEW i \in Item
        PROVE  Untouched(i)' /\ OneAnswer(i)' /\ Held(i)'
    <3>1. Untouched(i) /\ OneAnswer(i) /\ Held(i)
      OBVIOUS
    <3>2. Untouched(i)'
      <4>1. sub'[i] = sub[i] \/ sub'[i] \notin {"idle", "register"}
        BY <1>6 DEF SubmitReturns, Goto, Types
      <4>2. state'[i] = state[i] /\ pending' = pending /\ (InHands(i)' => InHands(i))
        BY <1>6 DEF SubmitReturns, InHands
      <4>3. QED
        BY <3>1, <4>1, <4>2, UntouchedKept
    <3>3. OneAnswer(i)'
      BY <1>6, <3>1 DEF SubmitReturns, Goto, Types, OneAnswer, ExGives, StopGives, CancelGives
    <3>4. Held(i)'
      <4>1. /\ sub'[i] = sub[i] \/ sub'[i] = "returned"
            /\ UNCHANGED <<q, state, exVars, stVars>>
        BY <1>6 DEF SubmitReturns, Goto, Types
      <4>2. QED
        BY <3>1, <4>1 DEF Held
    <3>5. QED
      BY <3>2, <3>3, <3>4
  <2>5. QED
    BY <2>1, <2>2, <2>3, <2>4
<1>7. CASE Expire(j)
  <2>1. Types'
    BY <1>7 DEF Expire, Types
  <2>2. KeysMatch'
    BY <1>7 DEF Expire, KeysMatch
  <2>3. Closing'
    BY <1>7 DEF Expire, Closing, Types
  <2>4. ASSUME NEW i \in Item
        PROVE  Untouched(i)' /\ OneAnswer(i)' /\ Held(i)'
    <3>1. Untouched(i) /\ OneAnswer(i) /\ Held(i)
      OBVIOUS
    <3>2. Untouched(i)'
      BY <1>7, <3>1 DEF Expire, Types, Untouched, InHands
    <3>3. OneAnswer(i)'
      BY <1>7, <3>1 DEF Expire, Types, OneAnswer, ExGives, StopGives, CancelGives
    <3>4. Held(i)'
      BY <1>7, <3>1 DEF Expire, Types, Held
    <3>5. QED
      BY <3>2, <3>3, <3>4
  <2>5. QED
    BY <2>1, <2>2, <2>3, <2>4
<1>8. QED
  BY <1>1, <1>2, <1>3, <1>4, <1>5, <1>6, <1>7 DEF HandleClient, Submit

LEMMA CancelSteps ==
    ASSUME JobInv, NEW j \in Item, Cancel(j), UNCHANGED recover
    PROVE  JobInv'
<1> USE SchedulerConstants DEF JobInv, SubStates, jobVars, exVars, stVars
<1>1. CASE CancelRemoves(j)
  <2>0. /\ QueueShape(q') /\ q'.closed = q.closed
        /\ Items(q') \subseteq Items(q) /\ Items(q) \subseteq Items(q') \cup {j}
    <3>1. TurnOf[j] \in Turn /\ QueueShape(q)
      BY DEF Types
    <3>2. QED
      BY <1>1, <3>1, RemoveItems DEF CancelRemoves
  <2>1. Types'
    BY <1>1, <2>0 DEF CancelRemoves, Types
  <2>2. KeysMatch'
    BY <1>1 DEF CancelRemoves, KeysMatch
  <2>3. Closing'
    BY <1>1, <2>0 DEF CancelRemoves, Closing, Types
  <2>4. ASSUME NEW i \in Item
        PROVE  Untouched(i)' /\ OneAnswer(i)' /\ Held(i)'
    <3>1. Untouched(i) /\ OneAnswer(i) /\ Held(i)
      OBVIOUS
    <3>2. Untouched(i)'
      BY <1>1, <2>0, <3>1 DEF CancelRemoves, Types, Untouched, InHands
    <3>3. OneAnswer(i)'
      <4>1. /\ (canceller'[i] # "none") <=> (canceller[i] # "none")
            /\ UNCHANGED <<state, promise, exVars, stVars>>
        BY <1>1 DEF CancelRemoves, Types
      <4>2. QED
        BY <3>1, <4>1, OneAnswerKept DEF ExGives, StopGives, CancelGives
    <3>4. Held(i)'
      <4>1. i = j => state[i] # "queued"
        BY <1>1, <3>1 DEF CancelRemoves, OneAnswer, CancelGives
      <4>2. UNCHANGED <<sub, state, exVars, stVars>>
        BY <1>1 DEF CancelRemoves
      <4>3. QED
        BY <2>0, <3>1, <4>1, <4>2 DEF Held
    <3>5. QED
      BY <3>2, <3>3, <3>4
  <2>5. QED
    BY <2>1, <2>2, <2>3, <2>4
<1>2. CASE CancelResolves(j)
  <2>1. Types'
    BY <1>2 DEF CancelResolves, SetValue, Types
  <2>2. KeysMatch'
    BY <1>2 DEF CancelResolves, KeysMatch
  <2>3. Closing'
    BY <1>2 DEF CancelResolves, SetValue, Closing, Types
  <2>4. ASSUME NEW i \in Item
        PROVE  Untouched(i)' /\ OneAnswer(i)' /\ Held(i)'
    <3>1. Untouched(i) /\ OneAnswer(i) /\ Held(i)
      OBVIOUS
    <3>2. Untouched(i)'
      BY <1>2, <3>1 DEF CancelResolves, SetValue, Types, Untouched, InHands
    <3>3. OneAnswer(i)'
      <4>1. UNCHANGED <<state, exVars, stVars>> /\ canceller[j] # "none"
        BY <1>2 DEF CancelResolves
      <4>2. CASE i = j
        <5>1. promise[i] = "none"
          BY <3>1, <4>1, <4>2 DEF OneAnswer, CancelGives, Types
        <5>2. promise'[i] = "set" /\ canceller'[i] = "none"
          BY <1>2, <4>2, <5>1 DEF CancelResolves, SetValue, Types
        <5>3. QED
          BY <3>1, <4>1, <4>2, <5>2 DEF OneAnswer, ExGives, StopGives, CancelGives
      <4>3. CASE i # j
        <5>1. promise'[i] = promise[i] /\ canceller'[i] = canceller[i]
          BY <1>2, <4>3 DEF CancelResolves, SetValue, Types
        <5>2. QED
          BY <3>1, <4>1, <5>1, OneAnswerKept DEF ExGives, StopGives, CancelGives
      <4>4. QED
        BY <4>2, <4>3
    <3>4. Held(i)'
      BY <1>2, <3>1 DEF CancelResolves, SetValue, Types, Held
    <3>5. QED
      BY <3>2, <3>3, <3>4
  <2>5. QED
    BY <2>1, <2>2, <2>3, <2>4
<1>3. QED
  BY <1>1, <1>2 DEF Cancel

LEMMA ClientCancelStep ==
    ASSUME JobInv, NEW k \in Key, ClientCancels(k), UNCHANGED recover
    PROVE  JobInv'
  BY CancelStep DEF ClientCancels, JobInv, Types

\* fail_pending settles a job that is still queued and leaves any other alone.
LEMMA ExFailsStep ==
    ASSUME JobInv, NEW j \in Item, ExFails(j), UNCHANGED recover
    PROVE  JobInv'
<1> USE SchedulerConstants DEF JobInv, SubStates, jobVars, exVars, stVars
<1>a. pending' = pending
  BY DEF ExFails
<1>1. Types'
  BY <1>a DEF ExFails, Types
<1>2. KeysMatch'
  BY <1>a, KeysMatchKept DEF ExFails, Types
<1>3. Closing'
  BY <1>a DEF ExFails, Closing, Types
<1>4. ASSUME NEW i \in Item
      PROVE  Untouched(i)' /\ OneAnswer(i)' /\ Held(i)'
  <2>1. Untouched(i) /\ OneAnswer(i) /\ Held(i)
    OBVIOUS
  <2>2. CASE state[j] = "queued"
    <3>1. /\ state' = [state EXCEPT ![j] = "cancelled"] /\ UNCHANGED <<q, sub, promise, canceller>>
          /\ ex = "fail" /\ ex' = "failErase" /\ cur' = j /\ batch' = batch \ {j} /\ stopBatch' = stopBatch
          /\ UNCHANGED <<stopper, stopJob>>
          /\ j \in batch
      BY <2>2 DEF ExFails
    <3>2. CASE i = j
      <4>1. state'[i] = "cancelled" /\ sub'[i] \notin {"idle", "register"}
        BY <2>1, <3>1, <3>2 DEF Types, Untouched, InHands
      <4>2. Untouched(i)' /\ Held(i)'
        BY <4>1 DEF Untouched, Held
      <4>3. OneAnswer(i)'
        BY <2>1, <2>2, <3>1, <3>2, <4>1 DEF OneAnswer, ExGives, StopGives, CancelGives
      <4>4. QED
        BY <4>2, <4>3
    <3>3. CASE i # j
      <4>0. /\ state'[i] = state[i] /\ sub'[i] = sub[i] /\ promise'[i] = promise[i]
            /\ canceller'[i] = canceller[i]
        BY <3>1, <3>3 DEF Types
      <4>1. Untouched(i)'
        <5>1. InHands(i)' => InHands(i)
          BY <3>1, <3>3 DEF InHands
        <5>2. QED
          BY <1>a, <2>1, <4>0, <5>1, UntouchedKept
      <4>2. OneAnswer(i)'
        BY <2>1, <3>1, <3>3, <4>0 DEF OneAnswer, ExGives, StopGives, CancelGives
      <4>3. Held(i)'
        BY <2>1, <3>1, <3>3 DEF Types, Held
      <4>4. QED
        BY <4>1, <4>2, <4>3
    <3>4. QED
      BY <3>2, <3>3
  <2>3. CASE state[j] # "queued"
    <3>1. /\ UNCHANGED <<state, q, sub, promise, canceller, pending>>
          /\ batch' = batch \ {j} /\ UNCHANGED <<ex, cur, stopper, stopJob, stopBatch>>
      BY <2>3 DEF ExFails
    <3>2. Untouched(i)'
      BY <2>1, <3>1 DEF Untouched, InHands
    <3>3. OneAnswer(i)'
      BY <2>1, <3>1 DEF OneAnswer, ExGives, StopGives, CancelGives
    <3>4. Held(i)'
      BY <2>1, <2>3, <3>1 DEF Held
    <3>5. QED
      BY <3>2, <3>3, <3>4
  <2>4. QED
    BY <2>2, <2>3
<1>5. QED
  BY <1>1, <1>2, <1>3, <1>4

LEMMA ExecutorSteps ==
    ASSUME JobInv, Executor \/ ExReforms, UNCHANGED recover
    PROVE  JobInv'
<1> USE SchedulerConstants DEF JobInv, SubStates, jobVars, exVars, stVars
<1>1. CASE ExLoop
  <2>1. Types'
    BY <1>1 DEF ExLoop, Types
  <2>2. KeysMatch'
    BY <1>1 DEF ExLoop, KeysMatch
  <2>3. Closing'
    BY <1>1 DEF ExLoop, Closing, Types
  <2>4. ASSUME NEW i \in Item
        PROVE  Untouched(i)' /\ OneAnswer(i)' /\ Held(i)'
    <3>1. Untouched(i) /\ OneAnswer(i) /\ Held(i)
      OBVIOUS
    <3>2. Untouched(i)'
      BY <1>1, <3>1 DEF ExLoop, Types, Untouched, InHands
    <3>3. OneAnswer(i)'
      BY <1>1, <3>1 DEF ExLoop, Types, OneAnswer, ExGives, StopGives, CancelGives
    <3>4. Held(i)'
      BY <1>1, <3>1 DEF ExLoop, Types, Held
    <3>5. QED
      BY <3>2, <3>3, <3>4
  <2>5. QED
    BY <2>1, <2>2, <2>3, <2>4
<1>2. CASE ExPops
  <2>0. /\ QueueShape(q') /\ q'.closed = q.closed /\ cur' \in Items(q) /\ cur' \in Item
        /\ Items(q') \subseteq Items(q) /\ Items(q) \subseteq Items(q') \cup {cur'}
    BY <1>2, PopItems, ItemsType DEF ExPops, Types
  <2>1. Types'
    BY <1>2, <2>0 DEF ExPops, Types
  <2>2. KeysMatch'
    BY <1>2 DEF ExPops, KeysMatch
  <2>3. Closing'
    BY <1>2, <2>0 DEF ExPops, Closing, Types
  <2>4. ASSUME NEW i \in Item
        PROVE  Untouched(i)' /\ OneAnswer(i)' /\ Held(i)'
    <3>1. Untouched(i) /\ OneAnswer(i) /\ Held(i)
      OBVIOUS
    <3>2. Untouched(i)'
      BY <1>2, <2>0, <3>1 DEF ExPops, Types, Untouched, InHands
    <3>3. OneAnswer(i)'
      BY <1>2, <2>0, <3>1 DEF ExPops, Types, OneAnswer, ExGives, StopGives, CancelGives
    <3>4. Held(i)'
      BY <1>2, <2>0, <3>1 DEF ExPops, Types, Held
    <3>5. QED
      BY <3>2, <3>3, <3>4
  <2>5. QED
    BY <2>1, <2>2, <2>3, <2>4
<1>3. CASE ExIdles
  <2>0. QueueShape(q') /\ q'.closed = q.closed /\ Items(q') = Items(q)
    <3>1. QueueShape(q) /\ q' = [q EXCEPT !.ready = <<>>]
      BY <1>3 DEF ExIdles, Types
    <3>2. q'.queues = q.queues /\ q'.closed = q.closed /\ q'.ready = <<>>
      BY <3>1 DEF QueueShape
    <3>3. QED
      BY <3>1, <3>2 DEF QueueShape, Items
  <2>1. Types'
    BY <1>3, <2>0 DEF ExIdles, Types
  <2>2. KeysMatch'
    BY <1>3 DEF ExIdles, KeysMatch
  <2>3. Closing'
    BY <1>3, <2>0 DEF ExIdles, Closing, Types
  <2>4. ASSUME NEW i \in Item
        PROVE  Untouched(i)' /\ OneAnswer(i)' /\ Held(i)'
    <3>1. Untouched(i) /\ OneAnswer(i) /\ Held(i)
      OBVIOUS
    <3>2. Untouched(i)'
      BY <1>3, <2>0, <3>1 DEF ExIdles, Types, Untouched, InHands
    <3>3. OneAnswer(i)'
      BY <1>3, <2>0, <3>1 DEF ExIdles, Types, OneAnswer, ExGives, StopGives, CancelGives
    <3>4. Held(i)'
      BY <1>3, <2>0, <3>1 DEF ExIdles, Types, Held
    <3>5. QED
      BY <3>2, <3>3, <3>4
  <2>5. QED
    BY <2>1, <2>2, <2>3, <2>4
<1>4. CASE ExSkips
  <2>1. Types'
    BY <1>4 DEF ExSkips, Types
  <2>2. KeysMatch'
    BY <1>4 DEF ExSkips, KeysMatch
  <2>3. Closing'
    BY <1>4 DEF ExSkips, Closing, Types
  <2>4. ASSUME NEW i \in Item
        PROVE  Untouched(i)' /\ OneAnswer(i)' /\ Held(i)'
    <3>1. Untouched(i) /\ OneAnswer(i) /\ Held(i)
      OBVIOUS
    <3>2. Untouched(i)'
      BY <1>4, <3>1 DEF ExSkips, Types, Untouched, InHands
    <3>3. OneAnswer(i)'
      BY <1>4, <3>1 DEF ExSkips, Types, OneAnswer, ExGives, StopGives, CancelGives
    <3>4. Held(i)'
      BY <1>4, <3>1 DEF ExSkips, Types, Held
    <3>5. QED
      BY <3>2, <3>3, <3>4
  <2>5. QED
    BY <2>1, <2>2, <2>3, <2>4
<1>5. CASE ExExpires
  <2>a. pending' = pending
    BY <1>5 DEF ExExpires
  <2>1. Types'
    BY <1>5, <2>a DEF ExExpires, Types
  <2>2. KeysMatch'
    BY <1>5, <2>a, KeysMatchKept DEF ExExpires, Types
  <2>3. Closing'
    BY <1>5, <2>a DEF ExExpires, Closing, Types
  <2>4. ASSUME NEW i \in Item
        PROVE  Untouched(i)' /\ OneAnswer(i)' /\ Held(i)'
    <3>1. Untouched(i) /\ OneAnswer(i) /\ Held(i)
      OBVIOUS
    <3>2. Untouched(i)'
      <4>1. CASE i = cur
        BY <1>5, <3>1, <4>1 DEF ExExpires, Untouched, InHands
      <4>2. CASE i # cur
        <5>1. state'[i] = state[i] /\ sub'[i] = sub[i] /\ (InHands(i)' => InHands(i))
          BY <1>5, <4>2 DEF ExExpires, Types, InHands
        <5>2. QED
          BY <2>a, <3>1, <5>1, UntouchedKept
      <4>3. QED
        BY <4>1, <4>2
    <3>3. OneAnswer(i)'
      BY <1>5, <2>a, <3>1 DEF ExExpires, Types, OneAnswer, ExGives, StopGives, CancelGives
    <3>4. Held(i)'
      BY <1>5, <2>a, <3>1 DEF ExExpires, Types, Held
    <3>5. QED
      BY <3>2, <3>3, <3>4
  <2>5. QED
    BY <2>1, <2>2, <2>3, <2>4
<1>6. CASE ExRuns
  <2>1. Types'
    BY <1>6 DEF ExRuns, Types
  <2>2. KeysMatch'
    <3>1. \A i \in Item : state'[i] \in {state[i], "active"}
      BY <1>6 DEF ExRuns, Types
    <3>2. pending' = pending
      BY <1>6 DEF ExRuns
    <3>3. QED
      BY <3>1, <3>2, KeysMatchKept
  <2>3. Closing'
    BY <1>6 DEF ExRuns, Closing, Types
  <2>4. ASSUME NEW i \in Item
        PROVE  Untouched(i)' /\ OneAnswer(i)' /\ Held(i)'
    <3>1. Untouched(i) /\ OneAnswer(i) /\ Held(i)
      OBVIOUS
    <3>2. Untouched(i)'
      BY <1>6, <3>1 DEF ExRuns, Types, Untouched, InHands
    <3>3. OneAnswer(i)'
      BY <1>6, <3>1 DEF ExRuns, Types, OneAnswer, ExGives, StopGives, CancelGives
    <3>4. Held(i)'
      BY <1>6, <3>1 DEF ExRuns, Types, Held
    <3>5. QED
      BY <3>2, <3>3, <3>4
  <2>5. QED
    BY <2>1, <2>2, <2>3, <2>4
<1>7. CASE ExResult
  <2>1. Types'
    BY <1>7 DEF ExResult, Types
  <2>2. KeysMatch'
    BY <1>7 DEF ExResult, KeysMatch
  <2>3. Closing'
    BY <1>7 DEF ExResult, Closing, Types
  <2>4. ASSUME NEW i \in Item
        PROVE  Untouched(i)' /\ OneAnswer(i)' /\ Held(i)'
    <3>1. Untouched(i) /\ OneAnswer(i) /\ Held(i)
      OBVIOUS
    <3>2. Untouched(i)'
      BY <1>7, <3>1 DEF ExResult, Types, Untouched, InHands
    <3>3. OneAnswer(i)'
      BY <1>7, <3>1 DEF ExResult, Types, OneAnswer, ExGives, StopGives, CancelGives
    <3>4. Held(i)'
      BY <1>7, <3>1 DEF ExResult, Types, Held
    <3>5. QED
      BY <3>2, <3>3, <3>4
  <2>5. QED
    BY <2>1, <2>2, <2>3, <2>4
<1>8. CASE ExSettles
  <2>a. pending' = pending
    BY <1>8 DEF ExSettles
  <2>1. Types'
    BY <1>8, <2>a DEF ExSettles, Types
  <2>2. KeysMatch'
    BY <1>8, <2>a, KeysMatchKept DEF ExSettles, Types
  <2>3. Closing'
    BY <1>8, <2>a DEF ExSettles, Closing, Types
  <2>4. ASSUME NEW i \in Item
        PROVE  Untouched(i)' /\ OneAnswer(i)' /\ Held(i)'
    <3>1. Untouched(i) /\ OneAnswer(i) /\ Held(i)
      OBVIOUS
    <3>2. Untouched(i)'
      <4>1. CASE i = cur
        BY <1>8, <3>1, <4>1 DEF ExSettles, Untouched, InHands
      <4>2. CASE i # cur
        <5>1. state'[i] = state[i] /\ sub'[i] = sub[i] /\ (InHands(i)' => InHands(i))
          BY <1>8, <4>2 DEF ExSettles, Types, InHands
        <5>2. QED
          BY <2>a, <3>1, <5>1, UntouchedKept
      <4>3. QED
        BY <4>1, <4>2
    <3>3. OneAnswer(i)'
      BY <1>8, <2>a, <3>1 DEF ExSettles, Types, OneAnswer, ExGives, StopGives, CancelGives
    <3>4. Held(i)'
      BY <1>8, <2>a, <3>1 DEF ExSettles, Types, Held
    <3>5. QED
      BY <3>2, <3>3, <3>4
  <2>5. QED
    BY <2>1, <2>2, <2>3, <2>4
<1>9. CASE ExResolves
  <2>1. Types'
    BY <1>9 DEF ExResolves, SetValue, Types
  <2>2. KeysMatch'
    BY <1>9 DEF ExResolves, KeysMatch
  <2>3. Closing'
    BY <1>9 DEF ExResolves, SetValue, Closing, Types
  <2>4. ASSUME NEW i \in Item
        PROVE  Untouched(i)' /\ OneAnswer(i)' /\ Held(i)'
    <3>1. Untouched(i) /\ OneAnswer(i) /\ Held(i)
      OBVIOUS
    <3>2. Untouched(i)'
      BY <1>9, <3>1 DEF ExResolves, SetValue, Types, Untouched, InHands
    <3>3. OneAnswer(i)'
      BY <1>9, <3>1 DEF ExResolves, SetValue, Types, OneAnswer, ExGives, StopGives, CancelGives
    <3>4. Held(i)'
      BY <1>9, <3>1 DEF ExResolves, SetValue, Types, Held
    <3>5. QED
      BY <3>2, <3>3, <3>4
  <2>5. QED
    BY <2>1, <2>2, <2>3, <2>4
<1>10. CASE ExDrains
  <2>0. /\ QueueShape(q') /\ Items(q') = {} /\ Items(q) \subseteq Item /\ batch' = Items(q)
        /\ q'.closed = (q.closed \/ ~recover)
    BY <1>10, DrainItems, ItemsType DEF ExDrains, Types
  <2>1. Types'
    BY <1>10, <2>0 DEF ExDrains, Types
  <2>2. KeysMatch'
    BY <1>10 DEF ExDrains, KeysMatch
  <2>3. Closing'
    BY <1>10, <2>0 DEF ExDrains, Closing, Types
  <2>4. ASSUME NEW i \in Item
        PROVE  Untouched(i)' /\ OneAnswer(i)' /\ Held(i)'
    <3>1. Untouched(i) /\ OneAnswer(i) /\ Held(i)
      OBVIOUS
    <3>2. Untouched(i)'
      BY <1>10, <2>0, <3>1 DEF ExDrains, Types, Untouched, InHands
    <3>3. OneAnswer(i)'
      BY <1>10, <2>0, <3>1 DEF ExDrains, Types, OneAnswer, ExGives, StopGives, CancelGives
    <3>4. Held(i)'
      BY <1>10, <2>0, <3>1 DEF ExDrains, Held, Closing
    <3>5. QED
      BY <3>2, <3>3, <3>4
  <2>5. QED
    BY <2>1, <2>2, <2>3, <2>4
<1>11. CASE \E j \in Item : ExFails(j)
  BY <1>11, ExFailsStep
<1>12. CASE ExFailResolves
  <2>1. Types'
    BY <1>12 DEF ExFailResolves, SetValue, Types
  <2>2. KeysMatch'
    BY <1>12 DEF ExFailResolves, KeysMatch
  <2>3. Closing'
    BY <1>12 DEF ExFailResolves, SetValue, Closing, Types
  <2>4. ASSUME NEW i \in Item
        PROVE  Untouched(i)' /\ OneAnswer(i)' /\ Held(i)'
    <3>1. Untouched(i) /\ OneAnswer(i) /\ Held(i)
      OBVIOUS
    <3>2. Untouched(i)'
      BY <1>12, <3>1 DEF ExFailResolves, SetValue, Types, Untouched, InHands
    <3>3. OneAnswer(i)'
      BY <1>12, <3>1 DEF ExFailResolves, SetValue, Types, OneAnswer, ExGives, StopGives, CancelGives
    <3>4. Held(i)'
      BY <1>12, <3>1 DEF ExFailResolves, SetValue, Types, Held
    <3>5. QED
      BY <3>2, <3>3, <3>4
  <2>5. QED
    BY <2>1, <2>2, <2>3, <2>4
<1>13. CASE ExFailed
  <2>1. Types'
    BY <1>13 DEF ExFailed, Types
  <2>2. KeysMatch'
    BY <1>13 DEF ExFailed, KeysMatch
  <2>3. Closing'
    BY <1>13 DEF ExFailed, Closing, Types
  <2>4. ASSUME NEW i \in Item
        PROVE  Untouched(i)' /\ OneAnswer(i)' /\ Held(i)'
    <3>1. Untouched(i) /\ OneAnswer(i) /\ Held(i)
      OBVIOUS
    <3>2. Untouched(i)'
      BY <1>13, <3>1 DEF ExFailed, Types, Untouched, InHands
    <3>3. OneAnswer(i)'
      BY <1>13, <3>1 DEF ExFailed, Types, OneAnswer, ExGives, StopGives, CancelGives
    <3>4. Held(i)'
      BY <1>13, <3>1 DEF ExFailed, Types, Held
    <3>5. QED
      BY <3>2, <3>3, <3>4
  <2>5. QED
    BY <2>1, <2>2, <2>3, <2>4
<1>14. CASE ExReforms
  <2>1. Types'
    BY <1>14 DEF ExReforms, Types
  <2>2. KeysMatch'
    BY <1>14 DEF ExReforms, KeysMatch
  <2>3. Closing'
    BY <1>14 DEF ExReforms, Closing, Types
  <2>4. ASSUME NEW i \in Item
        PROVE  Untouched(i)' /\ OneAnswer(i)' /\ Held(i)'
    <3>1. Untouched(i) /\ OneAnswer(i) /\ Held(i)
      OBVIOUS
    <3>2. Untouched(i)'
      BY <1>14, <3>1 DEF ExReforms, Types, Untouched, InHands
    <3>3. OneAnswer(i)'
      BY <1>14, <3>1 DEF ExReforms, Types, OneAnswer, ExGives, StopGives, CancelGives
    <3>4. Held(i)'
      BY <1>14, <3>1 DEF ExReforms, Types, Held
    <3>5. QED
      BY <3>2, <3>3, <3>4
  <2>5. QED
    BY <2>1, <2>2, <2>3, <2>4
<1>15. CASE ExGivesUp
  <2>1. Types'
    BY <1>15 DEF ExGivesUp, Types
  <2>2. KeysMatch'
    BY <1>15 DEF ExGivesUp, KeysMatch
  <2>3. Closing'
    BY <1>15 DEF ExGivesUp, Closing, Types
  <2>4. ASSUME NEW i \in Item
        PROVE  Untouched(i)' /\ OneAnswer(i)' /\ Held(i)'
    <3>1. Untouched(i) /\ OneAnswer(i) /\ Held(i)
      OBVIOUS
    <3>2. Untouched(i)'
      BY <1>15, <3>1 DEF ExGivesUp, Types, Untouched, InHands
    <3>3. OneAnswer(i)'
      BY <1>15, <3>1 DEF ExGivesUp, Types, OneAnswer, ExGives, StopGives, CancelGives
    <3>4. Held(i)'
      BY <1>15, <3>1 DEF ExGivesUp, Types, Held
    <3>5. QED
      BY <3>2, <3>3, <3>4
  <2>5. QED
    BY <2>1, <2>2, <2>3, <2>4
<1>16. CASE ExErases
  <2>a. /\ pending' \in [Key -> Generate \cup {NoJob}]
        /\ \A k \in Key : pending'[k] \in {pending[k], NoJob}
    BY <1>16, Erases DEF ExErases, Types
  <2>1. Types'
    BY <1>16, <2>a DEF ExErases, Types
  <2>2. KeysMatch'
    BY <2>a, KeysMatchKept
  <2>3. Closing'
    BY <1>16 DEF ExErases, Closing, Types
  <2>4. ASSUME NEW i \in Item
        PROVE  Untouched(i)' /\ OneAnswer(i)' /\ Held(i)'
    <3>1. Untouched(i) /\ OneAnswer(i) /\ Held(i)
      OBVIOUS
    <3>2. Untouched(i)'
      <4>1. state'[i] = state[i] /\ sub'[i] = sub[i] /\ (InHands(i)' => InHands(i))
        BY <1>16 DEF ExErases, InHands
      <4>2. QED
        BY <2>a, <3>1, <4>1, UntouchedKept
    <3>3. OneAnswer(i)'
      BY <1>16, <3>1 DEF ExErases, Types, OneAnswer, ExGives, StopGives, CancelGives
    <3>4. Held(i)'
      BY <1>16, <3>1 DEF ExErases, Types, Held
    <3>5. QED
      BY <3>2, <3>3, <3>4
  <2>5. QED
    BY <2>1, <2>2, <2>3, <2>4
<1>17. CASE ExFailErases
  <2>a. /\ pending' \in [Key -> Generate \cup {NoJob}]
        /\ \A k \in Key : pending'[k] \in {pending[k], NoJob}
    BY <1>17, Erases DEF ExFailErases, Types
  <2>1. Types'
    BY <1>17, <2>a DEF ExFailErases, Types
  <2>2. KeysMatch'
    BY <2>a, KeysMatchKept
  <2>3. Closing'
    BY <1>17 DEF ExFailErases, Closing, Types
  <2>4. ASSUME NEW i \in Item
        PROVE  Untouched(i)' /\ OneAnswer(i)' /\ Held(i)'
    <3>1. Untouched(i) /\ OneAnswer(i) /\ Held(i)
      OBVIOUS
    <3>2. Untouched(i)'
      <4>1. state'[i] = state[i] /\ sub'[i] = sub[i] /\ (InHands(i)' => InHands(i))
        BY <1>17 DEF ExFailErases, InHands
      <4>2. QED
        BY <2>a, <3>1, <4>1, UntouchedKept
    <3>3. OneAnswer(i)'
      BY <1>17, <3>1 DEF ExFailErases, Types, OneAnswer, ExGives, StopGives, CancelGives
    <3>4. Held(i)'
      BY <1>17, <3>1 DEF ExFailErases, Types, Held
    <3>5. QED
      BY <3>2, <3>3, <3>4
  <2>5. QED
    BY <2>1, <2>2, <2>3, <2>4
<1>18. QED
  BY <1>1, <1>2, <1>3, <1>4, <1>5, <1>6, <1>7, <1>8, <1>9, <1>10, <1>11, <1>12, <1>13, <1>14, <1>15,
     <1>16, <1>17 DEF Executor

\* ... and so does stop().
LEMMA StopSettlesStep ==
    ASSUME JobInv, NEW j \in Item, StopSettles(j), UNCHANGED recover
    PROVE  JobInv'
<1> USE SchedulerConstants DEF JobInv, SubStates, jobVars, exVars, stVars
<1>a. pending' = pending
  BY DEF StopSettles
<1>1. Types'
  BY <1>a DEF StopSettles, Types
<1>2. KeysMatch'
  BY <1>a, KeysMatchKept DEF StopSettles, Types
<1>3. Closing'
  BY <1>a DEF StopSettles, Closing, Types
<1>4. ASSUME NEW i \in Item
      PROVE  Untouched(i)' /\ OneAnswer(i)' /\ Held(i)'
  <2>1. Untouched(i) /\ OneAnswer(i) /\ Held(i)
    OBVIOUS
  <2>2. CASE state[j] = "queued"
    <3>1. /\ state' = [state EXCEPT ![j] = "cancelled"] /\ UNCHANGED <<q, sub, promise, canceller>>
          /\ stopper = "fail" /\ stopper' = "erase" /\ stopJob' = j /\ stopBatch' = stopBatch \ {j}
          /\ batch' = batch /\ UNCHANGED <<ex, cur>>
          /\ j \in stopBatch
      BY <2>2 DEF StopSettles
    <3>2. CASE i = j
      <4>1. state'[i] = "cancelled" /\ sub'[i] \notin {"idle", "register"}
        BY <2>1, <3>1, <3>2 DEF Types, Untouched, InHands
      <4>2. Untouched(i)' /\ Held(i)'
        BY <4>1 DEF Untouched, Held
      <4>3. OneAnswer(i)'
        BY <2>1, <2>2, <3>1, <3>2, <4>1 DEF OneAnswer, ExGives, StopGives, CancelGives
      <4>4. QED
        BY <4>2, <4>3
    <3>3. CASE i # j
      <4>0. /\ state'[i] = state[i] /\ sub'[i] = sub[i] /\ promise'[i] = promise[i]
            /\ canceller'[i] = canceller[i]
        BY <3>1, <3>3 DEF Types
      <4>1. Untouched(i)'
        <5>1. InHands(i)' => InHands(i)
          BY <3>1, <3>3 DEF InHands
        <5>2. QED
          BY <1>a, <2>1, <4>0, <5>1, UntouchedKept
      <4>2. OneAnswer(i)'
        <5>1. stopJob = NoJob
          BY <3>1 DEF Types
        <5>2. ~StopGives(i) /\ ~StopGives(i)'
          BY <3>1, <3>3, <5>1 DEF StopGives
        <5>3. QED
          BY <2>1, <3>1, <4>0, <5>2, OneAnswerKept DEF ExGives, CancelGives
      <4>3. Held(i)'
        BY <2>1, <3>1, <3>3 DEF Types, Held
      <4>4. QED
        BY <4>1, <4>2, <4>3
    <3>4. QED
      BY <3>2, <3>3
  <2>3. CASE state[j] # "queued"
    <3>1. /\ UNCHANGED <<state, q, sub, promise, canceller, pending>>
          /\ stopBatch' = stopBatch \ {j} /\ UNCHANGED <<ex, cur, stopper, stopJob, batch>>
      BY <2>3 DEF StopSettles
    <3>2. Untouched(i)'
      BY <2>1, <3>1 DEF Untouched, InHands
    <3>3. OneAnswer(i)'
      BY <2>1, <3>1 DEF OneAnswer, ExGives, StopGives, CancelGives
    <3>4. Held(i)'
      BY <2>1, <2>3, <3>1 DEF Held
    <3>5. QED
      BY <3>2, <3>3, <3>4
  <2>4. QED
    BY <2>2, <2>3
<1>5. QED
  BY <1>1, <1>2, <1>3, <1>4

LEMMA StopSteps ==
    ASSUME JobInv, StopStarts \/ Stop, UNCHANGED recover
    PROVE  JobInv'
<1> USE SchedulerConstants DEF JobInv, SubStates, jobVars, exVars, stVars
<1>1. CASE StopStarts
  <2>1. Types'
    BY <1>1 DEF StopStarts, Types
  <2>2. KeysMatch'
    BY <1>1 DEF StopStarts, KeysMatch
  <2>3. Closing'
    BY <1>1 DEF StopStarts, Closing, Types
  <2>4. ASSUME NEW i \in Item
        PROVE  Untouched(i)' /\ OneAnswer(i)' /\ Held(i)'
    <3>1. Untouched(i) /\ OneAnswer(i) /\ Held(i)
      OBVIOUS
    <3>2. Untouched(i)'
      BY <1>1, <3>1 DEF StopStarts, Types, Untouched, InHands
    <3>3. OneAnswer(i)'
      BY <1>1, <3>1 DEF StopStarts, Types, OneAnswer, ExGives, StopGives, CancelGives
    <3>4. Held(i)'
      BY <1>1, <3>1 DEF StopStarts, Types, Held
    <3>5. QED
      BY <3>2, <3>3, <3>4
  <2>5. QED
    BY <2>1, <2>2, <2>3, <2>4
<1>2. CASE StopCloses
  <2>0. /\ QueueShape(q') /\ Items(q') = {} /\ Items(q) \subseteq Item /\ stopBatch' = Items(q)
        /\ q'.closed = TRUE
    BY <1>2, DrainItems, ItemsType DEF StopCloses, Types
  <2>1. Types'
    BY <1>2, <2>0 DEF StopCloses, Types
  <2>2. KeysMatch'
    BY <1>2 DEF StopCloses, KeysMatch
  <2>3. Closing'
    BY <1>2, <2>0 DEF StopCloses, Closing, Types
  <2>4. ASSUME NEW i \in Item
        PROVE  Untouched(i)' /\ OneAnswer(i)' /\ Held(i)'
    <3>1. Untouched(i) /\ OneAnswer(i) /\ Held(i)
      OBVIOUS
    <3>2. Untouched(i)'
      BY <1>2, <2>0, <3>1 DEF StopCloses, Types, Untouched, InHands
    <3>3. OneAnswer(i)'
      BY <1>2, <2>0, <3>1 DEF StopCloses, Types, OneAnswer, ExGives, StopGives, CancelGives
    <3>4. Held(i)'
      BY <1>2, <2>0, <3>1 DEF StopCloses, Held, Closing
    <3>5. QED
      BY <3>2, <3>3, <3>4
  <2>5. QED
    BY <2>1, <2>2, <2>3, <2>4
<1>3. CASE \E j \in Item : StopSettles(j)
  BY <1>3, StopSettlesStep
<1>4. CASE StopResolves
  <2>1. Types'
    BY <1>4 DEF StopResolves, SetValue, Types
  <2>2. KeysMatch'
    BY <1>4 DEF StopResolves, KeysMatch
  <2>3. Closing'
    BY <1>4 DEF StopResolves, SetValue, Closing, Types
  <2>4. ASSUME NEW i \in Item
        PROVE  Untouched(i)' /\ OneAnswer(i)' /\ Held(i)'
    <3>1. Untouched(i) /\ OneAnswer(i) /\ Held(i)
      OBVIOUS
    <3>2. Untouched(i)'
      BY <1>4, <3>1 DEF StopResolves, SetValue, Types, Untouched, InHands
    <3>3. OneAnswer(i)'
      BY <1>4, <3>1 DEF StopResolves, SetValue, Types, OneAnswer, ExGives, StopGives, CancelGives
    <3>4. Held(i)'
      BY <1>4, <3>1 DEF StopResolves, SetValue, Types, Held
    <3>5. QED
      BY <3>2, <3>3, <3>4
  <2>5. QED
    BY <2>1, <2>2, <2>3, <2>4
<1>5. CASE StopJoins
  <2>1. Types'
    BY <1>5 DEF StopJoins, Types
  <2>2. KeysMatch'
    BY <1>5 DEF StopJoins, KeysMatch
  <2>3. Closing'
    BY <1>5 DEF StopJoins, Closing, Types
  <2>4. ASSUME NEW i \in Item
        PROVE  Untouched(i)' /\ OneAnswer(i)' /\ Held(i)'
    <3>1. Untouched(i) /\ OneAnswer(i) /\ Held(i)
      OBVIOUS
    <3>2. Untouched(i)'
      BY <1>5, <3>1 DEF StopJoins, Types, Untouched, InHands
    <3>3. OneAnswer(i)'
      BY <1>5, <3>1 DEF StopJoins, Types, OneAnswer, ExGives, StopGives, CancelGives
    <3>4. Held(i)'
      BY <1>5, <3>1 DEF StopJoins, Types, Held
    <3>5. QED
      BY <3>2, <3>3, <3>4
  <2>5. QED
    BY <2>1, <2>2, <2>3, <2>4
<1>6. CASE StopErases
  <2>a. /\ pending' \in [Key -> Generate \cup {NoJob}]
        /\ \A k \in Key : pending'[k] \in {pending[k], NoJob}
    BY <1>6, Erases DEF StopErases, Types
  <2>1. Types'
    BY <1>6, <2>a DEF StopErases, Types
  <2>2. KeysMatch'
    BY <2>a, KeysMatchKept
  <2>3. Closing'
    BY <1>6 DEF StopErases, Closing, Types
  <2>4. ASSUME NEW i \in Item
        PROVE  Untouched(i)' /\ OneAnswer(i)' /\ Held(i)'
    <3>1. Untouched(i) /\ OneAnswer(i) /\ Held(i)
      OBVIOUS
    <3>2. Untouched(i)'
      <4>1. state'[i] = state[i] /\ sub'[i] = sub[i] /\ (InHands(i)' => InHands(i))
        BY <1>6 DEF StopErases, InHands
      <4>2. QED
        BY <2>a, <3>1, <4>1, UntouchedKept
    <3>3. OneAnswer(i)'
      BY <1>6, <3>1 DEF StopErases, Types, OneAnswer, ExGives, StopGives, CancelGives
    <3>4. Held(i)'
      BY <1>6, <3>1 DEF StopErases, Types, Held
    <3>5. QED
      BY <3>2, <3>3, <3>4
  <2>5. QED
    BY <2>1, <2>2, <2>3, <2>4
<1>7. QED
  BY <1>1, <1>2, <1>3, <1>4, <1>5, <1>6 DEF Stop

-----------------------------------------------------------------------------
LEMMA JobInvStep == JobInv /\ [Next]_vars => JobInv'
<1> SUFFICES ASSUME JobInv, [Next]_vars PROVE JobInv'
  OBVIOUS
<1>1. CASE UNCHANGED vars
  <2> USE <1>1 DEF vars, jobVars, exVars, stVars
  <2>1. Types' /\ KeysMatch' /\ Closing'
    BY DEF JobInv, Types, KeysMatch, Closing
  <2>2. ASSUME NEW i \in Item
        PROVE  Untouched(i)' /\ OneAnswer(i)' /\ Held(i)'
    <3>1. Untouched(i) /\ OneAnswer(i) /\ Held(i)
      BY DEF JobInv
    <3>2. QED
      BY <3>1 DEF Untouched, InHands, OneAnswer, ExGives, StopGives, CancelGives, Held
  <2>3. QED
    BY <2>1, <2>2 DEF JobInv
<1>2. CASE Next
  <2>1. ASSUME NEW j \in Item, HandleClient(j) \/ Expire(j), UNCHANGED recover
        PROVE  JobInv'
    BY <2>1, HandlerSteps
  <2>2. ASSUME NEW j \in Item, Cancel(j), UNCHANGED recover
        PROVE  JobInv'
    BY <2>2, CancelSteps
  <2>3. ASSUME NEW k \in Key, ClientCancels(k), UNCHANGED recover
        PROVE  JobInv'
    BY <2>3, ClientCancelStep
  <2>4. ASSUME Executor \/ ExReforms, UNCHANGED recover
        PROVE  JobInv'
    BY <2>4, ExecutorSteps
  <2>5. ASSUME StopStarts \/ Stop, UNCHANGED recover
        PROVE  JobInv'
    BY <2>5, StopSteps
  <2>6. QED
    BY <1>2, <2>1, <2>2, <2>3, <2>4, <2>5 DEF Next
<1>3. QED
  BY <1>1, <1>2

\* Whatever the handler threads, the executor and stop() do, JobInv holds in
\* every state of the scheduler.
THEOREM JobInvariant == Spec => []JobInv
  BY JobInvInit, JobInvStep, PTL DEF Spec

\* Every job has its one answer: its promise is set once at most, the executor
\* runs only what nobody else has settled, and a submit that still waits has a
\* thread that will settle its job.
THEOREM AlwaysNoLostJob == Spec => []NoLostJob
<1>1. ASSUME JobInv PROVE NoLostJob
  <2>1. \A j \in Item : OneAnswer(j) /\ Held(j)
    BY <1>1 DEF JobInv
  <2>2. ex \in {"run", "settle"} => state[cur] = "active" /\ promise[cur] = "none"
    <3>1. ex \in {"run", "settle"} => cur \in Item
      BY <1>1 DEF JobInv, Types
    <3>2. QED
      BY <2>1, <3>1 DEF OneAnswer
  <2>3. \A j \in Item : promise[j] # "set twice"
    BY <2>1 DEF OneAnswer
  <2>4. ASSUME NEW j \in Item, sub[j] \in {"wait", "get"}, promise[j] = "none"
        PROVE  \/ state[j] = "queued" /\ j \in Items(q) /\ (ex # "exit" \/ stopper = "close")
               \/ state[j] = "queued" /\ (j \in batch \cup stopBatch \/ (cur = j /\ ex = "got"))
               \/ state[j] = "active" /\ cur = j /\ ex \in {"run", "settle"}
               \/ state[j] = "done" /\ cur = j /\ ex \in {"erase", "resolve"}
               \/ state[j] = "cancelled" /\ \/ cur = j /\ ex \in {"erase", "resolve", "failErase",
                                                                "failResolve"}
                                            \/ stopJob = j
                                            \/ canceller[j] # "none"
    <3>1. OneAnswer(j) /\ Held(j)
      BY <2>1
    <3>2. j \in Items(q) => ex # "exit" \/ stopper = "close"
      BY <1>1 DEF JobInv, Closing
    <3>3. state[j] \in {"queued", "active", "done", "cancelled"}
      BY <1>1 DEF JobInv, Types
    <3>4. CASE state[j] = "queued"
      BY <2>4, <3>1, <3>2, <3>4 DEF Held
    <3>5. CASE state[j] # "queued"
      BY <2>4, <3>1, <3>3, <3>5 DEF OneAnswer, ExGives, StopGives, CancelGives
    <3>6. QED
      BY <3>4, <3>5
  <2>5. QED
    BY <2>2, <2>3, <2>4 DEF NoLostJob
<1>2. QED
  BY <1>1, JobInvariant, PTL
-----------------------------------------------------------------------------
(***************************************************************************)
(* pending_ holds exactly the open requests                                *)
(***************************************************************************)
\* A job that was handed over had been pushed: its submit waits, or has its
\* answer.
Pushed(j) ==
    /\ InHands(j) \/ StopGives(j) =>
          sub[j] \in {"wait", "get"} \/ (sub[j] = "returned" /\ promise[j] # "none")
    /\ state[j] = "done" => sub[j] \in {"wait", "get", "returned"}

PendInv == PendingExact /\ \A j \in Item : Pushed(j)

\* Nobody forgets that a job was cancelled and then found the queue full.
RefusedKept ==
    \A i \in Item : sub[i] = "refused" /\ state[i] = "cancelled" =>
        sub'[i] = "refused" /\ state'[i] = "cancelled"

LEMMA RobbedKept ==
    ASSUME RefusedKept, NEW j \in Generate, Robbed(j)
    PROVE  Robbed(j)'
  BY SchedulerConstants DEF RefusedKept, Robbed

\* A step that neither opens nor closes a request keeps pending_ exact if it
\* leaves it alone, ...
LEMMA ExactKept ==
    ASSUME Types, PendingExact, RefusedKept, pending' = pending,
           \A i \in Item : Open(i)' <=> Open(i),
           \A i \in Item : Open(i) => promise'[i] = promise[i]
    PROVE  PendingExact'
<1>1. ASSUME NEW j \in Generate
      PROVE  /\ \A k \in Key : pending[k] = j => KeyOf[j] = k /\ Open(j)' /\ promise'[j] = "none"
             /\ Open(j)' => pending[KeyOf[j]] = j \/ Robbed(j)'
  <2>1. j \in Item
    BY SchedulerConstants
  <2>2. QED
    BY <2>1, RobbedKept DEF PendingExact
<1>2. QED
  BY <1>1 DEF PendingExact

\* ... and if it erases the entry of the one request that it closes; or of a
\* cancelled job that submit refuses, which may be the entry of another one.
LEMMA ExactErased ==
    ASSUME Types, KeysMatch, PendingExact, RefusedKept, NEW c \in Item, ErasePending(c),
           ~Open(c)',
           \/ Open(c) \/ c \notin Generate
           \/ sub'[c] = "refused" /\ state'[c] = "cancelled",
           \A i \in Item \ {c} : Open(i)' <=> Open(i),
           \A i \in Item \ {c} : Open(i) => promise'[i] = promise[i]
    PROVE  PendingExact'
<1>1. \A k \in Key : pending'[k] \in {pending[k], NoJob} /\ pending'[k] # c
  BY Erases
<1>2. ASSUME NEW j \in Generate, NEW k \in Key, pending'[k] = j
      PROVE  KeyOf[j] = k /\ Open(j)' /\ promise'[j] = "none"
  <2>1. pending[k] = j /\ j \in Item \ {c}
    BY <1>1, <1>2, SchedulerConstants
  <2>2. KeyOf[j] = k /\ Open(j) /\ promise[j] = "none"
    BY <2>1 DEF PendingExact
  <2>3. QED
    BY <2>1, <2>2
<1>3. ASSUME NEW j \in Generate, Open(j)'
      PROVE  pending'[KeyOf[j]] = j \/ Robbed(j)'
  <2>1. j # c /\ j \in Item /\ Open(j) /\ KeyOf[j] \in Key
    BY <1>3, SchedulerConstants
  <2>2. pending[KeyOf[j]] = j \/ Robbed(j)
    BY <2>1 DEF PendingExact
  <2>3. CASE Robbed(j)
    BY <2>3, RobbedKept
  <2>4. CASE pending[KeyOf[j]] = j /\ (c \notin Generate \/ KeyOf[c] # KeyOf[j])
    <3>1. CASE c \notin Generate
      BY <2>4, <3>1 DEF ErasePending
    <3>2. CASE c \in Generate /\ KeyOf[c] # KeyOf[j]
      <4>1. pending' = [pending EXCEPT ![KeyOf[c]] = NoJob]
        BY <3>2 DEF ErasePending
      <4>2. QED
        BY <2>1, <2>4, <3>2, <4>1 DEF Types
    <3>3. QED
      BY <2>4, <3>1, <3>2
  <2>5. CASE pending[KeyOf[j]] = j /\ c \in Generate /\ KeyOf[c] = KeyOf[j]
    <3>1. CASE Open(c)
      <4>1. Robbed(c)
        BY <2>1, <2>5, <3>1 DEF PendingExact
      <4>2. sub[j] # "refused"
        BY <2>1 DEF Open
      <4>3. Robbed(j)
        BY <2>5, <4>1, <4>2 DEF Robbed
      <4>4. QED
        BY <4>3, RobbedKept
    <3>2. CASE sub'[c] = "refused" /\ state'[c] = "cancelled"
      BY <2>1, <2>5, <3>2 DEF Robbed
    <3>3. QED
      BY <2>5, <3>1, <3>2
  <2>6. QED
    BY <2>2, <2>3, <2>4, <2>5
<1>4. QED
  BY <1>2, <1>3 DEF PendingExact

\* Nothing is pushed, and no answer taken back.
LEMMA PushedKept ==
    ASSUME NEW i \in Item, Pushed(i),
           InHands(i)' \/ StopGives(i)' => InHands(i) \/ StopGives(i),
           state'[i] = "done" => state[i] = "done",
           \/ sub'[i] = sub[i] \/ (sub[i] = "wait" /\ sub'[i] = "get")
           \/ sub[i] \in {"wait", "get"} /\ sub'[i] = "returned" /\ promise[i] # "none",
           promise[i] # "none" => promise'[i] # "none"
    PROVE  Pushed(i)'
  BY DEF Pushed

\* A step that touches no request and hands over what was handed over before.
LEMMA QuietStep ==
    ASSUME JobInv, PendInv, UNCHANGED <<pending, sub, state, promise>>,
           UNCHANGED <<ex, cur>> \/ {ex, ex'} \cap {"erase", "failErase"} = {},
           UNCHANGED <<stopper, stopJob>> \/ (stopper # "erase" /\ stopper' # "erase"),
           \A i \in Item : InHands(i)' \/ StopGives(i)' => InHands(i) \/ StopGives(i)
    PROVE  PendInv'
<1>1. \A i \in Item : Open(i)' <=> Open(i)
  BY DEF Open
<1>2. PendingExact'
  BY <1>1, ExactKept DEF RefusedKept, JobInv, PendInv
<1>3. \A i \in Item : Pushed(i)'
  BY PushedKept DEF PendInv
<1>4. QED
  BY <1>2, <1>3 DEF PendInv

LEMMA PendInvInit == Init => PendInv
<1> SUFFICES ASSUME Init PROVE PendInv
  OBVIOUS
<1>1. QueueShape(q) /\ Items(q) = {}
  BY EmptyItems DEF Init
<1>2. ASSUME NEW j \in Item
      PROVE  ~Open(j) /\ Pushed(j)
  BY <1>1, SchedulerConstants DEF Init, Open, Pushed, InHands, StopGives
<1>3. PendingExact
  BY <1>2, SchedulerConstants DEF Init, PendingExact
<1>4. QED
  BY <1>2, <1>3 DEF PendInv

\* cancel() closes the request whose entry it erases.
LEMMA PendInvCancels ==
    ASSUME JobInv, PendInv, NEW k \in Key, Cancels(k),
           UNCHANGED <<q, promise, exVars, stVars>>,
           \A i \in Item : sub'[i] = sub[i] \/ (sub[i] = "wait" /\ sub'[i] = "get")
    PROVE  PendInv'
<1> USE SchedulerConstants DEF JobInv, PendInv, exVars, stVars
<1>1. CASE UNCHANGED <<state, pending, canceller>>
  <2>1. \A i \in Item : Open(i)' <=> Open(i)
    BY <1>1 DEF Open
  <2>2. PendingExact'
    BY <1>1, <2>1, ExactKept DEF RefusedKept
  <2>3. \A i \in Item : Pushed(i)'
    BY <1>1, PushedKept DEF InHands, StopGives
  <2>4. QED
    BY <2>2, <2>3
<1>2. CASE ~UNCHANGED <<state, pending, canceller>>
  <2>1. PICK c \in Item :
          /\ pending[k] = c /\ state[c] = "queued"
          /\ state' = [state EXCEPT ![c] = "cancelled"]
          /\ pending' = [pending EXCEPT ![k] = NoJob]
    BY <1>2, CancelsEither
  <2>2. c \in Generate /\ KeyOf[c] = k
    <3>1. pending[k] \in Generate \cup {NoJob} /\ c # NoJob
      BY DEF Types
    <3>2. QED
      BY <2>1, <3>1 DEF KeysMatch
  <2>3. ErasePending(c) /\ Open(c)
    BY <2>1, <2>2 DEF ErasePending, PendingExact
  <2>4. ~Open(c)'
    <3>1. ~ExGives(c) /\ ~StopGives(c)
      BY <2>1 DEF OneAnswer
    <3>2. QED
      BY <2>1, <3>1 DEF Open, ExGives, StopGives, Types
  <2>5. \A i \in Item \ {c} : state'[i] = state[i] /\ (Open(i)' <=> Open(i))
    BY <2>1 DEF Open, Types
  <2>6. RefusedKept
    BY <2>1 DEF RefusedKept, Types
  <2>7. PendingExact'
    BY <2>3, <2>4, <2>5, <2>6, ExactErased
  <2>8. ASSUME NEW i \in Item
        PROVE  Pushed(i)'
    <3>1. state'[i] = "done" => state[i] = "done"
      BY <2>1 DEF Types
    <3>2. InHands(i)' \/ StopGives(i)' => InHands(i) \/ StopGives(i)
      BY DEF InHands, StopGives
    <3>3. QED
      BY <3>1, <3>2, PushedKept
  <2>9. QED
    BY <2>7, <2>8
<1>3. QED
  BY <1>1, <1>2

LEMMA PendInvHandler ==
    ASSUME JobInv, PendInv, NEW j \in Item, HandleClient(j) \/ Expire(j)
    PROVE  PendInv'
<1> USE SchedulerConstants DEF JobInv, PendInv, jobVars, exVars, stVars
<1>0. Untouched(j) /\ OneAnswer(j) /\ Pushed(j)
  OBVIOUS
<1>1. CASE SubmitChecks(j)
  <2>1. /\ sub[j] = "idle" /\ sub'[j] \in {"register", "push", "returned"}
        /\ sub'[j] = "push" => j \notin Generate
        /\ \A i \in Item \ {j} : sub'[i] = sub[i]
        /\ UNCHANGED <<q, pending, state, promise, exVars, stVars>>
    BY <1>1 DEF SubmitChecks, Goto, Types
  <2>2. RefusedKept /\ \A i \in Generate : Open(i)' <=> Open(i)
    BY <2>1 DEF RefusedKept, Open
  <2>3. PendingExact'
    <3>1. \A i \in Generate : Robbed(i) => Robbed(i)'
      BY <2>2, RobbedKept
    <3>2. QED
      BY <2>1, <2>2, <3>1 DEF PendingExact
  <2>4. \A i \in Item : Pushed(i)'
    <3>1. ~InHands(j) /\ ~StopGives(j) /\ state[j] = "queued"
      BY <1>0, <2>1 DEF Untouched, OneAnswer
    <3>2. \A i \in Item : (InHands(i)' <=> InHands(i)) /\ (StopGives(i)' <=> StopGives(i))
      BY <2>1 DEF InHands, StopGives
    <3>3. QED
      BY <2>1, <3>1, <3>2 DEF Pushed
  <2>5. QED
    BY <2>3, <2>4
<1>2. CASE SubmitRegisters(j)
  <2>1. /\ sub[j] = "register" /\ j \in Generate /\ KeyOf[j] \in Key /\ state[j] = "queued"
        /\ ~InHands(j) /\ ~StopGives(j) /\ ~Open(j) /\ promise[j] = "none"
        /\ UNCHANGED <<q, state, promise, exVars, stVars>>
    BY <1>0, <1>2 DEF SubmitRegisters, Goto, Untouched, OneAnswer, Open
  <2>2. /\ sub'[j] \in {"push", "returned"}
        /\ \A i \in Item \ {j} : sub'[i] = sub[i]
    BY <1>2 DEF SubmitRegisters, Goto, Types
  <2>3. RefusedKept /\ \A i \in Item \ {j} : Open(i)' <=> Open(i)
    BY <2>1, <2>2 DEF RefusedKept, Open
  <2>4. \A i \in Generate : Robbed(i) => Robbed(i)'
    BY <2>3, RobbedKept
  <2>5. CASE sub'[j] = "returned" /\ pending' = pending
    <3>1. ~Open(j)'
      BY <2>5 DEF Open
    <3>2. PendingExact'
      BY <2>1, <2>3, <2>4, <2>5, <3>1 DEF PendingExact
    <3>3. \A i \in Item : Pushed(i)'
      BY <2>1, <2>2 DEF Pushed, InHands, StopGives
    <3>4. QED
      BY <3>2, <3>3
  <2>6. CASE sub'[j] = "push" /\ pending[KeyOf[j]] = NoJob
             /\ pending' = [pending EXCEPT ![KeyOf[j]] = j]
    <3>1. Open(j)' /\ promise'[j] = "none"
      BY <2>1, <2>6 DEF Open
    <3>2. \A k \in Key : pending'[k] = IF k = KeyOf[j] THEN j ELSE pending[k]
      BY <2>1, <2>6 DEF Types
    <3>3. ASSUME NEW i \in Generate \ {j}
          PROVE  /\ \A k \in Key : pending'[k] = i => KeyOf[i] = k /\ Open(i)' /\ promise'[i] = "none"
                 /\ Open(i)' => pending'[KeyOf[i]] = i \/ Robbed(i)'
      <4>1. i \in Item /\ i # NoJob /\ KeyOf[i] \in Key
        OBVIOUS
      <4>2. ASSUME NEW k \in Key, pending'[k] = i
            PROVE  KeyOf[i] = k /\ Open(i)' /\ promise'[i] = "none"
        <5>1. pending[k] = i
          BY <3>2, <4>2
        <5>2. QED
          BY <2>1, <2>3, <4>1, <5>1 DEF PendingExact
      <4>3. ASSUME Open(i)'
            PROVE  pending'[KeyOf[i]] = i \/ Robbed(i)'
        <5>1. pending[KeyOf[i]] = i \/ Robbed(i)
          BY <2>3, <4>1, <4>3 DEF PendingExact
        <5>2. pending[KeyOf[i]] = i => KeyOf[i] # KeyOf[j]
          BY <2>6, <4>1
        <5>3. QED
          BY <2>4, <3>2, <4>1, <5>1, <5>2
      <4>4. QED
        BY <4>2, <4>3
    <3>4. ASSUME NEW k \in Key, pending'[k] = j
          PROVE  KeyOf[j] = k
      <4>1. pending[k] # j
        BY <2>1 DEF PendingExact
      <4>2. QED
        BY <3>2, <3>4, <4>1
    <3>5. PendingExact'
      BY <2>1, <3>1, <3>2, <3>3, <3>4 DEF PendingExact
    <3>6. \A i \in Item : Pushed(i)'
      BY <2>1, <2>2 DEF Pushed, InHands, StopGives
    <3>7. QED
      BY <3>5, <3>6
  <2>7. QED
    BY <1>2, <2>5, <2>6 DEF SubmitRegisters, Goto, Types
<1>3. CASE SubmitPushes(j)
  <2>1. /\ sub[j] = "push" /\ sub'[j] \in {"wait", "full"}
        /\ \A i \in Item \ {j} : sub'[i] = sub[i]
        /\ UNCHANGED <<pending, state, promise, exVars, stVars>>
    BY <1>3 DEF SubmitPushes, Goto, Types
  <2>2. Items(q') = Items(q) \/ (sub'[j] = "wait" /\ Items(q') = Items(q) \cup {j})
    <3>1. TurnOf[j] \in Turn /\ QueueShape(q)
      BY DEF Types
    <3>2. CASE q' = Push(q, TurnOf[j], j) /\ sub'[j] = "wait"
      BY <3>1, <3>2, PushItems
    <3>3. CASE q' = q
      BY <3>3
    <3>4. QED
      BY <1>3, <3>2, <3>3 DEF SubmitPushes, Goto, Types
  <2>3. RefusedKept /\ \A i \in Item : Open(i)' <=> Open(i)
    BY <2>1 DEF RefusedKept, Open
  <2>4. PendingExact'
    BY <2>1, <2>3, ExactKept
  <2>5. ASSUME NEW i \in Item
        PROVE  Pushed(i)'
    <3>1. InHands(i)' => InHands(i) \/ (i = j /\ sub'[j] = "wait")
      BY <2>1, <2>2 DEF InHands
    <3>2. Pushed(i)
      OBVIOUS
    <3>3. QED
      BY <2>1, <3>1, <3>2 DEF Pushed, StopGives
  <2>6. QED
    BY <2>4, <2>5
<1>4. CASE SubmitFull(j)
  <2>1. /\ sub[j] = "full" /\ sub'[j] = "refused" /\ ErasePending(j)
        /\ \A i \in Item \ {j} : sub'[i] = sub[i]
        /\ UNCHANGED <<q, state, promise, exVars, stVars>>
    BY <1>4 DEF SubmitFull, Goto, Types
  <2>2. ~InHands(j) /\ ~StopGives(j) /\ state[j] \in {"queued", "cancelled"}
    <3>1. ~InHands(j) /\ ~StopGives(j) /\ state[j] # "done"
      BY <1>0, <2>1 DEF Pushed
    <3>2. state[j] # "active"
      BY <1>0, <3>1 DEF OneAnswer, InHands
    <3>3. QED
      BY <3>1, <3>2 DEF Types
  <2>3. RefusedKept /\ ~Open(j)' /\ \A i \in Item \ {j} : Open(i)' <=> Open(i)
    BY <2>1 DEF RefusedKept, Open
  <2>4. Open(j) \/ (sub'[j] = "refused" /\ state'[j] = "cancelled")
    BY <2>1, <2>2 DEF Open
  <2>5. PendingExact'
    BY <2>1, <2>3, <2>4, ExactErased
  <2>6. \A i \in Item : Pushed(i)'
    BY <2>1, <2>2 DEF Pushed, InHands, StopGives
  <2>7. QED
    BY <2>5, <2>6
<1>5. CASE SubmitTimesOut(j)
  <2>1. KeyOf[j] \in Key /\ Cancels(KeyOf[j]) /\ UNCHANGED <<q, promise, exVars, stVars>>
    BY <1>5 DEF SubmitTimesOut
  <2>2. \A i \in Item : sub'[i] = sub[i] \/ (sub[i] = "wait" /\ sub'[i] = "get")
    BY <1>5 DEF SubmitTimesOut, Goto, Types
  <2>3. QED
    BY <2>1, <2>2, PendInvCancels
<1>6. CASE SubmitReturns(j)
  <2>1. /\ sub[j] \in {"wait", "get"} /\ sub'[j] = "returned" /\ promise[j] # "none"
        /\ \A i \in Item \ {j} : sub'[i] = sub[i]
        /\ UNCHANGED <<q, pending, state, promise, exVars, stVars>>
    BY <1>6 DEF SubmitReturns, Goto, Types
  <2>2. ~Open(j) /\ ~Open(j)'
    BY <1>0, <2>1 DEF OneAnswer, Open, ExGives, StopGives
  <2>3. RefusedKept /\ \A i \in Item : Open(i)' <=> Open(i)
    BY <2>1, <2>2 DEF RefusedKept, Open
  <2>4. PendingExact'
    BY <2>1, <2>3, ExactKept
  <2>5. \A i \in Item : Pushed(i)'
    BY <2>1, PushedKept DEF InHands, StopGives
  <2>6. QED
    BY <2>4, <2>5
<1>7. CASE Expire(j)
  <2>1. \A i \in Item : InHands(i)' \/ StopGives(i)' => InHands(i) \/ StopGives(i)
    BY <1>7 DEF Expire, InHands, StopGives
  <2>2. QED
    BY <1>7, <2>1, QuietStep DEF Expire
<1>8. QED
  BY <1>1, <1>2, <1>3, <1>4, <1>5, <1>6, <1>7 DEF HandleClient, Submit

\* Setting the promise of a job that is not open any more.
LEMMA ResolveStep ==
    ASSUME JobInv, PendInv, NEW c \in Item, ~Open(c), ~Open(c)', SetValue(c),
           UNCHANGED <<pending, sub, state>>,
           \A i \in Item \ {c} : Open(i)' <=> Open(i),
           \A i \in Item : InHands(i)' \/ StopGives(i)' => InHands(i) \/ StopGives(i)
    PROVE  PendInv'
<1>1. /\ \A i \in Item \ {c} : promise'[i] = promise[i]
      /\ \A i \in Item : promise[i] # "none" => promise'[i] # "none"
  BY DEF SetValue, JobInv, Types
<1>2. PendingExact'
  BY <1>1, ExactKept DEF RefusedKept, JobInv, PendInv
<1>3. \A i \in Item : Pushed(i)'
  BY <1>1, PushedKept DEF PendInv
<1>4. QED
  BY <1>2, <1>3 DEF PendInv

\* A job that is settled stays open until it is erased.
LEMMA SettleStep ==
    ASSUME JobInv, PendInv, NEW c \in Item, state[c] \in {"queued", "active"}, InHands(c),
           state' = [state EXCEPT ![c] = "done"] \/ state' = [state EXCEPT ![c] = "cancelled"],
           UNCHANGED <<pending, sub, promise>>, Open(c)',
           \A i \in Item \ {c} : Open(i)' <=> Open(i),
           \A i \in Item : InHands(i)' \/ StopGives(i)' => InHands(i) \/ StopGives(i)
    PROVE  PendInv'
<1>0. promise[c] = "none" /\ sub[c] \in {"wait", "get"}
  BY DEF JobInv, PendInv, OneAnswer, Pushed
<1>1. Open(c) /\ RefusedKept
  BY <1>0 DEF Open, RefusedKept, JobInv, Types
<1>2. PendingExact'
  BY <1>1, ExactKept DEF JobInv, PendInv
<1>3. ASSUME NEW i \in Item
      PROVE  Pushed(i)'
  <2>1. i # c => state'[i] = state[i]
    BY DEF JobInv, Types
  <2>2. CASE i = c
    BY <1>0, <2>2 DEF Pushed
  <2>3. CASE i # c
    BY <2>1, <2>3, PushedKept DEF PendInv
  <2>4. QED
    BY <2>2, <2>3
<1>4. QED
  BY <1>2, <1>3 DEF PendInv

\* erase_pending closes the request of the job that was settled.
LEMMA EraseStep ==
    ASSUME JobInv, PendInv, NEW c \in Item, Open(c), ~Open(c)', ErasePending(c),
           UNCHANGED <<sub, state, promise>>,
           \A i \in Item \ {c} : Open(i)' <=> Open(i),
           \A i \in Item : InHands(i)' \/ StopGives(i)' => InHands(i) \/ StopGives(i)
    PROVE  PendInv'
<1>1. PendingExact'
  BY ExactErased DEF RefusedKept, JobInv, PendInv
<1>2. \A i \in Item : Pushed(i)'
  BY PushedKept DEF PendInv
<1>3. QED
  BY <1>1, <1>2 DEF PendInv

LEMMA PendInvExecutor ==
    ASSUME JobInv, PendInv, Executor \/ ExReforms
    PROVE  PendInv'
<1> USE SchedulerConstants DEF jobVars, exVars, stVars
<1>0. Types /\ (\A i \in Item : OneAnswer(i)) /\ \A i \in Item : Pushed(i)
  BY DEF JobInv, PendInv
<1>1. CASE ExLoop
  <2>1. \A i \in Item : InHands(i)' \/ StopGives(i)' => InHands(i) \/ StopGives(i)
    BY <1>1 DEF ExLoop, InHands, StopGives
  <2>2. QED
    BY <1>1, <2>1, QuietStep DEF ExLoop
<1>2. CASE ExPops
  <2>0. cur' \in Items(q) /\ Items(q') \subseteq Items(q)
    BY <1>0, <1>2, PopItems DEF ExPops, Types
  <2>1. \A i \in Item : InHands(i)' \/ StopGives(i)' => InHands(i) \/ StopGives(i)
    BY <1>2, <2>0 DEF ExPops, InHands, StopGives
  <2>2. QED
    BY <1>2, <2>1, QuietStep DEF ExPops
<1>3. CASE ExIdles
  <2>0. Items(q') = Items(q)
    <3>1. q' = [q EXCEPT !.ready = <<>>] /\ QueueShape(q)
      BY <1>0, <1>3 DEF ExIdles, Types
    <3>2. q'.queues = q.queues
      BY <3>1 DEF QueueShape
    <3>3. QED
      BY <3>2 DEF Items
  <2>1. \A i \in Item : InHands(i)' \/ StopGives(i)' => InHands(i) \/ StopGives(i)
    BY <1>3, <2>0 DEF ExIdles, InHands, StopGives
  <2>2. QED
    BY <1>3, <2>1, QuietStep DEF ExIdles
<1>4. CASE ExSkips
  <2>1. \A i \in Item : InHands(i)' \/ StopGives(i)' => InHands(i) \/ StopGives(i)
    BY <1>4 DEF ExSkips, InHands, StopGives
  <2>2. QED
    BY <1>4, <2>1, QuietStep DEF ExSkips
<1>5. CASE ExExpires
  <2>1. /\ cur \in Item /\ state[cur] \in {"queued", "active"} /\ InHands(cur)
        /\ UNCHANGED <<pending, sub, promise>> /\ ex' = "erase" /\ cur' = cur
    BY <1>0, <1>5 DEF ExExpires, InHands, OneAnswer, Types
  <2>2. Open(cur)'
    <3>1. sub[cur] \in {"wait", "get"}
      BY <1>0, <2>1 DEF OneAnswer, Pushed
    <3>2. QED
      BY <2>1, <3>1 DEF Open
  <2>3. /\ \A i \in Item \ {cur} : Open(i)' <=> Open(i)
        /\ \A i \in Item : InHands(i)' \/ StopGives(i)' => InHands(i) \/ StopGives(i)
    BY <1>0, <1>5, <2>1 DEF ExExpires, Open, InHands, StopGives, Types
  <2>4. QED
    BY <1>5, <2>1, <2>2, <2>3, SettleStep DEF ExExpires
<1>6. CASE ExRuns
  <2>1. /\ cur \in Item /\ state[cur] = "queued" /\ state' = [state EXCEPT ![cur] = "active"]
        /\ UNCHANGED <<pending, sub, promise, stVars>> /\ ex = "got" /\ ex' = "run"
    BY <1>0, <1>6 DEF ExRuns, Types
  <2>2. \A i \in Item : state'[i] = state[i] \/ (state[i] = "queued" /\ state'[i] = "active")
    BY <1>0, <2>1 DEF Types
  <2>3. RefusedKept /\ \A i \in Item : Open(i)' <=> Open(i)
    BY <2>1, <2>2 DEF RefusedKept, Open
  <2>4. PendingExact'
    BY <1>0, <2>1, <2>3, ExactKept DEF PendInv
  <2>5. \A i \in Item : InHands(i)' \/ StopGives(i)' => InHands(i) \/ StopGives(i)
    BY <1>6 DEF ExRuns, InHands, StopGives
  <2>6. \A i \in Item : Pushed(i)'
    BY <1>0, <2>1, <2>2, <2>5, PushedKept
  <2>7. QED
    BY <2>4, <2>6 DEF PendInv
<1>7. CASE ExResult
  <2>1. \A i \in Item : InHands(i)' \/ StopGives(i)' => InHands(i) \/ StopGives(i)
    BY <1>7 DEF ExResult, InHands, StopGives
  <2>2. QED
    BY <1>7, <2>1, QuietStep DEF ExResult
<1>8. CASE ExSettles
  <2>1. /\ cur \in Item /\ state[cur] \in {"queued", "active"} /\ InHands(cur)
        /\ UNCHANGED <<pending, sub, promise>> /\ ex' = "erase" /\ cur' = cur
    BY <1>0, <1>8 DEF ExSettles, InHands, OneAnswer, Types
  <2>2. Open(cur)'
    <3>1. sub[cur] \in {"wait", "get"}
      BY <1>0, <2>1 DEF OneAnswer, Pushed
    <3>2. QED
      BY <2>1, <3>1 DEF Open
  <2>3. /\ \A i \in Item \ {cur} : Open(i)' <=> Open(i)
        /\ \A i \in Item : InHands(i)' \/ StopGives(i)' => InHands(i) \/ StopGives(i)
    BY <1>0, <1>8, <2>1 DEF ExSettles, Open, InHands, StopGives, Types
  <2>4. QED
    BY <1>8, <2>1, <2>2, <2>3, SettleStep DEF ExSettles
<1>9. CASE ExErases
  <2>1. cur \in Item /\ Open(cur)
    <3>1. cur \in Item /\ (InHands(cur))
      BY <1>0, <1>9 DEF ExErases, Types, InHands
    <3>2. promise[cur] = "none"
      BY <1>0, <1>9, <3>1 DEF ExErases, OneAnswer, ExGives, StopGives
    <3>3. sub[cur] \in {"wait", "get"}
      BY <1>0, <3>1, <3>2 DEF Pushed
    <3>4. QED
      BY <1>9, <3>1, <3>3 DEF ExErases, Open
  <2>2. ~Open(cur)'
    BY <1>0, <1>9, <2>1 DEF ExErases, Open, OneAnswer, ExGives, StopGives
  <2>3. /\ \A i \in Item \ {cur} : Open(i)' <=> Open(i)
        /\ \A i \in Item : InHands(i)' \/ StopGives(i)' => InHands(i) \/ StopGives(i)
    BY <1>9 DEF ExErases, Open, InHands, StopGives
  <2>4. QED
    BY <1>9, <2>1, <2>2, <2>3, EraseStep DEF ExErases
<1>10. CASE ExResolves
  <2>1. PICK c \in Item : c = cur /\ SetValue(c)
    BY <1>0, <1>10 DEF ExResolves, Types
  <2>2. ~Open(c) /\ ~Open(c)'
    <3>1. state[c] \notin {"queued", "active"}
      BY <1>0, <1>10, <2>1 DEF ExResolves, OneAnswer, ExGives, StopGives
    <3>2. ~Open(c)
      BY <1>0, <1>10, <2>1, <3>1 DEF ExResolves, Open, OneAnswer, ExGives, StopGives
    <3>3. QED
      BY <1>10, <3>1, <3>2 DEF ExResolves, Open
  <2>3. /\ \A i \in Item \ {c} : Open(i)' <=> Open(i)
        /\ \A i \in Item : InHands(i)' \/ StopGives(i)' => InHands(i) \/ StopGives(i)
    BY <1>10, <2>1 DEF ExResolves, Open, InHands, StopGives
  <2>4. QED
    BY <1>10, <2>1, <2>2, <2>3, ResolveStep DEF ExResolves
<1>11. CASE ExDrains
  <2>0. Items(q') = {} /\ batch' = Items(q)
    BY <1>0, <1>11, DrainItems DEF ExDrains, Types, JobInv, Closing
  <2>1. \A i \in Item : InHands(i)' \/ StopGives(i)' => InHands(i) \/ StopGives(i)
    BY <1>11, <2>0 DEF ExDrains, InHands, StopGives
  <2>2. QED
    BY <1>11, <2>1, QuietStep DEF ExDrains
<1>12. CASE \E j \in Item : ExFails(j)
  <2>1. PICK j \in Item : ExFails(j)
    BY <1>12
  <2>2. InHands(j) /\ UNCHANGED <<q, pending, sub, promise>>
    BY <2>1 DEF ExFails, InHands
  <2>3. \A i \in Item : InHands(i)' \/ StopGives(i)' => InHands(i) \/ StopGives(i)
    BY <2>1 DEF ExFails, InHands, StopGives
  <2>4. CASE state[j] = "queued"
    <3>1. /\ state' = [state EXCEPT ![j] = "cancelled"]
          /\ ex' = "failErase" /\ cur' = j /\ ex = "fail"
      BY <2>1, <2>4 DEF ExFails
    <3>2. sub[j] \in {"wait", "get"}
      BY <1>0, <2>2, <2>4 DEF OneAnswer, Pushed
    <3>3. Open(j)'
      BY <2>2, <3>1, <3>2 DEF Open
    <3>4. \A i \in Item \ {j} : Open(i)' <=> Open(i)
      BY <1>0, <2>1, <2>2, <3>1 DEF ExFails, Open, Types
    <3>5. QED
      BY <2>2, <2>3, <2>4, <3>1, <3>3, <3>4, SettleStep
  <2>5. CASE state[j] # "queued"
    BY <2>1, <2>2, <2>3, <2>5, QuietStep DEF ExFails
  <2>6. QED
    BY <2>4, <2>5
<1>13. CASE ExFailErases
  <2>1. cur \in Item /\ Open(cur)
    <3>1. cur \in Item /\ (InHands(cur))
      BY <1>0, <1>13 DEF ExFailErases, Types, InHands
    <3>2. promise[cur] = "none"
      BY <1>0, <1>13, <3>1 DEF ExFailErases, OneAnswer, ExGives, StopGives
    <3>3. sub[cur] \in {"wait", "get"}
      BY <1>0, <3>1, <3>2 DEF Pushed
    <3>4. QED
      BY <1>13, <3>1, <3>3 DEF ExFailErases, Open
  <2>2. ~Open(cur)'
    BY <1>0, <1>13, <2>1 DEF ExFailErases, Open, OneAnswer, ExGives, StopGives
  <2>3. /\ \A i \in Item \ {cur} : Open(i)' <=> Open(i)
        /\ \A i \in Item : InHands(i)' \/ StopGives(i)' => InHands(i) \/ StopGives(i)
    BY <1>13 DEF ExFailErases, Open, InHands, StopGives
  <2>4. QED
    BY <1>13, <2>1, <2>2, <2>3, EraseStep DEF ExFailErases
<1>14. CASE ExFailResolves
  <2>1. PICK c \in Item : c = cur /\ SetValue(c)
    BY <1>0, <1>14 DEF ExFailResolves, Types
  <2>2. ~Open(c) /\ ~Open(c)'
    <3>1. state[c] \notin {"queued", "active"}
      BY <1>0, <1>14, <2>1 DEF ExFailResolves, OneAnswer, ExGives, StopGives
    <3>2. ~Open(c)
      BY <1>0, <1>14, <2>1, <3>1 DEF ExFailResolves, Open, OneAnswer, ExGives, StopGives
    <3>3. QED
      BY <1>14, <3>1, <3>2 DEF ExFailResolves, Open
  <2>3. /\ \A i \in Item \ {c} : Open(i)' <=> Open(i)
        /\ \A i \in Item : InHands(i)' \/ StopGives(i)' => InHands(i) \/ StopGives(i)
    BY <1>14, <2>1 DEF ExFailResolves, Open, InHands, StopGives
  <2>4. QED
    BY <1>14, <2>1, <2>2, <2>3, ResolveStep DEF ExFailResolves
<1>15. CASE ExFailed
  <2>1. \A i \in Item : InHands(i)' \/ StopGives(i)' => InHands(i) \/ StopGives(i)
    BY <1>15 DEF ExFailed, InHands, StopGives
  <2>2. QED
    BY <1>15, <2>1, QuietStep DEF ExFailed
<1>16. CASE ExReforms
  <2>1. \A i \in Item : InHands(i)' \/ StopGives(i)' => InHands(i) \/ StopGives(i)
    BY <1>16 DEF ExReforms, InHands, StopGives
  <2>2. QED
    BY <1>16, <2>1, QuietStep DEF ExReforms
<1>17. CASE ExGivesUp
  <2>1. \A i \in Item : InHands(i)' \/ StopGives(i)' => InHands(i) \/ StopGives(i)
    BY <1>17 DEF ExGivesUp, InHands, StopGives
  <2>2. QED
    BY <1>17, <2>1, QuietStep DEF ExGivesUp
<1>18. QED
  BY <1>1, <1>2, <1>3, <1>4, <1>5, <1>6, <1>7, <1>8, <1>9, <1>10, <1>11, <1>12, <1>13, <1>14, <1>15,
     <1>16, <1>17 DEF Executor

LEMMA PendInvStop ==
    ASSUME JobInv, PendInv, StopStarts \/ Stop
    PROVE  PendInv'
<1> USE SchedulerConstants DEF jobVars, exVars, stVars
<1>0. Types /\ (\A i \in Item : OneAnswer(i)) /\ \A i \in Item : Pushed(i)
  BY DEF JobInv, PendInv
<1>1. CASE StopStarts
  <2>1. \A i \in Item : InHands(i)' \/ StopGives(i)' => InHands(i) \/ StopGives(i)
    BY <1>1 DEF StopStarts, InHands, StopGives
  <2>2. QED
    BY <1>1, <2>1, QuietStep DEF StopStarts
<1>2. CASE StopCloses
  <2>0. Items(q') = {} /\ stopBatch' = Items(q)
    BY <1>0, <1>2, DrainItems DEF StopCloses, Types
  <2>1. \A i \in Item : InHands(i)' \/ StopGives(i)' => InHands(i) \/ StopGives(i)
    BY <1>2, <2>0 DEF StopCloses, InHands, StopGives
  <2>2. QED
    BY <1>2, <2>1, QuietStep DEF StopCloses
<1>3. CASE \E j \in Item : StopSettles(j)
  <2>1. PICK j \in Item : StopSettles(j)
    BY <1>3
  <2>2. InHands(j) /\ UNCHANGED <<q, pending, sub, promise>>
    BY <2>1 DEF StopSettles, InHands
  <2>3. \A i \in Item : InHands(i)' \/ StopGives(i)' => InHands(i) \/ StopGives(i)
    BY <2>1 DEF StopSettles, InHands, StopGives
  <2>4. CASE state[j] = "queued"
    <3>1. /\ state' = [state EXCEPT ![j] = "cancelled"]
          /\ stopper' = "erase" /\ stopJob' = j /\ stopper = "fail" /\ UNCHANGED exVars
      BY <2>1, <2>4 DEF StopSettles
    <3>2. sub[j] \in {"wait", "get"}
      BY <1>0, <2>2, <2>4 DEF OneAnswer, Pushed
    <3>3. Open(j)'
      BY <2>2, <3>1, <3>2 DEF Open
    <3>4. \A i \in Item \ {j} : Open(i)' <=> Open(i)
      BY <1>0, <2>1, <2>2, <3>1 DEF StopSettles, Open, Types
    <3>5. QED
      BY <2>2, <2>3, <2>4, <3>1, <3>3, <3>4, SettleStep
  <2>5. CASE state[j] # "queued"
    BY <2>1, <2>2, <2>3, <2>5, QuietStep DEF StopSettles
  <2>6. QED
    BY <2>4, <2>5
<1>4. CASE StopErases
  <2>1. stopJob \in Item /\ Open(stopJob)
    <3>1. stopJob \in Item /\ (StopGives(stopJob))
      BY <1>0, <1>4 DEF StopErases, Types, StopGives
    <3>2. promise[stopJob] = "none"
      BY <1>0, <1>4, <3>1 DEF StopErases, OneAnswer, ExGives, StopGives
    <3>3. sub[stopJob] \in {"wait", "get"}
      BY <1>0, <3>1, <3>2 DEF Pushed
    <3>4. QED
      BY <1>4, <3>1, <3>3 DEF StopErases, Open
  <2>2. ~Open(stopJob)'
    BY <1>0, <1>4, <2>1 DEF StopErases, Open, OneAnswer, ExGives, StopGives
  <2>3. /\ \A i \in Item \ {stopJob} : Open(i)' <=> Open(i)
        /\ \A i \in Item : InHands(i)' \/ StopGives(i)' => InHands(i) \/ StopGives(i)
    BY <1>4 DEF StopErases, Open, InHands, StopGives
  <2>4. QED
    BY <1>4, <2>1, <2>2, <2>3, EraseStep DEF StopErases
<1>5. CASE StopResolves
  <2>1. PICK c \in Item : c = stopJob /\ SetValue(c)
    BY <1>0, <1>5 DEF StopResolves, Types
  <2>2. ~Open(c) /\ ~Open(c)'
    <3>1. state[c] \notin {"queued", "active"}
      BY <1>0, <1>5, <2>1 DEF StopResolves, OneAnswer, ExGives, StopGives
    <3>2. ~Open(c)
      BY <1>0, <1>5, <2>1, <3>1 DEF StopResolves, Open, OneAnswer, ExGives, StopGives
    <3>3. QED
      BY <1>5, <3>1, <3>2 DEF StopResolves, Open
  <2>3. /\ \A i \in Item \ {c} : Open(i)' <=> Open(i)
        /\ \A i \in Item : InHands(i)' \/ StopGives(i)' => InHands(i) \/ StopGives(i)
    BY <1>5, <2>1 DEF StopResolves, Open, InHands, StopGives
  <2>4. QED
    BY <1>5, <2>1, <2>2, <2>3, ResolveStep DEF StopResolves
<1>6. CASE StopJoins
  <2>1. \A i \in Item : InHands(i)' \/ StopGives(i)' => InHands(i) \/ StopGives(i)
    BY <1>6 DEF StopJoins, InHands, StopGives
  <2>2. QED
    BY <1>6, <2>1, QuietStep DEF StopJoins
<1>7. QED
  BY <1>1, <1>2, <1>3, <1>4, <1>5, <1>6 DEF Stop

LEMMA PendInvCancel ==
    ASSUME JobInv, PendInv, NEW j \in Item, Cancel(j)
    PROVE  PendInv'
<1> USE SchedulerConstants DEF jobVars, exVars, stVars
<1>0. Types /\ OneAnswer(j)
  BY DEF JobInv
<1>1. CASE CancelRemoves(j)
  <2>0. Items(q') \subseteq Items(q)
    BY <1>0, <1>1, RemoveItems DEF CancelRemoves, Types
  <2>1. \A i \in Item : InHands(i)' \/ StopGives(i)' => InHands(i) \/ StopGives(i)
    BY <1>1, <2>0 DEF CancelRemoves, InHands, StopGives
  <2>2. QED
    BY <1>1, <2>1, QuietStep DEF CancelRemoves
<1>2. CASE CancelResolves(j)
  <2>1. ~Open(j) /\ ~Open(j)'
    BY <1>0, <1>2 DEF CancelResolves, Open, OneAnswer, ExGives, StopGives, CancelGives
  <2>2. /\ \A i \in Item \ {j} : Open(i)' <=> Open(i)
        /\ \A i \in Item : InHands(i)' \/ StopGives(i)' => InHands(i) \/ StopGives(i)
    BY <1>2 DEF CancelResolves, Open, InHands, StopGives
  <2>3. QED
    BY <1>2, <2>1, <2>2, ResolveStep DEF CancelResolves
<1>3. QED
  BY <1>1, <1>2 DEF Cancel

LEMMA PendInvStep == JobInv /\ PendInv /\ [Next]_vars => PendInv'
<1> SUFFICES ASSUME JobInv, PendInv, [Next]_vars PROVE PendInv'
  OBVIOUS
<1>1. CASE UNCHANGED vars
  <2>1. \A i \in Item : InHands(i)' \/ StopGives(i)' => InHands(i) \/ StopGives(i)
    BY <1>1 DEF vars, exVars, stVars, InHands, StopGives
  <2>2. QED
    BY <1>1, <2>1, QuietStep DEF vars, jobVars, exVars, stVars
<1>2. ASSUME NEW k \in Key, ClientCancels(k)
      PROVE  PendInv'
  BY <1>2, PendInvCancels DEF ClientCancels
<1>3. QED
  BY <1>1, <1>2, PendInvHandler, PendInvCancel, PendInvExecutor, PendInvStop DEF Next

\* pending_ holds exactly the open requests: a settled one only until the thread
\* that settled it erases it, before its answer, and every open one, unless
\* another job with its key was cancelled before its push and then refused.
THEOREM AlwaysPendingExact == Spec => []PendingExact
<1>1. PendInv => PendingExact
  BY DEF PendInv
<1>2. QED
  BY <1>1, JobInvariant, PendInvInit, PendInvStep, PTL DEF Spec
=============================================================================
