----------------------------- MODULE FairQueue ------------------------------
(***************************************************************************)
(* The bounded queue of engine/include/provider_owned/fair_queue.hpp, as   *)
(* operators on its state: a FIFO per key and the list of keys whose turn  *)
(* is to come.  Every method holds the queue's mutex from its first to its *)
(* last access, so a call is one step of whoever makes it.                 *)
(*                                                                         *)
(* A key without items has no entry in queues_: here its FIFO is empty.    *)
(***************************************************************************)
EXTENDS Naturals, Sequences

CONSTANTS
    Turn,       \* keys that take turns
    Item,       \* what is queued; an item is queued at most once
    Capacity    \* values of capacity_

ASSUME QueueConstants == Capacity \subseteq Nat \ {0}

Queues == {q \in [queues : [Turn -> Seq(Item)], ready : Seq(Turn), size : Nat,
                   closed : BOOLEAN, capacity : Capacity] : q.size <= q.capacity}

EmptyQueue(capacity) ==
    [queues |-> [k \in Turn |-> <<>>], ready |-> <<>>, size |-> 0, closed |-> FALSE,
     capacity |-> capacity]

\* s without x, which is in it once at most.
Erased(s, i) == SubSeq(s, 1, i - 1) \o SubSeq(s, i + 1, Len(s))

Without(s, x) ==
    IF \E i \in DOMAIN s : s[i] = x THEN Erased(s, CHOOSE i \in DOMAIN s : s[i] = x) ELSE s

Items(q) == UNION {{q.queues[k][i] : i \in DOMAIN q.queues[k]} : k \in Turn}

\* push
CanPush(q) == ~q.closed /\ q.size < q.capacity

Push(q, k, item) ==
    [queues |-> [q.queues EXCEPT ![k] = Append(@, item)],
     ready  |-> IF q.queues[k] = <<>> THEN Append(q.ready, k) ELSE q.ready,
     size   |-> q.size + 1,
     closed |-> q.closed, capacity |-> q.capacity]

\* pop_locked: keys that turn out to have nothing are skipped.
Live(q) == {i \in DOMAIN q.ready : q.queues[q.ready[i]] # <<>>}

CanPop(q) == Live(q) # {}

NextTurn(q) == CHOOSE i \in Live(q) : \A j \in Live(q) : i <= j

Popped(q) == Head(q.queues[q.ready[NextTurn(q)]])

\* A variant: a key with more to do keeps its turn.
PopKeepsTurn(q) ==
    LET k    == q.ready[NextTurn(q)]
        left == Tail(q.queues[k])
        rest == SubSeq(q.ready, NextTurn(q) + 1, Len(q.ready))
    IN  [queues |-> [q.queues EXCEPT ![k] = left],
         ready  |-> IF left = <<>> THEN rest ELSE <<k>> \o rest,
         size   |-> q.size - 1,
         closed |-> q.closed, capacity |-> q.capacity]

\* The key goes to the end of the line while it has more.
Pop(q) ==
    LET k    == q.ready[NextTurn(q)]
        left == Tail(q.queues[k])
        rest == SubSeq(q.ready, NextTurn(q) + 1, Len(q.ready))
    IN  [queues |-> [q.queues EXCEPT ![k] = left],
         ready  |-> IF left = <<>> THEN rest ELSE Append(rest, k),
         size   |-> q.size - 1,
         closed |-> q.closed, capacity |-> q.capacity]

\* remove_if, for the one item of key k its predicate holds for.
Remove(q, k, item) ==
    IF item \notin Items(q) THEN q
    ELSE LET left == Without(q.queues[k], item)
         IN  [queues |-> [q.queues EXCEPT ![k] = left],
              ready  |-> IF left = <<>> THEN Without(q.ready, k) ELSE q.ready,
              size   |-> q.size - 1,
              closed |-> q.closed, capacity |-> q.capacity]

\* drain, and close: afterwards nothing is accepted any more.
Drain(q, close) ==
    [queues |-> [k \in Turn |-> <<>>], ready |-> <<>>, size |-> 0,
     closed |-> q.closed \/ close, capacity |-> q.capacity]
=============================================================================
