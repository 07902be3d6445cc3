-------------------------- MODULE FormationProofs --------------------------
(***************************************************************************)
(* That a replica which serves is whole and that its stages hold exactly   *)
(* the sessions it knows, for every number of providers, stages, sessions  *)
(* and faults, with and without a ring.                                    *)
(*                                                                         *)
(* The hard part is that a connection's two ends learn of its end at       *)
(* different times, and that a provider which lost one connection may be   *)
(* back in the queue while its old end is still registered.  So the        *)
(* invariant speaks of live ends only: a provider has at most one (OneEnd), *)
(* whose provider is either new to this formation (Fresh) or at work on    *)
(* the stage it was given in this plan (Staged).                           *)
(***************************************************************************)
EXTENDS Formation, TLAPS

Coordinator == {"metadata", "accept", "hello", "assign", "ready", "ring", "check", "serving",
                "control", "exited"}
Formed == {"ready", "ring", "check", "serving", "control"}
Phases == {"dial", "hello", "wait", "load", "connect", "ready", "serve", "down"}
AnEnd == [p : Provider, live : BOOLEAN, hello : BOOLEAN, ready : BOOLEAN]
Work == [stage : 0..Need, hop : Provider \cup {"back", None}, prev : Provider \cup {None}]
Jobs == [kind : {"", "create", "open", "close", "destroy"}, s : Session \cup {None}]

\* What each variable ranges over, as far as the argument needs it.
Shape ==
    /\ ring \in BOOLEAN /\ first \in BOOLEAN /\ leaked \in BOOLEAN
    /\ cpc \in Coordinator
    /\ backlog \in Seq(AnEnd) /\ greeting \in AnEnd \cup {NoEnd} /\ held \in Seq(AnEnd)
    /\ Len(held) <= Need
    /\ at \in 0..Need
    /\ cpc \in {"ready", "check", "control"} => at >= 1
    /\ cpc = "metadata" => Len(held) = 0
    /\ cpc \in {"accept", "hello"} => Len(held) < Need
    /\ cpc \in Formed \cup {"assign"} => Len(held) = Need
    /\ job \in Jobs
    /\ ppc \in [Provider -> Phases]
    /\ link \in [Provider -> {"none", "open", "closed"}]
    /\ inbox \in [Provider -> Work] /\ work \in [Provider -> Work]
    /\ loaded \in [Provider -> 0..Need]
    /\ next \in [Provider -> Provider \cup {"back", None}]
    /\ pred \in [Provider -> Provider \cup {"lost", None}]
    /\ sess \in [Provider -> SUBSET (Session \cup {None})]

\* A live end of p's connection in the listener's queue, awaited, registered.
BackAt(p, i) == i \in 1..Len(backlog) /\ backlog[i].live /\ backlog[i].p = p
GreetAt(p) == greeting.live /\ greeting.p = p
HeldAt(p, i) == i \in 1..Len(held) /\ held[i].live /\ held[i].p = p

\* A provider has at most one live end, and is registered once.
OneEnd(p) ==
    /\ \A i, j \in Nat : BackAt(p, i) /\ BackAt(p, j) => i = j
    /\ \A i, j \in Nat : BackAt(p, i) => ~GreetAt(p) /\ ~HeldAt(p, j)
    /\ \A j \in Nat : ~(GreetAt(p) /\ HeldAt(p, j))
Distinct ==
    \A i, j \in 1..Len(held) : held[i].p = held[j].p => i = j

\* A provider without a connection has nothing of an earlier one.
Idle(p) ==
    ppc[p] \in {"dial", "down"} =>
        /\ link[p] = "none" /\ inbox[p] = NoStage /\ work[p] = NoStage
        /\ sess[p] = {} /\ next[p] = None /\ pred[p] = None

\* A provider that is connected and has no assignment yet, nor has said it is ready
\* for one.
Unready(p) ==
    /\ \A i \in Nat : BackAt(p, i) => ~backlog[i].ready
    /\ GreetAt(p) => ~greeting.ready
    /\ cpc \notin Formed => \A i \in Nat : HeldAt(p, i) => ~held[i].ready
Fresh(p) ==
    /\ link[p] = "open" /\ ppc[p] \in {"hello", "wait"}
    /\ inbox[p] = NoStage /\ work[p] = NoStage
    /\ sess[p] = {} /\ next[p] = None
    /\ Unready(p)
Queued(p) ==
    \/ \E i \in Nat : BackAt(p, i)
    \/ GreetAt(p)
    \/ cpc \notin Formed /\ \E i \in Nat : HeldAt(p, i)

\* Stage i's assignment in the present plan.
Part(i) ==
    [stage |-> i,
     hop |-> IF ~ring THEN None ELSE IF i = Need THEN "back" ELSE held[i + 1].p,
     prev |-> IF ~ring \/ i = 1 THEN None ELSE held[i - 1].p]

\* Provider p is at work on stage i.
Staged(p, i) ==
    /\ link[p] = "open"
    /\ \/ ppc[p] \in {"hello", "wait"} /\ inbox[p] = Part(i) /\ work[p] = NoStage
       \/ ppc[p] \in {"load", "connect", "ready", "serve"} /\ inbox[p] = NoStage /\ work[p] = Part(i)
    /\ ppc[p] \in {"connect", "ready", "serve"} => loaded[p] = i
    /\ ppc[p] = "connect" => ring
    /\ ring /\ ppc[p] \in {"ready", "serve"} /\ i # Need => next[p] = held[i + 1].p
    /\ ring /\ ppc[p] = "serve" /\ i = Need => next[p] = "back"
    /\ held[i].ready => ppc[p] = "serve" \/ (ppc[p] = "connect" /\ i = Need)
    /\ (cpc = "check" /\ i < at) \/ cpc \in {"serving", "control"} => ppc[p] # "connect"

\* The sessions stage i should hold: an operation has reached the stages before `at'.
Due(i) ==
    IF cpc # "control" THEN sessions
    ELSE IF job.kind = "create" THEN (IF i < at THEN sessions \cup {job.s} ELSE sessions)
    ELSE IF job.kind = "open" THEN (IF i < at THEN sessions \cup {None} ELSE sessions)
    ELSE IF job.kind = "close" THEN (IF i < at THEN sessions ELSE sessions \cup {None})
    ELSE (IF i < at THEN sessions \ {job.s} ELSE sessions)

\* Which stages have said they are ready.
AllReady ==
    /\ cpc = "ready" => \A i \in 1..Need : i < at => held[i].ready
    /\ cpc \in {"ring", "check", "serving", "control"} => \A i \in 1..Need : held[i].ready

JobOK ==
    /\ None \notin sessions
    /\ cpc \notin {"serving", "control"} => sessions = {}
    /\ cpc = "control" => /\ job.kind \in {"create", "open", "close", "destroy"}
                          /\ job.kind \in {"open", "close"} => job.s = None
                          /\ job.kind \in {"create", "destroy"} => job.s # None

FormationInv ==
    /\ Shape
    /\ Distinct
    /\ AllReady
    /\ JobOK
    /\ \A p \in Provider : OneEnd(p) /\ Idle(p) /\ (Queued(p) => Fresh(p))
    /\ cpc \in Formed => \A p \in Provider, i \in 1..Need :
            HeldAt(p, i) => Staged(p, i) /\ sess[p] = Due(i)

-----------------------------------------------------------------------------
(* Facts about the operators.                                              *)

\* What an end is after a frame of its provider, or the provider's end.
LEMMA AtHello ==
    ASSUME NEW e \in AnEnd \cup {NoEnd}, NEW d, NEW p \in Provider,
           d = IF e.p = p /\ e.live THEN [e EXCEPT !["hello"] = TRUE] ELSE e
    PROVE  /\ d \in AnEnd \cup {NoEnd} /\ d.p = e.p /\ (e \in AnEnd => d \in AnEnd)
           /\ (d.live <=> e.live) /\ (d.ready <=> e.ready)
<1>1. CASE e \in AnEnd
  BY <1>1 DEF AnEnd
<1>2. CASE e = NoEnd
  <2>1. e.live = FALSE
    BY <1>2 DEF NoEnd
  <2>2. d = e
    BY <2>1
  <2> QED
    BY <2>1, <2>2
<1> QED
  BY <1>1, <1>2

LEMMA AtReady ==
    ASSUME NEW e \in AnEnd \cup {NoEnd}, NEW d, NEW p \in Provider,
           d = IF e.p = p /\ e.live THEN [e EXCEPT !["ready"] = TRUE] ELSE e
    PROVE  /\ d \in AnEnd \cup {NoEnd} /\ d.p = e.p /\ (e \in AnEnd => d \in AnEnd)
           /\ (d.live <=> e.live) /\ (d.ready <=> e.ready \/ (e.p = p /\ e.live))
<1>1. CASE e \in AnEnd
  BY <1>1 DEF AnEnd
<1>2. CASE e = NoEnd
  <2>1. e.live = FALSE
    BY <1>2 DEF NoEnd
  <2>2. d = e
    BY <2>1
  <2> QED
    BY <2>1, <2>2
<1> QED
  BY <1>1, <1>2

LEMMA AtLive ==
    ASSUME NEW e \in AnEnd \cup {NoEnd}, NEW d, NEW p \in Provider,
           d = IF e.p = p /\ e.live THEN [e EXCEPT !["live"] = FALSE] ELSE e
    PROVE  /\ d \in AnEnd \cup {NoEnd} /\ d.p = e.p /\ (e \in AnEnd => d \in AnEnd)
           /\ (d.live <=> e.live /\ e.p # p) /\ (d.ready <=> e.ready)
<1>1. CASE e \in AnEnd
  BY <1>1 DEF AnEnd
<1>2. CASE e = NoEnd
  <2>1. e.live = FALSE
    BY <1>2 DEF NoEnd
  <2>2. d = e
    BY <2>1
  <2> QED
    BY <2>1, <2>2
<1> QED
  BY <1>1, <1>2

LEMMA EndsHello ==
    ASSUME Shape, NEW p \in Provider, AtEnd(p, "hello", TRUE)
    PROVE  /\ backlog' \in Seq(AnEnd) /\ Len(backlog') = Len(backlog)
           /\ greeting' \in AnEnd \cup {NoEnd}
           /\ held' \in Seq(AnEnd) /\ Len(held') = Len(held)
           /\ \A i \in 1..Len(held) : held'[i].p = held[i].p /\ (held'[i].ready <=> held[i].ready)
           /\ \A q \in Provider : GreetAt(q)' <=> GreetAt(q)
           /\ \A q \in Provider, i \in Nat : BackAt(q, i)' <=> BackAt(q, i)
           /\ \A q \in Provider, i \in Nat : HeldAt(q, i)' <=> HeldAt(q, i)
           /\ \A q \in Provider : GreetAt(q) => (greeting'.ready <=> greeting.ready)
           /\ \A q \in Provider, i \in Nat : BackAt(q, i) => (backlog'[i].ready <=> backlog[i].ready)
           /\ UNCHANGED <<ring, cpc, first, leaked, at, job, sessions>>
<1> DEFINE Of(e) == IF e.p = p /\ e.live THEN [e EXCEPT !["hello"] = TRUE] ELSE e
<1>0. /\ backlog \in Seq(AnEnd) /\ held \in Seq(AnEnd) /\ greeting \in AnEnd \cup {NoEnd}
      /\ \A i \in 1..Len(backlog) : backlog[i] \in AnEnd
      /\ \A i \in 1..Len(held) : held[i] \in AnEnd
  BY DEF Shape
<1>1. /\ backlog' = [i \in 1..Len(backlog) |-> Of(backlog[i])]
      /\ held' = [i \in 1..Len(held) |-> Of(held[i])]
      /\ greeting' = Of(greeting)
      /\ UNCHANGED <<ring, cpc, first, leaked, at, job, sessions>>
  BY DEF AtEnd
<1>2. \A e \in AnEnd \cup {NoEnd} :
        /\ Of(e) \in AnEnd \cup {NoEnd} /\ Of(e).p = e.p /\ (e \in AnEnd => Of(e) \in AnEnd)
        /\ (Of(e).live <=> e.live) /\ (Of(e).ready <=> e.ready)
  BY AtHello
<1> HIDE DEF Of
<1>3. \A i \in 1..Len(backlog) : backlog'[i] = Of(backlog[i]) /\ backlog'[i] \in AnEnd
  BY <1>0, <1>1, <1>2
<1>4. \A i \in 1..Len(held) : held'[i] = Of(held[i]) /\ held'[i] \in AnEnd
  BY <1>0, <1>1, <1>2
<1>5. backlog' \in Seq(AnEnd) /\ Len(backlog') = Len(backlog)
  BY <1>0, <1>1, <1>3
<1>6. held' \in Seq(AnEnd) /\ Len(held') = Len(held)
  BY <1>0, <1>1, <1>4
<1>7. \A i \in 1..Len(held) : held'[i].p = held[i].p /\ (held'[i].ready <=> held[i].ready)
  BY <1>0, <1>2, <1>4 DEF HeldAt
<1>8. \A q \in Provider : GreetAt(q)' <=> GreetAt(q)
  BY <1>0, <1>1, <1>2 DEF GreetAt
<1>9. \A q \in Provider, i \in Nat : BackAt(q, i)' <=> BackAt(q, i)
  BY <1>0, <1>2, <1>3, <1>5 DEF BackAt
<1>10. \A q \in Provider, i \in Nat : HeldAt(q, i)' <=> HeldAt(q, i)
  BY <1>0, <1>2, <1>4, <1>6 DEF HeldAt
<1>11. \A q \in Provider : GreetAt(q) => (greeting'.ready <=> greeting.ready)
  BY <1>0, <1>1, <1>2 DEF GreetAt
<1>12. \A q \in Provider, i \in Nat : BackAt(q, i) => (backlog'[i].ready <=> backlog[i].ready)
  BY <1>0, <1>2, <1>3 DEF BackAt
<1> QED
  BY <1>11, <1>12, <1>0, <1>1, <1>2, <1>5, <1>6, <1>7, <1>8, <1>9, <1>10

LEMMA EndsReady ==
    ASSUME Shape, NEW p \in Provider, AtEnd(p, "ready", TRUE)
    PROVE  /\ backlog' \in Seq(AnEnd) /\ Len(backlog') = Len(backlog)
           /\ greeting' \in AnEnd \cup {NoEnd}
           /\ held' \in Seq(AnEnd) /\ Len(held') = Len(held)
           /\ \A i \in 1..Len(held) : held'[i].p = held[i].p /\ (held'[i].ready <=> held[i].ready \/ HeldAt(p, i))
           /\ \A q \in Provider : GreetAt(q)' <=> GreetAt(q)
           /\ \A q \in Provider, i \in Nat : BackAt(q, i)' <=> BackAt(q, i)
           /\ \A q \in Provider, i \in Nat : HeldAt(q, i)' <=> HeldAt(q, i)
           /\ \A q \in Provider \ {p} : GreetAt(q) => (greeting'.ready <=> greeting.ready)
           /\ \A q \in Provider \ {p}, i \in Nat : BackAt(q, i) => (backlog'[i].ready <=> backlog[i].ready)
           /\ UNCHANGED <<ring, cpc, first, leaked, at, job, sessions>>
<1> DEFINE Of(e) == IF e.p = p /\ e.live THEN [e EXCEPT !["ready"] = TRUE] ELSE e
<1>0. /\ backlog \in Seq(AnEnd) /\ held \in Seq(AnEnd) /\ greeting \in AnEnd \cup {NoEnd}
      /\ \A i \in 1..Len(backlog) : backlog[i] \in AnEnd
      /\ \A i \in 1..Len(held) : held[i] \in AnEnd
  BY DEF Shape
<1>1. /\ backlog' = [i \in 1..Len(backlog) |-> Of(backlog[i])]
      /\ held' = [i \in 1..Len(held) |-> Of(held[i])]
      /\ greeting' = Of(greeting)
      /\ UNCHANGED <<ring, cpc, first, leaked, at, job, sessions>>
  BY DEF AtEnd
<1>2. \A e \in AnEnd \cup {NoEnd} :
        /\ Of(e) \in AnEnd \cup {NoEnd} /\ Of(e).p = e.p /\ (e \in AnEnd => Of(e) \in AnEnd)
        /\ (Of(e).live <=> e.live) /\ (Of(e).ready <=> e.ready \/ (e.p = p /\ e.live))
  BY AtReady
<1> HIDE DEF Of
<1>3. \A i \in 1..Len(backlog) : backlog'[i] = Of(backlog[i]) /\ backlog'[i] \in AnEnd
  BY <1>0, <1>1, <1>2
<1>4. \A i \in 1..Len(held) : held'[i] = Of(held[i]) /\ held'[i] \in AnEnd
  BY <1>0, <1>1, <1>2
<1>5. backlog' \in Seq(AnEnd) /\ Len(backlog') = Len(backlog)
  BY <1>0, <1>1, <1>3
<1>6. held' \in Seq(AnEnd) /\ Len(held') = Len(held)
  BY <1>0, <1>1, <1>4
<1>7. \A i \in 1..Len(held) : held'[i].p = held[i].p /\ (held'[i].ready <=> held[i].ready \/ HeldAt(p, i))
  BY <1>0, <1>2, <1>4 DEF HeldAt
<1>8. \A q \in Provider : GreetAt(q)' <=> GreetAt(q)
  BY <1>0, <1>1, <1>2 DEF GreetAt
<1>9. \A q \in Provider, i \in Nat : BackAt(q, i)' <=> BackAt(q, i)
  BY <1>0, <1>2, <1>3, <1>5 DEF BackAt
<1>10. \A q \in Provider, i \in Nat : HeldAt(q, i)' <=> HeldAt(q, i)
  BY <1>0, <1>2, <1>4, <1>6 DEF HeldAt
<1>11. \A q \in Provider \ {p} : GreetAt(q) => (greeting'.ready <=> greeting.ready)
  BY <1>0, <1>1, <1>2 DEF GreetAt
<1>12. \A q \in Provider \ {p}, i \in Nat : BackAt(q, i) => (backlog'[i].ready <=> backlog[i].ready)
  BY <1>0, <1>2, <1>3 DEF BackAt
<1> QED
  BY <1>11, <1>12, <1>0, <1>1, <1>2, <1>5, <1>6, <1>7, <1>8, <1>9, <1>10

LEMMA EndsLive ==
    ASSUME Shape, NEW p \in Provider, AtEnd(p, "live", FALSE)
    PROVE  /\ backlog' \in Seq(AnEnd) /\ Len(backlog') = Len(backlog)
           /\ greeting' \in AnEnd \cup {NoEnd}
           /\ held' \in Seq(AnEnd) /\ Len(held') = Len(held)
           /\ \A i \in 1..Len(held) : held'[i].p = held[i].p /\ (held'[i].ready <=> held[i].ready)
           /\ \A q \in Provider : GreetAt(q)' <=> GreetAt(q) /\ q # p
           /\ \A q \in Provider, i \in Nat : BackAt(q, i)' <=> BackAt(q, i) /\ q # p
           /\ \A q \in Provider, i \in Nat : HeldAt(q, i)' <=> HeldAt(q, i) /\ q # p
           /\ \A q \in Provider : GreetAt(q) => (greeting'.ready <=> greeting.ready)
           /\ \A q \in Provider, i \in Nat : BackAt(q, i) => (backlog'[i].ready <=> backlog[i].ready)
           /\ UNCHANGED <<ring, cpc, first, leaked, at, job, sessions>>
<1> DEFINE Of(e) == IF e.p = p /\ e.live THEN [e EXCEPT !["live"] = FALSE] ELSE e
<1>0. /\ backlog \in Seq(AnEnd) /\ held \in Seq(AnEnd) /\ greeting \in AnEnd \cup {NoEnd}
      /\ \A i \in 1..Len(backlog) : backlog[i] \in AnEnd
      /\ \A i \in 1..Len(held) : held[i] \in AnEnd
  BY DEF Shape
<1>1. /\ backlog' = [i \in 1..Len(backlog) |-> Of(backlog[i])]
      /\ held' = [i \in 1..Len(held) |-> Of(held[i])]
      /\ greeting' = Of(greeting)
      /\ UNCHANGED <<ring, cpc, first, leaked, at, job, sessions>>
  BY DEF AtEnd
<1>2. \A e \in AnEnd \cup {NoEnd} :
        /\ Of(e) \in AnEnd \cup {NoEnd} /\ Of(e).p = e.p /\ (e \in AnEnd => Of(e) \in AnEnd)
        /\ (Of(e).live <=> e.live /\ e.p # p) /\ (Of(e).ready <=> e.ready)
  BY AtLive
<1> HIDE DEF Of
<1>3. \A i \in 1..Len(backlog) : backlog'[i] = Of(backlog[i]) /\ backlog'[i] \in AnEnd
  BY <1>0, <1>1, <1>2
<1>4. \A i \in 1..Len(held) : held'[i] = Of(held[i]) /\ held'[i] \in AnEnd
  BY <1>0, <1>1, <1>2
<1>5. backlog' \in Seq(AnEnd) /\ Len(backlog') = Len(backlog)
  BY <1>0, <1>1, <1>3
<1>6. held' \in Seq(AnEnd) /\ Len(held') = Len(held)
  BY <1>0, <1>1, <1>4
<1>7. \A i \in 1..Len(held) : held'[i].p = held[i].p /\ (held'[i].ready <=> held[i].ready)
  BY <1>0, <1>2, <1>4 DEF HeldAt
<1>8. \A q \in Provider : GreetAt(q)' <=> GreetAt(q) /\ q # p
  BY <1>0, <1>1, <1>2 DEF GreetAt
<1>9. \A q \in Provider, i \in Nat : BackAt(q, i)' <=> BackAt(q, i) /\ q # p
  BY <1>0, <1>2, <1>3, <1>5 DEF BackAt
<1>10. \A q \in Provider, i \in Nat : HeldAt(q, i)' <=> HeldAt(q, i) /\ q # p
  BY <1>0, <1>2, <1>4, <1>6 DEF HeldAt
<1>11. \A q \in Provider : GreetAt(q) => (greeting'.ready <=> greeting.ready)
  BY <1>0, <1>1, <1>2 DEF GreetAt
<1>12. \A q \in Provider, i \in Nat : BackAt(q, i) => (backlog'[i].ready <=> backlog[i].ready)
  BY <1>0, <1>2, <1>3 DEF BackAt
<1> QED
  BY <1>11, <1>12, <1>0, <1>1, <1>2, <1>5, <1>6, <1>7, <1>8, <1>9, <1>10

\* What is left alone when a provider q takes a step of its own: the other
\* providers, the plan and, but for the last stage's connection, the coordinator.
Mine(q) ==
    /\ \A p \in Provider \ {q} :
        /\ ppc'[p] = ppc[p] /\ link'[p] = link[p] /\ inbox'[p] = inbox[p] /\ work'[p] = work[p]
        /\ loaded'[p] = loaded[p] /\ sess'[p] = sess[p] /\ next'[p] = next[p]
        /\ ppc[p] \in {"dial", "down"} => pred'[p] = pred[p]
    /\ UNCHANGED <<ring, sessions, job>>
    /\ \/ UNCHANGED <<cpc, at>>
       \/ cpc = "ring" /\ cpc' = "check" /\ at' = 1

\* No end of another provider comes to life, nor a registered one, and the plan stays.
SameEnds(q) ==
    /\ Len(held') = Len(held)
    /\ \A i \in 1..Len(held) : /\ held'[i].p = held[i].p
                               /\ held[i].ready => held'[i].ready
                               /\ held'[i].ready => held[i].ready \/ HeldAt(q, i)
    /\ \A p \in Provider \ {q} : GreetAt(p)' => GreetAt(p) /\ (greeting'.ready => greeting.ready)
    /\ \A p \in Provider \ {q}, i \in Nat :
            BackAt(p, i)' => BackAt(p, i) /\ (backlog'[i].ready => backlog[i].ready)
    /\ \A p \in Provider, i \in Nat : HeldAt(p, i)' => HeldAt(p, i)

\* The plan gives the same assignments.
LEMMA SamePart ==
    ASSUME Len(held') = Len(held), Len(held) = Need, UNCHANGED ring, Need \in Nat,
           \A i \in 1..Len(held) : held'[i].p = held[i].p,
           NEW i \in 1..Need
    PROVE  Part(i)' = Part(i)
<1>1. i # Need => held'[i + 1].p = held[i + 1].p
  OBVIOUS
<1>2. i # 1 => held'[i - 1].p = held[i - 1].p
  OBVIOUS
<1> QED
  BY <1>1, <1>2 DEF Part

LEMMA NeedNat == Need \in Nat /\ Need >= 1
BY FormationConstants

\* A step of provider q keeps the invariant if it keeps what is said of q.
LEMMA ProviderFrame ==
    ASSUME FormationInv, NEW q \in Provider, Shape', Mine(q), SameEnds(q),
           Idle(q)', OneEnd(q)', Queued(q)' => Fresh(q)',
           \A i \in 1..Need : cpc \in Formed /\ HeldAt(q, i)' => Staged(q, i)' /\ sess'[q] = sess[q]
    PROVE  FormationInv'
<1>i. /\ Shape /\ Distinct /\ AllReady /\ JobOK /\ Len(held) <= Need
      /\ \A p \in Provider : OneEnd(p) /\ Idle(p) /\ (Queued(p) => Fresh(p))
      /\ cpc \in Formed => \A p \in Provider, i \in 1..Need :
            HeldAt(p, i) => Staged(p, i) /\ sess[p] = Due(i)
  BY DEF FormationInv, Shape
<1>f. (cpc' \in Formed <=> cpc \in Formed) /\ (cpc \in Formed => Len(held) = Need)
  BY <1>i DEF Mine, Formed, Shape
<1>1. Distinct'
  BY <1>i DEF Distinct, SameEnds
<1>2. AllReady'
  <2>1. cpc \in {"ready", "ring", "check", "serving", "control"} =>
            \A i \in 1..Need : held[i].ready => held'[i].ready
    BY <1>f DEF SameEnds, Formed
  <2> QED
    BY <2>1, <1>i DEF AllReady, Mine
<1>3. JobOK'
  BY <1>i DEF JobOK, Mine
<1>4. ASSUME NEW p \in Provider PROVE OneEnd(p)'
  <2>1. CASE p = q
    BY <2>1
  <2>2. CASE p # q
    BY <2>2, <1>i DEF OneEnd, SameEnds
  <2> QED
    BY <2>1, <2>2
<1>5. ASSUME NEW p \in Provider PROVE Idle(p)'
  BY <1>i DEF Idle, Mine
<1>6. ASSUME NEW p \in Provider, Queued(p)' PROVE Fresh(p)'
  <2>1. CASE p = q
    BY <2>1, <1>6
  <2>2. CASE p # q
    <3>1. Queued(p)
      BY <1>6, <1>f, <2>2 DEF Queued, SameEnds
    <3>2. Fresh(p)
      BY <3>1, <1>i
    <3>3. Unready(p)'
      <4>1. \A i \in Nat : HeldAt(p, i) /\ held'[i].ready => held[i].ready
        BY <2>2 DEF SameEnds, HeldAt
      <4> QED
        BY <3>2, <2>2, <1>f, <4>1 DEF Fresh, Unready, SameEnds
    <3> QED
      BY <3>2, <3>3, <2>2 DEF Fresh, Mine
  <2> QED
    BY <2>1, <2>2
<1>7. ASSUME cpc' \in Formed, NEW p \in Provider, NEW i \in 1..Need, HeldAt(p, i)'
      PROVE  Staged(p, i)' /\ sess'[p] = Due(i)'
  <2>1. cpc \in Formed /\ Len(held) = Need /\ i \in Nat
    BY <1>7, <1>f, NeedNat
  <2>2. HeldAt(p, i)
    BY <1>7, <2>1 DEF SameEnds
  <2>3. Staged(p, i) /\ sess[p] = Due(i)
    BY <2>1, <2>2, <1>i
  <2>4. Due(i)' = Due(i)
    BY DEF Due, Mine
  <2>5. CASE p = q
    BY <2>5, <1>7, <2>1, <2>3, <2>4
  <2>6. CASE p # q
    <3>1. Part(i)' = Part(i)
      BY <2>1, NeedNat, SamePart DEF SameEnds, Mine
    <3>2. i # Need => held'[i + 1].p = held[i + 1].p
      BY <2>1, NeedNat DEF SameEnds
    <3>3. held'[i].ready => held[i].ready
      <4>1. ~HeldAt(q, i)
        BY <2>2, <2>6 DEF HeldAt
      <4> QED
        BY <2>1, <4>1 DEF SameEnds
    <3>5. (cpc' = "check" /\ i < at') \/ cpc' \in {"serving", "control"} => ppc'[p] # "connect"
      <4>1. ppc'[p] = ppc[p] /\ (cpc' # cpc \/ at' # at => cpc' = "check" /\ at' = 1)
        BY <2>6 DEF Mine
      <4>2. ~(i < 1)
        BY <2>1
      <4> QED
        BY <4>1, <4>2, <2>3 DEF Staged
    <3>6. /\ ppc'[p] = ppc[p] /\ link'[p] = link[p] /\ inbox'[p] = inbox[p] /\ work'[p] = work[p]
          /\ loaded'[p] = loaded[p] /\ next'[p] = next[p] /\ sess'[p] = sess[p] /\ ring' = ring
      BY <2>6 DEF Mine
    <3>7. Staged(p, i)'
      BY <2>3, <3>1, <3>2, <3>3, <3>5, <3>6 DEF Staged
    <3> QED
      BY <2>3, <2>4, <3>6, <3>7
  <2> QED
    BY <2>5, <2>6
<1> QED
  BY <1>1, <1>2, <1>3, <1>4, <1>5, <1>6, <1>7 DEF FormationInv

-----------------------------------------------------------------------------
(* The providers' steps.                                                   *)

\* What the invariant says of one provider.
LEMMA Known ==
    ASSUME FormationInv, NEW p \in Provider
    PROVE  /\ Shape /\ OneEnd(p) /\ Idle(p) /\ (Queued(p) => Fresh(p))
           /\ \A i \in 1..Need : cpc \in Formed /\ HeldAt(p, i) => Staged(p, i)
           /\ \A i \in Nat : HeldAt(p, i) => i \in 1..Need
<1>1. Need \in Nat /\ Len(held) <= Need /\ Len(held) \in Nat
  BY NeedNat DEF FormationInv, Shape
<1> QED
  BY <1>1 DEF FormationInv, HeldAt

LEMMA NoStageWork == NoStage \in Work
BY NeedNat DEF NoStage, Work

\* A provider whose ends are gone, or as they were, has at most one.
LEMMA Gone ==
    ASSUME NEW p \in Provider, ~GreetAt(p)', \A i \in Nat : ~BackAt(p, i)'
    PROVE  OneEnd(p)'
BY DEF OneEnd

LEMMA Stay ==
    ASSUME NEW p \in Provider, OneEnd(p), GreetAt(p)' <=> GreetAt(p),
           \A i \in Nat : BackAt(p, i)' <=> BackAt(p, i), \A i \in Nat : HeldAt(p, i)' <=> HeldAt(p, i)
    PROVE  OneEnd(p)'
BY DEF OneEnd

\* The connection is over for provider q.
LEMMA CleanupStep ==
    ASSUME FormationInv, NEW q \in Provider, NEW to \in {"dial", "down"}, Cleanup(q, to),
           loaded' \in [Provider -> 0..Need], \A p \in Provider \ {q} : loaded'[p] = loaded[p]
    PROVE  FormationInv'
<1>1. Shape
  BY DEF FormationInv
<1>2. AtEnd(q, "live", FALSE)
  BY DEF Cleanup
<1>3. /\ backlog' \in Seq(AnEnd) /\ Len(backlog') = Len(backlog)
      /\ greeting' \in AnEnd \cup {NoEnd}
      /\ held' \in Seq(AnEnd) /\ Len(held') = Len(held)
      /\ \A i \in 1..Len(held) : held'[i].p = held[i].p /\ (held'[i].ready <=> held[i].ready)
      /\ \A p \in Provider : GreetAt(p)' <=> GreetAt(p) /\ p # q
      /\ \A p \in Provider, i \in Nat : BackAt(p, i)' <=> BackAt(p, i) /\ p # q
      /\ \A p \in Provider, i \in Nat : HeldAt(p, i)' <=> HeldAt(p, i) /\ p # q
      /\ \A p \in Provider : GreetAt(p) => (greeting'.ready <=> greeting.ready)
      /\ \A p \in Provider, i \in Nat : BackAt(p, i) => (backlog'[i].ready <=> backlog[i].ready)
      /\ UNCHANGED <<ring, cpc, first, leaked, at, job, sessions>>
  BY <1>1, <1>2, EndsLive
<1>4. /\ ppc' = [ppc EXCEPT ![q] = to] /\ link' = [link EXCEPT ![q] = "none"]
      /\ inbox' = [inbox EXCEPT ![q] = NoStage] /\ work' = [work EXCEPT ![q] = NoStage]
      /\ next' = [next EXCEPT ![q] = None] /\ sess' = [sess EXCEPT ![q] = {}]
      /\ pred' = [pred EXCEPT ![q] = None]
  BY DEF Cleanup, Put
<1>5. Shape'
  BY <1>1, <1>3, <1>4, NoStageWork DEF Shape, Phases
<1>6. Mine(q)
  BY <1>1, <1>3, <1>4 DEF Shape, Mine
<1>7. SameEnds(q)
  BY <1>3 DEF SameEnds
<1>8. Idle(q)'
  BY <1>1, <1>4 DEF Idle, Shape
<1>9. ~Queued(q)' /\ \A i \in 1..Need : ~HeldAt(q, i)'
  BY <1>3, NeedNat DEF Queued
<1>10. OneEnd(q)'
  BY <1>3, Gone
<1> QED
  BY <1>10, <1>5, <1>6, <1>7, <1>8, <1>9, ProviderFrame

LEMMA LoseSteps ==
    ASSUME FormationInv, NEW q \in Provider,
           LoseCoordinator(q) \/ SendReadyFails(q) \/ LoadFails(q) \/ Dies(q)
    PROVE  FormationInv'
<1>1. loaded \in [Provider -> 0..Need]
  BY DEF FormationInv, Shape
<1>2. loaded' \in [Provider -> 0..Need] /\ \A p \in Provider \ {q} : loaded'[p] = loaded[p]
  BY <1>1, NeedNat DEF LoseCoordinator, SendReadyFails, LoadFails, Dies, Put
<1> QED
  BY <1>2, CleanupStep DEF LoseCoordinator, SendReadyFails, LoadFails, Dies

LEMMA SayHelloStep ==
    ASSUME FormationInv, NEW q \in Provider, SayHello(q)
    PROVE  FormationInv'
<1>1. /\ Shape /\ OneEnd(q) /\ (Queued(q) => Fresh(q))
      /\ \A i \in 1..Need : cpc \in Formed /\ HeldAt(q, i) => Staged(q, i)
  BY Known
<1>2. AtEnd(q, "hello", TRUE)
  BY DEF SayHello
<1>3. /\ backlog' \in Seq(AnEnd) /\ Len(backlog') = Len(backlog)
      /\ greeting' \in AnEnd \cup {NoEnd}
      /\ held' \in Seq(AnEnd) /\ Len(held') = Len(held)
      /\ \A i \in 1..Len(held) : held'[i].p = held[i].p /\ (held'[i].ready <=> held[i].ready)
      /\ \A p \in Provider : GreetAt(p)' <=> GreetAt(p)
      /\ \A p \in Provider, i \in Nat : BackAt(p, i)' <=> BackAt(p, i)
      /\ \A p \in Provider, i \in Nat : HeldAt(p, i)' <=> HeldAt(p, i)
      /\ \A p \in Provider : GreetAt(p) => (greeting'.ready <=> greeting.ready)
      /\ \A p \in Provider, i \in Nat : BackAt(p, i) => (backlog'[i].ready <=> backlog[i].ready)
      /\ UNCHANGED <<ring, cpc, first, leaked, at, job, sessions>>
  BY <1>1, <1>2, EndsHello
<1>4. /\ ppc[q] = "hello" /\ ppc' = [ppc EXCEPT ![q] = "wait"]
      /\ UNCHANGED <<link, inbox, work, loaded, sess, next, pred>>
  BY DEF SayHello, Put
<1>5. Shape'
  BY <1>1, <1>3, <1>4 DEF Shape, Phases
<1>6. Mine(q)
  BY <1>1, <1>3, <1>4 DEF Shape, Mine
<1>7. SameEnds(q)
  BY <1>3 DEF SameEnds
<1>a. ppc'[q] = "wait"
  BY <1>1, <1>4 DEF Shape
<1>8. Idle(q)'
  BY <1>a DEF Idle
<1>9. Queued(q)' => Fresh(q)'
  <2>1. Queued(q)' => Queued(q)
    BY <1>3 DEF Queued
  <2>2. Fresh(q) => Unready(q)'
    <3>1. \A i \in Nat : HeldAt(q, i) => (held'[i].ready <=> held[i].ready)
      BY <1>3 DEF HeldAt
    <3> QED
      BY <1>3, <3>1 DEF Fresh, Unready
  <2> QED
    BY <1>1, <1>3, <1>4, <1>a, <2>1, <2>2 DEF Fresh
<1>10. ASSUME NEW i \in 1..Need, cpc \in Formed, HeldAt(q, i)' PROVE Staged(q, i)'
  <2>1. HeldAt(q, i) /\ Staged(q, i) /\ Len(held) = Need
    BY <1>1, <1>3, <1>10, NeedNat DEF Shape
  <2>2. Part(i)' = Part(i) /\ (held'[i].ready <=> held[i].ready)
    BY <1>3, <2>1, NeedNat, SamePart
  <2> QED
    BY <2>1, <2>2, <1>3, <1>4, <1>a DEF Staged
<1>11. OneEnd(q)'
  BY <1>1, <1>3, Stay
<1> QED
  BY <1>11, <1>4, <1>5, <1>6, <1>7, <1>8, <1>9, <1>10, ProviderFrame

\* A step of q that leaves the ends alone.
LEMMA QuietEnds ==
    ASSUME FormationInv, NEW q \in Provider, UNCHANGED <<backlog, greeting, held>>
    PROVE  SameEnds(q) /\ OneEnd(q)' /\ (UNCHANGED cpc => (Queued(q)' <=> Queued(q)))
BY Known DEF OneEnd, SameEnds, Queued, BackAt, GreetAt, HeldAt

LEMMA ReadAssignmentStep ==
    ASSUME FormationInv, NEW q \in Provider, ReadAssignment(q)
    PROVE  FormationInv'
<1>1. /\ Shape /\ (Queued(q) => Fresh(q))
      /\ \A i \in 1..Need : cpc \in Formed /\ HeldAt(q, i) => Staged(q, i)
  BY Known
<1>2. /\ ppc[q] = "wait" /\ inbox[q] # NoStage
      /\ UNCHANGED <<coord, link, loaded, sess, next, pred>>
      /\ work' = [work EXCEPT ![q] = inbox[q]] /\ inbox' = [inbox EXCEPT ![q] = NoStage]
      /\ ppc' = [ppc EXCEPT ![q] = "load"]
  BY DEF ReadAssignment, Put
<1>3. UNCHANGED <<ring, cpc, first, leaked, backlog, greeting, held, at, job, sessions>>
  BY <1>2 DEF coord
<1>4. Shape'
  BY <1>1, <1>2, <1>3, NoStageWork DEF Shape, Phases
<1>5. Mine(q)
  BY <1>1, <1>2, <1>3 DEF Shape, Mine
<1>6. SameEnds(q) /\ OneEnd(q)' /\ (Queued(q)' <=> Queued(q))
  BY <1>3, QuietEnds
<1>7. ppc'[q] = "load" /\ inbox'[q] = NoStage /\ work'[q] = inbox[q]
  BY <1>1, <1>2 DEF Shape
<1>8. Idle(q)' /\ ~Queued(q)'
  BY <1>1, <1>2, <1>6, <1>7 DEF Idle, Fresh
<1>9. ASSUME NEW i \in 1..Need, cpc \in Formed, HeldAt(q, i)' PROVE Staged(q, i)'
  <2>1. Staged(q, i) /\ Part(i)' = Part(i)
    BY <1>1, <1>3, <1>9 DEF HeldAt, Part
  <2> QED
    BY <2>1, <1>2, <1>3, <1>7 DEF Staged
<1> QED
  BY <1>2, <1>4, <1>5, <1>6, <1>8, <1>9, ProviderFrame

\* The last stage of a ring, and only it, sends to the coordinator.
LEMMA HopBack ==
    ASSUME Shape, Len(held) = Need, NEW i \in 1..Need
    PROVE  /\ Part(i).stage = i
           /\ Part(i).hop = "back" <=> ring /\ i = Need
           /\ i # Need => held[i + 1].p \in Provider
           /\ ring /\ i # Need => Part(i).hop = held[i + 1].p
           /\ Part(i).hop \in Provider => ring /\ i # Need
<1>1. i # Need => held[i + 1] \in AnEnd
  <2>1. i # Need => i + 1 \in 1..Len(held)
    BY NeedNat
  <2> QED
    BY <2>1 DEF Shape
<1>2. i # Need => held[i + 1].p \in Provider
  BY <1>1 DEF AnEnd
<1>3. Part(i).stage = i /\ Part(i).hop = IF ~ring THEN None ELSE IF i = Need THEN "back" ELSE held[i + 1].p
  BY DEF Part
<1> QED
  BY <1>2, <1>3, FormationConstants

LEMMA LoadStageStep ==
    ASSUME FormationInv, NEW q \in Provider, LoadStage(q)
    PROVE  FormationInv'
<1>1. /\ Shape /\ (Queued(q) => Fresh(q))
      /\ \A i \in 1..Need : cpc \in Formed /\ HeldAt(q, i) => Staged(q, i)
  BY Known
<1> DEFINE to == IF ring /\ work[q].hop # "back" THEN "connect" ELSE "ready"
<1>2. /\ ppc[q] = "load"
      /\ UNCHANGED <<coord, link, inbox, work, sess, next, pred>>
      /\ loaded' = [loaded EXCEPT ![q] = work[q].stage]
      /\ ppc' = [ppc EXCEPT ![q] = to]
  BY DEF LoadStage, Put
<1>t. to \in {"connect", "ready"} /\ (to = "connect" <=> ring /\ work[q].hop # "back")
  BY <1>1 DEF Shape
<1> HIDE DEF to
<1>3. UNCHANGED <<ring, cpc, first, leaked, backlog, greeting, held, at, job, sessions>>
  BY <1>2 DEF coord
<1>4. Shape'
  <2>1. work[q].stage \in 0..Need
    BY <1>1 DEF Shape, Work
  <2> QED
    BY <1>1, <1>2, <1>3, <1>t, <2>1 DEF Shape, Phases
<1>5. Mine(q)
  BY <1>1, <1>2, <1>3 DEF Shape, Mine
<1>6. SameEnds(q) /\ OneEnd(q)' /\ (Queued(q)' <=> Queued(q))
  BY <1>3, QuietEnds
<1>7. ppc'[q] = to /\ loaded'[q] = work[q].stage
  BY <1>1, <1>2 DEF Shape
<1>8. Idle(q)' /\ ~Queued(q)'
  BY <1>1, <1>2, <1>6, <1>7, <1>t DEF Idle, Fresh
<1>9. ASSUME NEW i \in 1..Need, cpc \in Formed, HeldAt(q, i)' PROVE Staged(q, i)'
  <2>1. Staged(q, i) /\ Part(i)' = Part(i) /\ Len(held) = Need
    BY <1>1, <1>3, <1>9 DEF HeldAt, Part, Shape
  <2>2. work[q] = Part(i) /\ work[q].stage = i /\ ~held[i].ready
    BY <2>1, <1>2 DEF Staged, Part
  <2>3. ring => (work[q].hop = "back" <=> i = Need)
    BY <2>1, <2>2, <1>1, HopBack
  <2>4. ~held[i].ready' /\ (to = "connect" => ~(cpc \in {"check", "serving", "control"}))
    <3>1. AllReady
      BY DEF FormationInv
    <3> QED
      BY <3>1, <2>2, <1>3 DEF AllReady
  <2>5. ring /\ to = "ready" => i = Need
    BY <2>3, <1>t
  <2> QED
    BY <2>1, <2>2, <2>4, <2>5, <1>2, <1>3, <1>7, <1>t DEF Staged
<1> QED
  BY <1>2, <1>4, <1>5, <1>6, <1>8, <1>9, ProviderFrame

LEMMA SendReadyStep ==
    ASSUME FormationInv, NEW q \in Provider, SendReady(q)
    PROVE  FormationInv'
<1>1. /\ Shape /\ OneEnd(q) /\ (Queued(q) => Fresh(q)) /\ AllReady
      /\ \A i \in 1..Need : cpc \in Formed /\ HeldAt(q, i) => Staged(q, i)
  BY Known DEF FormationInv
<1>2. AtEnd(q, "ready", TRUE)
  BY DEF SendReady
<1>3. /\ backlog' \in Seq(AnEnd) /\ Len(backlog') = Len(backlog)
      /\ greeting' \in AnEnd \cup {NoEnd}
      /\ held' \in Seq(AnEnd) /\ Len(held') = Len(held)
      /\ \A i \in 1..Len(held) : held'[i].p = held[i].p /\ (held'[i].ready <=> held[i].ready \/ HeldAt(q, i))
      /\ \A p \in Provider : GreetAt(p)' <=> GreetAt(p)
      /\ \A p \in Provider, i \in Nat : BackAt(p, i)' <=> BackAt(p, i)
      /\ \A p \in Provider, i \in Nat : HeldAt(p, i)' <=> HeldAt(p, i)
      /\ \A p \in Provider \ {q} : GreetAt(p) => (greeting'.ready <=> greeting.ready)
      /\ \A p \in Provider \ {q}, i \in Nat : BackAt(p, i) => (backlog'[i].ready <=> backlog[i].ready)
      /\ UNCHANGED <<ring, cpc, first, leaked, at, job, sessions>>
  BY <1>1, <1>2, EndsReady
<1> DEFINE to == IF work[q].hop = "back" THEN "connect" ELSE "serve"
<1>4. /\ ppc[q] = "ready" /\ ppc' = [ppc EXCEPT ![q] = to]
      /\ UNCHANGED <<link, inbox, work, loaded, sess, next, pred>>
  BY DEF SendReady, Put
<1>t. to \in {"connect", "serve"} /\ (to = "connect" <=> work[q].hop = "back")
  OBVIOUS
<1> HIDE DEF to
<1>5. Shape'
  BY <1>1, <1>3, <1>4, <1>t DEF Shape, Phases
<1>6. Mine(q)
  BY <1>1, <1>3, <1>4 DEF Shape, Mine
<1>7. SameEnds(q)
  BY <1>3 DEF SameEnds
<1>a. ppc'[q] = to
  BY <1>1, <1>4 DEF Shape
<1>8. Idle(q)'
  BY <1>a, <1>t DEF Idle
<1>9. ~Queued(q)'
  BY <1>1, <1>3, <1>4 DEF Queued, Fresh
<1>10. ASSUME NEW i \in 1..Need, cpc \in Formed, HeldAt(q, i)' PROVE Staged(q, i)'
  <2>1. HeldAt(q, i) /\ Staged(q, i) /\ Len(held) = Need
    BY <1>1, <1>3, <1>10, NeedNat DEF Shape
  <2>2. Part(i)' = Part(i) /\ (i # Need => held'[i + 1].p = held[i + 1].p)
    BY <1>3, <2>1, NeedNat, SamePart
  <2>3. work[q] = Part(i) /\ (to = "connect" <=> ring /\ i = Need)
    BY <2>1, <1>1, <1>4, <1>t, HopBack DEF Staged
  <2>4. ~held[i].ready
    BY <2>1, <1>4 DEF Staged
  <2>5. cpc' \notin {"check", "serving", "control"}
    BY <2>4, <1>1, <1>3 DEF AllReady
  <2> QED
    BY <2>1, <2>2, <2>3, <2>5, <1>3, <1>4, <1>a, <1>t DEF Staged
<1>11. OneEnd(q)'
  BY <1>1, <1>3, Stay
<1> QED
  BY <1>4, <1>5, <1>6, <1>7, <1>8, <1>9, <1>10, <1>11, ProviderFrame

LEMMA ConnectNextStep ==
    ASSUME FormationInv, NEW q \in Provider, ConnectNext(q)
    PROVE  FormationInv'
<1>1. /\ Shape /\ (Queued(q) => Fresh(q))
      /\ \A i \in 1..Need : cpc \in Formed /\ HeldAt(q, i) => Staged(q, i)
  BY Known
<1>2. /\ ppc[q] = "connect" /\ work[q].hop \in Provider
      /\ ppc[work[q].hop] \in {"connect", "ready", "serve"}
      /\ UNCHANGED <<coord, link, inbox, work, loaded, sess>>
      /\ next' = [next EXCEPT ![q] = work[q].hop] /\ pred' = [pred EXCEPT ![work[q].hop] = q]
      /\ ppc' = [ppc EXCEPT ![q] = "ready"]
  BY DEF ConnectNext, Put, Accepts
<1>3. UNCHANGED <<ring, cpc, first, leaked, backlog, greeting, held, at, job, sessions>>
  BY <1>2 DEF coord
<1>4. Shape'
  BY <1>1, <1>2, <1>3 DEF Shape, Phases
<1>5. Mine(q)
  BY <1>1, <1>2, <1>3 DEF Shape, Mine
<1>6. SameEnds(q) /\ OneEnd(q)' /\ (Queued(q)' <=> Queued(q))
  BY <1>3, QuietEnds
<1>7. ppc'[q] = "ready" /\ next'[q] = work[q].hop
  BY <1>1, <1>2 DEF Shape
<1>8. Idle(q)' /\ ~Queued(q)'
  BY <1>1, <1>2, <1>6, <1>7 DEF Idle, Fresh
<1>9. ASSUME NEW i \in 1..Need, cpc \in Formed, HeldAt(q, i)' PROVE Staged(q, i)'
  <2>1. Staged(q, i) /\ Part(i)' = Part(i) /\ Len(held) = Need
    BY <1>1, <1>3, <1>9 DEF HeldAt, Part, Shape
  <2>2. work[q] = Part(i)
    BY <2>1, <1>2 DEF Staged
  <2>3. i # Need /\ next'[q] = held[i + 1].p
    BY <2>1, <2>2, <1>1, <1>2, <1>7, HopBack
  <2>4. ~held[i].ready
    BY <2>1, <2>3, <1>2 DEF Staged
  <2> QED
    BY <2>1, <2>3, <2>4, <1>2, <1>3, <1>7 DEF Staged
<1> QED
  BY <1>2, <1>4, <1>5, <1>6, <1>8, <1>9, ProviderFrame

LEMMA ConnectBackStep ==
    ASSUME FormationInv, NEW q \in Provider, ConnectBack(q)
    PROVE  FormationInv'
<1>1. /\ Shape /\ (Queued(q) => Fresh(q))
      /\ \A i \in 1..Need : cpc \in Formed /\ HeldAt(q, i) => Staged(q, i)
  BY Known
<1>2. /\ ppc[q] = "connect" /\ work[q].hop = "back"
      /\ cpc = "ring" /\ cpc' = "check" /\ at' = 1
      /\ UNCHANGED <<ring, first, leaked, backlog, greeting, held, job, sessions,
                     link, inbox, work, loaded, sess, pred>>
      /\ next' = [next EXCEPT ![q] = "back"] /\ ppc' = [ppc EXCEPT ![q] = "serve"]
  BY DEF ConnectBack, Put
<1>4. Shape'
  BY <1>1, <1>2, NeedNat DEF Shape, Phases, Coordinator, Formed
<1>5. Mine(q)
  BY <1>1, <1>2 DEF Shape, Mine
<1>6. SameEnds(q) /\ OneEnd(q)'
  BY <1>2, QuietEnds
<1>7. ppc'[q] = "serve" /\ next'[q] = "back"
  BY <1>1, <1>2 DEF Shape
<1>8. Idle(q)' /\ ~Queued(q)'
  <2>1. ~Queued(q)
    BY <1>1, <1>2 DEF Fresh
  <2>2. ~Queued(q)'
    BY <2>1, <1>2 DEF Queued, BackAt, GreetAt, Formed
  <2> QED
    BY <1>7, <2>2 DEF Idle
<1>9. ASSUME NEW i \in 1..Need, cpc \in Formed, HeldAt(q, i)' PROVE Staged(q, i)'
  <2>1. Staged(q, i) /\ Part(i)' = Part(i) /\ Len(held) = Need
    BY <1>1, <1>2, <1>9 DEF HeldAt, Part, Shape
  <2>2. work[q] = Part(i)
    BY <2>1, <1>2 DEF Staged
  <2>3. i = Need
    BY <2>1, <2>2, <1>1, <1>2, HopBack
  <2> QED
    BY <2>1, <2>3, <1>2, <1>7 DEF Staged
<1> QED
  BY <1>2, <1>4, <1>5, <1>6, <1>8, <1>9, ProviderFrame

LEMMA PredecessorLostStep ==
    ASSUME FormationInv, NEW q \in Provider, PredecessorLost(q)
    PROVE  FormationInv'
<1>1. Shape /\ Idle(q)
  BY Known
<1>2. AtEnd(q, "live", FALSE)
  BY DEF PredecessorLost
<1>3. /\ backlog' \in Seq(AnEnd) /\ Len(backlog') = Len(backlog)
      /\ greeting' \in AnEnd \cup {NoEnd}
      /\ held' \in Seq(AnEnd) /\ Len(held') = Len(held)
      /\ \A i \in 1..Len(held) : held'[i].p = held[i].p /\ (held'[i].ready <=> held[i].ready)
      /\ \A p \in Provider : GreetAt(p)' <=> GreetAt(p) /\ p # q
      /\ \A p \in Provider, i \in Nat : BackAt(p, i)' <=> BackAt(p, i) /\ p # q
      /\ \A p \in Provider, i \in Nat : HeldAt(p, i)' <=> HeldAt(p, i) /\ p # q
      /\ \A p \in Provider : GreetAt(p) => (greeting'.ready <=> greeting.ready)
      /\ \A p \in Provider, i \in Nat : BackAt(p, i) => (backlog'[i].ready <=> backlog[i].ready)
      /\ UNCHANGED <<ring, cpc, first, leaked, at, job, sessions>>
  BY <1>1, <1>2, EndsLive
<1>4. /\ pred[q] \in Provider /\ link' = [link EXCEPT ![q] = "closed"]
      /\ pred' = [pred EXCEPT ![q] = "lost"]
      /\ UNCHANGED <<ppc, inbox, work, loaded, sess, next>>
  BY DEF PredecessorLost, Put
<1>5. Shape'
  BY <1>1, <1>3, <1>4 DEF Shape
<1>6. Mine(q)
  BY <1>1, <1>3, <1>4 DEF Shape, Mine
<1>7. SameEnds(q)
  BY <1>3 DEF SameEnds
<1>8. Idle(q)'
  <2>1. pred[q] # None
    BY <1>4, FormationConstants
  <2> QED
    BY <1>1, <1>4, <2>1 DEF Idle
<1>9. ~Queued(q)' /\ \A i \in 1..Need : ~HeldAt(q, i)'
  BY <1>3, NeedNat DEF Queued
<1>10. OneEnd(q)'
  BY <1>3, Gone
<1> QED
  BY <1>10, <1>5, <1>6, <1>7, <1>8, <1>9, ProviderFrame

LEMMA ReturnsStep ==
    ASSUME FormationInv, NEW q \in Provider, Returns(q)
    PROVE  FormationInv'
<1>1. /\ Shape /\ Idle(q) /\ (Queued(q) => Fresh(q))
      /\ \A i \in 1..Need : cpc \in Formed /\ HeldAt(q, i) => Staged(q, i)
  BY Known
<1>2. /\ ppc[q] = "down" /\ ppc' = [ppc EXCEPT ![q] = "dial"]
      /\ UNCHANGED <<coord, link, inbox, work, loaded, sess, next, pred>>
  BY DEF Returns, Put
<1>3. UNCHANGED <<ring, cpc, first, leaked, backlog, greeting, held, at, job, sessions>>
  BY <1>2 DEF coord
<1>4. Shape'
  BY <1>1, <1>2, <1>3 DEF Shape, Phases
<1>5. Mine(q)
  BY <1>1, <1>2, <1>3 DEF Shape, Mine
<1>6. SameEnds(q) /\ OneEnd(q)' /\ (Queued(q)' <=> Queued(q))
  BY <1>3, QuietEnds
<1>8. Idle(q)' /\ ~Queued(q)'
  BY <1>1, <1>2, <1>6 DEF Idle, Fresh
<1>9. ASSUME NEW i \in 1..Need, cpc \in Formed, HeldAt(q, i)' PROVE FALSE
  BY <1>1, <1>2, <1>3, <1>9 DEF HeldAt, Staged
<1> QED
  BY <1>2, <1>4, <1>5, <1>6, <1>8, <1>9, ProviderFrame

\* A provider that dials has no live end, so its new one is its only one.
LEMMA ConnectStep ==
    ASSUME FormationInv, NEW q \in Provider, Connect(q)
    PROVE  FormationInv'
<1>1. /\ Shape /\ Idle(q) /\ (Queued(q) => Fresh(q))
      /\ \A i \in 1..Need : cpc \in Formed /\ HeldAt(q, i) => Staged(q, i)
      /\ \A i \in Nat : HeldAt(q, i) => i \in 1..Need
  BY Known
<1>2. /\ ppc[q] = "dial" /\ backlog' = Append(backlog, NewEnd(q))
      /\ link' = [link EXCEPT ![q] = "open"] /\ ppc' = [ppc EXCEPT ![q] = "hello"]
      /\ UNCHANGED <<ring, cpc, first, leaked, greeting, held, at, job, sessions,
                     inbox, work, loaded, sess, next, pred>>
  BY DEF Connect, Put
<1>3. NewEnd(q) \in AnEnd /\ NewEnd(q).p = q /\ ~NewEnd(q).ready
  BY DEF NewEnd, NoEnd, AnEnd
<1>4. /\ backlog' \in Seq(AnEnd) /\ Len(backlog') = Len(backlog) + 1 /\ Len(backlog) \in Nat
      /\ \A i \in 1..Len(backlog) : backlog'[i] = backlog[i]
      /\ backlog'[Len(backlog) + 1] = NewEnd(q)
  BY <1>1, <1>2, <1>3 DEF Shape
<1>5. Shape'
  BY <1>1, <1>2, <1>4 DEF Shape, Phases
<1>6. Mine(q)
  BY <1>1, <1>2 DEF Shape, Mine
<1>7. /\ link[q] # "open" /\ ~Queued(q)
      /\ \A i \in Nat : ~BackAt(q, i) /\ ~HeldAt(q, i)
      /\ ~GreetAt(q)
  BY <1>1, <1>2 DEF Idle, Fresh, Queued, Staged
<1>8. \A p \in Provider, i \in Nat : BackAt(p, i)' => BackAt(p, i) \/ (p = q /\ i = Len(backlog) + 1)
  BY <1>3, <1>4 DEF BackAt
<1>9. SameEnds(q)
  <2>1. \A p \in Provider, i \in Nat : BackAt(p, i) => backlog'[i] = backlog[i]
    BY <1>4 DEF BackAt
  <2> QED
    BY <1>2, <1>8, <2>1 DEF SameEnds, GreetAt, HeldAt
<1>10. OneEnd(q)'
  <2>1. ~GreetAt(q)' /\ \A i \in Nat : ~HeldAt(q, i)'
    BY <1>2, <1>7 DEF GreetAt, HeldAt
  <2>2. \A i \in Nat : BackAt(q, i)' => i = Len(backlog) + 1
    BY <1>7, <1>8
  <2> QED
    BY <2>1, <2>2 DEF OneEnd
<1>11. ppc'[q] = "hello" /\ link'[q] = "open"
  BY <1>1, <1>2 DEF Shape
<1>12. Idle(q)' /\ Fresh(q)'
  <2>1. Unready(q)'
    BY <1>2, <1>3, <1>4, <1>7, <1>8 DEF Unready, GreetAt, HeldAt
  <2> QED
    BY <1>1, <1>2, <1>11, <2>1 DEF Idle, Fresh
<1>13. \A i \in 1..Need : ~HeldAt(q, i)'
  BY <1>2, <1>7, NeedNat DEF HeldAt
<1> QED
  BY <1>5, <1>6, <1>9, <1>10, <1>12, <1>13, ProviderFrame

\* Every step of a provider keeps the invariant.
LEMMA ProviderSteps ==
    ASSUME FormationInv, NEW q \in Provider, ProviderStep(q) \/ LoadFails(q) \/ Dies(q)
    PROVE  FormationInv'
BY ConnectStep, SayHelloStep, ReadAssignmentStep, LoseSteps, LoadStageStep, SendReadyStep,
   ConnectNextStep, ConnectBackStep, PredecessorLostStep, ReturnsStep DEF ProviderStep

-----------------------------------------------------------------------------
(* The coordinator's steps.                                                *)

\* A step that leaves the providers and the ends alone.
LEMMA QuietCoordinator ==
    ASSUME FormationInv, UNCHANGED <<ring, backlog, greeting, held, prov>>, Shape', AllReady', JobOK',
           cpc' \in Formed <=> cpc \in Formed,
           \A p \in Provider, i \in 1..Need :
                HeldAt(p, i) /\ ((cpc' = "check" /\ i < at') \/ cpc' \in {"serving", "control"})
                    => ppc[p] # "connect",
           cpc \in Formed => \A i \in 1..Need : Due(i)' = Due(i)
    PROVE  FormationInv'
<1>i. /\ Distinct
      /\ \A p \in Provider : OneEnd(p) /\ Idle(p) /\ (Queued(p) => Fresh(p))
      /\ cpc \in Formed => \A p \in Provider, i \in 1..Need :
            HeldAt(p, i) => Staged(p, i) /\ sess[p] = Due(i)
  BY DEF FormationInv
<1>u. UNCHANGED <<ppc, link, inbox, work, loaded, sess, next, pred>>
  BY DEF prov
<1>1. Distinct'
  BY <1>i DEF Distinct
<1>2. \A p \in Provider : OneEnd(p)' /\ Idle(p)'
  BY <1>i, <1>u DEF OneEnd, Idle, BackAt, GreetAt, HeldAt
<1>3. ASSUME NEW p \in Provider, Queued(p)' PROVE Fresh(p)'
  <2>1. Queued(p)
    BY <1>3 DEF Queued, BackAt, GreetAt, HeldAt
  <2> QED
    BY <2>1, <1>i, <1>u DEF Fresh, Unready, BackAt, GreetAt, HeldAt
<1>4. ASSUME cpc' \in Formed, NEW p \in Provider, NEW i \in 1..Need, HeldAt(p, i)'
      PROVE  Staged(p, i)' /\ sess'[p] = Due(i)'
  <2>1. cpc \in Formed /\ HeldAt(p, i)
    BY <1>4 DEF HeldAt
  <2>2. Staged(p, i) /\ sess[p] = Due(i) /\ Due(i)' = Due(i)
    BY <2>1, <1>i
  <2>3. Part(i)' = Part(i)
    BY DEF Part
  <2>4. (cpc' = "check" /\ i < at') \/ cpc' \in {"serving", "control"} => ppc'[p] # "connect"
    BY <2>1, <1>u
  <2>5. Staged(p, i)'
    BY <2>2, <2>3, <2>4, <1>u DEF Staged
  <2> QED
    BY <2>2, <2>5, <1>u
<1> QED
  BY <1>1, <1>2, <1>3, <1>4 DEF FormationInv

\* Whose ends are live.
LEMMA LiveBack ==
    ASSUME Shape, NEW p \in Provider
    PROVE  p \in LiveIn(backlog) <=> \E i \in Nat : BackAt(p, i)
<1>1. Len(backlog) \in Nat
  BY DEF Shape
<1>2. p \in LiveIn(backlog) <=> \E i \in 1..Len(backlog) : backlog[i].live /\ backlog[i].p = p
  BY DEF LiveIn
<1>3. \A i \in 1..Len(backlog) : i \in Nat
  BY <1>1
<1> QED
  BY <1>2, <1>3 DEF BackAt

LEMMA LiveHeld ==
    ASSUME Shape, NEW p \in Provider, p \in LiveIn(held \o <<greeting>>)
    PROVE  GreetAt(p) \/ \E i \in Nat : HeldAt(p, i)
<1> DEFINE s == held \o <<greeting>>
<1>1. PICK j \in 1..Len(s) : s[j].live /\ s[j].p = p
  BY DEF LiveIn
<1>2. held \in Seq(AnEnd) /\ Len(held) \in Nat
  BY DEF Shape
<1>3. Len(s) = Len(held) + 1 /\ (j \in 1..Len(held) => s[j] = held[j]) /\ (j = Len(held) + 1 => s[j] = greeting)
  BY <1>1, <1>2
<1>4. j \in 1..Len(held) \/ j = Len(held) + 1
  BY <1>1, <1>2, <1>3
<1> QED
  BY <1>1, <1>3, <1>4 DEF GreetAt, HeldAt

\* A provider with a live end is connected, as far as it knows.
LEMMA Linked ==
    ASSUME FormationInv, NEW p \in Provider,
           GreetAt(p) \/ (\E i \in Nat : HeldAt(p, i)) \/ (\E i \in Nat : BackAt(p, i))
    PROVE  link[p] = "open" /\ ppc[p] \notin {"dial", "down"}
<1>1. /\ Idle(p) /\ (Queued(p) => Fresh(p))
      /\ \A i \in 1..Need : cpc \in Formed /\ HeldAt(p, i) => Staged(p, i)
      /\ \A i \in Nat : HeldAt(p, i) => i \in 1..Need
  BY Known
<1>2. CASE Queued(p)
  BY <1>1, <1>2 DEF Fresh
<1>3. CASE ~Queued(p)
  <2>1. cpc \in Formed /\ \E i \in Nat : HeldAt(p, i)
    BY <1>3 DEF Queued
  <2> QED
    BY <1>1, <2>1 DEF Staged
<1> QED
  BY <1>2, <1>3

\* An exception: the registered and the awaited connection are closed, and what stays
\* in a listener that is left open is fresh.
LEMMA ThrowsStep ==
    ASSUME FormationInv, NEW leaves \in BOOLEAN, Throws(leaves),
           UNCHANGED <<ring, first, ppc, inbox, work, loaded, sess, next, pred>>
    PROVE  FormationInv'
<1>i. /\ Shape
      /\ \A p \in Provider : OneEnd(p) /\ Idle(p) /\ (Queued(p) => Fresh(p))
  BY DEF FormationInv
<1> DEFINE leak == leaves /\ ~first
<1> DEFINE gone == LiveIn(held \o <<greeting>>) \cup (IF leak THEN {} ELSE LiveIn(backlog))
<1>1. /\ cpc' \in {"exited", "metadata"}
      /\ leaked' \in BOOLEAN
      /\ leak => backlog' = backlog
      /\ ~leak => backlog' = <<>>
      /\ link' = [p \in Provider |-> IF p \in gone THEN "closed" ELSE link[p]]
      /\ held' = <<>> /\ greeting' = NoEnd /\ at' = 0 /\ job' = NoJob /\ sessions' = {}
  BY <1>i DEF Throws, Closes, Shape
<1>2. ASSUME NEW p \in Provider, p \in gone
      PROVE  /\ ppc[p] \notin {"dial", "down"}
             /\ leak => GreetAt(p) \/ \E i \in Nat : HeldAt(p, i)
  <2>1. \/ p \in LiveIn(held \o <<greeting>>)
        \/ ~leak /\ p \in LiveIn(backlog)
    BY <1>2
  <2> QED
    BY <2>1, <1>i, LiveHeld, LiveBack, Linked
<1> HIDE DEF gone, leak
<1>3. Shape'
  <2>1. NoJob \in Jobs
    BY DEF NoJob, Jobs
  <2>2. link' \in [Provider -> {"none", "open", "closed"}]
    BY <1>1, <1>i DEF Shape
  <2>3. <<>> \in Seq(AnEnd) /\ Len(<<>>) = 0 /\ backlog \in Seq(AnEnd)
    BY <1>i DEF Shape
  <2>4. held' \in Seq(AnEnd) /\ Len(held') = 0 /\ greeting' \in AnEnd \cup {NoEnd}
    BY <1>1, <2>3
  <2>5. backlog' \in Seq(AnEnd)
    BY <1>1, <2>3
  <2> QED
    BY <1>1, <1>i, <2>1, <2>2, <2>4, <2>5, NeedNat DEF Shape, Coordinator, Formed
<1>4. \A p \in Provider : ~GreetAt(p)' /\ \A i \in Nat : ~HeldAt(p, i)'
  BY <1>1 DEF GreetAt, HeldAt, NoEnd
<1>5. \A p \in Provider, i \in Nat : BackAt(p, i)' => leak /\ BackAt(p, i)
  BY <1>1 DEF BackAt
<1>6. ASSUME NEW p \in Provider PROVE OneEnd(p)'
  BY <1>4, <1>5, <1>i DEF OneEnd
<1>7. ASSUME NEW p \in Provider PROVE Idle(p)'
  BY <1>1, <1>2, <1>i DEF Idle
<1>8. ASSUME NEW p \in Provider, Queued(p)' PROVE Fresh(p)'
  <2>1. PICK i \in Nat : BackAt(p, i) /\ leak
    BY <1>4, <1>5, <1>8 DEF Queued
  <2>2. Fresh(p)
    BY <2>1, <1>i DEF Queued
  <2>3. p \notin gone
    BY <2>1, <1>2, <1>i DEF OneEnd
  <2>4. link'[p] = link[p] /\ backlog' = backlog
    BY <2>1, <2>3, <1>1
  <2>5. Unready(p)'
    BY <2>2, <2>4, <1>4, <1>5 DEF Fresh, Unready
  <2> QED
    BY <2>2, <2>4, <2>5 DEF Fresh
<1>9. Distinct' /\ AllReady' /\ JobOK' /\ cpc' \notin Formed
  BY <1>1 DEF Distinct, AllReady, JobOK, Formed
<1> QED
  BY <1>3, <1>6, <1>7, <1>8, <1>9 DEF FormationInv

LEMMA FailSteps ==
    ASSUME FormationInv, HelloFails \/ ReceiveFails \/ ControlFails \/ HeartbeatFails
    PROVE  FormationInv'
BY ThrowsStep DEF HelloFails, ReceiveFails, ControlFails, HeartbeatFails

LEMMA FormReplicaStep ==
    ASSUME FormationInv, FormReplica
    PROVE  FormationInv'
<1>1. CASE cpc' = "accept" /\ UNCHANGED <<leaked, backlog, link, held, greeting, at, job, sessions, faults>>
  <2>1. /\ UNCHANGED <<ring, first, ppc, inbox, work, loaded, sess, next, pred>> /\ cpc = "metadata"
        /\ Shape /\ AllReady /\ JobOK
    BY DEF FormReplica, FormationInv
  <2>2. Shape'
    BY <1>1, <2>1, NeedNat DEF Shape, Coordinator, Formed
  <2>3. AllReady' /\ JobOK' /\ cpc' \notin Formed /\ cpc \notin Formed
    BY <1>1, <2>1 DEF AllReady, JobOK, Formed
  <2>4. UNCHANGED prov
    BY <1>1, <2>1 DEF prov
  <2> QED
    BY <1>1, <2>1, <2>2, <2>3, <2>4, QuietCoordinator
<1>2. CASE Throws(FALSE)
  BY <1>2, ThrowsStep DEF FormReplica
<1> QED
  BY <1>1, <1>2 DEF FormReplica

LEMMA ReceiveReadyStep ==
    ASSUME FormationInv, ReceiveReady
    PROVE  FormationInv'
<1>1. /\ cpc = "ready" /\ held[at].ready
      /\ UNCHANGED <<ring, first, leaked, backlog, greeting, held, job, sessions, prov>>
      /\ \/ at < Need /\ at' = at + 1 /\ cpc' = cpc
         \/ ~(at < Need) /\ at' = 1 /\ ring /\ cpc' = "ring"
         \/ ~(at < Need) /\ at' = 1 /\ ~ring /\ cpc' = "check"
  BY DEF ReceiveReady
<1>8. \A i \in 1..Need : ~(cpc' = "check" /\ i < at') /\ cpc' \notin {"serving", "control"}
  BY <1>1, NeedNat
<1>2. Shape /\ AllReady /\ JobOK /\ at \in 1..Need
  BY <1>1, NeedNat DEF FormationInv, Shape
<1>3. Shape'
  <2>1. UNCHANGED <<ppc, link, inbox, work, loaded, sess, next, pred>>
    BY <1>1 DEF prov
  <2>2. at' \in 1..Need
    BY <1>1, <1>2, NeedNat
  <2> QED
    BY <1>1, <1>2, <2>1, <2>2 DEF Shape, Coordinator, Formed
<1>4. AllReady'
  BY <1>1, <1>2, NeedNat DEF AllReady
<1>5. JobOK'
  BY <1>1, <1>2 DEF JobOK
<1>6. \A i \in 1..Need : Due(i)' = Due(i)
  BY <1>1 DEF Due
<1>7. cpc' \in Formed /\ cpc \in Formed
  BY <1>1 DEF Formed
<1> QED
  BY <1>1, <1>3, <1>4, <1>5, <1>6, <1>7, <1>8, QuietCoordinator

LEMMA CheckStageStep ==
    ASSUME FormationInv, CheckStage
    PROVE  FormationInv'
<1>1. /\ cpc = "check" /\ Serves(held[at])
      /\ UNCHANGED <<ring, leaked, backlog, greeting, held, job, sessions, prov>>
      /\ \/ at < Need /\ at' = at + 1 /\ cpc' = cpc /\ first' = first
         \/ ~(at < Need) /\ at' = 0 /\ cpc' = "serving" /\ first' = FALSE
  BY DEF CheckStage
<1>2. Shape /\ AllReady /\ JobOK /\ at \in 1..Need
  BY <1>1, NeedNat DEF FormationInv, Shape
<1>3. Shape'
  <2>1. UNCHANGED <<ppc, link, inbox, work, loaded, sess, next, pred>>
    BY <1>1 DEF prov
  <2>2. at' \in 0..Need /\ (cpc' = "check" => at' >= 1) /\ cpc' \in {"check", "serving"}
    BY <1>1, <1>2, NeedNat
  <2>3. first' \in BOOLEAN
    BY <1>1, <1>2 DEF Shape
  <2> QED
    BY <1>1, <1>2, <2>1, <2>2, <2>3 DEF Shape, Coordinator, Formed
<1>4. AllReady'
  BY <1>1, <1>2 DEF AllReady
<1>5. JobOK'
  BY <1>1, <1>2 DEF JobOK
<1>6. \A i \in 1..Need : Due(i)' = Due(i)
  BY <1>1 DEF Due
<1>7. cpc' \in Formed /\ cpc \in Formed
  BY <1>1 DEF Formed
<1>8. ASSUME NEW p \in Provider, NEW i \in 1..Need, HeldAt(p, i),
             (cpc' = "check" /\ i < at') \/ cpc' \in {"serving", "control"}
      PROVE  ppc[p] # "connect"
  <2>1. Staged(p, i) /\ held[i].p = p
    BY <1>7, <1>8 DEF FormationInv, HeldAt
  <2>2. i < at \/ i = at
    BY <1>1, <1>2, <1>8, NeedNat
  <2>3. CASE i < at
    BY <1>1, <2>1, <2>3 DEF Staged
  <2>4. CASE i = at
    BY <1>1, <2>1, <2>4 DEF Serves
  <2> QED
    BY <2>2, <2>3, <2>4
<1> QED
  BY <1>1, <1>3, <1>4, <1>5, <1>6, <1>7, <1>8, QuietCoordinator

LEMMA SubmitStep ==
    ASSUME FormationInv, NEW k \in {"create", "open", "destroy"}, NEW s \in Session \cup {None}, Submit(k, s)
    PROVE  FormationInv'
<1>1. /\ cpc = "serving" /\ cpc' = "control" /\ at' = 1 /\ job' = [kind |-> k, s |-> s]
      /\ (k = "open" <=> s = None)
      /\ UNCHANGED <<ring, first, leaked, backlog, greeting, held, sessions, prov>>
  BY DEF Submit
<1>2. Shape /\ AllReady /\ JobOK
  BY DEF FormationInv
<1>j. job'.kind = k /\ job'.s = s /\ job' \in Jobs
  BY <1>1 DEF Jobs
<1>3. Shape'
  <2>1. UNCHANGED <<ppc, link, inbox, work, loaded, sess, next, pred>>
    BY <1>1 DEF prov
  <2> QED
    BY <1>1, <1>2, <1>j, <2>1, NeedNat DEF Shape, Coordinator, Formed
<1>4. AllReady'
  BY <1>1, <1>2 DEF AllReady
<1>5. JobOK'
  BY <1>1, <1>2, <1>j DEF JobOK
<1>6. \A i \in 1..Need : Due(i)' = Due(i)
  BY <1>1, <1>j DEF Due
<1>7. cpc' \in Formed /\ cpc \in Formed
  BY <1>1 DEF Formed
<1>8. \A p \in Provider, i \in 1..Need : HeldAt(p, i) => ppc[p] # "connect"
  BY <1>1, <1>7 DEF FormationInv, Staged
<1> QED
  BY <1>1, <1>3, <1>4, <1>5, <1>6, <1>7, <1>8, QuietCoordinator

\* Before the plan is made only what is said of each provider's ends can change.
LEMMA EarlySteps ==
    ASSUME FormationInv, Shape', Distinct', cpc \notin Formed, cpc' \notin Formed,
           UNCHANGED <<sessions, ppc, inbox, work, loaded, sess, next, pred>>,
           \A p \in Provider : OneEnd(p)',
           \A p \in Provider : link'[p] # link[p] => ppc[p] \notin {"dial", "down"},
           \A p \in Provider : Queued(p)' => Queued(p) /\ link'[p] = link[p] /\ Unready(p)'
    PROVE  FormationInv'
<1>1. /\ JobOK /\ \A p \in Provider : Idle(p) /\ (Queued(p) => Fresh(p))
  BY DEF FormationInv
<1>2. JobOK' /\ AllReady'
  BY <1>1 DEF JobOK, AllReady, Formed
<1>3. \A p \in Provider : Idle(p)'
  BY <1>1 DEF Idle
<1>4. \A p \in Provider : Queued(p)' => Fresh(p)'
  BY <1>1 DEF Fresh
<1> QED
  BY <1>2, <1>3, <1>4 DEF FormationInv

LEMMA AcceptProviderStep ==
    ASSUME FormationInv, AcceptProvider
    PROVE  FormationInv'
<1>1. /\ cpc = "accept" /\ cpc' = "hello" /\ backlog # <<>>
      /\ greeting' = Head(backlog) /\ backlog' = Tail(backlog)
      /\ UNCHANGED <<ring, first, leaked, held, at, job, sessions, prov>>
  BY DEF AcceptProvider
<1>u. UNCHANGED <<ppc, link, inbox, work, loaded, sess, next, pred>>
  BY <1>1 DEF prov
<1>i. /\ Shape /\ Distinct /\ cpc \notin Formed /\ cpc' \notin Formed
      /\ \A p \in Provider : OneEnd(p) /\ (Queued(p) => Fresh(p))
  BY <1>1 DEF FormationInv, Formed
<1>2. /\ backlog' \in Seq(AnEnd) /\ greeting' \in AnEnd /\ greeting' = backlog[1]
      /\ Len(backlog) \in Nat /\ Len(backlog) >= 1 /\ Len(backlog') = Len(backlog) - 1
      /\ \A i \in 1..Len(backlog') : backlog'[i] = backlog[i + 1]
  BY <1>1, <1>i DEF Shape
<1>3. Shape'
  BY <1>1, <1>2, <1>u, <1>i DEF Shape, Coordinator, Formed
<1>4. \A p \in Provider : GreetAt(p)' <=> BackAt(p, 1)
  BY <1>2 DEF GreetAt, BackAt
<1>5. \A p \in Provider, i \in Nat :
        BackAt(p, i)' => /\ BackAt(p, i + 1) /\ i # 0 /\ i + 1 \in Nat
                         /\ backlog'[i] = backlog[i + 1]
  BY <1>2 DEF BackAt
<1>6. \A p \in Provider, i \in Nat : HeldAt(p, i)' <=> HeldAt(p, i)
  BY <1>1 DEF HeldAt
<1>7. ASSUME NEW p \in Provider PROVE OneEnd(p)'
  <2>1. OneEnd(p) /\ 1 \in Nat
    BY <1>i
  <2>2. \A i, j \in Nat : BackAt(p, i)' /\ BackAt(p, j)' => i = j
    BY <1>5, <2>1 DEF OneEnd
  <2>3. \A i, j \in Nat : BackAt(p, i)' => ~GreetAt(p)' /\ ~HeldAt(p, j)'
    BY <1>4, <1>5, <1>6, <2>1 DEF OneEnd
  <2>4. \A j \in Nat : ~(GreetAt(p)' /\ HeldAt(p, j)')
    BY <1>4, <1>6, <2>1 DEF OneEnd
  <2> QED
    BY <2>2, <2>3, <2>4 DEF OneEnd
<1>8. ASSUME NEW p \in Provider, Queued(p)' PROVE Queued(p) /\ Unready(p)'
  <2>1. Queued(p)
    BY <1>8, <1>4, <1>5, <1>6, <1>i DEF Queued
  <2>2. Unready(p)
    BY <2>1, <1>i DEF Fresh
  <2> QED
    BY <2>1, <2>2, <1>1, <1>2, <1>4, <1>5, <1>6, <1>i DEF Unready
<1>9. Distinct'
  BY <1>1, <1>i DEF Distinct
<1> QED
  BY <1>1, <1>3, <1>7, <1>8, <1>9, <1>u, <1>i, EarlySteps

LEMMA RejectProviderStep ==
    ASSUME FormationInv, RejectProvider
    PROVE  FormationInv'
<1> DEFINE gone == LiveIn(<<greeting>>)
<1>1. /\ cpc = "hello" /\ cpc' = "accept" /\ greeting' = NoEnd
      /\ link' = [p \in Provider |-> IF p \in gone THEN "closed" ELSE link[p]]
      /\ UNCHANGED <<ring, first, leaked, backlog, held, at, job, sessions,
                     ppc, inbox, work, loaded, sess, next, pred>>
  BY DEF RejectProvider, Closes
<1>2. \A p \in Provider : p \in gone <=> GreetAt(p)
  BY DEF LiveIn, GreetAt
<1> HIDE DEF gone
<1>i. /\ Shape /\ Distinct /\ cpc \notin Formed /\ cpc' \notin Formed
      /\ \A p \in Provider : OneEnd(p) /\ (Queued(p) => Fresh(p))
  BY <1>1 DEF FormationInv, Formed
<1>3. Shape'
  BY <1>1, <1>i DEF Shape, Coordinator, Formed
<1>4. /\ \A p \in Provider : ~GreetAt(p)'
      /\ \A p \in Provider, i \in Nat : (BackAt(p, i)' <=> BackAt(p, i)) /\ (HeldAt(p, i)' <=> HeldAt(p, i))
  BY <1>1 DEF GreetAt, BackAt, HeldAt, NoEnd
<1>5. ASSUME NEW p \in Provider PROVE OneEnd(p)'
  BY <1>4, <1>i DEF OneEnd
<1>6. ASSUME NEW p \in Provider, link'[p] # link[p] PROVE ppc[p] \notin {"dial", "down"}
  <2>1. GreetAt(p)
    BY <1>1, <1>2, <1>6
  <2> QED
    BY <2>1, Linked
<1>7. ASSUME NEW p \in Provider, Queued(p)' PROVE Queued(p) /\ link'[p] = link[p] /\ Unready(p)'
  <2>1. Queued(p) /\ ~GreetAt(p)
    BY <1>7, <1>4, <1>i DEF Queued, OneEnd
  <2>2. link'[p] = link[p]
    BY <2>1, <1>1, <1>2
  <2> QED
    BY <2>1, <2>2, <1>i, <1>1, <1>4 DEF Fresh, Unready
<1>8. Distinct'
  BY <1>1, <1>i DEF Distinct
<1> QED
  BY <1>1, <1>3, <1>5, <1>6, <1>7, <1>8, <1>i, EarlySteps

LEMMA RegisterStep ==
    ASSUME FormationInv, Register
    PROVE  FormationInv'
<1>1. /\ cpc = "hello" /\ greeting.hello /\ ~Duplicate(greeting.p) /\ greeting' = NoEnd
      /\ held' = Append(held, greeting)
      /\ cpc' = IF Len(held') = Need THEN "assign" ELSE "accept"
      /\ UNCHANGED <<ring, first, leaked, backlog, at, job, sessions, prov>>
  BY DEF Register
<1>u. UNCHANGED <<ppc, link, inbox, work, loaded, sess, next, pred>>
  BY <1>1 DEF prov
<1>i. /\ Shape /\ Distinct /\ cpc \notin Formed /\ cpc' \notin Formed
      /\ \A p \in Provider : OneEnd(p) /\ (Queued(p) => Fresh(p))
  BY <1>1 DEF FormationInv, Formed
<1>2. greeting \in AnEnd
  <2>1. greeting \in AnEnd \/ greeting = NoEnd
    BY <1>i DEF Shape
  <2> QED
    BY <2>1, <1>1 DEF NoEnd
<1>3. /\ held' \in Seq(AnEnd) /\ Len(held) \in Nat /\ Len(held') = Len(held) + 1
      /\ Len(held) < Need
      /\ \A i \in 1..Len(held) : held'[i] = held[i]
      /\ held'[Len(held) + 1] = greeting
  BY <1>1, <1>2, <1>i DEF Shape
<1>4. Shape'
  <2>1. Len(held') <= Need /\ (Len(held') # Need => Len(held') < Need)
    BY <1>3, NeedNat
  <2> QED
    BY <1>1, <1>3, <2>1, <1>u, <1>i DEF Shape, Coordinator, Formed
<1>5. Distinct'
  <2>1. \A i \in 1..Len(held) : held[i].p # greeting.p
    BY <1>1 DEF Duplicate
  <2> QED
    BY <2>1, <1>3, <1>i DEF Distinct
<1>6. /\ \A p \in Provider : ~GreetAt(p)'
      /\ \A p \in Provider, i \in Nat : BackAt(p, i)' <=> BackAt(p, i)
  BY <1>1 DEF GreetAt, BackAt, NoEnd
<1>7. \A p \in Provider, i \in Nat : HeldAt(p, i)' =>
        \/ HeldAt(p, i) /\ held'[i] = held[i]
        \/ GreetAt(p) /\ i = Len(held) + 1 /\ held'[i] = greeting
  BY <1>3 DEF HeldAt, GreetAt
<1>8. ASSUME NEW p \in Provider PROVE OneEnd(p)'
  <2>1. \A i, j \in Nat : BackAt(p, i)' => ~GreetAt(p)' /\ ~HeldAt(p, j)'
    BY <1>6, <1>7, <1>i DEF OneEnd
  <2> QED
    BY <2>1, <1>6, <1>i DEF OneEnd
<1>9. ASSUME NEW p \in Provider, Queued(p)' PROVE Queued(p) /\ Unready(p)'
  <2>1. Queued(p)
    BY <1>9, <1>6, <1>7, <1>i DEF Queued
  <2>2. Unready(p)
    BY <2>1, <1>i DEF Fresh
  <2> QED
    BY <2>1, <2>2, <1>1, <1>6, <1>7, <1>i DEF Unready
<1> QED
  BY <1>1, <1>4, <1>5, <1>8, <1>9, <1>u, <1>i, EarlySteps

\* Every registered provider that is still there gets its part of the plan.
LEMMA AssignStagesStep ==
    ASSUME FormationInv, AssignStages
    PROVE  FormationInv'
<1>1. PICK o \in Orders :
        /\ held' = [i \in 1..Need |-> held[o[i]]]
        /\ inbox' = [p \in Provider |->
                        IF \E i \in 1..Need : held'[i].p = p /\ held'[i].live
                        THEN Assignment(CHOOSE i \in 1..Need : held'[i].p = p) ELSE inbox[p]]
  BY DEF AssignStages
<1>2. /\ cpc = "assign" /\ cpc' = "ready" /\ at' = 1 /\ backlog' = <<>>
      /\ link' = [p \in Provider |-> IF p \in LiveIn(backlog) THEN "closed" ELSE link[p]]
      /\ UNCHANGED <<ring, first, leaked, greeting, job, sessions, ppc, work, loaded, sess, next, pred>>
  BY DEF AssignStages, Closes
<1>i. /\ Shape /\ Distinct /\ JobOK /\ Len(held) = Need /\ cpc \notin Formed
      /\ \A p \in Provider : OneEnd(p) /\ Idle(p) /\ (Queued(p) => Fresh(p))
  BY <1>2 DEF FormationInv, Formed, Shape
<1>o. /\ \A i \in 1..Need : o[i] \in 1..Need
      /\ \A i, j \in 1..Need : o[i] = o[j] => i = j
  BY DEF Orders
<1>3. \A i \in 1..Need : held'[i] = held[o[i]] /\ held'[i] \in AnEnd
  BY <1>1, <1>o, <1>i DEF Shape
<1>4. held' \in Seq(AnEnd) /\ Len(held') = Need
  BY <1>1, <1>3, NeedNat
<1>5. Distinct'
  BY <1>3, <1>4, <1>o, <1>i DEF Distinct
<1>6. \A p \in Provider, i \in Nat : HeldAt(p, i)' => i \in 1..Need /\ HeldAt(p, o[i]) /\ o[i] \in Nat
  BY <1>3, <1>4, <1>o, <1>i, NeedNat DEF HeldAt
<1>7. ASSUME NEW i \in 1..Need
      PROVE  /\ Assignment(i) = Part(i)'
             /\ Assignment(i) \in Work
  <2>1. i # Need => held'[i + 1] \in AnEnd
    <3>1. i # Need => i + 1 \in 1..Need
      BY NeedNat
    <3> QED
      BY <3>1, <1>3
  <2>2. i # 1 => held'[i - 1] \in AnEnd
    <3>1. i # 1 => i - 1 \in 1..Need
      BY NeedNat
    <3> QED
      BY <3>1, <1>3
  <2>3. (i # Need => held'[i + 1].p \in Provider) /\ (i # 1 => held'[i - 1].p \in Provider)
    BY <2>1, <2>2 DEF AnEnd
  <2>4. Assignment(i) = Part(i)'
    BY <1>2 DEF Assignment, Part
  <2> QED
    BY <2>3, <2>4, NeedNat DEF Assignment, Work
<1>8. ASSUME NEW p \in Provider, NEW i \in 1..Need, HeldAt(p, i)'
      PROVE  inbox'[p] = Part(i)'
  <2>1. held'[i].p = p /\ held'[i].live
    BY <1>8 DEF HeldAt
  <2>2. \A j \in 1..Need : held'[j].p = p => j = i
    BY <1>4, <1>5, <2>1 DEF Distinct
  <2>3. (CHOOSE j \in 1..Need : held'[j].p = p) = i
    BY <2>1, <2>2
  <2>4. inbox'[p] = Assignment(CHOOSE j \in 1..Need : held'[j].p = p)
    BY <1>1, <2>1
  <2> QED
    BY <2>3, <2>4, <1>7
<1>9. ASSUME NEW p \in Provider, \A i \in Nat : ~HeldAt(p, i)
      PROVE  inbox'[p] = inbox[p] /\ \A i \in Nat : ~HeldAt(p, i)'
  <2>1. \A i \in Nat : ~HeldAt(p, i)'
    BY <1>6, <1>9
  <2>2. ~ \E i \in 1..Need : held'[i].p = p /\ held'[i].live
    BY <2>1, <1>4, NeedNat DEF HeldAt
  <2> QED
    BY <1>1, <2>1, <2>2
<1>10. inbox' \in [Provider -> Work]
  <2>1. ASSUME NEW p \in Provider PROVE inbox'[p] \in Work
    <3>1. CASE \E i \in 1..Need : held'[i].p = p /\ held'[i].live
      <4>1. (CHOOSE i \in 1..Need : held'[i].p = p) \in 1..Need
        BY <3>1
      <4> QED
        BY <4>1, <3>1, <1>1, <1>7
    <3>2. CASE ~ \E i \in 1..Need : held'[i].p = p /\ held'[i].live
      BY <3>2, <1>1, <1>i DEF Shape
    <3> QED
      BY <3>1, <3>2
  <2> QED
    BY <2>1, <1>1
<1>11. Shape'
  <2>1. link' \in [Provider -> {"none", "open", "closed"}]
    BY <1>2, <1>i DEF Shape
  <2>2. backlog' \in Seq(AnEnd)
    BY <1>2
  <2> QED
    BY <1>2, <1>4, <1>10, <1>i, <2>1, <2>2, NeedNat DEF Shape, Coordinator, Formed
<1>12. \A p \in Provider : (GreetAt(p)' <=> GreetAt(p)) /\ \A i \in Nat : ~BackAt(p, i)'
  BY <1>2 DEF GreetAt, BackAt
<1>13. ASSUME NEW p \in Provider PROVE OneEnd(p)'
  BY <1>6, <1>12, <1>i DEF OneEnd
<1>14. ASSUME NEW p \in Provider, \A i \in Nat : ~BackAt(p, i) PROVE link'[p] = link[p]
  BY <1>2, <1>14, <1>i, LiveBack
<1>15. ASSUME NEW p \in Provider PROVE Idle(p)'
  <2>1. SUFFICES ASSUME ppc[p] \in {"dial", "down"} PROVE Idle(p)'
    BY <1>2 DEF Idle
  <2>2. \A i \in Nat : ~BackAt(p, i) /\ ~HeldAt(p, i)
    BY <2>1, Linked
  <2>3. link'[p] = link[p] /\ inbox'[p] = inbox[p]
    BY <2>2, <1>9, <1>14
  <2> QED
    BY <2>3, <1>2, <1>i DEF Idle
<1>16. ASSUME NEW p \in Provider, Queued(p)' PROVE Fresh(p)'
  <2>1. GreetAt(p) /\ cpc' \in Formed
    BY <1>16, <1>12, <1>2 DEF Queued, Formed
  <2>2. Fresh(p) /\ \A i \in Nat : ~BackAt(p, i) /\ ~HeldAt(p, i)
    BY <2>1, <1>i DEF Queued, OneEnd
  <2>3. link'[p] = link[p] /\ inbox'[p] = inbox[p]
    BY <2>2, <1>9, <1>14
  <2>4. Unready(p)'
    BY <2>1, <2>2, <1>2, <1>12 DEF Fresh, Unready
  <2> QED
    BY <2>2, <2>3, <2>4, <1>2 DEF Fresh
<1>17. ASSUME NEW p \in Provider, NEW i \in 1..Need, HeldAt(p, i)'
       PROVE  Staged(p, i)' /\ sess'[p] = Due(i)'
  <2>1. HeldAt(p, o[i]) /\ o[i] \in Nat /\ i \in Nat
    BY <1>6, <1>17, NeedNat
  <2>2. Fresh(p) /\ \A j \in Nat : ~BackAt(p, j)
    BY <2>1, <1>i DEF Queued, OneEnd
  <2>3. link'[p] = "open" /\ inbox'[p] = Part(i)'
    BY <2>2, <1>8, <1>14, <1>17 DEF Fresh
  <2>4. ~held'[i].ready
    <3>1. ~held[o[i]].ready
      BY <2>1, <2>2, <1>i DEF Fresh, Unready
    <3> QED
      BY <3>1, <1>3
  <2>5. ppc'[p] \in {"hello", "wait"} /\ work'[p] = NoStage /\ sess'[p] = {}
    BY <2>2, <1>2 DEF Fresh
  <2>6. Staged(p, i)'
    BY <2>3, <2>4, <2>5, <1>2 DEF Staged
  <2>7. Due(i)' = {}
    BY <1>2, <1>i DEF Due, JobOK
  <2> QED
    BY <2>5, <2>6, <2>7
<1>18. AllReady' /\ JobOK'
  BY <1>2, <1>i DEF AllReady, JobOK
<1> QED
  BY <1>5, <1>11, <1>13, <1>15, <1>16, <1>17, <1>18 DEF FormationInv

\* What an operation does to the sessions of the stage it has reached, and what the
\* stages should then hold.
After(set) == IF job.kind \in {"create", "open"} THEN set \cup {job.s} ELSE set \ {job.s}

LEMMA DueAfter ==
    ASSUME FormationInv, cpc = "control", at \in 1..Need, NEW i \in 1..Need,
           \/ at < Need /\ at' = at + 1 /\ UNCHANGED <<cpc, job, sessions>>
           \/ ~(at < Need) /\ Told
    PROVE  Due(i)' = IF i = at THEN After(Due(i)) ELSE Due(i)
<1>1. /\ None \notin sessions /\ job \in Jobs
      /\ job.kind \in {"create", "open", "close", "destroy"}
      /\ job.kind \in {"open", "close"} => job.s = None
  BY DEF FormationInv, JobOK, Shape
<1>2. Need \in Nat /\ at \in Nat /\ i \in Nat
  BY NeedNat
<1>3. CASE at < Need /\ at' = at + 1 /\ UNCHANGED <<cpc, job, sessions>>
  <2>1. i < at' <=> i < at \/ i = at
    BY <1>2, <1>3
  <2>2. CASE i = at
    BY <2>1, <2>2, <1>1, <1>2, <1>3 DEF Due, After
  <2>3. CASE i # at
    BY <2>1, <2>3, <1>1, <1>2, <1>3 DEF Due, After
  <2> QED
    BY <2>2, <2>3
<1>4. CASE ~(at < Need) /\ Told
  <2>1. i = at \/ i < at
    BY <1>2, <1>4
  <2>2. i = at => ~(i < at)
    BY <1>2
  <2>3. CASE job.kind = "create"
    BY <2>1, <2>2, <2>3, <1>1, <1>4 DEF Told, Due, After
  <2>4. CASE job.kind = "open"
    <3>1. job' = [job EXCEPT !.kind = "close"] /\ at' = 1 /\ UNCHANGED <<sessions, cpc>>
      BY <2>4, <1>4 DEF Told
    <3>2. job'.kind = "close"
      BY <3>1, <1>1 DEF Jobs
    <3>3. ~(i < at')
      BY <3>1, <1>2
    <3> QED
      BY <3>1, <3>2, <3>3, <2>1, <2>2, <2>4, <1>1 DEF Due, After
  <2>5. CASE job.kind = "close"
    BY <2>1, <2>2, <2>5, <1>1, <1>4 DEF Told, Due, After
  <2>6. CASE job.kind = "destroy"
    BY <2>1, <2>2, <2>6, <1>1, <1>4 DEF Told, Due, After
  <2> QED
    BY <2>3, <2>4, <2>5, <2>6, <1>1
<1> QED
  BY <1>3, <1>4

LEMMA ControlStageStep ==
    ASSUME FormationInv, ControlStage
    PROVE  FormationInv'
<1>i. /\ Shape /\ Distinct /\ AllReady /\ JobOK
      /\ \A p \in Provider : OneEnd(p) /\ Idle(p) /\ (Queued(p) => Fresh(p))
      /\ cpc \in Formed => \A p \in Provider, i \in 1..Need :
            HeldAt(p, i) => Staged(p, i) /\ sess[p] = Due(i)
  BY DEF FormationInv
<1> DEFINE m == held[at].p
<1>1. /\ cpc = "control" /\ held[at].live /\ ppc[m] = "serve"
      /\ sess' = [sess EXCEPT ![m] = After(sess[m])]
      /\ \/ at < Need /\ at' = at + 1 /\ UNCHANGED <<cpc, job, sessions>>
         \/ ~(at < Need) /\ Told
      /\ UNCHANGED <<ring, first, leaked, backlog, greeting, held,
                     ppc, link, inbox, work, loaded, next, pred>>
  BY DEF ControlStage, Serves, Put, After, Opens
<1>2. at \in 1..Need /\ Len(held) = Need /\ Need \in Nat /\ cpc \in Formed
  BY <1>1, <1>i, NeedNat DEF Shape, Formed
<1>3. m \in Provider
  <2>1. held[at] \in AnEnd
    BY <1>2, <1>i DEF Shape
  <2> QED
    BY <2>1 DEF AnEnd
<1>4. /\ cpc' \in {"serving", "control"} /\ at' \in 0..Need /\ (cpc' = "control" => at' >= 1)
      /\ job' \in Jobs
  <2>1. NoJob \in Jobs /\ job \in Jobs
    BY <1>i DEF NoJob, Jobs, Shape
  <2>2. job.kind = "open" => [job EXCEPT !.kind = "close"] \in Jobs
    BY <2>1 DEF Jobs
  <2>3. CASE at < Need /\ at' = at + 1 /\ UNCHANGED <<cpc, job, sessions>>
    BY <2>1, <2>3, <1>1, <1>2
  <2>4. CASE Told
    BY <2>1, <2>2, <2>4, <1>1, <1>2 DEF Told
  <2> QED
    BY <2>3, <2>4, <1>1
<1>5. JobOK'
  <2>1. CASE at < Need /\ at' = at + 1 /\ UNCHANGED <<cpc, job, sessions>>
    BY <2>1, <1>1, <1>i DEF JobOK
  <2>2. CASE Told
    <3>1. job.kind = "open" => [job EXCEPT !.kind = "close"].kind = "close" /\ [job EXCEPT !.kind = "close"].s = job.s
      BY <1>i DEF Shape, Jobs
    <3> QED
      BY <2>2, <3>1, <1>1, <1>i DEF JobOK, Told
  <2> QED
    BY <2>1, <2>2, <1>1
<1>6. sess' \in [Provider -> SUBSET (Session \cup {None})]
  <2>1. job.s \in Session \cup {None}
    BY <1>i DEF Shape, Jobs
  <2>2. sess[m] \subseteq Session \cup {None}
    BY <1>3, <1>i DEF Shape
  <2>3. After(sess[m]) \subseteq Session \cup {None}
    BY <2>1, <2>2 DEF After
  <2> QED
    BY <1>1, <2>3, <1>i DEF Shape
<1>7. Shape'
  BY <1>1, <1>2, <1>4, <1>6, <1>i DEF Shape, Coordinator, Formed
<1>8. cpc' \in Formed /\ AllReady' /\ Distinct'
  BY <1>1, <1>2, <1>4, <1>i DEF AllReady, Distinct, Formed
<1>9. \A p \in Provider : p # m => sess'[p] = sess[p]
  BY <1>1, <1>i DEF Shape
<1>10. sess'[m] = After(sess[m])
  BY <1>1, <1>3, <1>i DEF Shape
<1>e. \A p \in Provider : (GreetAt(p)' <=> GreetAt(p)) /\ \A i \in Nat :
        (BackAt(p, i)' <=> BackAt(p, i)) /\ (HeldAt(p, i)' <=> HeldAt(p, i))
  BY <1>1 DEF GreetAt, BackAt, HeldAt
<1>11. ASSUME NEW p \in Provider PROVE OneEnd(p)' /\ Idle(p)'
  <2>1. OneEnd(p)'
    BY <1>e, <1>i DEF OneEnd
  <2>2. Idle(p)'
    BY <1>1, <1>9, <1>i DEF Idle
  <2> QED
    BY <2>1, <2>2
<1>12. ASSUME NEW p \in Provider, Queued(p)' PROVE Fresh(p)'
  <2>1. Queued(p)
    BY <1>12, <1>e, <1>8 DEF Queued
  <2>2. Fresh(p) /\ p # m
    BY <2>1, <1>1, <1>i DEF Fresh
  <2>3. Unready(p)'
    BY <2>2, <1>1, <1>8, <1>e DEF Fresh, Unready
  <2> QED
    BY <2>2, <2>3, <1>1, <1>9 DEF Fresh
<1>13. ASSUME NEW p \in Provider, NEW i \in 1..Need, HeldAt(p, i)'
       PROVE  Staged(p, i)' /\ sess'[p] = Due(i)'
  <2>1. HeldAt(p, i) /\ held[i].p = p
    BY <1>13, <1>1 DEF HeldAt
  <2>2. Staged(p, i) /\ sess[p] = Due(i)
    BY <2>1, <1>2, <1>i
  <2>3. Part(i)' = Part(i)
    BY <1>1 DEF Part
  <2>4. Staged(p, i)'
    BY <2>2, <2>3, <1>1, <1>4 DEF Staged
  <2>5. Due(i)' = IF i = at THEN After(Due(i)) ELSE Due(i)
    BY <1>1, <1>2, DueAfter
  <2>6. p = m <=> i = at
    BY <2>1, <1>2, <1>i DEF Distinct
  <2> QED
    BY <2>2, <2>4, <2>5, <2>6, <1>9, <1>10
<1> QED
  BY <1>5, <1>7, <1>8, <1>11, <1>12, <1>13 DEF FormationInv

-----------------------------------------------------------------------------
(* The theorems.                                                           *)

LEMMA InitInv == Init => FormationInv
<1> SUFFICES ASSUME Init PROVE FormationInv
  OBVIOUS
<1>1. Shape
  <2>1. NoJob \in Jobs
    BY DEF NoJob, Jobs
  <2>2. ring \in BOOLEAN
    BY FormationConstants DEF Init
  <2>3. /\ ppc \in [Provider -> Phases] /\ link \in [Provider -> {"none", "open", "closed"}]
        /\ inbox \in [Provider -> Work] /\ work \in [Provider -> Work]
    BY NoStageWork DEF Init, Phases
  <2>4. /\ loaded \in [Provider -> 0..Need]
        /\ next \in [Provider -> Provider \cup {"back", None}]
        /\ pred \in [Provider -> Provider \cup {"lost", None}]
        /\ sess \in [Provider -> SUBSET (Session \cup {None})]
    BY NeedNat DEF Init
  <2>5. /\ first \in BOOLEAN /\ leaked \in BOOLEAN /\ cpc = "metadata"
        /\ backlog = <<>> /\ held = <<>> /\ greeting = NoEnd /\ at = 0 /\ job = NoJob
    BY DEF Init
  <2>6. <<>> \in Seq(AnEnd) /\ Len(<<>>) = 0
    OBVIOUS
  <2>7. backlog \in Seq(AnEnd) /\ held \in Seq(AnEnd) /\ Len(held) = 0
    BY <2>5, <2>6
  <2> QED
    BY <2>1, <2>2, <2>3, <2>4, <2>5, <2>7, NeedNat DEF Shape, Coordinator, Formed
<1>2. Distinct /\ AllReady /\ JobOK /\ cpc \notin Formed
  BY DEF Init, Distinct, AllReady, JobOK, Formed
<1>3. \A p \in Provider : ~GreetAt(p) /\ \A i \in Nat : ~BackAt(p, i) /\ ~HeldAt(p, i)
  BY DEF Init, GreetAt, BackAt, HeldAt, NoEnd
<1>4. \A p \in Provider : OneEnd(p) /\ Idle(p) /\ ~Queued(p)
  BY <1>3 DEF Init, OneEnd, Idle, Queued
<1> QED
  BY <1>1, <1>2, <1>4 DEF FormationInv

LEMMA NextInv == FormationInv /\ [Next]_vars => FormationInv'
<1> SUFFICES ASSUME FormationInv, [Next]_vars PROVE FormationInv'
  OBVIOUS
<1>1. CASE UNCHANGED vars
  <2>1. /\ UNCHANGED <<ring, cpc, first, leaked, backlog, greeting, held, at, job, sessions>>
        /\ UNCHANGED prov
    BY <1>1 DEF vars, coord
  <2>2. Shape /\ AllReady /\ JobOK
    BY DEF FormationInv
  <2>3. UNCHANGED <<ppc, link, inbox, work, loaded, sess, next, pred>>
    BY <2>1 DEF prov
  <2>4. Shape' /\ AllReady' /\ JobOK'
    BY <2>1, <2>2, <2>3 DEF Shape, AllReady, JobOK
  <2>5. \A i \in 1..Need : Due(i)' = Due(i)
    BY <2>1 DEF Due
  <2>6. (cpc' = "check" \/ cpc' \in {"serving", "control"}) => cpc' \in Formed
    BY DEF Formed
  <2>7. ASSUME NEW p \in Provider, NEW i \in 1..Need, HeldAt(p, i),
               (cpc' = "check" /\ i < at') \/ cpc' \in {"serving", "control"}
        PROVE  ppc[p] # "connect"
    <3>1. Staged(p, i)
      BY <2>1, <2>6, <2>7 DEF FormationInv
    <3> QED
      BY <2>1, <2>7, <3>1 DEF Staged
  <2> QED
    BY <2>1, <2>4, <2>5, <2>7, QuietCoordinator
<1>2. CASE CoordinatorStep
  BY <1>2, FormReplicaStep, RejectProviderStep, RegisterStep, FailSteps, AssignStagesStep,
     ReceiveReadyStep, CheckStageStep, ControlStageStep, AcceptProviderStep DEF CoordinatorStep
<1>3. ASSUME NEW k \in {"create", "open", "destroy"}, NEW s \in Session \cup {None}, Submit(k, s)
      PROVE  FormationInv'
  BY <1>3, SubmitStep
<1>4. ASSUME NEW p \in Provider, ProviderStep(p) \/ LoadFails(p) \/ Dies(p)
      PROVE  FormationInv'
  BY <1>4, ProviderSteps
<1> QED
  BY <1>1, <1>2, <1>3, <1>4 DEF Next

\* The inductive invariant holds in every reachable state, whatever providers are
\* lost and wherever in a formation.
THEOREM FormationInvariant == Spec => []FormationInv
BY InitInv, NextInv, PTL DEF Spec

\* What the invariant says of a replica that serves.
LEMMA WholeThen == FormationInv => ServesWhole
<1> SUFFICES ASSUME FormationInv, cpc \in {"serving", "control"}, NEW i \in 1..Need
    PROVE  /\ \A j \in 1..Need : held[i].p = held[j].p => i = j
           /\ held[i].live =>
                /\ loaded[held[i].p] = i
                /\ ring => next[held[i].p] = IF i = Need THEN "back" ELSE held[i + 1].p
  BY DEF ServesWhole
<1>1. Shape /\ Distinct /\ AllReady /\ Len(held) = Need /\ cpc \in Formed /\ i \in 1..Len(held)
  BY DEF FormationInv, Shape, Formed
<1>2. \A j \in 1..Need : held[i].p = held[j].p => i = j
  BY <1>1 DEF Distinct
<1>3. ASSUME held[i].live
      PROVE  /\ loaded[held[i].p] = i
             /\ ring => next[held[i].p] = IF i = Need THEN "back" ELSE held[i + 1].p
  <2> DEFINE p == held[i].p
  <2>1. p \in Provider
    <3>1. held[i] \in AnEnd
      BY <1>1 DEF Shape
    <3> QED
      BY <3>1 DEF AnEnd
  <2>2. Staged(p, i)
    <3>1. HeldAt(p, i)
      BY <1>1, <1>3 DEF HeldAt
    <3> QED
      BY <3>1, <2>1, <1>1 DEF FormationInv
  <2>3. held[i].ready
    BY <1>1 DEF AllReady
  <2>4. ppc[p] = "serve"
    BY <2>2, <2>3 DEF Staged
  <2> QED
    BY <2>2, <2>4 DEF Staged
<1> QED
  BY <1>2, <1>3

LEMMA AgreeThen == FormationInv => SessionsAgree
<1> SUFFICES ASSUME FormationInv, cpc = "serving", NEW i \in 1..Need, held[i].live
    PROVE  sess[held[i].p] = sessions
  BY DEF SessionsAgree
<1> DEFINE p == held[i].p
<1>1. Shape /\ Len(held) = Need /\ cpc \in Formed /\ i \in 1..Len(held)
  BY DEF FormationInv, Shape, Formed
<1>2. p \in Provider
  <2>1. held[i] \in AnEnd
    BY <1>1 DEF Shape
  <2> QED
    BY <2>1 DEF AnEnd
<1>3. HeldAt(p, i)
  BY <1>1 DEF HeldAt
<1>4. sess[p] = Due(i)
  BY <1>1, <1>2, <1>3 DEF FormationInv
<1> QED
  BY <1>4 DEF Due

\* A replica that serves is whole: its stages are different providers, each that is
\* still there has its own stage's layers in memory, and in a ring each sends to the
\* next and the last to the coordinator, for any number of providers, stages and
\* losses.
THEOREM AlwaysServesWhole == Spec => []ServesWhole
BY FormationInvariant, WholeThen, PTL

\* Between operations every stage that is there holds exactly the sessions the
\* replica knows, whatever operations failed half way and whatever it held in the
\* replica before.
THEOREM AlwaysSessionsAgree == Spec => []SessionsAgree
BY FormationInvariant, AgreeThen, PTL
=============================================================================
