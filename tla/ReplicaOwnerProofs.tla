------------------------- MODULE ReplicaOwnerProofs -------------------------
(***************************************************************************)
(* Proofs about module ReplicaOwner, for any clients, capacities and       *)
(* replicas.                                                               *)
(***************************************************************************)
EXTENDS ReplicaOwner, SequenceTheorems, FiniteSetTheorems, TLAPS

-----------------------------------------------------------------------------
(***************************************************************************)
(* Which thread has a session                                              *)
(***************************************************************************)
Running == {"register", "check", "start", "stream", "commit", "reset", "verify",
            "verifyCommit", "failClose", "post", "unbusy"}
Leaving == {"left", "verifyFree", "failFree", "freed"}
Ended   == {"none", "done"}

Serving  == {"wait", "exec", "created", "destroyed", "cleanup", "cleaned", "verify",
             "failClose", "health", "yield", "dissolve"}
Forming  == {"form", "clear", "open"}
Ending   == {"disClear", "disFail", "disAbort", "disJoin", "disTell"}
Executing == {"exec", "created", "destroyed", "cleanup", "verify", "cleaned"}

Queued == [kind : Command \cup {"cleanup", "none", "sent"}, link : Link]

Types ==
    /\ setup \in Setups
    /\ main \in Serving \cup Forming \cup Ending
    /\ main \in Executing => job \in Queued
    /\ members \in {"none", "up", "cut", "down", "desync", "aborted"}
    /\ jobs \in Seq(Queued) /\ pending \in Seq(Link)
    /\ req \in [Link -> Running \cup Leaving \cup Ended]
    /\ sess \in [Link -> {"none", "idle", "busy"}]
    /\ rd \in [Link -> {"none", "recv", "push", "bye", "ended"}]
    /\ asked \in [Link -> Command \cup {"none", "sent"}]

\* The connections exist from the formation to the end of the dissolution, and
\* no request is there before the one and after the other.
Route ==
    /\ members = "none" <=> main \in {"form", "disTell"}
    /\ main \in Forming \cup {"disTell"} => pending = <<>> /\ \A l \in Link : req[l] = "none"

\* A request thread has its session's entry to itself; one that is about to free
\* the session of a client that left has taken the entry away.
Own(l) ==
    /\ req[l] \in Running => sess[l] = "busy"
    /\ req[l] \in Leaving => sess[l] = "none" /\ l \in gone

\* A request that waits for a thread is the only one of its session.
Distinct(w) == \A i, j \in DOMAIN w : w[i] = w[j] => i = j

Waiting ==
    /\ Distinct(pending)
    /\ \A i \in DOMAIN pending : sess[pending[i]] = "busy" /\ req[pending[i]] \in Ended

\* What the main thread is in the middle of.
InJob ==
    /\ main = "created" => sess[job.link] = "none" /\ req[job.link] \in Ended
    /\ main = "destroyed" => sess[job.link] = "idle"

OwnInv == Types /\ Route /\ Waiting /\ InJob /\ \A l \in Link : Own(l)

-----------------------------------------------------------------------------
(***************************************************************************)
(* Lemmas about start_requests                                             *)
(***************************************************************************)
\* The first n waiting requests get a thread, for some n.
LEMMA Starts ==
    ASSUME NEW w \in Seq(Link), setup \in Setups, StartPending(w)
    PROVE  \E n \in 0..Len(w) :
             /\ req' = [l \in Link |-> IF \E i \in 1..n : w[i] = l THEN "register" ELSE Reaped[l]]
             /\ pending' = SubSeq(w, n + 1, Len(w))
<1> DEFINE running == Cardinality({l \in Link : Reaped[l] # "none"})
           room    == IF running < RequestSlots THEN RequestSlots - running ELSE 0
           n       == IF Len(w) < room THEN Len(w) ELSE room
<1>1. running \in Nat
  <2>1. IsFiniteSet({l \in Link : Reaped[l] # "none"})
    BY OwnerConstants, FS_Subset
  <2>2. QED
    BY <2>1, FS_CardinalityType
<1>2. RequestSlots \in Nat
  BY OwnerConstants DEF RequestSlots, MaxSessions
<1>3. Len(w) \in Nat
  OBVIOUS
<1>4. room \in Nat
  <2> HIDE DEF running
  <2>1. QED
    BY <1>1, <1>2
<1>5. n \in 0..Len(w)
  <2> HIDE DEF room
  <2>1. QED
    BY <1>3, <1>4
<1>6. /\ req' = [l \in Link |-> IF \E i \in 1..n : w[i] = l THEN "register" ELSE Reaped[l]]
      /\ pending' = SubSeq(w, n + 1, Len(w))
  BY DEF StartPending
<1> HIDE DEF n
<1>7. QED
  BY <1>5, <1>6

\* What is left of a sequence without its first n.
LEMMA RestOf ==
    ASSUME NEW S, NEW w \in Seq(S), NEW n \in 0..Len(w), NEW p, p = SubSeq(w, n + 1, Len(w))
    PROVE  /\ p \in Seq(S) /\ DOMAIN p = 1..(Len(w) - n)
           /\ \A i \in 1..(Len(w) - n) : p[i] = w[n + i]
<1>1. Len(w) \in Nat /\ n \in Nat /\ n <= Len(w) /\ \A i \in 1..Len(w) : w[i] \in S
  OBVIOUS
<1>2. p \in Seq(S)
  BY <1>1
<1>3. Len(p) = Len(w) - n
  BY <1>1
<1>4. \A i \in 1..(Len(w) - n) : p[i] = w[n + i]
  BY <1>1, <1>3
<1>5. QED
  BY <1>2, <1>3, <1>4

\* No request is started twice or forgotten: what waited runs or still waits.
LEMMA StartsEach ==
    ASSUME NEW w \in Seq(Link), Types, StartPending(w), Distinct(w),
           \A i \in DOMAIN w : req[w[i]] \in Ended
    PROVE  /\ pending' \in Seq(Link) /\ Distinct(pending')
           /\ req' \in [Link -> Running \cup Leaving \cup Ended]
           /\ \A l \in Link : (\E i \in DOMAIN w : w[i] = l) =>
                  req'[l] = "register" \/ \E i \in DOMAIN pending' : pending'[i] = l
           /\ \A i \in DOMAIN pending' :
                  /\ \E j \in DOMAIN w : w[j] = pending'[i]
                  /\ req'[pending'[i]] = "none"
           /\ \A l \in Link : \/ req'[l] = "register" /\ \E i \in DOMAIN w : w[i] = l
                              \/ req'[l] = "none" /\ req[l] \in Ended
                              \/ req'[l] = req[l] /\ req[l] # "done"
<1>1. PICK n \in 0..Len(w) :
        /\ req' = [l \in Link |-> IF \E i \in 1..n : w[i] = l THEN "register" ELSE Reaped[l]]
        /\ pending' = SubSeq(w, n + 1, Len(w))
  BY Starts DEF Types
<1>2. /\ Len(w) \in Nat /\ DOMAIN w = 1..Len(w) /\ n \in Nat /\ n <= Len(w)
      /\ \A i \in 1..Len(w) : w[i] \in Link
  OBVIOUS
<1>3. /\ pending' \in Seq(Link) /\ DOMAIN pending' = 1..(Len(w) - n)
      /\ \A i \in 1..(Len(w) - n) : pending'[i] = w[n + i]
  BY <1>1, <1>2, RestOf
<1>4. Distinct(pending')
  <2>1. ASSUME NEW i \in DOMAIN pending', NEW j \in DOMAIN pending', pending'[i] = pending'[j]
        PROVE  i = j
    <3>1. i \in Nat /\ j \in Nat /\ n + i \in 1..Len(w) /\ n + j \in 1..Len(w)
      BY <1>2, <1>3
    <3>2. w[n + i] = w[n + j]
      BY <1>3, <2>1
    <3>3. n + i = n + j
      BY <1>2, <3>1, <3>2 DEF Distinct
    <3>4. QED
      BY <3>1, <3>3
  <2>2. QED
    BY <2>1 DEF Distinct
<1>5. \A l \in Link : Reaped[l] = IF req[l] = "done" THEN "none" ELSE req[l]
  BY DEF Reaped
<1>6. \A l \in Link : req'[l] = IF \E i \in 1..n : w[i] = l THEN "register" ELSE Reaped[l]
  BY <1>1
<1>7. req' \in [Link -> Running \cup Leaving \cup Ended]
  BY <1>1, <1>5 DEF Types, Running, Leaving, Ended
<1>8. ASSUME NEW l \in Link, NEW j \in DOMAIN w, w[j] = l
      PROVE  req'[l] = "register" \/ \E i \in DOMAIN pending' : pending'[i] = l
  <2>1. CASE j \in 1..n
    BY <1>6, <1>8, <2>1
  <2>2. CASE j \notin 1..n
    <3>1. j - n \in 1..(Len(w) - n) /\ n + (j - n) = j
      BY <1>2, <2>2
    <3>2. QED
      BY <1>3, <1>8, <3>1
  <2>3. QED
    BY <2>1, <2>2
<1>9. ASSUME NEW i \in DOMAIN pending'
      PROVE  (\E j \in DOMAIN w : w[j] = pending'[i]) /\ req'[pending'[i]] = "none"
  <2>1. n + i \in 1..Len(w) /\ n + i \notin 1..n /\ pending'[i] = w[n + i]
    BY <1>2, <1>3
  <2>2. ~ \E j \in 1..n : w[j] = pending'[i]
    BY <1>2, <2>1 DEF Distinct
  <2>3. pending'[i] \in Link /\ req[pending'[i]] \in Ended
    BY <1>2, <2>1
  <2>4. QED
    BY <1>2, <1>5, <1>6, <2>1, <2>2, <2>3 DEF Ended
<1>10. ASSUME NEW l \in Link
       PROVE  \/ req'[l] = "register" /\ \E i \in DOMAIN w : w[i] = l
              \/ req'[l] = "none" /\ req[l] \in Ended
              \/ req'[l] = req[l] /\ req[l] # "done"
  <2>1. CASE \E i \in 1..n : w[i] = l
    BY <1>2, <1>6, <2>1
  <2>2. CASE ~ \E i \in 1..n : w[i] = l
    BY <1>5, <1>6, <2>2 DEF Ended
  <2>3. QED
    BY <2>1, <2>2
<1>11. QED
  BY <1>3, <1>4, <1>7, <1>8, <1>9, <1>10

-----------------------------------------------------------------------------
(***************************************************************************)
(* OwnInv is inductive                                                     *)
(***************************************************************************)
LEMMA OwnInit == Init => OwnInv
  BY OwnerConstants DEF Init, OwnInv, Types, Route, Waiting, Distinct, InJob, Own, Serving, Forming,
     Ending, Executing, Queued, Running, Leaving, Ended

\* Steps that change no request, session or waiting request.
LEMMA OwnFrame ==
    ASSUME OwnInv, UNCHANGED <<req, sess, pending>>, gone \subseteq gone'
    PROVE  Waiting' /\ \A l \in Link : Own(l)'
<1>1. Waiting'
  BY DEF OwnInv, Waiting, Distinct
<1>2. \A l \in Link : Own(l)'
  BY DEF OwnInv, Own
<1>3. QED
  BY <1>1, <1>2

\* Steps of a request thread between its start and the end of its request, or
\* after it.
LEMMA RequestFrame ==
    ASSUME OwnInv, NEW l \in Link, NEW x,
           \/ req[l] \in Running /\ x \in Running
           \/ req[l] \in Leaving /\ x \in Leaving \cup {"done"},
           req' = [req EXCEPT ![l] = x],
           UNCHANGED <<setup, mainVars, jobs, pending, sess, rd, gone>>,
           members' \in {"none", "up", "cut", "down", "desync", "aborted"},
           members' = "none" <=> members = "none",
           asked' \in [Link -> Command \cup {"none", "sent"}]
    PROVE  OwnInv'
<1> USE DEF mainVars
<1>0. /\ x \in Running \cup Leaving \cup Ended /\ req[l] \notin Ended
      /\ req'[l] = x /\ \A k \in Link \ {l} : req'[k] = req[k]
  BY DEF OwnInv, Types, Running, Leaving, Ended
<1>1. Types'
  BY <1>0 DEF OwnInv, Types
<1>2. Route'
  BY <1>0 DEF OwnInv, Route, Ended
<1>3. Waiting'
  <2>1. ASSUME NEW i \in DOMAIN pending
        PROVE  pending[i] \in Link \ {l} /\ sess[pending[i]] = "busy" /\ req[pending[i]] \in Ended
    BY <1>0 DEF OwnInv, Waiting, Types
  <2>2. QED
    BY <1>0, <2>1 DEF OwnInv, Waiting, Distinct
<1>4. InJob'
  <2>1. main \in {"created", "destroyed"} => job.link \in Link
    BY DEF OwnInv, Types, Executing, Queued
  <2>2. main = "created" => req'[job.link] \in Ended
    BY <1>0, <2>1 DEF OwnInv, InJob
  <2>3. QED
    BY <2>2 DEF OwnInv, InJob
<1>5. ASSUME NEW k \in Link
      PROVE  Own(k)'
  <2>1. Own(k)
    BY DEF OwnInv
  <2>2. CASE k = l
    BY <1>0, <2>1, <2>2 DEF Own, Running, Leaving, Ended
  <2>3. CASE k # l
    BY <1>0, <2>1, <2>3 DEF Own
  <2>4. QED
    BY <2>2, <2>3
<1>6. QED
  BY <1>1, <1>2, <1>3, <1>4, <1>5 DEF OwnInv

\* The main thread forms, keeps and dissolves the replica; members fail.
LEMMA OwnReplicaSteps ==
    ASSUME OwnInv, Form \/ ClearJobs \/ OpenDoor \/ WakeBroken
             \/ Healthy \/ Unhealthy \/ GiveWay \/ ShutDoor
             \/ DissolveClears \/ DissolveFails \/ AbortMembers \/ MemberFails \/ LinkFails
             \/ RingThrows \/ RingStops, UNCHANGED setup
    PROVE  OwnInv'
<1> USE DEF mainVars, routeVars, queueVars, reqVars, sessVars, linkVars
<1>1. CASE Form
  <2>1. Waiting' /\ \A k \in Link : Own(k)'
    BY <1>1, OwnFrame DEF Form
  <2>2. Types'
    BY <1>1 DEF Form, OwnInv, Types, Queued, Serving, Forming, Ending, Executing
  <2>3. Route' /\ InJob'
    BY <1>1 DEF Form, OwnInv, Types, Route, InJob, Serving, Forming, Ending, Executing
  <2>4. QED
    BY <2>1, <2>2, <2>3 DEF OwnInv
<1>2. CASE ClearJobs
  <2>1. Waiting' /\ \A k \in Link : Own(k)'
    BY <1>2, OwnFrame DEF ClearJobs
  <2>2. Types'
    BY <1>2 DEF ClearJobs, OwnInv, Types, Queued, Serving, Forming, Ending, Executing
  <2>3. Route' /\ InJob'
    BY <1>2 DEF ClearJobs, OwnInv, Types, Route, InJob, Serving, Forming, Ending, Executing
  <2>4. QED
    BY <2>1, <2>2, <2>3 DEF OwnInv
<1>3. CASE OpenDoor
  <2>1. Waiting' /\ \A k \in Link : Own(k)'
    BY <1>3, OwnFrame DEF OpenDoor
  <2>2. Types'
    BY <1>3 DEF OpenDoor, OwnInv, Types, Queued, Serving, Forming, Ending, Executing
  <2>3. Route' /\ InJob'
    BY <1>3 DEF OpenDoor, OwnInv, Types, Route, InJob, Serving, Forming, Ending, Executing
  <2>4. QED
    BY <2>1, <2>2, <2>3 DEF OwnInv
<1>4. CASE WakeBroken
  <2>1. Waiting' /\ \A k \in Link : Own(k)'
    BY <1>4, OwnFrame DEF WakeBroken
  <2>2. Types'
    BY <1>4 DEF WakeBroken, OwnInv, Types, Queued, Serving, Forming, Ending, Executing
  <2>3. Route' /\ InJob'
    BY <1>4 DEF WakeBroken, OwnInv, Types, Route, InJob, Serving, Forming, Ending, Executing
  <2>4. QED
    BY <2>1, <2>2, <2>3 DEF OwnInv
<1>5. CASE Healthy
  <2>1. Waiting' /\ \A k \in Link : Own(k)'
    BY <1>5, OwnFrame DEF Healthy
  <2>2. Types'
    BY <1>5 DEF Healthy, OwnInv, Types, Queued, Serving, Forming, Ending, Executing
  <2>3. Route' /\ InJob'
    BY <1>5 DEF Healthy, OwnInv, Types, Route, InJob, Serving, Forming, Ending, Executing
  <2>4. QED
    BY <2>1, <2>2, <2>3 DEF OwnInv
<1>6. CASE Unhealthy
  <2>1. Waiting' /\ \A k \in Link : Own(k)'
    BY <1>6, OwnFrame DEF Unhealthy, CallThrows
  <2>2. Types'
    BY <1>6 DEF Unhealthy, CallThrows, OwnInv, Types, Queued, Serving, Forming, Ending, Executing
  <2>3. Route' /\ InJob'
    BY <1>6 DEF Unhealthy, CallThrows, OwnInv, Types, Route, InJob, Serving, Forming, Ending, Executing
  <2>4. QED
    BY <2>1, <2>2, <2>3 DEF OwnInv
<1>7. CASE GiveWay
  <2>1. Waiting' /\ \A k \in Link : Own(k)'
    BY <1>7, OwnFrame DEF GiveWay
  <2>2. Types'
    BY <1>7 DEF GiveWay, OwnInv, Types, Queued, Serving, Forming, Ending, Executing
  <2>3. Route' /\ InJob'
    BY <1>7 DEF GiveWay, OwnInv, Types, Route, InJob, Serving, Forming, Ending, Executing
  <2>4. QED
    BY <2>1, <2>2, <2>3 DEF OwnInv
<1>8. CASE ShutDoor
  <2>1. Waiting' /\ \A k \in Link : Own(k)'
    BY <1>8, OwnFrame DEF ShutDoor
  <2>2. Types'
    BY <1>8 DEF ShutDoor, OwnInv, Types, Queued, Serving, Forming, Ending, Executing
  <2>3. Route' /\ InJob'
    BY <1>8 DEF ShutDoor, OwnInv, Types, Route, InJob, Serving, Forming, Ending, Executing
  <2>4. QED
    BY <2>1, <2>2, <2>3 DEF OwnInv
<1>9. CASE DissolveClears
  <2>1. Waiting' /\ \A k \in Link : Own(k)'
    BY <1>9, OwnFrame DEF DissolveClears
  <2>2. Types'
    BY <1>9 DEF DissolveClears, OwnInv, Types, Queued, Serving, Forming, Ending, Executing
  <2>3. Route' /\ InJob'
    BY <1>9 DEF DissolveClears, OwnInv, Types, Route, InJob, Serving, Forming, Ending, Executing
  <2>4. QED
    BY <2>1, <2>2, <2>3 DEF OwnInv
<1>10. CASE DissolveFails
  <2>1. Waiting' /\ \A k \in Link : Own(k)'
    BY <1>10, OwnFrame DEF DissolveFails
  <2>2. Types'
    BY <1>10 DEF DissolveFails, OwnInv, Types, Queued, Serving, Forming, Ending, Executing
  <2>3. Route' /\ InJob'
    BY <1>10 DEF DissolveFails, OwnInv, Types, Route, InJob, Serving, Forming, Ending, Executing
  <2>4. QED
    BY <2>1, <2>2, <2>3 DEF OwnInv
<1>11. CASE AbortMembers
  <2>1. Waiting' /\ \A k \in Link : Own(k)'
    BY <1>11, OwnFrame DEF AbortMembers
  <2>2. Types'
    BY <1>11 DEF AbortMembers, OwnInv, Types, Queued, Serving, Forming, Ending, Executing
  <2>3. Route' /\ InJob'
    BY <1>11 DEF AbortMembers, OwnInv, Types, Route, InJob, Serving, Forming, Ending, Executing
  <2>4. QED
    BY <2>1, <2>2, <2>3 DEF OwnInv
<1>12. CASE MemberFails
  <2>1. Waiting' /\ \A k \in Link : Own(k)'
    BY <1>12, OwnFrame DEF MemberFails
  <2>2. Types'
    BY <1>12 DEF MemberFails, OwnInv, Types, Queued, Serving, Forming, Ending, Executing
  <2>3. Route' /\ InJob'
    BY <1>12 DEF MemberFails, OwnInv, Types, Route, InJob, Serving, Forming, Ending, Executing
  <2>4. QED
    BY <2>1, <2>2, <2>3 DEF OwnInv
<1>13. CASE RingThrows
  <2>1. Waiting' /\ \A k \in Link : Own(k)'
    BY <1>13, OwnFrame DEF RingThrows
  <2>2. Types'
    BY <1>13 DEF RingThrows, OwnInv, Types, Queued, Serving, Forming, Ending, Executing
  <2>3. Route' /\ InJob'
    BY <1>13 DEF RingThrows, OwnInv, Types, Route, InJob, Serving, Forming, Ending, Executing
  <2>4. QED
    BY <2>1, <2>2, <2>3 DEF OwnInv
<1>14. CASE RingStops
  <2>1. Waiting' /\ \A k \in Link : Own(k)'
    BY <1>14, OwnFrame DEF RingStops
  <2>2. Types'
    BY <1>14 DEF RingStops, OwnInv, Types, Queued, Serving, Forming, Ending, Executing
  <2>3. Route' /\ InJob'
    BY <1>14 DEF RingStops, OwnInv, Types, Route, InJob, Serving, Forming, Ending, Executing
  <2>4. QED
    BY <2>1, <2>2, <2>3 DEF OwnInv
<1>15. CASE LinkFails
  <2>1. Waiting' /\ \A k \in Link : Own(k)'
    BY <1>15, OwnFrame DEF LinkFails
  <2>2. Types'
    BY <1>15 DEF LinkFails, OwnInv, Types, Queued, Serving, Forming, Ending, Executing
  <2>3. Route' /\ InJob'
    BY <1>15 DEF LinkFails, OwnInv, Types, Route, InJob, Serving, Forming, Ending, Executing
  <2>4. QED
    BY <2>1, <2>2, <2>3 DEF OwnInv
<1>16. QED
  BY <1>1, <1>2, <1>3, <1>4, <1>5, <1>6, <1>7, <1>8, <1>9, <1>10, <1>11, <1>12, <1>13, <1>14, <1>15

\* The main thread executes a command that leaves the sessions as they are.
LEMMA OwnCommandSteps ==
    ASSUME OwnInv, Refuse \/ CreateSession \/ CreateRefused \/ CreateThrows \/ ResetOrPrepare
             \/ PrepareThrows \/ DestroySession \/ CleanupDestroys
             \/ Cleaned \/ CommandThrows \/ CommandRefused \/ MainFails \/ MainCloses, UNCHANGED setup
    PROVE  OwnInv'
<1> USE DEF mainVars, routeVars, queueVars, reqVars, sessVars, linkVars
<1>1. CASE Refuse
  <2>1. Waiting' /\ \A k \in Link : Own(k)'
    BY <1>1, OwnFrame DEF Refuse, Executes, Replied, JobDone
  <2>2. Types'
    BY <1>1 DEF Refuse, Executes, Replied, JobDone, OwnInv, Types, Queued, Serving, Forming, Ending, Executing
  <2>3. Route' /\ InJob'
    BY <1>1 DEF Refuse, Executes, Replied, JobDone, OwnInv, Types, Route, InJob, Serving, Forming, Ending, Executing
  <2>4. QED
    BY <2>1, <2>2, <2>3 DEF OwnInv
<1>2. CASE CreateSession
  <2>1. Waiting' /\ \A k \in Link : Own(k)'
    BY <1>2, OwnFrame DEF CreateSession, Executes, CreateAllowed
  <2>2. Types'
    BY <1>2 DEF CreateSession, Executes, CreateAllowed, OwnInv, Types, Queued, Serving, Forming, Ending, Executing
  <2>3. Route' /\ InJob'
    <3>1. job.link \in Link /\ sess[job.link] = "none" /\ job.link \notin gone
      BY <1>2 DEF CreateSession, Executes, CreateAllowed, OwnInv, Types, Executing, Queued
    <3>2. req[job.link] \in Ended
      BY <3>1 DEF OwnInv, Types, Own
    <3>3. Route'
      BY <1>2 DEF CreateSession, Executes, OwnInv, Route, Forming
    <3>4. InJob'
      BY <1>2, <3>1, <3>2 DEF CreateSession, InJob
    <3>5. QED
      BY <3>3, <3>4
  <2>4. QED
    BY <2>1, <2>2, <2>3 DEF OwnInv
<1>3. CASE CreateThrows
  <2>1. Waiting' /\ \A k \in Link : Own(k)'
    BY <1>3, OwnFrame DEF CreateThrows, Executes, CallThrows
  <2>2. Types'
    BY <1>3 DEF CreateThrows, Executes, CallThrows, OwnInv, Types, Queued, Serving, Forming, Ending, Executing
  <2>3. Route' /\ InJob'
    BY <1>3 DEF CreateThrows, Executes, CallThrows, OwnInv, Types, Route, InJob, Serving, Forming, Ending, Executing
  <2>4. QED
    BY <2>1, <2>2, <2>3 DEF OwnInv
<1>4. CASE ResetOrPrepare
  <2>1. Waiting' /\ \A k \in Link : Own(k)'
    BY <1>4, OwnFrame DEF ResetOrPrepare, Executes, Replied, JobDone
  <2>2. Types'
    BY <1>4 DEF ResetOrPrepare, Executes, Replied, JobDone, OwnInv, Types, Queued, Serving, Forming, Ending, Executing
  <2>3. Route' /\ InJob'
    BY <1>4 DEF ResetOrPrepare, Executes, Replied, JobDone, OwnInv, Types, Route, InJob, Serving, Forming, Ending, Executing
  <2>4. QED
    BY <2>1, <2>2, <2>3 DEF OwnInv
<1>5. CASE PrepareThrows
  <2>1. Waiting' /\ \A k \in Link : Own(k)'
    BY <1>5, OwnFrame DEF PrepareThrows, Executes, CallThrows, Replied, JobDone
  <2>2. Types'
    BY <1>5 DEF PrepareThrows, Executes, CallThrows, Replied, JobDone, OwnInv, Types, Queued, Serving, Forming, Ending, Executing
  <2>3. Route' /\ InJob'
    BY <1>5 DEF PrepareThrows, Executes, CallThrows, Replied, JobDone, OwnInv, Types, Route, InJob, Serving, Forming, Ending, Executing
  <2>4. QED
    BY <2>1, <2>2, <2>3 DEF OwnInv
<1>6. CASE DestroySession
  <2>1. Waiting' /\ \A k \in Link : Own(k)'
    BY <1>6, OwnFrame DEF DestroySession, Executes
  <2>2. Types'
    BY <1>6 DEF DestroySession, Executes, OwnInv, Types, Queued, Serving, Forming, Ending, Executing
  <2>3. Route' /\ InJob'
    BY <1>6 DEF DestroySession, Executes, OwnInv, Types, Route, InJob, Serving, Forming, Ending, Executing
  <2>4. QED
    BY <2>1, <2>2, <2>3 DEF OwnInv
<1>7. CASE CleanupDestroys
  <2>1. Waiting' /\ \A k \in Link : Own(k)'
    BY <1>7, OwnFrame DEF CleanupDestroys
  <2>2. Types'
    BY <1>7 DEF CleanupDestroys, OwnInv, Types, Queued, Serving, Forming, Ending, Executing
  <2>3. Route' /\ InJob'
    BY <1>7 DEF CleanupDestroys, OwnInv, Types, Route, InJob, Serving, Forming, Ending, Executing
  <2>4. QED
    BY <2>1, <2>2, <2>3 DEF OwnInv
<1>8. CASE Cleaned
  <2>1. Waiting' /\ \A k \in Link : Own(k)'
    BY <1>8, OwnFrame DEF Cleaned, JobDone
  <2>2. Types'
    BY <1>8 DEF Cleaned, JobDone, OwnInv, Types, Queued, Serving, Forming, Ending, Executing
  <2>3. Route' /\ InJob'
    BY <1>8 DEF Cleaned, JobDone, OwnInv, Types, Route, InJob, Serving, Forming, Ending, Executing
  <2>4. QED
    BY <2>1, <2>2, <2>3 DEF OwnInv
<1>9. CASE CommandThrows
  <2>1. Waiting' /\ \A k \in Link : Own(k)'
    BY <1>9, OwnFrame DEF CommandThrows, CallThrows
  <2>2. Types'
    BY <1>9 DEF CommandThrows, CallThrows, OwnInv, Types, Queued, Serving, Forming, Ending, Executing
  <2>3. Route' /\ InJob'
    BY <1>9 DEF CommandThrows, CallThrows, OwnInv, Types, Route, InJob, Serving, Forming, Ending, Executing
  <2>4. QED
    BY <2>1, <2>2, <2>3 DEF OwnInv
<1>10. CASE MainFails
  <2>1. Waiting' /\ \A k \in Link : Own(k)'
    BY <1>10, OwnFrame DEF MainFails, CallThrows
  <2>2. Types'
    BY <1>10 DEF MainFails, CallThrows, OwnInv, Types, Queued, Serving, Forming, Ending, Executing
  <2>3. Route' /\ InJob'
    BY <1>10 DEF MainFails, CallThrows, OwnInv, Types, Route, InJob, Serving, Forming, Ending, Executing
  <2>4. QED
    BY <2>1, <2>2, <2>3 DEF OwnInv
<1>11. CASE MainCloses
  <2>1. Waiting' /\ \A k \in Link : Own(k)'
    BY <1>11, OwnFrame DEF MainCloses, JobDone
  <2>2. Types'
    BY <1>11 DEF MainCloses, JobDone, OwnInv, Types, Queued, Serving, Forming, Ending, Executing
  <2>3. Route' /\ InJob'
    BY <1>11 DEF MainCloses, JobDone, OwnInv, Types, Route, InJob, Serving, Forming, Ending, Executing
  <2>4. QED
    BY <2>1, <2>2, <2>3 DEF OwnInv
<1>12. CASE CreateRefused
  <2>1. Waiting' /\ \A k \in Link : Own(k)'
    BY <1>12, OwnFrame DEF CreateRefused, Executes
  <2>2. Types'
    BY <1>12 DEF CreateRefused, Executes, OwnInv, Types, Queued, Serving, Forming, Ending, Executing
  <2>3. Route' /\ InJob'
    BY <1>12 DEF CreateRefused, Executes, OwnInv, Types, Route, InJob, Serving, Forming, Ending, Executing
  <2>4. QED
    BY <2>1, <2>2, <2>3 DEF OwnInv
<1>13. CASE CommandRefused
  <2>1. Waiting' /\ \A k \in Link : Own(k)'
    BY <1>13, OwnFrame DEF CommandRefused, GivenUp, Replied, JobDone
  <2>2. Types'
    BY <1>13 DEF CommandRefused, GivenUp, Replied, JobDone, OwnInv, Types, Queued, Serving, Forming, Ending, Executing
  <2>3. Route' /\ InJob'
    BY <1>13 DEF CommandRefused, GivenUp, Replied, JobDone, OwnInv, Types, Route, InJob, Serving, Forming, Ending, Executing
  <2>4. QED
    BY <2>1, <2>2, <2>3 DEF OwnInv
<1>14. QED
  BY <1>1, <1>2, <1>3, <1>4, <1>5, <1>6, <1>7, <1>8, <1>9, <1>10, <1>11, <1>12, <1>13

\* The readers of the connections.
LEMMA OwnClientSteps ==
    ASSUME OwnInv, NEW l \in Link,
           ClientReader(l) \/ Client(l) \/ AnswerEnds(l), UNCHANGED setup
    PROVE  OwnInv'
<1> USE DEF mainVars, routeVars, queueVars, reqVars, sessVars, linkVars
<1>1. CASE AnswerEnds(l)
  <2>1. Waiting' /\ \A k \in Link : Own(k)'
    BY <1>1, OwnFrame DEF AnswerEnds
  <2>2. Types'
    BY <1>1 DEF AnswerEnds, OwnInv, Types, Queued, Serving, Forming, Ending, Executing
  <2>3. Route' /\ InJob'
    BY <1>1 DEF AnswerEnds, OwnInv, Types, Route, InJob, Serving, Forming, Ending, Executing
  <2>4. QED
    BY <2>1, <2>2, <2>3 DEF OwnInv
<1>2. CASE Accept(l)
  <2>1. Waiting' /\ \A k \in Link : Own(k)'
    BY <1>2, OwnFrame DEF Accept
  <2>2. Types'
    BY <1>2 DEF Accept, OwnInv, Types, Queued, Serving, Forming, Ending, Executing
  <2>3. Route' /\ InJob'
    BY <1>2 DEF Accept, OwnInv, Types, Route, InJob, Serving, Forming, Ending, Executing
  <2>4. QED
    BY <2>1, <2>2, <2>3 DEF OwnInv
<1>3. CASE PushCommand(l)
  <2>1. Waiting' /\ \A k \in Link : Own(k)'
    BY <1>3, OwnFrame DEF PushCommand
  <2>2. Types'
    BY <1>3 DEF PushCommand, OwnInv, Types, Queued, Serving, Forming, Ending, Executing
  <2>3. Route' /\ InJob'
    BY <1>3 DEF PushCommand, OwnInv, Types, Route, InJob, Serving, Forming, Ending, Executing
  <2>4. QED
    BY <2>1, <2>2, <2>3 DEF OwnInv
<1>4. CASE DropClient(l)
  <2>1. Waiting' /\ \A k \in Link : Own(k)'
    BY <1>4, OwnFrame DEF DropClient
  <2>2. Types'
    BY <1>4 DEF DropClient, OwnInv, Types, Queued, Serving, Forming, Ending, Executing
  <2>3. Route' /\ InJob'
    BY <1>4 DEF DropClient, OwnInv, Types, Route, InJob, Serving, Forming, Ending, Executing
  <2>4. QED
    BY <2>1, <2>2, <2>3 DEF OwnInv
<1>5. CASE ReaderEnds(l)
  <2>1. Waiting' /\ \A k \in Link : Own(k)'
    BY <1>5, OwnFrame DEF ReaderEnds
  <2>2. Types'
    BY <1>5 DEF ReaderEnds, OwnInv, Types, Queued, Serving, Forming, Ending, Executing
  <2>3. Route' /\ InJob'
    BY <1>5 DEF ReaderEnds, OwnInv, Types, Route, InJob, Serving, Forming, Ending, Executing
  <2>4. QED
    BY <2>1, <2>2, <2>3 DEF OwnInv
<1>6. CASE PushCleanup(l)
  <2>1. Waiting' /\ \A k \in Link : Own(k)'
    BY <1>6, OwnFrame DEF PushCleanup
  <2>2. Types'
    BY <1>6 DEF PushCleanup, OwnInv, Types, Queued, Serving, Forming, Ending, Executing
  <2>3. Route' /\ InJob'
    BY <1>6 DEF PushCleanup, OwnInv, Types, Route, InJob, Serving, Forming, Ending, Executing
  <2>4. QED
    BY <2>1, <2>2, <2>3 DEF OwnInv
<1>7. CASE \E kind \in setup.commands : ReadCommand(l, kind)
  <2>1. Waiting' /\ \A k \in Link : Own(k)'
    BY <1>7, OwnFrame DEF ReadCommand
  <2>2. Types'
    <3>1. setup.commands \subseteq Command
      BY OwnerConstants DEF OwnInv, Types
    <3>2. QED
      BY <1>7, <3>1 DEF ReadCommand, OwnInv, Types
  <2>3. Route' /\ InJob'
    BY <1>7 DEF ReadCommand, OwnInv, Route, InJob
  <2>4. QED
    BY <2>1, <2>2, <2>3 DEF OwnInv
<1>8. QED
  BY <1>1, <1>2, <1>3, <1>4, <1>5, <1>6, <1>7 DEF ClientReader, Client

LEMMA OwnRequestSteps ==
    ASSUME OwnInv, NEW l \in Link, RequestThread(l), ~Unbusy(l), UNCHANGED setup
    PROVE  OwnInv'
<1> USE DEF mainVars, routeVars, queueVars, reqVars, sessVars, linkVars
<1>0. /\ members \in {"none", "up", "cut", "down", "desync", "aborted"}
      /\ asked \in [Link -> Command \cup {"none", "sent"}]
  BY DEF OwnInv, Types
<1>1. CASE RegisterInbox(l)
  BY <1>0, <1>1, RequestFrame DEF RegisterInbox, Goes, Running, Leaving
<1>2. CASE CheckBroken(l)
  BY <1>0, <1>2, RequestFrame DEF CheckBroken, Goes, Running, Leaving
<1>3. CASE StartStream(l)
  BY <1>0, <1>3, RequestFrame DEF StartStream, Goes, Running, Leaving
<1>4. CASE LastToken(l)
  BY <1>0, <1>4, RequestFrame DEF LastToken, Goes, Running, Leaving
<1>5. CASE ErrorFrame(l)
  BY <1>0, <1>5, RequestFrame DEF ErrorFrame, Goes, Running, Leaving
<1>6. CASE InboxClosed(l)
  BY <1>0, <1>6, RequestFrame DEF InboxClosed, Goes, Running, Leaving
<1>7. CASE StreamTimesOut(l)
  BY <1>0, <1>7, RequestFrame DEF StreamTimesOut, Goes, Running, Leaving
<1>8. CASE EndRequest(l)
  BY <1>0, <1>8, RequestFrame DEF EndRequest, Running, Leaving
<1>9. CASE CommitRefused(l)
  BY <1>0, <1>9, RequestFrame DEF CommitRefused, Goes, Running, Leaving
<1>10. CASE RequestThrows(l)
  BY <1>0, <1>10, RequestFrame DEF RequestThrows, CallThrows, Running, Leaving
<1>11. CASE RequestFails(l)
  BY <1>0, <1>11, RequestFrame DEF RequestFails, CallThrows, Goes, Running, Leaving
<1>12. CASE RequestCloses(l)
  BY <1>0, <1>12, RequestFrame DEF RequestCloses, Goes, Running, Leaving
<1>13. CASE PostAnswer(l)
  BY <1>0, <1>13, RequestFrame DEF PostAnswer, Goes, Replied, Running, Leaving
<1>14. CASE LeaveBroken(l)
  BY <1>0, <1>14, RequestFrame DEF LeaveBroken, Goes, Running, Leaving
<1>15. CASE FreeSession(l)
  BY <1>0, <1>15, RequestFrame DEF FreeSession, Goes, Running, Leaving
<1>16. CASE Freed(l)
  BY <1>0, <1>16, RequestFrame DEF Freed, Goes, Running, Leaving
<1>17. CASE StartRefused(l)
  BY <1>0, <1>17, RequestFrame DEF StartRefused, Goes, Running, Leaving
<1>18. CASE ResetRefused(l)
  BY <1>0, <1>18, RequestFrame DEF ResetRefused, Goes, Running, Leaving
<1>19. CASE RequestRefused(l)
  BY <1>0, <1>19, RequestFrame DEF RequestRefused, Goes, Running, Leaving
<1>20. QED
  BY <1>1, <1>2, <1>3, <1>4, <1>5, <1>6, <1>7, <1>8, <1>9, <1>10, <1>11, <1>12, <1>13, <1>14, <1>15, <1>16, <1>17, <1>18, <1>19 DEF RequestThread

\* The main thread changes a session's entry.
LEMMA OwnSessionSteps ==
    ASSUME OwnInv, Created \/ Destroyed \/ CleanupErases, UNCHANGED setup
    PROVE  OwnInv'
<1> USE DEF mainVars, routeVars, queueVars, reqVars, sessVars, linkVars
<1> DEFINE c == job.link
<1>1. c \in Link /\ main \in {"created", "destroyed", "exec"}
  BY DEF Created, Destroyed, CleanupErases, Executes, OwnInv, Types, Executing, Queued
<1>2. /\ UNCHANGED <<setup, members, jobs, pending, req, rd, gone>>
      /\ asked' \in [Link -> Command \cup {"none", "sent"}]
  BY <1>1 DEF Created, Destroyed, CleanupErases, Replied, JobDone, OwnInv, Types
<1>3. main' \in {"wait", "cleanup"} /\ (main' = "cleanup" => job' = job)
  BY DEF Created, Destroyed, CleanupErases, JobDone
<1>4. \/ sess' = sess
      \/ /\ sess[c] \in {"none", "idle"}
         /\ sess' = [sess EXCEPT ![c] = "idle"] /\ req[c] \in Ended
      \/ /\ sess[c] = "idle"
         /\ sess' = [sess EXCEPT ![c] = "none"]
  BY <1>1 DEF Created, Destroyed, CleanupErases, OwnInv, Types, InJob
<1> HIDE DEF c
<1>5. /\ sess' \in [Link -> {"none", "idle", "busy"}]
      /\ \A k \in Link : sess'[k] # sess[k] =>
            k = c /\ sess[k] # "busy" /\ sess'[k] # "busy"
                 /\ (sess'[k] = "none" \/ req[k] \in Ended)
  BY <1>1, <1>4 DEF OwnInv, Types
<1>6. Types'
  <2>1. main' \in Executing => job' \in Queued
    BY <1>1, <1>3 DEF OwnInv, Types, Executing
  <2>2. QED
    BY <1>2, <1>3, <1>5, <2>1 DEF OwnInv, Types, Serving
<1>7. Route' /\ InJob'
  BY <1>1, <1>2, <1>3 DEF OwnInv, Route, InJob, Forming
<1>8. Waiting'
  <2>1. ASSUME NEW i \in DOMAIN pending
        PROVE  pending[i] \in Link /\ sess'[pending[i]] = "busy" /\ req[pending[i]] \in Ended
    BY <1>5 DEF OwnInv, Waiting, Types
  <2>2. QED
    BY <1>2, <2>1 DEF OwnInv, Waiting, Distinct
<1>9. ASSUME NEW k \in Link
      PROVE  Own(k)'
  <2>1. Own(k)
    BY DEF OwnInv
  <2>2. CASE sess'[k] = sess[k]
    BY <1>2, <2>1, <2>2 DEF Own
  <2>3. CASE sess'[k] # sess[k]
    BY <1>2, <1>5, <2>1, <2>3 DEF Own, Running, Leaving, Ended
  <2>4. QED
    BY <2>2, <2>3
<1>10. QED
  BY <1>6, <1>7, <1>8, <1>9 DEF OwnInv

\* Requests get their threads.
LEMMA OwnStartSteps ==
    ASSUME OwnInv, WakeJob \/ WakeIdle \/ QueueRequest, UNCHANGED setup
    PROVE  OwnInv'
<1> USE DEF mainVars, routeVars, queueVars, reqVars, sessVars, linkVars
<1>1. /\ main \in {"wait", "exec"} /\ main' \in {"exec", "health", "wait"}
      /\ UNCHANGED <<setup, members, rd, asked, gone>>
  BY DEF WakeJob, WakeIdle, QueueRequest, Executes, JobDone
<1>2. jobs' \in Seq(Queued) /\ (main' = "exec" => job' \in Queued)
  <2>1. CASE WakeJob
    <3>1. jobs \in Seq(Queued) /\ jobs # <<>> /\ job' = Head(jobs) /\ jobs' = Tail(jobs)
      BY <2>1 DEF WakeJob, OwnInv, Types
    <3>2. QED
      BY <3>1
  <2>2. CASE WakeIdle \/ QueueRequest
    BY <2>2 DEF WakeIdle, QueueRequest, JobDone, OwnInv, Types
  <2>3. QED
    BY <2>1, <2>2
<1>3. PICK w \in Seq(Link) :
        /\ StartPending(w) /\ Distinct(w)
        /\ \A i \in DOMAIN w : sess'[w[i]] = "busy" /\ req[w[i]] \in Ended
  <2>1. CASE WakeJob \/ WakeIdle
    <3>1. StartPending(pending) /\ sess' = sess
      BY <2>1 DEF WakeJob, WakeIdle
    <3>2. QED
      BY <3>1 DEF OwnInv, Types, Waiting
  <2>2. CASE QueueRequest
    <3> DEFINE w == Append(pending, job.link)
    <3>1. /\ StartPending(w) /\ sess[job.link] = "idle"
          /\ sess' = [sess EXCEPT ![job.link] = "busy"]
      BY <2>2 DEF QueueRequest
    <3>2. job.link \in Link /\ pending \in Seq(Link) /\ sess' = [sess EXCEPT ![job.link] = "busy"]
      BY <2>2, <3>1 DEF QueueRequest, Executes, OwnInv, Types, Executing, Queued
    <3>3. req[job.link] \in Ended
      BY <3>1, <3>2 DEF OwnInv, Types, Own
    <3>4. /\ w \in Seq(Link) /\ DOMAIN w = 1..(Len(pending) + 1)
          /\ \A i \in 1..Len(pending) : w[i] = pending[i]
          /\ w[Len(pending) + 1] = job.link /\ Len(pending) \in Nat
          /\ DOMAIN pending = 1..Len(pending)
      BY <3>2
    <3>5. \A i \in DOMAIN pending : /\ pending[i] \in Link /\ pending[i] # job.link
                                    /\ sess[pending[i]] = "busy" /\ req[pending[i]] \in Ended
      BY <3>1, <3>2 DEF OwnInv, Waiting
    <3> HIDE DEF w
    <3>6. \A i \in DOMAIN w : i \in 1..Len(pending) \/ i = Len(pending) + 1
      BY <3>4
    <3>7. Distinct(w)
      BY <3>4, <3>5, <3>6 DEF OwnInv, Waiting, Distinct
    <3>8. ASSUME NEW i \in DOMAIN w
          PROVE  sess'[w[i]] = "busy" /\ req[w[i]] \in Ended
      BY <3>2, <3>3, <3>4, <3>5, <3>6 DEF OwnInv, Types
    <3>9. QED
      BY <3>1, <3>4, <3>7, <3>8
  <2>3. QED
    BY <2>1, <2>2
<1>4. /\ pending' \in Seq(Link) /\ Distinct(pending')
      /\ req' \in [Link -> Running \cup Leaving \cup Ended]
      /\ \A i \in DOMAIN pending' :
            /\ \E j \in DOMAIN w : w[j] = pending'[i]
            /\ req'[pending'[i]] = "none"
      /\ \A l \in Link : \/ req'[l] = "register" /\ \E i \in DOMAIN w : w[i] = l
                         \/ req'[l] = "none" /\ req[l] \in Ended
                         \/ req'[l] = req[l] /\ req[l] # "done"
  BY <1>3, StartsEach DEF OwnInv
<1>5. /\ sess' \in [Link -> {"none", "idle", "busy"}]
      /\ \A l \in Link : sess'[l] = sess[l] \/ (sess[l] = "idle" /\ sess'[l] = "busy")
  BY DEF WakeJob, WakeIdle, QueueRequest, OwnInv, Types
<1>6. Types'
  BY <1>1, <1>2, <1>4, <1>5 DEF OwnInv, Types, Serving, Executing
<1>7. Route' /\ InJob'
  BY <1>1 DEF OwnInv, Route, InJob, Forming
<1>8. Waiting'
  BY <1>3, <1>4 DEF Waiting, Ended
<1>9. ASSUME NEW l \in Link
      PROVE  Own(l)'
  <2>1. Own(l)
    BY DEF OwnInv
  <2>2. CASE req'[l] = "register"
    BY <1>3, <1>4, <2>1, <2>2, <1>5 DEF Own, Leaving, Running
  <2>3. CASE req'[l] = "none"
    BY <2>3 DEF Own, Leaving, Running
  <2>4. CASE req'[l] = req[l] /\ req[l] # "register"
    BY <1>1, <1>5, <2>1, <2>4 DEF Own
  <2>5. QED
    BY <1>4, <2>2, <2>3, <2>4
<1>10. QED
  BY <1>6, <1>7, <1>8, <1>9 DEF OwnInv

\* A request's end, and the end of a dissolution.
LEMMA OwnEndSteps ==
    ASSUME OwnInv, (\E l \in Link : Unbusy(l)) \/ ReleaseRoute \/ TellClients, UNCHANGED setup
    PROVE  OwnInv'
<1> USE DEF mainVars, routeVars, queueVars, reqVars, sessVars, linkVars
<1>1. ASSUME NEW l \in Link, Unbusy(l)
      PROVE  OwnInv'
  <2>1. /\ req[l] = "unbusy" /\ sess[l] = "busy"
        /\ req' = [req EXCEPT ![l] = IF l \in gone THEN "left" ELSE "done"]
        /\ sess' = [sess EXCEPT ![l] = IF l \in gone THEN "none" ELSE "idle"]
        /\ UNCHANGED <<setup, mainVars, members, jobs, pending, rd, asked, gone>>
    BY <1>1 DEF Unbusy, Goes, OwnInv, Own, Running
  <2>2. /\ \A k \in Link \ {l} : req'[k] = req[k] /\ sess'[k] = sess[k]
        /\ req'[l] = (IF l \in gone THEN "left" ELSE "done")
        /\ sess'[l] = (IF l \in gone THEN "none" ELSE "idle")
    BY <2>1 DEF OwnInv, Types
  <2>3. Types'
    BY <2>1 DEF OwnInv, Types, Running, Leaving, Ended
  <2>4. Route'
    BY <2>1, <2>2 DEF OwnInv, Route
  <2>5. Waiting'
    <3>1. ASSUME NEW i \in DOMAIN pending
          PROVE  pending[i] \in Link \ {l} /\ sess[pending[i]] = "busy" /\ req[pending[i]] \in Ended
      BY <2>1 DEF OwnInv, Waiting, Types, Ended
    <3>2. QED
      BY <2>1, <2>2, <3>1 DEF OwnInv, Waiting, Distinct
  <2>6. InJob'
    <3>1. main \in {"created", "destroyed"} => job.link \in Link \ {l}
      BY <2>1 DEF OwnInv, Types, Executing, Queued, InJob
    <3>2. QED
      BY <2>1, <2>2, <3>1 DEF OwnInv, InJob
  <2>7. ASSUME NEW k \in Link
        PROVE  Own(k)'
    <3>1. Own(k)
      BY DEF OwnInv
    <3>2. CASE k = l
      BY <2>1, <2>2, <3>2 DEF Own, Running, Leaving
    <3>3. CASE k # l
      BY <2>1, <2>2, <3>1, <3>3 DEF Own
    <3>4. QED
      BY <3>2, <3>3
  <2>8. QED
    BY <2>3, <2>4, <2>5, <2>6, <2>7 DEF OwnInv
<1>2. CASE ReleaseRoute
  <2>1. /\ pending' = <<>> /\ req' = [l \in Link |-> "none"] /\ members' = "none"
        /\ main' = "disTell" /\ UNCHANGED <<setup, job, jobs, sess, rd, asked, gone>>
    BY <1>2 DEF ReleaseRoute, Joined, Reaped
  <2>2. Types'
    BY <2>1 DEF OwnInv, Types, Ending, Executing, Ended
  <2>3. QED
    BY <2>1, <2>2 DEF OwnInv, Route, Waiting, Distinct, InJob, Own, Running, Leaving
<1>3. CASE TellClients
  <2>1. /\ main = "disTell" /\ main' = "form"
        /\ UNCHANGED <<setup, job, members, jobs, pending, req, rd, asked, gone>>
    BY <1>3 DEF TellClients
  <2>2. sess' \in [Link -> {"none", "idle", "busy"}]
    BY <1>3 DEF TellClients, OwnInv, Types
  <2>3. pending = <<>> /\ \A l \in Link : req[l] = "none"
    BY <2>1 DEF OwnInv, Route
  <2>4. Types'
    BY <2>1, <2>2 DEF OwnInv, Types, Forming, Executing
  <2>5. QED
    BY <2>1, <2>3, <2>4 DEF OwnInv, Route, Waiting, Distinct, InJob, Own, Running, Leaving
<1>4. QED
  BY <1>1, <1>2, <1>3

LEMMA OwnStep == OwnInv /\ [Next /\ UNCHANGED setup]_<<vars, setup>> => OwnInv'
<1> SUFFICES ASSUME OwnInv, [Next /\ UNCHANGED setup]_<<vars, setup>> PROVE OwnInv'
  OBVIOUS
<1>1. CASE UNCHANGED <<vars, setup>>
  <2> USE <1>1 DEF vars, mainVars, routeVars, queueVars, reqVars, sessVars, linkVars
  <2>1. Waiting' /\ \A k \in Link : Own(k)'
    BY OwnFrame
  <2>2. QED
    BY <2>1 DEF OwnInv, Types, Route, InJob
<1>2. CASE Next /\ UNCHANGED setup
  <2>1. CASE MainThread
    BY <1>2, <2>1, OwnReplicaSteps, OwnCommandSteps, OwnSessionSteps, OwnStartSteps, OwnEndSteps
    DEF MainThread
  <2>2. CASE RingReader \/ MemberFails \/ LinkFails
    BY <1>2, <2>2, OwnReplicaSteps DEF RingReader
  <2>3. ASSUME NEW l \in Link, RequestThread(l)
        PROVE  OwnInv'
    BY <1>2, <2>3, OwnRequestSteps, OwnEndSteps
  <2>4. ASSUME NEW l \in Link, ClientReader(l) \/ Client(l) \/ AnswerEnds(l)
        PROVE  OwnInv'
    BY <1>2, <2>4, OwnClientSteps
  <2>5. QED
    BY <1>2, <2>1, <2>2, <2>3, <2>4 DEF Next
<1>3. QED
  BY <1>1, <1>2

\* A running request has its session's entry to itself (replica_owner.cpp marks
\* it busy when it queues the request and clears that after the answer).
THEOREM OwnInvariant == Spec => []OwnInv
  BY OwnInit, OwnStep, PTL DEF Spec

\* A running request keeps its SessionState and the connections it calls: neither
\* the cleanup of a client that left, nor a command, nor a dissolution takes them
\* away from its thread.
THEOREM AlwaysRequestSafe == Spec => []RequestSafe
<1>1. OwnInv => RequestSafe
  BY DEF OwnInv, Types, Own, Route, RequestSafe, Running, Leaving, Ended, Forming
<1>2. QED
  BY <1>1, OwnInvariant, PTL

-----------------------------------------------------------------------------
(***************************************************************************)
(* Who frees a session                                                     *)
(***************************************************************************)
\* Starting requests leaves the threads that are there alone.
LEMMA StartsKeeping ==
    ASSUME OwnInv, WakeJob \/ WakeIdle \/ QueueRequest
    PROVE  \A l \in Link : req'[l] \notin {"none", "register"} => req'[l] = req[l]
<1>1. CASE WakeJob \/ WakeIdle
  <2>1. StartPending(pending) /\ pending \in Seq(Link) /\ setup \in Setups
    BY <1>1 DEF WakeJob, WakeIdle, OwnInv, Types
  <2>2. QED
    BY <2>1, Starts DEF Reaped
<1>2. CASE QueueRequest
  <2>1. /\ StartPending(Append(pending, job.link)) /\ setup \in Setups
        /\ Append(pending, job.link) \in Seq(Link)
    BY <1>2 DEF QueueRequest, Executes, OwnInv, Types, Executing, Queued
  <2>2. QED
    BY <2>1, Starts DEF Reaped
<1>3. QED
  BY <1>1, <1>2

\* Connection l has its reader, or the cleanup job it left.
Read(l) ==
    rd[l] # "ended" \/ \E i \in DOMAIN jobs : jobs[i].kind = "cleanup" /\ jobs[i].link = l

InPending(l) == \E i \in DOMAIN pending : pending[i] = l

\* The main thread is about to free the session of a client that left.
Cleaning == main = "cleanup" \/ (main = "verify" /\ job.kind = "cleanup")

Cared(l) ==
    \/ sess[l] = "busy"
    \/ sess[l] = "idle" /\ (Read(l) \/ (Executes("cleanup") /\ job.link = l))
    \/ (main = "created" \/ Cleaning) /\ job.link = l
    \/ req[l] \in {"left", "verifyFree"}
    \/ main = "dissolve" \/ (broken /\ l \in gone)

Doors ==
    /\ ready \in BOOLEAN /\ (ready <=> main \in Serving)
    /\ kv \subseteq Link /\ (main \in Forming \cup {"disTell"} => kv = {})
    /\ broken \in BOOLEAN /\ (main = "failClose" => broken)
    /\ main = "destroyed" => job.link \notin kv

\* A connection whose reader ended is gone, a request thread that gave up a
\* session found the replica broken, and a session of the replica that serves
\* has a request while it is busy and somebody who will free it.
Care(l) ==
    /\ rd[l] \in {"bye", "ended"} => l \in gone
    /\ req[l] = "failFree" => broken
    /\ main = "created" /\ job.link = l => Read(l)
    /\ ready /\ l \in kv => Cared(l) /\ (sess[l] = "busy" => req[l] \in Running \/ InPending(l))

CareInv == Doors /\ \A l \in Link : Care(l)

\* A cleanup is that of a connection that is gone.
Leavers ==
    /\ \A i \in DOMAIN jobs : jobs[i].kind = "cleanup" => jobs[i].link \in gone
    /\ main = "cleanup" => job.kind = "cleanup"
    /\ main \in {"exec", "cleanup", "verify"} /\ job.kind = "cleanup" => job.link \in gone

LEMMA CareInit == Init => CareInv
  BY DEF Init, CareInv, Doors, Care, Serving, Forming

\* Readers only add jobs, and leave a cleanup behind.
LEMMA CareClientSteps ==
    ASSUME OwnInv, CareInv, NEW c \in Link, UNCHANGED setup,
           ClientReader(c) \/ Client(c) \/ AnswerEnds(c)
    PROVE  CareInv'
<1> USE DEF mainVars, routeVars, queueVars, reqVars, sessVars, linkVars
<1>1. UNCHANGED <<main, job, ready, kv, broken, req, pending, sess>>
  BY DEF ClientReader, Client, Accept, ReadCommand, PushCommand, DropClient, ReaderEnds, PushCleanup,
     AnswerEnds
<1>2. /\ rd' \in [Link -> {"none", "recv", "push", "bye", "ended"}]
      /\ \A l \in Link : rd'[l] = rd[l] \/ rd'[l] \in {"recv", "push"} \/ l \in gone'
      /\ gone \subseteq gone'
  <2>1. \A l \in Link : rd[l] \in {"bye", "ended"} => l \in gone
    BY DEF CareInv, Care
  <2>2. QED
    BY <2>1 DEF ClientReader, Client, Accept, ReadCommand, PushCommand, DropClient, ReaderEnds,
       PushCleanup, AnswerEnds, OwnInv, Types
<1>3. ASSUME NEW l \in Link, Read(l)
      PROVE  Read(l)'
  <2>0. jobs \in Seq(Queued) /\ DOMAIN jobs = 1..Len(jobs) /\ Len(jobs) \in Nat
    BY DEF OwnInv, Types
  <2>1. CASE jobs' = jobs /\ (rd'[l] = "ended" => rd[l] = "ended")
    BY <1>3, <2>1 DEF Read
  <2>2. ASSUME NEW j \in Queued, jobs' = Append(jobs, j),
               rd'[l] = "ended" /\ rd[l] # "ended" => j.kind = "cleanup" /\ j.link = l
        PROVE  Read(l)'
    <3>1. /\ DOMAIN jobs' = 1..(Len(jobs) + 1) /\ jobs'[Len(jobs) + 1] = j
          /\ \A i \in 1..Len(jobs) : jobs'[i] = jobs[i]
      BY <2>0, <2>2
    <3>2. CASE rd[l] # "ended"
      BY <2>0, <2>2, <3>1, <3>2 DEF Read
    <3>3. CASE \E i \in DOMAIN jobs : jobs[i].kind = "cleanup" /\ jobs[i].link = l
      BY <2>0, <3>1, <3>3 DEF Read
    <3>4. QED
      BY <1>3, <3>2, <3>3 DEF Read
  <2>3. CASE PushCommand(c)
    <3>1. asked[c] \in Command \cup {"none", "sent"} /\ rd' = [rd EXCEPT ![c] = "recv"]
      BY <2>3 DEF PushCommand, OwnInv, Types
    <3>2. rd'[l] = "ended" => rd[l] = "ended"
      BY <3>1 DEF OwnInv, Types
    <3>3. [kind |-> asked[c], link |-> c] \in Queued
      BY <3>1 DEF Queued
    <3>4. QED
      BY <2>2, <2>3, <3>2, <3>3 DEF PushCommand
  <2>4. CASE PushCleanup(c)
    <3>1. rd'[l] = "ended" /\ rd[l] # "ended" => l = c
      BY <2>4 DEF PushCleanup, OwnInv, Types
    <3>2. [kind |-> "cleanup", link |-> c] \in Queued
      BY DEF Queued
    <3>3. QED
      BY <2>2, <2>4, <3>1, <3>2 DEF PushCleanup
  <2>5. CASE Client(c) \/ AnswerEnds(c)
    BY <2>1, <2>5 DEF Client, Accept, ReadCommand, DropClient, ReaderEnds, AnswerEnds, OwnInv, Types
  <2>6. QED
    BY <2>3, <2>4, <2>5 DEF ClientReader
<1>4. Doors'
  BY <1>1 DEF CareInv, Doors
<1>5. ASSUME NEW l \in Link
      PROVE  Care(l)'
  <2>1. Care(l)
    BY DEF CareInv
  <2>2. InPending(l)' <=> InPending(l)
    BY <1>1 DEF InPending
  <2>3. Cared(l) => Cared(l)'
    BY <1>1, <1>2, <1>3 DEF Cared, Cleaning, Executes
  <2>4. rd'[l] \in {"bye", "ended"} => l \in gone'
    BY <1>2, <2>1 DEF Care
  <2>5. QED
    BY <1>1, <1>3, <2>1, <2>2, <2>3, <2>4 DEF Care
<1>6. QED
  BY <1>4, <1>5 DEF CareInv

\* A request thread keeps its session until it has freed it or found the replica
\* broken.
LEMMA CareRequestFrame ==
    ASSUME OwnInv, CareInv, NEW l \in Link, NEW x,
           UNCHANGED <<main, job, ready, jobs, pending, rd, gone, sess>>, broken' \in BOOLEAN,
           req' = [req EXCEPT ![l] = x], kv' \subseteq kv, broken => broken',
           req[l] \in Running => x \in Running,
           req[l] \in {"left", "verifyFree"} =>
               x \in {"left", "verifyFree"} \/ broken' \/ l \notin kv',
           x = "failFree" => broken'
    PROVE  CareInv'
<1>1. \A k \in Link : Read(k)' <=> Read(k)
  BY DEF Read
<1>2. \A k \in Link : InPending(k)' <=> InPending(k)
  BY DEF InPending
<1>3. Doors'
  BY DEF CareInv, Doors
<1>4. ASSUME NEW k \in Link
      PROVE  Care(k)'
  <2>1. Care(k)
    BY DEF CareInv
  <2>2. k # l => req'[k] = req[k]
    BY DEF OwnInv, Types
  <2>3. req'[l] = x
    BY DEF OwnInv, Types
  <2>4. k \in kv' /\ Cared(k) => Cared(k)'
    <3>1. req[k] \in {"left", "verifyFree"} => k \in gone
      BY DEF OwnInv, Own, Leaving
    <3>2. QED
      BY <1>1, <2>2, <2>3, <3>1 DEF Cared, Cleaning, Executes
  <2>5. QED
    BY <1>1, <1>2, <2>1, <2>2, <2>3, <2>4 DEF Care
<1>5. QED
  BY <1>3, <1>4 DEF CareInv

LEMMA CareRequestSteps ==
    ASSUME OwnInv, CareInv, NEW l \in Link, RequestThread(l), UNCHANGED setup
    PROVE  CareInv'
<1> USE DEF mainVars, routeVars, queueVars, reqVars, sessVars, linkVars
<1>0. broken \in BOOLEAN
  BY DEF CareInv, Doors
<1>1. CASE RegisterInbox(l)
  BY <1>0, <1>1, CareRequestFrame DEF RegisterInbox, Goes, Running
<1>2. CASE CheckBroken(l)
  BY <1>0, <1>2, CareRequestFrame DEF CheckBroken, Goes, Running
<1>3. CASE StartStream(l)
  BY <1>0, <1>3, CareRequestFrame DEF StartStream, Goes, Running
<1>4. CASE LastToken(l)
  BY <1>0, <1>4, CareRequestFrame DEF LastToken, Goes, Running
<1>5. CASE ErrorFrame(l)
  BY <1>0, <1>5, CareRequestFrame DEF ErrorFrame, Goes, Running
<1>6. CASE InboxClosed(l)
  BY <1>0, <1>6, CareRequestFrame DEF InboxClosed, Goes, Running
<1>7. CASE StreamTimesOut(l)
  BY <1>0, <1>7, CareRequestFrame DEF StreamTimesOut, Goes, Running
<1>8. CASE EndRequest(l)
  BY <1>0, <1>8, CareRequestFrame DEF EndRequest, Running
<1>9. CASE CommitRefused(l)
  BY <1>0, <1>9, CareRequestFrame DEF CommitRefused, Goes, Running
<1>10. CASE RequestThrows(l)
  <2> DEFINE x == IF req[l] = "left" THEN "verifyFree" ELSE "verify"
  <2>1. /\ req' = [req EXCEPT ![l] = x] /\ req[l] \in Running \cup {"left"} /\ req[l] # "verifyFree"
        /\ UNCHANGED <<main, job, ready, jobs, pending, rd, gone, sess, kv, broken>>
    BY <1>10 DEF RequestThrows, Running, OwnInv, Types
  <2>2. /\ x # "failFree" /\ (req[l] \in Running => x \in Running)
        /\ req[l] = "left" => x = "verifyFree"
    BY DEF Running
  <2> HIDE DEF x
  <2>3. QED
    BY <1>0, <2>1, <2>2, CareRequestFrame
<1>11. CASE RequestFails(l)
  BY <1>0, <1>11, CareRequestFrame DEF RequestFails, Goes, Running
<1>12. CASE RequestCloses(l)
  BY <1>0, <1>12, CareRequestFrame DEF RequestCloses, Goes, CareInv, Care, Running
<1>13. CASE PostAnswer(l)
  BY <1>0, <1>13, CareRequestFrame DEF PostAnswer, Goes, Replied, Running
<1>14. CASE LeaveBroken(l)
  BY <1>0, <1>14, CareRequestFrame DEF LeaveBroken, Goes, Running
<1>15. CASE FreeSession(l)
  BY <1>0, <1>15, CareRequestFrame DEF FreeSession, Goes, Running
<1>16. CASE Freed(l)
  BY <1>0, <1>16, CareRequestFrame DEF Freed, Goes, Running
<1>17. CASE Unbusy(l)
  <2>1. /\ req[l] = "unbusy"
        /\ req' = [req EXCEPT ![l] = IF l \in gone THEN "left" ELSE "done"]
        /\ sess' = [sess EXCEPT ![l] = IF l \in gone THEN "none" ELSE "idle"]
        /\ UNCHANGED <<setup, main, job, ready, kv, broken, jobs, pending, rd, gone>>
    BY <1>17 DEF Unbusy, Goes
  <2>2. /\ \A k \in Link \ {l} : req'[k] = req[k] /\ sess'[k] = sess[k]
        /\ req'[l] = (IF l \in gone THEN "left" ELSE "done")
        /\ sess'[l] = (IF l \in gone THEN "none" ELSE "idle")
    BY <2>1 DEF OwnInv, Types
  <2>3. \A k \in Link : (Read(k)' <=> Read(k)) /\ (InPending(k)' <=> InPending(k))
    BY <2>1 DEF Read, InPending
  <2>4. Doors'
    BY <2>1 DEF CareInv, Doors
  <2>5. ASSUME NEW k \in Link
        PROVE  Care(k)'
    <3>1. Care(k)
      BY DEF CareInv
    <3>2. CASE k = l
      <4>1. l \notin gone => Read(l)
        BY <3>1, <3>2 DEF Care, Read
      <4>2. Cared(k)' /\ sess'[k] # "busy"
        BY <2>2, <2>3, <3>2, <4>1 DEF Cared
      <4>3. QED
        BY <2>1, <2>2, <2>3, <3>1, <3>2, <4>2 DEF Care
    <3>3. CASE k # l
      <4>1. Cared(k) => Cared(k)'
        BY <2>1, <2>2, <2>3, <3>3 DEF Cared, Cleaning, Executes
      <4>2. QED
        BY <2>1, <2>2, <2>3, <3>1, <3>3, <4>1 DEF Care
    <3>4. QED
      BY <3>2, <3>3
  <2>6. QED
    BY <2>4, <2>5 DEF CareInv
<1>18. CASE StartRefused(l)
  BY <1>0, <1>18, CareRequestFrame DEF StartRefused, Goes, Running
<1>19. CASE ResetRefused(l)
  BY <1>0, <1>19, CareRequestFrame DEF ResetRefused, Goes, Running
<1>20. CASE RequestRefused(l)
  BY <1>0, <1>20, CareRequestFrame DEF RequestRefused, GivenUp, Goes, Running
<1>21. QED
  BY <1>1, <1>2, <1>3, <1>4, <1>5, <1>6, <1>7, <1>8, <1>9, <1>10, <1>11, <1>12, <1>13, <1>14, <1>15, <1>16, <1>17, <1>18, <1>19, <1>20 DEF RequestThread

\* Nobody has to care for a session while no replica serves.
LEMMA CareClosed ==
    ASSUME CareInv, Doors', ready' = FALSE, main' # "created", UNCHANGED <<rd, gone>>,
           \A l \in Link : req'[l] = "failFree" => broken'
    PROVE  CareInv'
  BY DEF CareInv, Care

LEMMA CareClosedSteps ==
    ASSUME OwnInv, CareInv, UNCHANGED setup,
           \/ Form \/ ClearJobs \/ ShutDoor \/ DissolveClears \/ DissolveFails
           \/ AbortMembers \/ ReleaseRoute \/ TellClients
    PROVE  CareInv'
<1> USE DEF mainVars, routeVars, queueVars, reqVars, sessVars, linkVars
<1>1. CASE Form
  <2>1. Doors'
    BY <1>1 DEF Form, CareInv, Doors, OwnInv, Types, Serving, Forming, Ending
  <2>2. QED
    BY <1>1, <2>1, CareClosed DEF Form, CareInv, Doors, Care, Serving
<1>2. CASE ClearJobs
  <2>1. Doors'
    BY <1>2 DEF ClearJobs, CareInv, Doors, OwnInv, Types, Serving, Forming, Ending
  <2>2. QED
    BY <1>2, <2>1, CareClosed DEF ClearJobs, CareInv, Doors, Care, Serving
<1>3. CASE ShutDoor
  <2>1. Doors'
    BY <1>3 DEF ShutDoor, CareInv, Doors, OwnInv, Types, Serving, Forming, Ending
  <2>2. QED
    BY <1>3, <2>1, CareClosed DEF ShutDoor, CareInv, Doors, Care, Serving
<1>4. CASE DissolveClears
  <2>1. Doors'
    BY <1>4 DEF DissolveClears, CareInv, Doors, OwnInv, Types, Serving, Forming, Ending
  <2>2. QED
    BY <1>4, <2>1, CareClosed DEF DissolveClears, CareInv, Doors, Care, Serving
<1>5. CASE DissolveFails
  <2>1. Doors'
    BY <1>5 DEF DissolveFails, CareInv, Doors, OwnInv, Types, Serving, Forming, Ending
  <2>2. QED
    BY <1>5, <2>1, CareClosed DEF DissolveFails, CareInv, Doors, Care, Serving
<1>6. CASE AbortMembers
  <2>1. Doors'
    BY <1>6 DEF AbortMembers, CareInv, Doors, OwnInv, Types, Serving, Forming, Ending
  <2>2. QED
    BY <1>6, <2>1, CareClosed DEF AbortMembers, CareInv, Doors, Care, Serving
<1>7. CASE ReleaseRoute
  <2>1. Doors'
    BY <1>7 DEF ReleaseRoute, Joined, Reaped, CareInv, Doors, OwnInv, Types, Serving, Forming, Ending
  <2>2. QED
    BY <1>7, <2>1, CareClosed DEF ReleaseRoute, Joined, Reaped, CareInv, Doors, Care, Serving
<1>8. CASE TellClients
  <2>1. Doors'
    BY <1>8 DEF TellClients, CareInv, Doors, OwnInv, Types, Serving, Forming, Ending
  <2>2. QED
    BY <1>8, <2>1, CareClosed DEF TellClients, CareInv, Doors, Care, Serving
<1>9. QED
  BY <1>1, <1>2, <1>3, <1>4, <1>5, <1>6, <1>7, <1>8

LEMMA CareRouteSteps ==
    ASSUME OwnInv, CareInv, UNCHANGED setup,
           \/ OpenDoor \/ Healthy \/ Unhealthy \/ GiveWay \/ RingThrows \/ RingStops
           \/ MemberFails \/ LinkFails
    PROVE  CareInv'
<1> USE DEF mainVars, routeVars, queueVars, reqVars, sessVars, linkVars
<1>1. CASE OpenDoor
  <2>1. Doors'
    BY <1>1 DEF OpenDoor, Executes, CareInv, Doors, OwnInv, Types, Serving, Forming, Ending
  <2>2. ASSUME NEW l \in Link
        PROVE  Care(l)'
    <3>1. Care(l) /\ (Read(l)' <=> Read(l)) /\ (InPending(l)' <=> InPending(l))
      BY <1>1 DEF OpenDoor, Executes, CareInv, Read, InPending
    <3>2. QED
      BY <1>1, <3>1, <2>1 DEF OpenDoor, Executes, Care, Cared, Cleaning, Doors, CareInv, Serving, Forming
  <2>3. QED
    BY <2>1, <2>2 DEF CareInv
<1>2. CASE Healthy
  <2>1. Doors'
    BY <1>2 DEF Healthy, Executes, CareInv, Doors, OwnInv, Types, Serving, Forming, Ending
  <2>2. ASSUME NEW l \in Link
        PROVE  Care(l)'
    <3>1. Care(l) /\ (Read(l)' <=> Read(l)) /\ (InPending(l)' <=> InPending(l))
      BY <1>2 DEF Healthy, Executes, CareInv, Read, InPending
    <3>2. QED
      BY <1>2, <3>1, <2>1 DEF Healthy, Executes, Care, Cared, Cleaning, Doors, CareInv, Serving, Forming
  <2>3. QED
    BY <2>1, <2>2 DEF CareInv
<1>3. CASE Unhealthy
  <2>1. Doors'
    BY <1>3 DEF Unhealthy, Executes, CareInv, Doors, OwnInv, Types, Serving, Forming, Ending
  <2>2. ASSUME NEW l \in Link
        PROVE  Care(l)'
    <3>1. Care(l) /\ (Read(l)' <=> Read(l)) /\ (InPending(l)' <=> InPending(l))
      BY <1>3 DEF Unhealthy, Executes, CareInv, Read, InPending
    <3>2. QED
      BY <1>3, <3>1, <2>1 DEF Unhealthy, Executes, Care, Cared, Cleaning, Doors, CareInv, Serving, Forming
  <2>3. QED
    BY <2>1, <2>2 DEF CareInv
<1>4. CASE GiveWay
  <2>1. Doors'
    BY <1>4 DEF GiveWay, Executes, CareInv, Doors, OwnInv, Types, Serving, Forming, Ending
  <2>2. ASSUME NEW l \in Link
        PROVE  Care(l)'
    <3>1. Care(l) /\ (Read(l)' <=> Read(l)) /\ (InPending(l)' <=> InPending(l))
      BY <1>4 DEF GiveWay, Executes, CareInv, Read, InPending
    <3>2. QED
      BY <1>4, <3>1, <2>1 DEF GiveWay, Executes, Care, Cared, Cleaning, Doors, CareInv, Serving, Forming
  <2>3. QED
    BY <2>1, <2>2 DEF CareInv
<1>5. CASE RingThrows
  <2>1. Doors'
    BY <1>5 DEF RingThrows, Executes, CareInv, Doors, OwnInv, Types, Serving, Forming, Ending
  <2>2. ASSUME NEW l \in Link
        PROVE  Care(l)'
    <3>1. Care(l) /\ (Read(l)' <=> Read(l)) /\ (InPending(l)' <=> InPending(l))
      BY <1>5 DEF RingThrows, Executes, CareInv, Read, InPending
    <3>2. QED
      BY <1>5, <3>1, <2>1 DEF RingThrows, Executes, Care, Cared, Cleaning, Doors, CareInv, Serving, Forming
  <2>3. QED
    BY <2>1, <2>2 DEF CareInv
<1>6. CASE RingStops
  <2>1. Doors'
    BY <1>6 DEF RingStops, Executes, CareInv, Doors, OwnInv, Types, Serving, Forming, Ending
  <2>2. ASSUME NEW l \in Link
        PROVE  Care(l)'
    <3>1. Care(l) /\ (Read(l)' <=> Read(l)) /\ (InPending(l)' <=> InPending(l))
      BY <1>6 DEF RingStops, Executes, CareInv, Read, InPending
    <3>2. QED
      BY <1>6, <3>1, <2>1 DEF RingStops, Executes, Care, Cared, Cleaning, Doors, CareInv, Serving, Forming
  <2>3. QED
    BY <2>1, <2>2 DEF CareInv
<1>7. CASE MemberFails
  <2>1. Doors'
    BY <1>7 DEF MemberFails, Executes, CareInv, Doors, OwnInv, Types, Serving, Forming, Ending
  <2>2. ASSUME NEW l \in Link
        PROVE  Care(l)'
    <3>1. Care(l) /\ (Read(l)' <=> Read(l)) /\ (InPending(l)' <=> InPending(l))
      BY <1>7 DEF MemberFails, Executes, CareInv, Read, InPending
    <3>2. QED
      BY <1>7, <3>1, <2>1 DEF MemberFails, Executes, Care, Cared, Cleaning, Doors, CareInv, Serving, Forming
  <2>3. QED
    BY <2>1, <2>2 DEF CareInv
<1>8. CASE LinkFails
  <2>1. Doors'
    BY <1>8 DEF LinkFails, Executes, CareInv, Doors, OwnInv, Types, Serving, Forming, Ending
  <2>2. ASSUME NEW l \in Link
        PROVE  Care(l)'
    <3>1. Care(l) /\ (Read(l)' <=> Read(l)) /\ (InPending(l)' <=> InPending(l))
      BY <1>8 DEF LinkFails, Executes, CareInv, Read, InPending
    <3>2. QED
      BY <1>8, <3>1, <2>1 DEF LinkFails, Executes, Care, Cared, Cleaning, Doors, CareInv, Serving, Forming
  <2>3. QED
    BY <2>1, <2>2 DEF CareInv
<1>9. QED
  BY <1>1, <1>2, <1>3, <1>4, <1>5, <1>6, <1>7, <1>8

LEMMA CareCommandSteps ==
    ASSUME OwnInv, CareInv, Leavers, UNCHANGED setup,
           \/ Refuse \/ CreateRefused \/ CreateThrows \/ ResetOrPrepare \/ PrepareThrows \/ DestroySession
           \/ CleanupDestroys \/ Cleaned \/ CommandThrows \/ CommandRefused
           \/ MainFails \/ MainCloses
    PROVE  CareInv'
<1> USE DEF mainVars, routeVars, queueVars, reqVars, sessVars, linkVars
<1>1. CASE Refuse
  <2>1. Doors'
    BY <1>1 DEF Refuse, Executes, JobDone, CareInv, Doors, OwnInv, Types, Serving, Forming, Ending
  <2>2. ASSUME NEW l \in Link
        PROVE  Care(l)'
    <3>1. Care(l) /\ (Read(l)' <=> Read(l)) /\ (InPending(l)' <=> InPending(l))
      BY <1>1 DEF Refuse, Executes, JobDone, CareInv, Read, InPending
    <3>2. QED
      BY <1>1, <3>1, <2>1 DEF Refuse, Executes, JobDone, Care, Cared, Cleaning, Doors, CareInv, Serving, Forming
  <2>3. QED
    BY <2>1, <2>2 DEF CareInv
<1>2. CASE CreateThrows
  <2>1. Doors'
    BY <1>2 DEF CreateThrows, Executes, CareInv, Doors, OwnInv, Types, Serving, Forming, Ending
  <2>2. ASSUME NEW l \in Link
        PROVE  Care(l)'
    <3>1. Care(l) /\ (Read(l)' <=> Read(l)) /\ (InPending(l)' <=> InPending(l))
      BY <1>2 DEF CreateThrows, Executes, CareInv, Read, InPending
    <3>2. QED
      BY <1>2, <3>1, <2>1 DEF CreateThrows, Executes, Care, Cared, Cleaning, Doors, CareInv, Serving, Forming
  <2>3. QED
    BY <2>1, <2>2 DEF CareInv
<1>3. CASE ResetOrPrepare
  <2>1. Doors'
    BY <1>3 DEF ResetOrPrepare, JobDone, Executes, CareInv, Doors, OwnInv, Types, Serving, Forming, Ending
  <2>2. ASSUME NEW l \in Link
        PROVE  Care(l)'
    <3>1. Care(l) /\ (Read(l)' <=> Read(l)) /\ (InPending(l)' <=> InPending(l))
      BY <1>3 DEF ResetOrPrepare, JobDone, Executes, CareInv, Read, InPending
    <3>2. QED
      BY <1>3, <3>1, <2>1 DEF ResetOrPrepare, JobDone, Executes, Care, Cared, Cleaning, Doors, CareInv, Serving, Forming
  <2>3. QED
    BY <2>1, <2>2 DEF CareInv
<1>4. CASE PrepareThrows
  <2>1. Doors'
    BY <1>4 DEF PrepareThrows, Executes, JobDone, CareInv, Doors, OwnInv, Types, Serving, Forming, Ending
  <2>2. ASSUME NEW l \in Link
        PROVE  Care(l)'
    <3>1. Care(l) /\ (Read(l)' <=> Read(l)) /\ (InPending(l)' <=> InPending(l))
      BY <1>4 DEF PrepareThrows, Executes, JobDone, CareInv, Read, InPending
    <3>2. QED
      BY <1>4, <3>1, <2>1 DEF PrepareThrows, Executes, JobDone, Care, Cared, Cleaning, Doors, CareInv, Serving, Forming
  <2>3. QED
    BY <2>1, <2>2 DEF CareInv
<1>5. CASE DestroySession
  <2>1. Doors'
    BY <1>5 DEF DestroySession, Executes, CareInv, Doors, OwnInv, Types, Serving, Forming, Ending
  <2>2. ASSUME NEW l \in Link
        PROVE  Care(l)'
    <3>1. Care(l) /\ (Read(l)' <=> Read(l)) /\ (InPending(l)' <=> InPending(l))
      BY <1>5 DEF DestroySession, Executes, CareInv, Read, InPending
    <3>2. QED
      BY <1>5, <3>1, <2>1 DEF DestroySession, Executes, Care, Cared, Cleaning, Doors, CareInv, Serving, Forming
  <2>3. QED
    BY <2>1, <2>2 DEF CareInv
<1>6. CASE CleanupDestroys
  <2>1. Doors'
    BY <1>6 DEF Leavers, CleanupDestroys, Executes, CareInv, Doors, OwnInv, Types, Serving, Forming, Ending
  <2>2. ASSUME NEW l \in Link
        PROVE  Care(l)'
    <3>1. Care(l) /\ (Read(l)' <=> Read(l)) /\ (InPending(l)' <=> InPending(l))
      BY <1>6 DEF Leavers, CleanupDestroys, Executes, CareInv, Read, InPending
    <3>2. QED
      BY <1>6, <3>1, <2>1 DEF Leavers, CleanupDestroys, Executes, Care, Cared, Cleaning, Doors, CareInv, Serving, Forming
  <2>3. QED
    BY <2>1, <2>2 DEF CareInv
<1>7. CASE Cleaned
  <2>1. Doors'
    BY <1>7 DEF Cleaned, JobDone, Executes, CareInv, Doors, OwnInv, Types, Serving, Forming, Ending
  <2>2. ASSUME NEW l \in Link
        PROVE  Care(l)'
    <3>1. Care(l) /\ (Read(l)' <=> Read(l)) /\ (InPending(l)' <=> InPending(l))
      BY <1>7 DEF Cleaned, JobDone, Executes, CareInv, Read, InPending
    <3>2. QED
      BY <1>7, <3>1, <2>1 DEF Cleaned, JobDone, Executes, Care, Cared, Cleaning, Doors, CareInv, Serving, Forming
  <2>3. QED
    BY <2>1, <2>2 DEF CareInv
<1>8. CASE CommandThrows
  <2>1. Doors'
    BY <1>8 DEF CommandThrows, Executes, CareInv, Doors, OwnInv, Types, Serving, Forming, Ending
  <2>2. ASSUME NEW l \in Link
        PROVE  Care(l)'
    <3>1. Care(l) /\ (Read(l)' <=> Read(l)) /\ (InPending(l)' <=> InPending(l))
      BY <1>8 DEF CommandThrows, Executes, CareInv, Read, InPending
    <3>2. QED
      BY <1>8, <3>1, <2>1 DEF Leavers, CommandThrows, Executes, Care, Cared, Cleaning, Doors, CareInv, Serving, Forming
  <2>3. QED
    BY <2>1, <2>2 DEF CareInv
<1>9. CASE MainFails
  <2>1. Doors'
    BY <1>9 DEF Leavers, MainFails, Executes, CareInv, Doors, OwnInv, Types, Serving, Forming, Ending
  <2>2. ASSUME NEW l \in Link
        PROVE  Care(l)'
    <3>1. Care(l) /\ (Read(l)' <=> Read(l)) /\ (InPending(l)' <=> InPending(l))
      BY <1>9 DEF Leavers, MainFails, Executes, CareInv, Read, InPending
    <3>2. QED
      BY <1>9, <3>1, <2>1 DEF Leavers, MainFails, Executes, Care, Cared, Cleaning, Doors, CareInv, Serving, Forming
  <2>3. QED
    BY <2>1, <2>2 DEF CareInv
<1>10. CASE MainCloses
  <2>1. Doors'
    BY <1>10 DEF MainCloses, JobDone, Executes, CareInv, Doors, OwnInv, Types, Serving, Forming, Ending
  <2>2. ASSUME NEW l \in Link
        PROVE  Care(l)'
    <3>1. Care(l) /\ (Read(l)' <=> Read(l)) /\ (InPending(l)' <=> InPending(l))
      BY <1>10 DEF MainCloses, JobDone, Executes, CareInv, Read, InPending
    <3>2. QED
      BY <1>10, <3>1, <2>1 DEF MainCloses, JobDone, Executes, Care, Cared, Cleaning, Doors, CareInv, Serving, Forming
  <2>3. QED
    BY <2>1, <2>2 DEF CareInv
<1>11. CASE CreateRefused
  <2>1. Doors'
    BY <1>11 DEF CreateRefused, Executes, CareInv, Doors, OwnInv, Types, Serving, Forming, Ending
  <2>2. ASSUME NEW l \in Link
        PROVE  Care(l)'
    <3>1. Care(l) /\ (Read(l)' <=> Read(l)) /\ (InPending(l)' <=> InPending(l))
      BY <1>11 DEF CreateRefused, Executes, CareInv, Read, InPending
    <3>2. QED
      BY <1>11, <3>1, <2>1 DEF CreateRefused, Executes, Care, Cared, Cleaning, Doors, CareInv, Serving, Forming
  <2>3. QED
    BY <2>1, <2>2 DEF CareInv
<1>12. CASE CommandRefused
  <2>1. Doors'
    BY <1>12 DEF CommandRefused, GivenUp, JobDone, Executes, CareInv, Doors, OwnInv, Types, Serving, Forming, Ending
  <2>2. ASSUME NEW l \in Link
        PROVE  Care(l)'
    <3>1. Care(l) /\ (Read(l)' <=> Read(l)) /\ (InPending(l)' <=> InPending(l))
      BY <1>12 DEF CommandRefused, GivenUp, JobDone, Executes, CareInv, Read, InPending
    <3>2. QED
      BY <1>12, <3>1, <2>1 DEF CommandRefused, GivenUp, JobDone, Executes, Care, Cared, Cleaning, Doors, CareInv, Serving, Forming
  <2>3. QED
    BY <2>1, <2>2 DEF CareInv
<1>13. QED
  BY <1>1, <1>2, <1>3, <1>4, <1>5, <1>6, <1>7, <1>8, <1>9, <1>10, <1>11, <1>12

\* A session is created for a connection that still has its reader.
LEMMA CareCreateSession ==
    ASSUME OwnInv, CareInv, UNCHANGED setup, CreateSession
    PROVE  CareInv'
<1> USE DEF mainVars, routeVars, queueVars, reqVars, sessVars, linkVars
<1>1. job.link \in Link /\ job.link \notin gone
  BY DEF CreateSession, Executes, CreateAllowed, OwnInv, Types, Executing, Queued
<1>2. /\ main = "exec" /\ main' = "created" /\ kv' = kv \cup {job.link}
      /\ UNCHANGED <<job, ready, broken, req, sess, pending, jobs, rd, gone>>
      /\ sess[job.link] = "none"
  BY DEF CreateSession, Executes, CreateAllowed
<1>3. Doors'
  BY <1>1, <1>2 DEF CareInv, Doors, Serving, Forming
<1>4. ASSUME NEW l \in Link
      PROVE  Care(l)'
  <2>1. Care(l) /\ (Read(l)' <=> Read(l)) /\ (InPending(l)' <=> InPending(l))
    BY <1>2 DEF CareInv, Read, InPending
  <2>2. l = job.link => Read(l)
    BY <1>1, <2>1 DEF Care, Read
  <2>3. CASE l = job.link
    BY <1>2, <2>1, <2>2, <2>3 DEF Care, Cared
  <2>4. CASE l # job.link
    <3>1. ready /\ l \in kv => Cared(l)'
      <4>1. job.kind = "create"
        BY DEF CreateSession, Executes
      <4>2. QED
        BY <1>2, <2>1, <4>1 DEF Care, Cared, Cleaning, Executes
    <3>2. QED
      BY <1>2, <2>1, <2>4, <3>1 DEF Care
  <2>5. QED
    BY <2>3, <2>4
<1>5. QED
  BY <1>3, <1>4 DEF CareInv

\* An entry is made for a session that its reader or cleanup will look at, and
\* taken away only with the session or by the cleanup that frees it.
LEMMA CareSessionSteps ==
    ASSUME OwnInv, CareInv, UNCHANGED setup, Created \/ Destroyed \/ CleanupErases
    PROVE  CareInv'
<1> USE DEF mainVars, routeVars, queueVars, reqVars, sessVars, linkVars
<1>1. job.link \in Link
  BY DEF Created, Destroyed, CleanupErases, Executes, OwnInv, Types, Executing, Queued
<1>2. UNCHANGED <<ready, kv, broken, req, pending, jobs, rd, gone>>
  BY DEF Created, Destroyed, CleanupErases
<1>3. \A l \in Link : Care(l) /\ (Read(l)' <=> Read(l)) /\ (InPending(l)' <=> InPending(l))
  BY <1>2 DEF CareInv, Read, InPending
<1>4. \A l \in Link \ {job.link} : sess'[l] = sess[l]
  BY <1>1 DEF Created, Destroyed, CleanupErases, OwnInv, Types
<1>5. Doors'
  BY <1>2 DEF Created, Destroyed, CleanupErases, Executes, JobDone, CareInv, Doors, Serving, Forming
<1>6. main' # "created"
  BY DEF Created, Destroyed, CleanupErases, Executes, JobDone
<1>7. ASSUME NEW l \in Link, l # job.link
      PROVE  Care(l)'
  <2>1. Cared(l) => Cared(l)'
    BY <1>1, <1>2, <1>3, <1>4, <1>7 DEF Cared, Cleaning, Created, Destroyed, CleanupErases, Executes, JobDone
  <2>2. QED
    BY <1>2, <1>3, <1>4, <1>6, <1>7, <2>1 DEF Care
<1>8. ASSUME NEW l \in Link, l = job.link
      PROVE  Care(l)'
  <2>1. CASE Created
    <3>1. sess'[l] = "idle" /\ Read(l)
      BY <1>3, <1>8, <2>1 DEF Created, OwnInv, Types, Care
    <3>2. QED
      BY <1>2, <1>3, <1>6, <3>1 DEF Care, Cared
  <2>2. CASE Destroyed
    <3>1. l \notin kv
      BY <1>8, <2>2 DEF Destroyed, CareInv, Doors
    <3>2. QED
      BY <1>2, <1>3, <1>6, <3>1 DEF Care
  <2>3. CASE CleanupErases
    <3>1. CASE sess[l] = "idle"
      <4>1. sess'[l] = "none" /\ main' = "cleanup" /\ job'.link = l
        BY <1>1, <1>8, <2>3, <3>1 DEF CleanupErases, OwnInv, Types
      <4>2. QED
        BY <1>2, <1>3, <1>6, <4>1 DEF Care, Cared, Cleaning
    <3>2. CASE sess[l] # "idle"
      <4>1. sess'[l] = sess[l] /\ main = "exec"
        BY <1>1, <1>8, <2>3, <3>2 DEF CleanupErases, Executes, OwnInv, Types
      <4>2. Cared(l) => Cared(l)'
        BY <1>2, <3>2, <4>1 DEF Cared, Cleaning
      <4>3. QED
        BY <1>2, <1>3, <1>6, <4>1, <4>2 DEF Care
    <3>3. QED
      BY <3>1, <3>2
  <2>4. QED
    BY <2>1, <2>2, <2>3
<1>9. QED
  BY <1>5, <1>7, <1>8 DEF CareInv

LEMMA CareWakeBroken ==
    ASSUME OwnInv, CareInv, UNCHANGED setup, WakeBroken
    PROVE  CareInv'
<1> USE DEF mainVars, routeVars, queueVars, reqVars, sessVars, linkVars
<1>1. /\ broken /\ main = "wait" /\ main' = "dissolve"
      /\ UNCHANGED <<job, ready, kv, broken, req, sess, pending, rd, gone>>
  BY DEF WakeBroken
<1>2. Doors'
  BY <1>1 DEF CareInv, Doors, Serving, Forming
<1>3. ASSUME NEW l \in Link
      PROVE  Care(l)'
  <2>1. Care(l) /\ (InPending(l)' <=> InPending(l))
    BY <1>1 DEF CareInv, InPending
  <2>2. Cared(l)'
    BY <1>1 DEF Cared
  <2>3. QED
    BY <1>1, <2>1, <2>2 DEF Care
<1>4. QED
  BY <1>2, <1>3 DEF CareInv

\* Taking a job or starting requests forgets nobody: what waited runs or still
\* waits, and the cleanup that is taken is executed.
\* A request that is queued makes its session busy and waits or runs; the other
\* threads stay where they are.
LEMMA StartsEntry ==
    ASSUME OwnInv, WakeJob \/ WakeIdle \/ QueueRequest, NEW l \in Link
    PROVE  /\ sess'[l] = sess[l] \/ (sess[l] = "idle" /\ sess'[l] = "busy")
           /\ InPending(l) \/ (sess[l] = "idle" /\ sess'[l] = "busy") =>
                  req'[l] = "register" \/ InPending(l)'
           /\ req[l] \notin Ended => req'[l] = req[l]
           /\ req'[l] = "failFree" => req[l] = "failFree"
<1> USE DEF mainVars, routeVars, queueVars, reqVars, sessVars, linkVars
<1>1. CASE WakeJob \/ WakeIdle
  <2>1. StartPending(pending) /\ sess' = sess
    BY <1>1 DEF WakeJob, WakeIdle
  <2>2. pending \in Seq(Link) /\ Types /\ Distinct(pending) /\ \A i \in DOMAIN pending : req[pending[i]] \in Ended
    BY DEF OwnInv, Types, Waiting
  <2>3. /\ InPending(l) => req'[l] = "register" \/ InPending(l)'
        /\ \/ req'[l] = "register" /\ \E i \in DOMAIN pending : pending[i] = l
           \/ req'[l] = "none" /\ req[l] \in Ended
           \/ req'[l] = req[l] /\ req[l] # "done"
    BY <2>1, <2>2, StartsEach DEF InPending
  <2>4. QED
    BY <2>1, <2>2, <2>3 DEF Ended
<1>2. CASE QueueRequest
  <2> DEFINE w == Append(pending, job.link)
  <2>1. /\ StartPending(w) /\ sess[job.link] = "idle"
        /\ sess' = [sess EXCEPT ![job.link] = "busy"]
    BY <1>2 DEF QueueRequest
  <2>2. job.link \in Link /\ pending \in Seq(Link) /\ Types
    BY <1>2, <2>1 DEF QueueRequest, Executes, OwnInv, Types, Executing, Queued
  <2>3. req[job.link] \in Ended
    BY <2>1, <2>2 DEF OwnInv, Types, Own
  <2>4. /\ w \in Seq(Link) /\ DOMAIN w = 1..(Len(pending) + 1)
        /\ \A i \in 1..Len(pending) : w[i] = pending[i]
        /\ w[Len(pending) + 1] = job.link /\ Len(pending) \in Nat
        /\ DOMAIN pending = 1..Len(pending)
    BY <2>2
  <2>5. \A i \in DOMAIN pending : /\ pending[i] \in Link /\ pending[i] # job.link
                                  /\ req[pending[i]] \in Ended
    BY <2>1, <2>2 DEF OwnInv, Waiting
  <2> HIDE DEF w
  <2>6. \A i \in DOMAIN w : i \in 1..Len(pending) \/ i = Len(pending) + 1
    BY <2>4
  <2>7. Distinct(w)
    BY <2>4, <2>5, <2>6 DEF OwnInv, Waiting, Distinct
  <2>8. \A i \in DOMAIN w : req[w[i]] \in Ended
    BY <2>3, <2>4, <2>5, <2>6
  <2>9. /\ (\E i \in DOMAIN w : w[i] = l) => req'[l] = "register" \/ InPending(l)'
        /\ \/ req'[l] = "register" /\ \E i \in DOMAIN w : w[i] = l
           \/ req'[l] = "none" /\ req[l] \in Ended
           \/ req'[l] = req[l] /\ req[l] # "done"
    <3>1. /\ (\E i \in DOMAIN w : w[i] = l) =>
                 req'[l] = "register" \/ \E i \in DOMAIN pending' : pending'[i] = l
          /\ \/ req'[l] = "register" /\ \E i \in DOMAIN w : w[i] = l
             \/ req'[l] = "none" /\ req[l] \in Ended
             \/ req'[l] = req[l] /\ req[l] # "done"
      <4>1. w \in Seq(Link) /\ StartPending(w) /\ Types
        BY <2>1, <2>2, <2>4
      <4>2. QED
        BY <2>7, <2>8, <4>1, StartsEach, Zenon
    <3>2. QED
      BY <3>1 DEF InPending
  <2>10. sess'[l] = sess[l] \/ (l = job.link /\ sess[l] = "idle" /\ sess'[l] = "busy")
    BY <2>1, <2>2 DEF Types
  <2>11. InPending(l) \/ l = job.link => \E i \in DOMAIN w : w[i] = l
    BY <2>4 DEF InPending
  <2>12. QED
    BY <2>8, <2>9, <2>10, <2>11 DEF Ended
<1>3. QED
  BY <1>1, <1>2

LEMMA CareStartSteps ==
    ASSUME OwnInv, CareInv, UNCHANGED setup, WakeJob \/ WakeIdle \/ QueueRequest
    PROVE  CareInv'
<1> USE DEF mainVars, routeVars, queueVars, reqVars, sessVars, linkVars
<1>1. /\ main \in {"wait", "exec"} /\ main' \in {"exec", "health", "wait"}
      /\ UNCHANGED <<ready, kv, broken, rd, gone>>
  BY DEF WakeJob, WakeIdle, QueueRequest, Executes, JobDone
<1>2. Doors'
  BY <1>1 DEF CareInv, Doors, Serving, Forming
<1>3. ASSUME NEW l \in Link
      PROVE  /\ sess'[l] = sess[l] \/ (sess[l] = "idle" /\ sess'[l] = "busy")
             /\ InPending(l) \/ (sess[l] = "idle" /\ sess'[l] = "busy") =>
                    req'[l] = "register" \/ InPending(l)'
             /\ req[l] \notin Ended => req'[l] = req[l]
             /\ req'[l] = "failFree" => req[l] = "failFree"
  BY StartsEntry
<1>4. ASSUME NEW l \in Link, Read(l) \/ (Executes("cleanup") /\ job.link = l)
      PROVE  Read(l)' \/ (Executes("cleanup") /\ job.link = l)'
  <2>1. CASE WakeJob
    <3>1. /\ jobs \in Seq(Queued) /\ jobs # <<>> /\ job' = Head(jobs) /\ jobs' = Tail(jobs)
          /\ main = "wait" /\ main' = "exec"
      BY <2>1 DEF WakeJob, OwnInv, Types
    <3>2. /\ DOMAIN jobs = 1..Len(jobs) /\ Len(jobs) \in Nat /\ Len(jobs) > 0
          /\ job' = jobs[1] /\ DOMAIN jobs' = 1..(Len(jobs) - 1)
          /\ \A i \in 1..(Len(jobs) - 1) : jobs'[i] = jobs[i + 1]
      BY <3>1
    <3>3. CASE rd[l] # "ended"
      BY <1>1, <3>3 DEF Read
    <3>4. ASSUME NEW i \in DOMAIN jobs, jobs[i].kind = "cleanup", jobs[i].link = l
          PROVE  Read(l)' \/ (Executes("cleanup") /\ job.link = l)'
      <4>1. CASE i = 1
        BY <3>1, <3>2, <3>4, <4>1 DEF Executes
      <4>2. CASE i # 1
        <5>1. i - 1 \in DOMAIN jobs' /\ jobs'[i - 1] = jobs[i]
          <6>1. i - 1 \in 1..(Len(jobs) - 1) /\ (i - 1) + 1 = i
            BY <3>2, <4>2
          <6>2. QED
            BY <3>2, <6>1
        <5>2. QED
          BY <3>4, <5>1 DEF Read
      <4>3. QED
        BY <4>1, <4>2
    <3>5. QED
      BY <1>4, <3>1, <3>3, <3>4 DEF Read, Executes
  <2>2. CASE WakeIdle \/ QueueRequest
    <3>1. Read(l) /\ jobs' = jobs
      BY <1>4, <2>2 DEF WakeIdle, QueueRequest, Executes
    <3>2. QED
      BY <1>1, <3>1 DEF Read
  <2>3. QED
    BY <2>1, <2>2
<1>5. ASSUME NEW l \in Link
      PROVE  Care(l)'
  <2>1. Care(l)
    BY DEF CareInv
  <2>2. Cared(l) => Cared(l)'
    <3>1. sess'[l] = "busy" \/ sess'[l] = sess[l]
      BY <1>3
    <3>2. req[l] \in {"left", "verifyFree"} => req'[l] = req[l]
      BY <1>3 DEF Ended
    <3>3. QED
      BY <1>1, <1>4, <3>1, <3>2 DEF Cared, Cleaning
  <2>3. ready /\ l \in kv /\ sess'[l] = "busy" => req'[l] \in Running \/ InPending(l)'
    BY <1>3, <2>1 DEF Care, Running, Ended
  <2>4. QED
    BY <1>1, <1>3, <2>1, <2>2, <2>3 DEF Care
<1>6. QED
  BY <1>2, <1>5 DEF CareInv

LEMMA TailTaken ==
    ASSUME NEW S, NEW w \in Seq(S), w # <<>>
    PROVE  /\ \A i \in DOMAIN Tail(w) : \E j \in DOMAIN w : Tail(w)[i] = w[j]
           /\ \E j \in DOMAIN w : Head(w) = w[j]
<1>1. /\ DOMAIN w = 1..Len(w) /\ Len(w) \in Nat /\ Len(w) > 0 /\ Head(w) = w[1]
      /\ DOMAIN Tail(w) = 1..(Len(w) - 1)
      /\ \A i \in 1..(Len(w) - 1) : Tail(w)[i] = w[i + 1]
  OBVIOUS
<1>2. \A i \in 1..(Len(w) - 1) : i + 1 \in 1..Len(w)
  BY <1>1
<1>3. 1 \in DOMAIN w
  BY <1>1
<1>4. QED
  BY <1>1, <1>2, <1>3

LEMMA LeaversInit == Init => Leavers
  BY DEF Init, Leavers

\* Jobs that are kept or taken are those that were there.
LEMMA LeaversFrame ==
    ASSUME Leavers, gone \subseteq gone',
           \A i \in DOMAIN jobs' : \E j \in DOMAIN jobs : jobs'[i] = jobs[j],
           \/ main' \notin {"exec", "cleanup", "verify"}
           \/ main' = "exec" /\ \E j \in DOMAIN jobs : job' = jobs[j]
           \/ main \in {"exec", "cleanup", "verify"} /\ main' = main /\ job' = job
           \/ main \in {"exec", "cleanup", "verify"} /\ main' = "verify" /\ job' = job
           \/ main = "exec" /\ main' = "cleanup" /\ job.kind = "cleanup" /\ job' = job
    PROVE  Leavers'
  BY DEF Leavers

LEMMA LeaversMainSteps ==
    ASSUME OwnInv, Leavers, MainThread
    PROVE  Leavers'
<1> USE DEF mainVars, routeVars, queueVars, reqVars, sessVars, linkVars
<1>0. jobs \in Seq(Queued) /\ gone' = gone
  BY DEF OwnInv, Types, MainThread, Form, ClearJobs, OpenDoor, WakeBroken, WakeJob, WakeIdle, Healthy,
     Unhealthy, GiveWay, Refuse, CreateSession, CreateRefused, CreateThrows, Created, ResetOrPrepare,
     PrepareThrows, DestroySession, Destroyed, CleanupErases, CleanupDestroys, Cleaned, CommandThrows,
     CommandRefused, MainFails, MainCloses, QueueRequest, ShutDoor, DissolveClears, DissolveFails,
     AbortMembers, ReleaseRoute, TellClients
<1>1. CASE WakeJob
  <2>1. jobs # <<>> /\ job' = Head(jobs) /\ jobs' = Tail(jobs) /\ main' = "exec"
    BY <1>1 DEF WakeJob
  <2>2. /\ \A i \in DOMAIN jobs' : \E j \in DOMAIN jobs : jobs'[i] = jobs[j]
        /\ \E j \in DOMAIN jobs : job' = jobs[j]
    BY <1>0, <2>1, TailTaken
  <2>3. QED
    BY <1>0, <2>1, <2>2, LeaversFrame
<1>2. CASE WakeBroken
  <2>1. main' = "dissolve" /\ (jobs' = jobs \/ (jobs # <<>> /\ jobs' = Tail(jobs)))
    BY <1>2 DEF WakeBroken
  <2>2. \A i \in DOMAIN jobs' : \E j \in DOMAIN jobs : jobs'[i] = jobs[j]
    <3>1. CASE jobs' = jobs
      BY <3>1
    <3>2. CASE jobs # <<>> /\ jobs' = Tail(jobs)
      BY <1>0, <3>2, TailTaken
    <3>3. QED
      BY <2>1, <3>1, <3>2
  <2>3. QED
    BY <1>0, <2>1, <2>2, LeaversFrame
<1>3. CASE ClearJobs \/ DissolveClears
  <2>1. jobs' = <<>> /\ main' \in {"open", "disFail"}
    BY <1>3 DEF ClearJobs, DissolveClears
  <2>2. QED
    BY <2>1 DEF Leavers
<1>4. CASE CommandThrows
  <2>1. main \in {"exec", "cleanup"} /\ main' = "verify" /\ UNCHANGED <<job, jobs>>
    BY <1>4 DEF CommandThrows
  <2>2. QED
    BY <1>0, <2>1, LeaversFrame
<1>5. CASE CleanupErases
  <2>1. /\ main = "exec" /\ job.kind = "cleanup" /\ UNCHANGED jobs
        /\ main' = "wait" \/ (main' = "cleanup" /\ job' = job)
    BY <1>5 DEF CleanupErases, Executes, JobDone
  <2>2. QED
    BY <1>0, <2>1, LeaversFrame
<1>6. CASE ~WakeJob /\ ~WakeBroken /\ ~ClearJobs /\ ~DissolveClears /\ ~CommandThrows /\ ~CleanupErases
  <2>1. jobs' = jobs /\ main' \notin {"exec", "cleanup", "verify"}
    BY <1>6 DEF MainThread, Form, OpenDoor, WakeIdle, Healthy, Unhealthy, GiveWay, Refuse,
       CreateSession, CreateRefused, CreateThrows, Created, ResetOrPrepare, PrepareThrows,
       DestroySession, Destroyed, CleanupDestroys, Cleaned, CommandRefused, MainFails, MainCloses,
       QueueRequest, ShutDoor, DissolveFails, AbortMembers, ReleaseRoute, TellClients, JobDone
  <2>2. QED
    BY <1>0, <2>1, LeaversFrame
<1>7. QED
  BY <1>1, <1>2, <1>3, <1>4, <1>5, <1>6

LEMMA LeaversStep ==
    OwnInv /\ CareInv /\ Leavers /\ [Next /\ UNCHANGED setup]_<<vars, setup>> => Leavers'
<1> SUFFICES ASSUME OwnInv, CareInv, Leavers, [Next /\ UNCHANGED setup]_<<vars, setup>>
             PROVE  Leavers'
  OBVIOUS
<1> USE DEF mainVars, routeVars, queueVars, reqVars, sessVars, linkVars
<1>1. CASE UNCHANGED <<vars, setup>>
  BY <1>1 DEF vars, Leavers
<1>2. CASE RingReader \/ MemberFails \/ LinkFails
  <2>1. UNCHANGED <<main, job, jobs, gone>>
    BY <1>2 DEF RingReader, RingThrows, RingStops, MemberFails, LinkFails
  <2>2. QED
    BY <2>1 DEF Leavers
<1>3. ASSUME NEW l \in Link, RequestThread(l)
      PROVE  Leavers'
  <2>1. UNCHANGED <<main, job, jobs, gone>>
    BY <1>3 DEF RequestThread, RegisterInbox, CheckBroken, StartStream, LastToken, ErrorFrame, InboxClosed,
       StreamTimesOut, EndRequest, CommitRefused, StartRefused, ResetRefused, RequestRefused,
       RequestThrows, RequestFails, RequestCloses, PostAnswer, Unbusy, LeaveBroken, FreeSession, Freed
  <2>2. QED
    BY <2>1 DEF Leavers
<1>4. ASSUME NEW c \in Link, ClientReader(c) \/ Client(c) \/ AnswerEnds(c)
      PROVE  Leavers'
  <2>0. jobs \in Seq(Queued) /\ asked[c] \in Command \cup {"none", "sent"}
    BY DEF OwnInv, Types
  <2>1. UNCHANGED <<main, job>> /\ gone \subseteq gone'
    BY <1>4 DEF ClientReader, Client, Accept, ReadCommand, PushCommand, DropClient, ReaderEnds,
       PushCleanup, AnswerEnds
  <2>2. ASSUME NEW j, jobs' = Append(jobs, j), j.kind = "cleanup" => j.link \in gone
        PROVE  Leavers'
    <3>1. \A i \in DOMAIN jobs' : jobs'[i] = j \/ (i \in DOMAIN jobs /\ jobs'[i] = jobs[i])
      BY <2>0, <2>2
    <3>2. QED
      BY <2>1, <2>2, <3>1 DEF Leavers
  <2>3. CASE PushCommand(c)
    <3>1. jobs' = Append(jobs, [kind |-> asked[c], link |-> c]) /\ asked[c] # "cleanup"
      BY <2>0, <2>3 DEF PushCommand, Command
    <3>2. QED
      BY <2>2, <3>1
  <2>4. CASE PushCleanup(c)
    <3>1. jobs' = Append(jobs, [kind |-> "cleanup", link |-> c]) /\ c \in gone
      BY <2>4 DEF PushCleanup, CareInv, Care
    <3>2. QED
      BY <2>2, <3>1
  <2>5. CASE Client(c) \/ AnswerEnds(c)
    <3>1. jobs' = jobs
      BY <2>5 DEF Client, Accept, ReadCommand, DropClient, ReaderEnds, AnswerEnds
    <3>2. QED
      BY <2>1, <3>1 DEF Leavers
  <2>6. QED
    BY <1>4, <2>3, <2>4, <2>5 DEF ClientReader
<1>5. QED
  BY <1>1, <1>2, <1>3, <1>4, LeaversMainSteps DEF Next

LEMMA CareStep == OwnInv /\ CareInv /\ Leavers /\ [Next /\ UNCHANGED setup]_<<vars, setup>> => CareInv'
<1> SUFFICES ASSUME OwnInv, CareInv, Leavers, [Next /\ UNCHANGED setup]_<<vars, setup>> PROVE CareInv'
  OBVIOUS
<1>1. CASE UNCHANGED <<vars, setup>>
  <2> USE <1>1 DEF vars, mainVars, routeVars, queueVars, reqVars, sessVars, linkVars
  <2>1. Doors'
    BY DEF CareInv, Doors
  <2>2. ASSUME NEW l \in Link
        PROVE  Care(l)'
    <3>1. Care(l) /\ (Read(l)' <=> Read(l)) /\ (InPending(l)' <=> InPending(l))
      BY DEF CareInv, Read, InPending
    <3>2. QED
      BY <3>1 DEF Care, Cared, Cleaning, Executes
  <2>3. QED
    BY <2>1, <2>2 DEF CareInv
<1>2. CASE Next /\ UNCHANGED setup
  <2>1. CASE MainThread
    BY <1>2, <2>1, CareClosedSteps, CareRouteSteps, CareCommandSteps, CareCreateSession,
       CareSessionSteps, CareWakeBroken, CareStartSteps
    DEF MainThread
  <2>2. CASE RingReader \/ MemberFails \/ LinkFails
    BY <1>2, <2>2, CareRouteSteps DEF RingReader
  <2>3. ASSUME NEW l \in Link, RequestThread(l)
        PROVE  CareInv'
    BY <1>2, <2>3, CareRequestSteps
  <2>4. ASSUME NEW l \in Link, ClientReader(l) \/ Client(l) \/ AnswerEnds(l)
        PROVE  CareInv'
    BY <1>2, <2>4, CareClientSteps
  <2>5. QED
    BY <1>2, <2>1, <2>2, <2>3, <2>4 DEF Next
<1>3. QED
  BY <1>1, <1>2

\* A session on the members has a connection in somebody's hands, or a thread in
\* the middle of creating or freeing it, as long as nothing has failed.
THEOREM CareInvariant == Spec => []CareInv
  BY CareInit, CareStep, LeaversInit, LeaversStep, OwnInvariant, PTL DEF Spec

\* A session that is given up while every member answers is one that a member
\* refuses to destroy.
LeakInv ==
    /\ leaked \subseteq stuck
    /\ main = "verify" /\ job.kind = "cleanup" /\ members \in {"up", "cut"} => job.link \in stuck
    /\ \A l \in Link : req[l] = "verifyFree" /\ members \in {"up", "cut"} => l \in stuck

LEMMA LeakInit == Init => LeakInv
  BY DEF Init, LeakInv

LEMMA LeakMainSteps ==
    ASSUME OwnInv, LeakInv, MainThread
    PROVE  LeakInv'
<1> USE DEF mainVars, routeVars, queueVars, reqVars, sessVars, linkVars
<1>1. CASE Form \/ ReleaseRoute
  <2>1. leaked' = {} /\ main' \in {"clear", "disTell"} /\ \A l \in Link : req'[l] # "verifyFree"
    BY <1>1 DEF Form, ReleaseRoute, Joined, Reaped, OwnInv, Route, Forming
  <2>2. QED
    BY <2>1 DEF LeakInv
<1>2. CASE CommandThrows
  <2>1. /\ UNCHANGED <<stuck, leaked, req, job>>
        /\ members' \notin {"up", "cut"} \/ (job.link \in stuck /\ members' = members)
    BY <1>2 DEF CommandThrows, CallThrows
  <2>2. QED
    BY <2>1 DEF LeakInv
<1>3. CASE CommandRefused
  <2>1. /\ UNCHANGED <<stuck, req, members>> /\ main' # "verify"
        /\ leaked' = leaked \/ (leaked' \subseteq leaked \cup {job.link} /\ job.kind = "cleanup")
        /\ main = "verify" /\ members \in {"up", "cut"}
    BY <1>3 DEF CommandRefused, GivenUp, JobDone, CallOK
  <2>2. QED
    BY <2>1 DEF LeakInv
<1>4. CASE WakeJob \/ WakeIdle \/ QueueRequest
  <2>1. UNCHANGED <<stuck, leaked, members>> /\ main' # "verify"
    BY <1>4 DEF WakeJob, WakeIdle, QueueRequest, JobDone
  <2>2. \A l \in Link : req'[l] = "verifyFree" => req[l] = "verifyFree"
    BY <1>4, StartsKeeping
  <2>3. QED
    BY <2>1, <2>2 DEF LeakInv
<1>5. CASE Unhealthy \/ CreateThrows \/ PrepareThrows \/ MainFails \/ AbortMembers
  <2>1. members' \notin {"up", "cut"} /\ UNCHANGED <<stuck, leaked>>
    BY <1>5 DEF Unhealthy, CreateThrows, PrepareThrows, MainFails, AbortMembers, CallThrows
  <2>2. QED
    BY <2>1 DEF LeakInv
<1>6. CASE \/ ClearJobs \/ OpenDoor \/ WakeBroken \/ Healthy \/ GiveWay \/ Refuse \/ CreateSession
           \/ CreateRefused \/ Created \/ ResetOrPrepare \/ DestroySession \/ Destroyed
           \/ CleanupErases \/ CleanupDestroys \/ Cleaned \/ MainCloses \/ ShutDoor
           \/ DissolveClears \/ DissolveFails \/ TellClients
  <2>1. UNCHANGED <<stuck, leaked, members, req>> /\ main' # "verify"
    BY <1>6 DEF ClearJobs, OpenDoor, WakeBroken, Healthy, GiveWay, Refuse, CreateSession,
       CreateRefused, Created, ResetOrPrepare, DestroySession, Destroyed, CleanupErases,
       CleanupDestroys, Cleaned, MainCloses, ShutDoor, DissolveClears, DissolveFails, TellClients,
       JobDone
  <2>2. QED
    BY <2>1 DEF LeakInv
<1>7. QED
  BY <1>1, <1>2, <1>3, <1>4, <1>5, <1>6 DEF MainThread

LEMMA LeakRequestSteps ==
    ASSUME OwnInv, LeakInv, NEW r \in Link, RequestThread(r)
    PROVE  LeakInv'
<1> USE DEF mainVars, routeVars, queueVars, reqVars, sessVars, linkVars
<1>0. req \in [Link -> Running \cup Leaving \cup Ended]
  BY DEF OwnInv, Types
<1>1. CASE RequestThrows(r) \/ RequestFails(r)
  <2>1. UNCHANGED <<stuck, leaked>> /\ members' \notin {"up", "cut"}
    BY <1>1 DEF RequestThrows, RequestFails, CallThrows
  <2>2. QED
    BY <2>1 DEF LeakInv
<1>2. CASE ResetRefused(r)
  <2>1. UNCHANGED <<stuck, leaked, members, main, job>> /\ r \in stuck
    BY <1>2 DEF ResetRefused
  <2>2. \A l \in Link : req'[l] = "verifyFree" => req[l] = "verifyFree" \/ l = r
    BY <1>0, <1>2 DEF ResetRefused, Goes
  <2>3. QED
    BY <2>1, <2>2 DEF LeakInv
<1>3. CASE RequestRefused(r)
  <2>1. /\ UNCHANGED <<stuck, members, main, job>> /\ members \in {"up", "cut"}
        /\ leaked' = leaked \/ (leaked' \subseteq leaked \cup {r} /\ req[r] = "verifyFree")
    BY <1>3 DEF RequestRefused, GivenUp, Goes, CallOK
  <2>2. \A l \in Link : req'[l] = "verifyFree" => req[l] = "verifyFree"
    BY <1>0, <1>3 DEF RequestRefused, Goes
  <2>3. QED
    BY <2>1, <2>2 DEF LeakInv
<1>4. CASE ~RequestThrows(r) /\ ~RequestFails(r) /\ ~ResetRefused(r) /\ ~RequestRefused(r)
  <2>1. UNCHANGED <<leaked, members, main, job>> /\ stuck \subseteq stuck'
    BY <1>4 DEF RequestThread, RegisterInbox, CheckBroken, StartStream, StartRefused, LastToken,
       ErrorFrame, StuckToo, InboxClosed, StreamTimesOut, EndRequest, CommitRefused, RequestCloses,
       PostAnswer, Unbusy, LeaveBroken, FreeSession, Freed
  <2>2. \A l \in Link : req'[l] = "verifyFree" => req[l] = "verifyFree"
    BY <1>0, <1>4 DEF RequestThread, RegisterInbox, CheckBroken, StartStream, StartRefused, LastToken,
       ErrorFrame, InboxClosed, StreamTimesOut, EndRequest, CommitRefused, RequestCloses,
       PostAnswer, Unbusy, LeaveBroken, FreeSession, Freed, Goes
  <2>3. QED
    BY <2>1, <2>2 DEF LeakInv
<1>5. QED
  BY <1>1, <1>2, <1>3, <1>4

LEMMA LeakStep == OwnInv /\ LeakInv /\ [Next /\ UNCHANGED setup]_<<vars, setup>> => LeakInv'
<1> SUFFICES ASSUME OwnInv, LeakInv, [Next /\ UNCHANGED setup]_<<vars, setup>> PROVE LeakInv'
  OBVIOUS
<1> USE DEF mainVars, routeVars, queueVars, reqVars, sessVars, linkVars
<1>1. CASE UNCHANGED <<vars, setup>>
  BY <1>1 DEF vars, LeakInv
<1>2. CASE RingReader \/ MemberFails \/ LinkFails
  <2>1. /\ UNCHANGED <<main, job, req, leaked>> /\ stuck \subseteq stuck'
        /\ members' \in {"up", "cut"} => members \in {"up", "cut"}
    BY <1>2 DEF RingReader, RingThrows, RingStops, MemberFails, LinkFails
  <2>2. QED
    BY <2>1 DEF LeakInv
<1>3. ASSUME NEW l \in Link, ClientReader(l) \/ Client(l) \/ AnswerEnds(l)
      PROVE  LeakInv'
  <2>1. UNCHANGED <<main, job, req, members, stuck, leaked>>
    BY <1>3 DEF ClientReader, Client, Accept, ReadCommand, PushCommand, DropClient, ReaderEnds,
       PushCleanup, AnswerEnds
  <2>2. QED
    BY <2>1 DEF LeakInv
<1>4. QED
  BY <1>1, <1>2, <1>3, LeakMainSteps, LeakRequestSteps DEF Next

\* A session on the members of a replica that serves always has somebody who will
\* free it: a client that leaves before, during or after its request, or while its
\* session is being created, leaves no session behind that nobody looks at.  The
\* sessions that are left behind all the same are ones that a member refused to
\* destroy (replica_owner.cpp ignores the refusal and does not try again).
THEOREM AlwaysNoOrphans == Spec => []NoOrphans
<1>1. OwnInv /\ CareInv /\ LeakInv => NoOrphans
  <2> SUFFICES ASSUME OwnInv, CareInv, LeakInv, ready, ~broken, NEW l \in kv
               PROVE  \/ sess[l] # "none" /\ InHand(l)
                      \/ main \in {"created", "cleanup", "verify"} /\ job.link = l
                      \/ req[l] \in {"left", "verifyFree"}
                      \/ main = "dissolve"
    BY DEF NoOrphans, LeakInv
  <2>1. l \in Link
    BY DEF CareInv, Doors
  <2>2. Care(l)
    BY <2>1 DEF CareInv
  <2>3. Read(l) => InHand(l)
    BY DEF Read, InHand
  <2>4. req[l] \in Running \/ InPending(l) => InHand(l)
    BY DEF InHand, InPending, Running
  <2>5. Executes("cleanup") /\ job.link = l => InHand(l)
    BY DEF InHand
  <2>6. QED
    BY <2>2, <2>3, <2>4, <2>5 DEF Care, Cared, Cleaning
<1>2. QED
  BY <1>1, CareInvariant, OwnInvariant, LeakInit, LeakStep, PTL DEF Spec

-----------------------------------------------------------------------------
(***************************************************************************)
(* The count of sessions                                                   *)
(***************************************************************************)
\* A job of connection l is queued or executed.
Addressed(l) ==
    \/ \E i \in DOMAIN jobs : jobs[i].link = l
    \/ main \in Executing /\ job.link = l

\* Every entry is that of a connection which the next dissolution will clear: no
\* connection of the replica before makes one.
Listed(l) ==
    /\ main \in Serving \cup {"disClear"} /\ sess[l] # "none" => l \in links
    /\ main \in {"disFail", "disAbort", "disJoin", "disTell"} /\ sess[l] # "none" => l \in notify
    /\ main \in Forming => sess[l] = "none"
    /\ ready /\ l \notin links => rd[l] \in {"none", "ended"}
    /\ Addressed(l) => rd[l] # "none"
    /\ main = "created" /\ job.link = l => l \in links

\* Every entry has its session on the members, and so has what a thread is about
\* to free.
Kept(l) ==
    /\ ready /\ sess[l] # "none" => l \in kv \/ (main = "destroyed" /\ job.link = l)
    /\ ready /\ req[l] \in {"left", "verifyFree"} => l \in kv
    /\ (main = "created" \/ Cleaning) /\ job.link = l => l \in kv
    /\ Cleaning /\ job.link = l => sess[l] = "none" /\ req[l] \in Ended

Freeing == {l \in Link : req[l] = "freed"}
Numbered == ready \/ main \in {"clear", "open"}

Counts ==
    /\ inUse \in 0..(Wrap - 1)
    /\ Numbered =>
          /\ Cardinality(kv) + Overcounted = inUse + Uncounted
          /\ Cardinality(kv) <= MaxSessions

-----------------------------------------------------------------------------
LEMMA ListedInit == Init => \A l \in Link : Listed(l)
  BY DEF Init, Listed, Addressed, Serving, Forming, Executing

\* Steps that leave the connections and their entries alone.
LEMMA ListedFrame ==
    ASSUME NEW l \in Link, Listed(l), UNCHANGED <<sess, links, notify, rd>>,
           Addressed(l)' => Addressed(l),
           main' \in Serving \cup {"disClear"} => main \in Serving \cup {"disClear"},
           main' \in {"disFail", "disAbort", "disJoin", "disTell"} =>
               main \in {"disFail", "disAbort", "disJoin", "disTell"},
           main' \in Forming => main \in Forming,
           ready' => ready,
           main' = "created" => main = "created" /\ job' = job
    PROVE  Listed(l)'
  BY DEF Listed

LEMMA ListedFrameSteps ==
    ASSUME NEW l \in Link, Listed(l), CareInv, UNCHANGED setup,
           \/ Form \/ Healthy \/ Unhealthy \/ GiveWay \/ Refuse \/ CreateThrows
           \/ ResetOrPrepare \/ PrepareThrows \/ DestroySession \/ CleanupDestroys
           \/ Cleaned \/ CommandThrows \/ MainFails \/ MainCloses \/ ShutDoor
           \/ DissolveFails \/ AbortMembers \/ ReleaseRoute \/ RingThrows \/ RingStops
           \/ MemberFails \/ LinkFails \/ CreateRefused \/ CommandRefused
    PROVE  Listed(l)'
<1> USE DEF mainVars, routeVars, queueVars, reqVars, sessVars, linkVars
<1>1. CASE Form
  <2>1. Addressed(l)' => Addressed(l)
    BY <1>1 DEF Form, Addressed, Executing
  <2>2. QED
    BY <1>1, <2>1, ListedFrame DEF Form, Serving, Forming, Ending, Executing, CareInv, Doors
<1>2. CASE Healthy
  <2>1. Addressed(l)' => Addressed(l)
    BY <1>2 DEF Healthy, Addressed, Executing
  <2>2. QED
    BY <1>2, <2>1, ListedFrame DEF Healthy, Serving, Forming, Ending, Executing, CareInv, Doors
<1>3. CASE Unhealthy
  <2>1. Addressed(l)' => Addressed(l)
    BY <1>3 DEF Unhealthy, Addressed, Executing
  <2>2. QED
    BY <1>3, <2>1, ListedFrame DEF Unhealthy, Serving, Forming, Ending, Executing, CareInv, Doors
<1>4. CASE GiveWay
  <2>1. Addressed(l)' => Addressed(l)
    BY <1>4 DEF GiveWay, Addressed, Executing
  <2>2. QED
    BY <1>4, <2>1, ListedFrame DEF GiveWay, Serving, Forming, Ending, Executing, CareInv, Doors
<1>5. CASE Refuse
  <2>1. Addressed(l)' => Addressed(l)
    BY <1>5 DEF Refuse, Executes, JobDone, Addressed, Executing
  <2>2. QED
    BY <1>5, <2>1, ListedFrame DEF Refuse, Executes, JobDone, Serving, Forming, Ending, Executing, CareInv, Doors
<1>6. CASE CreateThrows
  <2>1. Addressed(l)' => Addressed(l)
    BY <1>6 DEF CreateThrows, Executes, Addressed, Executing
  <2>2. QED
    BY <1>6, <2>1, ListedFrame DEF CreateThrows, Executes, Serving, Forming, Ending, Executing, CareInv, Doors
<1>7. CASE ResetOrPrepare
  <2>1. Addressed(l)' => Addressed(l)
    BY <1>7 DEF ResetOrPrepare, Executes, JobDone, Addressed, Executing
  <2>2. QED
    BY <1>7, <2>1, ListedFrame DEF ResetOrPrepare, Executes, JobDone, Serving, Forming, Ending, Executing, CareInv, Doors
<1>8. CASE PrepareThrows
  <2>1. Addressed(l)' => Addressed(l)
    BY <1>8 DEF PrepareThrows, Executes, JobDone, Addressed, Executing
  <2>2. QED
    BY <1>8, <2>1, ListedFrame DEF PrepareThrows, Executes, JobDone, Serving, Forming, Ending, Executing, CareInv, Doors
<1>9. CASE DestroySession
  <2>1. Addressed(l)' => Addressed(l)
    BY <1>9 DEF DestroySession, Executes, Addressed, Executing
  <2>2. QED
    BY <1>9, <2>1, ListedFrame DEF DestroySession, Executes, Serving, Forming, Ending, Executing, CareInv, Doors
<1>10. CASE CleanupDestroys
  <2>1. Addressed(l)' => Addressed(l)
    BY <1>10 DEF CleanupDestroys, Addressed, Executing
  <2>2. QED
    BY <1>10, <2>1, ListedFrame DEF CleanupDestroys, Serving, Forming, Ending, Executing, CareInv, Doors
<1>11. CASE Cleaned
  <2>1. Addressed(l)' => Addressed(l)
    BY <1>11 DEF Cleaned, JobDone, Addressed, Executing
  <2>2. QED
    BY <1>11, <2>1, ListedFrame DEF Cleaned, JobDone, Serving, Forming, Ending, Executing, CareInv, Doors
<1>12. CASE CommandThrows
  <2>1. Addressed(l)' => Addressed(l)
    BY <1>12 DEF CommandThrows, Addressed, Executing
  <2>2. QED
    BY <1>12, <2>1, ListedFrame DEF CommandThrows, Serving, Forming, Ending, Executing, CareInv, Doors
<1>13. CASE MainFails
  <2>1. Addressed(l)' => Addressed(l)
    BY <1>13 DEF MainFails, Addressed, Executing
  <2>2. QED
    BY <1>13, <2>1, ListedFrame DEF MainFails, Serving, Forming, Ending, Executing, CareInv, Doors
<1>14. CASE MainCloses
  <2>1. Addressed(l)' => Addressed(l)
    BY <1>14 DEF MainCloses, JobDone, Addressed, Executing
  <2>2. QED
    BY <1>14, <2>1, ListedFrame DEF MainCloses, JobDone, Serving, Forming, Ending, Executing, CareInv, Doors
<1>15. CASE ShutDoor
  <2>1. Addressed(l)' => Addressed(l)
    BY <1>15 DEF ShutDoor, Addressed, Executing
  <2>2. QED
    BY <1>15, <2>1, ListedFrame DEF ShutDoor, Serving, Forming, Ending, Executing, CareInv, Doors
<1>16. CASE DissolveFails
  <2>1. Addressed(l)' => Addressed(l)
    BY <1>16 DEF DissolveFails, Addressed, Executing
  <2>2. QED
    BY <1>16, <2>1, ListedFrame DEF DissolveFails, Serving, Forming, Ending, Executing, CareInv, Doors
<1>17. CASE AbortMembers
  <2>1. Addressed(l)' => Addressed(l)
    BY <1>17 DEF AbortMembers, Addressed, Executing
  <2>2. QED
    BY <1>17, <2>1, ListedFrame DEF AbortMembers, Serving, Forming, Ending, Executing, CareInv, Doors
<1>18. CASE ReleaseRoute
  <2>1. Addressed(l)' => Addressed(l)
    BY <1>18 DEF ReleaseRoute, Addressed, Executing
  <2>2. QED
    BY <1>18, <2>1, ListedFrame DEF ReleaseRoute, Serving, Forming, Ending, Executing, CareInv, Doors
<1>19. CASE RingThrows
  <2>1. Addressed(l)' => Addressed(l)
    BY <1>19 DEF RingThrows, Addressed, Executing
  <2>2. QED
    BY <1>19, <2>1, ListedFrame DEF RingThrows, Serving, Forming, Ending, Executing, CareInv, Doors
<1>20. CASE RingStops
  <2>1. Addressed(l)' => Addressed(l)
    BY <1>20 DEF RingStops, Addressed, Executing
  <2>2. QED
    BY <1>20, <2>1, ListedFrame DEF RingStops, Serving, Forming, Ending, Executing, CareInv, Doors
<1>21. CASE MemberFails
  <2>1. Addressed(l)' => Addressed(l)
    BY <1>21 DEF MemberFails, Addressed, Executing
  <2>2. QED
    BY <1>21, <2>1, ListedFrame DEF MemberFails, Serving, Forming, Ending, Executing, CareInv, Doors
<1>22. CASE LinkFails
  <2>1. Addressed(l)' => Addressed(l)
    BY <1>22 DEF LinkFails, Addressed, Executing
  <2>2. QED
    BY <1>22, <2>1, ListedFrame DEF LinkFails, Serving, Forming, Ending, Executing, CareInv, Doors
<1>23. CASE CreateRefused
  <2>1. Addressed(l)' => Addressed(l)
    BY <1>23 DEF CreateRefused, Executes, Addressed, Executing
  <2>2. QED
    BY <1>23, <2>1, ListedFrame DEF CreateRefused, Executes, Serving, Forming, Ending, Executing, CareInv, Doors
<1>24. CASE CommandRefused
  <2>1. Addressed(l)' => Addressed(l)
    BY <1>24 DEF CommandRefused, JobDone, Addressed, Executing
  <2>2. QED
    BY <1>24, <2>1, ListedFrame DEF CommandRefused, JobDone, Serving, Forming, Ending, Executing, CareInv, Doors
<1>25. QED
  BY <1>1, <1>2, <1>3, <1>4, <1>5, <1>6, <1>7, <1>8, <1>9, <1>10, <1>11, <1>12, <1>13, <1>14, <1>15, <1>16, <1>17, <1>18, <1>19, <1>20, <1>21, <1>22, <1>23, <1>24

\* The queue is emptied, or its first job taken.
LEMMA ListedQueueSteps ==
    ASSUME NEW l \in Link, Listed(l), OwnInv, CareInv, UNCHANGED setup,
           ClearJobs \/ WakeBroken \/ WakeJob \/ WakeIdle \/ DissolveClears
    PROVE  Listed(l)'
<1> USE DEF mainVars, routeVars, queueVars, reqVars, sessVars, linkVars
<1>0. jobs \in Seq(Queued)
  BY DEF OwnInv, Types
<1>1. CASE ClearJobs
  <2>1. ~Addressed(l)'
    BY <1>1 DEF ClearJobs, Addressed, Executing
  <2>2. QED
    BY <1>1, <2>1 DEF ClearJobs, Listed, Serving, Forming, Ending, Executing, CareInv, Doors
<1>2. CASE WakeBroken
  <2>1. Addressed(l)' => Addressed(l)
    <3>1. main = "wait" /\ main' = "dissolve" /\ (jobs' = jobs \/ (jobs # <<>> /\ jobs' = Tail(jobs)))
      BY <1>2 DEF WakeBroken
    <3>2. \A i \in DOMAIN jobs' : \E j \in DOMAIN jobs : jobs'[i] = jobs[j]
      <4>1. CASE jobs' = jobs
        BY <4>1
      <4>2. CASE jobs # <<>> /\ jobs' = Tail(jobs)
        BY <1>0, <4>2, TailTaken
      <4>3. QED
        BY <3>1, <4>1, <4>2
    <3>3. QED
      BY <3>1, <3>2 DEF Addressed, Executing
  <2>2. QED
    BY <1>2, <2>1, ListedFrame DEF WakeBroken, Serving, Forming, Ending, Executing
<1>3. CASE WakeJob
  <2>1. Addressed(l)' => Addressed(l)
    <3>1. main = "wait" /\ main' = "exec" /\ jobs # <<>> /\ job' = Head(jobs) /\ jobs' = Tail(jobs)
      BY <1>3 DEF WakeJob
    <3>2. /\ \A i \in DOMAIN jobs' : \E j \in DOMAIN jobs : jobs'[i] = jobs[j]
          /\ \E j \in DOMAIN jobs : job' = jobs[j]
      BY <1>0, <3>1, TailTaken
    <3>3. QED
      BY <3>1, <3>2 DEF Addressed
  <2>2. QED
    BY <1>3, <2>1, ListedFrame DEF WakeJob, Serving, Forming, Ending, Executing
<1>4. CASE WakeIdle
  <2>1. Addressed(l)' => Addressed(l)
    BY <1>4 DEF WakeIdle, Addressed, Executing
  <2>2. QED
    BY <1>4, <2>1, ListedFrame DEF WakeIdle, Serving, Forming, Ending, Executing
<1>5. CASE DissolveClears
  <2>1. ~Addressed(l)'
    BY <1>5 DEF DissolveClears, Addressed, Executing
  <2>2. QED
    BY <1>5, <2>1 DEF DissolveClears, Listed, Serving, Forming, Ending, Executing, CareInv, Doors
<1>6. QED
  BY <1>1, <1>2, <1>3, <1>4, <1>5

\* The main thread opens the door, makes or changes an entry, or clears them.
LEMMA ListedEntrySteps ==
    ASSUME ~LateReaders, NEW l \in Link, Listed(l), OwnInv, CareInv, UNCHANGED setup,
           OpenDoor \/ CreateSession \/ Created \/ Destroyed \/ CleanupErases \/ QueueRequest \/ TellClients
    PROVE  Listed(l)'
<1> USE DEF mainVars, routeVars, queueVars, reqVars, sessVars, linkVars
<1>0. /\ main \in {"exec", "created", "destroyed"} => job.link \in Link
      /\ sess \in [Link -> {"none", "idle", "busy"}] /\ (ready <=> main \in Serving)
  BY DEF OwnInv, Types, Executing, Queued, CareInv, Doors
<1>1. CASE OpenDoor
  <2>1. Addressed(l)' => Addressed(l)
    BY <1>1 DEF OpenDoor, Addressed, Executing
  <2>2. QED
    BY <1>1, <2>1 DEF OpenDoor, Listed, Serving, Forming, Ending, Executing
<1>2. CASE CreateSession
  <2>1. Addressed(l)' => Addressed(l)
    BY <1>2 DEF CreateSession, Executes, Addressed, Executing
  <2>2. job.link = l => l \in links
    <3>1. job.link = l => l \notin gone /\ Addressed(l) /\ ready
      BY <1>0, <1>2 DEF CreateSession, Executes, CreateAllowed, Addressed, Executing, Serving
    <3>2. job.link = l => rd[l] \notin {"none", "bye", "ended"}
      BY <3>1 DEF CareInv, Care, Listed
    <3>3. QED
      BY <3>1, <3>2 DEF Listed
  <2>3. QED
    BY <1>2, <2>1, <2>2 DEF CreateSession, Executes, Listed, Serving, Forming, Ending, Executing
<1>3. CASE Created
  <2>1. Addressed(l)' => Addressed(l)
    BY <1>3 DEF Created, JobDone, Addressed, Executing
  <2>2. sess'[l] # "none" => sess[l] # "none" \/ job.link = l
    BY <1>0, <1>3 DEF Created
  <2>3. QED
    BY <1>3, <2>1, <2>2 DEF Created, JobDone, Listed, Serving, Forming, Ending, Executing
<1>4. CASE Destroyed
  <2>1. Addressed(l)' => Addressed(l)
    BY <1>4 DEF Destroyed, JobDone, Addressed, Executing
  <2>2. sess'[l] # "none" => sess[l] # "none"
    BY <1>0, <1>4 DEF Destroyed
  <2>3. QED
    BY <1>4, <2>1, <2>2 DEF Destroyed, JobDone, Listed, Serving, Forming, Ending, Executing
<1>5. CASE CleanupErases
  <2>1. main = "exec" /\ main' \in {"wait", "cleanup"} /\ (main' = "cleanup" => job' = job)
    BY <1>5 DEF CleanupErases, JobDone, Executes
  <2>2. Addressed(l)' => Addressed(l)
    BY <1>5, <2>1 DEF CleanupErases, Addressed, Executing
  <2>3. sess'[l] # "none" => sess[l] # "none"
    BY <1>0, <1>5 DEF CleanupErases, Executes
  <2>4. UNCHANGED <<ready, links, notify, rd>>
    BY <1>5 DEF CleanupErases
  <2>5. QED
    BY <2>1, <2>2, <2>3, <2>4 DEF Listed, Serving, Forming, Ending, Executing
<1>6. CASE QueueRequest
  <2>1. Addressed(l)' => Addressed(l)
    BY <1>6 DEF QueueRequest, JobDone, Addressed, Executing
  <2>2. sess'[l] # "none" => sess[l] # "none"
    BY <1>0, <1>6 DEF QueueRequest, Executes
  <2>3. main = "exec" /\ main' = "wait" /\ UNCHANGED <<ready, links, notify, rd>>
    BY <1>6 DEF QueueRequest, JobDone, Executes
  <2>4. QED
    BY <2>1, <2>2, <2>3 DEF Listed, Serving, Forming, Ending, Executing
<1>7. CASE TellClients
  <2>1. Addressed(l)' => Addressed(l)
    BY <1>7 DEF TellClients, Addressed, Executing
  <2>2. sess'[l] = "none"
    BY <1>0, <1>7 DEF TellClients, Listed
  <2>3. QED
    BY <1>0, <1>7, <2>1, <2>2 DEF TellClients, Listed, Serving, Forming, Ending, Executing
<1>8. QED
  BY <1>1, <1>2, <1>3, <1>4, <1>5, <1>6, <1>7

LEMMA ListedClientSteps ==
    ASSUME NEW l \in Link, Listed(l), OwnInv, CareInv, UNCHANGED setup, NEW c \in Link,
           ClientReader(c) \/ Client(c) \/ AnswerEnds(c)
    PROVE  Listed(l)'
<1> USE DEF mainVars, routeVars, queueVars, reqVars, sessVars, linkVars
<1>0. rd \in [Link -> {"none", "recv", "push", "bye", "ended"}] /\ jobs \in Seq(Queued)
  BY DEF OwnInv, Types
<1>1. UNCHANGED <<main, job, ready, sess, notify>> /\ links \subseteq links'
  BY DEF ClientReader, Client, Accept, ReadCommand, PushCommand, DropClient, ReaderEnds, PushCleanup,
     AnswerEnds
<1>2. /\ rd[l] # "none" => rd'[l] # "none"
      /\ rd'[l] \in {"none", "ended"} \/ l \in links' \/ rd[l] \notin {"none", "ended"}
      /\ rd[l] = "ended" => rd'[l] = "ended"
  BY <1>0 DEF ClientReader, Client, Accept, ReadCommand, PushCommand, DropClient, ReaderEnds,
     PushCleanup, AnswerEnds
<1>3. Addressed(l)' => Addressed(l) \/ (l = c /\ rd'[c] # "none")
  <2>1. CASE jobs' = jobs
    BY <1>1, <2>1 DEF Addressed
  <2>2. CASE \E j : jobs' = Append(jobs, j) /\ j.link = c /\ rd'[c] # "none"
    <3>1. PICK j : jobs' = Append(jobs, j) /\ j.link = c /\ rd'[c] # "none"
      BY <2>2
    <3>2. \A i \in DOMAIN jobs' : jobs'[i] = j \/ (i \in DOMAIN jobs /\ jobs'[i] = jobs[i])
      BY <1>0, <3>1
    <3>3. QED
      BY <1>1, <3>1, <3>2 DEF Addressed
  <2>3. jobs' = jobs \/ \E j : jobs' = Append(jobs, j) /\ j.link = c /\ rd'[c] # "none"
    <3>1. CASE PushCommand(c)
      <4>1. jobs' = Append(jobs, [kind |-> asked[c], link |-> c]) /\ rd'[c] = "recv"
        BY <1>0, <3>1 DEF PushCommand
      <4>2. QED
        BY <4>1
    <3>2. CASE PushCleanup(c)
      <4>1. jobs' = Append(jobs, [kind |-> "cleanup", link |-> c]) /\ rd'[c] = "ended"
        BY <1>0, <3>2 DEF PushCleanup
      <4>2. QED
        BY <4>1
    <3>3. CASE Client(c) \/ AnswerEnds(c)
      BY <3>3 DEF Client, Accept, ReadCommand, DropClient, ReaderEnds, AnswerEnds
    <3>4. QED
      BY <3>1, <3>2, <3>3 DEF ClientReader
  <2>4. QED
    BY <2>1, <2>2, <2>3
<1>4. QED
  BY <1>1, <1>2, <1>3 DEF Listed

LEMMA ListedRequestSteps ==
    ASSUME NEW l \in Link, Listed(l), OwnInv, UNCHANGED setup, NEW r \in Link, RequestThread(r)
    PROVE  Listed(l)'
<1> USE DEF mainVars, routeVars, queueVars, reqVars, sessVars, linkVars
<1>1. UNCHANGED <<main, job, ready, jobs, links, notify, rd>>
  BY DEF RequestThread, RegisterInbox, CheckBroken, StartStream, LastToken, ErrorFrame, InboxClosed,
     StreamTimesOut, EndRequest, CommitRefused, StartRefused, ResetRefused, RequestRefused, RequestThrows, RequestFails, RequestCloses, PostAnswer,
     Unbusy, LeaveBroken, FreeSession, Freed
<1>2. Addressed(l)' <=> Addressed(l)
  BY <1>1 DEF Addressed
<1>3. sess'[l] # "none" => sess[l] # "none"
  <2>1. CASE Unbusy(r)
    <3>1. sess[r] = "busy"
      BY <2>1 DEF Unbusy, Goes, OwnInv, Own, Running
    <3>2. QED
      BY <2>1, <3>1 DEF Unbusy, OwnInv, Types
  <2>2. CASE ~Unbusy(r)
    BY <2>2 DEF RequestThread, RegisterInbox, CheckBroken, StartStream, LastToken, ErrorFrame,
       InboxClosed, StreamTimesOut, EndRequest, CommitRefused, StartRefused, ResetRefused, RequestRefused, RequestThrows, RequestFails,
       RequestCloses, PostAnswer, LeaveBroken, FreeSession, Freed
  <2>3. QED
    BY <2>1, <2>2
<1>4. QED
  BY <1>1, <1>2, <1>3 DEF Listed

LEMMA ListedStep ==
    ASSUME ~LateReaders, OwnInv, CareInv, \A l \in Link : Listed(l),
           [Next /\ UNCHANGED setup]_<<vars, setup>>
    PROVE  \A l \in Link : Listed(l)'
<1> SUFFICES ASSUME NEW l \in Link, Listed(l) PROVE Listed(l)'
  OBVIOUS
<1>1. CASE UNCHANGED <<vars, setup>>
  <2>1. Addressed(l)' <=> Addressed(l)
    BY <1>1 DEF vars, mainVars, queueVars, Addressed
  <2>2. QED
    BY <1>1, <2>1, ListedFrame DEF vars, mainVars, routeVars, queueVars, reqVars, sessVars, linkVars
<1>2. CASE Next /\ UNCHANGED setup
  <2>1. CASE MainThread
    BY <1>2, <2>1, ListedFrameSteps, ListedQueueSteps, ListedEntrySteps DEF MainThread
  <2>2. CASE RingReader \/ MemberFails \/ LinkFails
    BY <1>2, <2>2, ListedFrameSteps DEF RingReader
  <2>3. QED
    BY <1>2, <2>1, <2>2, ListedRequestSteps, ListedClientSteps DEF Next
<1>3. QED
  BY <1>1, <1>2

LEMMA KeptInit == Init => \A l \in Link : Kept(l)
  BY DEF Init, Kept, Cleaning

LEMMA KeptFrame ==
    ASSUME NEW l \in Link, Kept(l), UNCHANGED <<sess, kv>>, ready' => ready,
           req'[l] \in {"left", "verifyFree"} => req[l] \in {"left", "verifyFree"},
           \/ main' = main /\ job' = job /\ (req[l] \in Ended => req'[l] \in Ended)
           \/ main # "destroyed" /\ main' # "created" /\ ~Cleaning'
           \/ /\ main # "destroyed" /\ main' # "created" /\ job' = job /\ (Cleaning' => Cleaning)
              /\ req'[l] = req[l]
    PROVE  Kept(l)'
  BY DEF Kept, Cleaning

\* Steps that leave the sessions alone.
LEMMA KeptFrameSteps ==
    ASSUME NEW l \in Link, Kept(l), UNCHANGED setup,
           \/ ClearJobs \/ WakeBroken \/ Healthy \/ Unhealthy \/ GiveWay \/ Refuse \/ CreateThrows
           \/ ResetOrPrepare \/ PrepareThrows \/ Cleaned \/ CommandThrows \/ MainFails \/ MainCloses \/ ShutDoor
           \/ DissolveClears \/ DissolveFails \/ AbortMembers \/ RingThrows \/ RingStops \/ MemberFails
           \/ LinkFails \/ CreateRefused
    PROVE  Kept(l)'
<1> USE DEF mainVars, routeVars, queueVars, reqVars, sessVars, linkVars
<1>1. CASE ClearJobs
  BY <1>1, KeptFrame DEF Cleaning, ClearJobs
<1>2. CASE WakeBroken
  BY <1>2, KeptFrame DEF Cleaning, WakeBroken
<1>3. CASE Healthy
  BY <1>3, KeptFrame DEF Cleaning, Healthy
<1>4. CASE Unhealthy
  BY <1>4, KeptFrame DEF Cleaning, Unhealthy
<1>5. CASE GiveWay
  BY <1>5, KeptFrame DEF Cleaning, GiveWay
<1>6. CASE Refuse
  BY <1>6, KeptFrame DEF Cleaning, Refuse, Executes, JobDone
<1>7. CASE CreateThrows
  BY <1>7, KeptFrame DEF Cleaning, CreateThrows, Executes
<1>8. CASE ResetOrPrepare
  BY <1>8, KeptFrame DEF Cleaning, ResetOrPrepare, Executes, JobDone
<1>9. CASE PrepareThrows
  BY <1>9, KeptFrame DEF Cleaning, PrepareThrows, Executes, JobDone
<1>10. CASE Cleaned
  BY <1>10, KeptFrame DEF Cleaning, Cleaned, JobDone
<1>11. CASE CommandThrows
  BY <1>11, KeptFrame DEF Cleaning, CommandThrows
<1>12. CASE MainFails
  BY <1>12, KeptFrame DEF Cleaning, MainFails
<1>13. CASE MainCloses
  BY <1>13, KeptFrame DEF Cleaning, MainCloses, JobDone
<1>14. CASE ShutDoor
  BY <1>14, KeptFrame DEF Cleaning, ShutDoor
<1>15. CASE DissolveClears
  BY <1>15, KeptFrame DEF Cleaning, DissolveClears
<1>16. CASE DissolveFails
  BY <1>16, KeptFrame DEF Cleaning, DissolveFails
<1>17. CASE AbortMembers
  BY <1>17, KeptFrame DEF Cleaning, AbortMembers
<1>18. CASE RingThrows
  BY <1>18, KeptFrame DEF Cleaning, RingThrows
<1>19. CASE RingStops
  BY <1>19, KeptFrame DEF Cleaning, RingStops
<1>20. CASE MemberFails
  BY <1>20, KeptFrame DEF Cleaning, MemberFails
<1>21. CASE LinkFails
  BY <1>21, KeptFrame DEF Cleaning, LinkFails
<1>22. CASE CreateRefused
  BY <1>22, KeptFrame DEF Cleaning, CreateRefused, Executes
<1>23. QED
  BY <1>1, <1>2, <1>3, <1>4, <1>5, <1>6, <1>7, <1>8, <1>9, <1>10, <1>11, <1>12, <1>13, <1>14, <1>15, <1>16, <1>17, <1>18, <1>19, <1>20, <1>21, <1>22

\* Steps of the readers and the clients.
LEMMA KeptClientSteps ==
    ASSUME NEW l \in Link, Kept(l), NEW c \in Link, ClientReader(c) \/ Client(c) \/ AnswerEnds(c)
    PROVE  Kept(l)'
<1>1. UNCHANGED <<main, job, ready, sess, kv, req>>
  BY DEF ClientReader, Client, Accept, ReadCommand, PushCommand, DropClient, ReaderEnds, PushCleanup,
     AnswerEnds, mainVars, routeVars, queueVars, reqVars, sessVars
<1>2. QED
  BY <1>1, KeptFrame

\* Steps that start requests: threads about to free a session are kept.
LEMMA KeptStartSteps ==
    ASSUME NEW l \in Link, Kept(l), OwnInv, CareInv, UNCHANGED setup,
           WakeJob \/ WakeIdle \/ QueueRequest
    PROVE  Kept(l)'
<1> USE DEF mainVars, routeVars, queueVars, reqVars, sessVars, linkVars
<1>1. req'[l] \in {"left", "verifyFree"} => req[l] \in {"left", "verifyFree"}
  BY StartsKeeping
<1>2. CASE WakeJob \/ WakeIdle
  BY <1>1, <1>2, KeptFrame DEF Cleaning, WakeJob, WakeIdle
<1>3. CASE QueueRequest
  <2>1. main = "exec" /\ main' = "wait" /\ UNCHANGED <<ready, kv>> /\ sess[job.link] = "idle"
    BY <1>3 DEF QueueRequest, Executes, JobDone
  <2>2. sess'[l] # "none" => sess[l] # "none"
    BY <1>3, <2>1 DEF QueueRequest, OwnInv, Types
  <2>3. QED
    BY <1>1, <2>1, <2>2 DEF Kept, Cleaning
<1>4. QED
  BY <1>2, <1>3

\* The replica is formed, opened and released.
LEMMA KeptRouteSteps ==
    ASSUME NEW l \in Link, Kept(l), Listed(l), OwnInv, CareInv, UNCHANGED setup,
           Form \/ OpenDoor \/ ReleaseRoute \/ TellClients
    PROVE  Kept(l)'
<1> USE DEF mainVars, routeVars, queueVars, reqVars, sessVars, linkVars
<1>0. ready <=> main \in Serving
  BY DEF CareInv, Doors
<1>1. CASE OpenDoor
  <2>1. sess[l] = "none" /\ req[l] = "none"
    BY <1>1 DEF OpenDoor, Listed, Forming, OwnInv, Route
  <2>2. QED
    BY <1>1, <2>1 DEF OpenDoor, Kept, Cleaning
<1>2. CASE Form \/ ReleaseRoute \/ TellClients
  <2>1. ~ready' /\ main' \notin {"created", "cleanup", "verify"}
    BY <1>0, <1>2 DEF Form, ReleaseRoute, TellClients, Serving
  <2>2. QED
    BY <2>1 DEF Kept, Cleaning
<1>3. QED
  BY <1>1, <1>2

\* A session is created or destroyed.
LEMMA KeptSessionSteps ==
    ASSUME NEW l \in Link, Kept(l), OwnInv, CareInv, UNCHANGED setup,
           \/ CreateSession \/ Created \/ DestroySession \/ Destroyed
           \/ CleanupErases \/ CleanupDestroys \/ CommandRefused
    PROVE  Kept(l)'
<1> USE DEF mainVars, routeVars, queueVars, reqVars, sessVars, linkVars
<1>0. /\ ready <=> main \in Serving
      /\ main \in Executing => job.link \in Link
      /\ sess \in [Link -> {"none", "idle", "busy"}] /\ req[l] \in Running \cup Leaving \cup Ended
      /\ req[l] \in Running => sess[l] = "busy"
      /\ req[l] \in Leaving => sess[l] = "none"
  BY DEF OwnInv, Types, Queued, CareInv, Doors, Own
<1>1. CASE CreateSession
  BY <1>0, <1>1 DEF CreateSession, Executes, Cleaning, Kept, Cleaning, Executing
<1>2. CASE Created
  <2>1. sess'[l] # "none" => sess[l] # "none" \/ l = job.link
    BY <1>0, <1>2 DEF Created, Executing
  <2>2. QED
    BY <1>2, <2>1 DEF Created, JobDone, Cleaning, Kept
<1>3. CASE DestroySession
  <2>1. l = job.link => req[l] \notin {"left", "verifyFree"}
    BY <1>0, <1>3 DEF DestroySession, Leaving
  <2>2. QED
    BY <1>3, <2>1 DEF DestroySession, Executes, Cleaning, Kept
<1>4. CASE Destroyed
  <2>1. l = job.link => sess'[l] = "none"
    BY <1>0, <1>4 DEF Destroyed, Executing
  <2>2. l # job.link => sess'[l] = sess[l]
    BY <1>0, <1>4 DEF Destroyed, Executing
  <2>3. QED
    BY <1>4, <2>1, <2>2 DEF Destroyed, JobDone, Cleaning, Kept
<1>5. CASE CleanupErases
  <2>1. main = "exec" /\ UNCHANGED <<ready, kv, req>> /\ job.link \in Link /\ ready
    BY <1>0, <1>5 DEF CleanupErases, Executes, Executing, Serving
  <2>2. sess'[l] # "none" => sess[l] # "none"
    BY <1>0, <1>5 DEF CleanupErases
  <2>3. main' \in {"wait", "cleanup"} /\ (main' = "cleanup" => job' = job /\ sess[job.link] = "idle")
    BY <1>5 DEF CleanupErases, JobDone
  <2>4. main' = "cleanup" /\ job.link = l => l \in kv /\ sess'[l] = "none" /\ req[l] \in Ended
    BY <1>0, <1>5, <2>1, <2>3 DEF CleanupErases, Cleaning, Kept
  <2>5. QED
    BY <2>1, <2>2, <2>3, <2>4 DEF Kept, Cleaning
<1>6. CASE CleanupDestroys
  BY <1>0, <1>6 DEF CleanupDestroys, Cleaning, Kept, Ended
<1>7. CASE CommandRefused
  <2>1. CASE job.kind = "cleanup"
    BY <1>0, <1>7, <2>1 DEF CommandRefused, GivenUp, Cleaning, Kept, Ended
  <2>2. CASE job.kind # "cleanup"
    BY <1>7, <2>2, KeptFrame DEF CommandRefused, JobDone, Cleaning
  <2>3. QED
    BY <2>1, <2>2
<1>8. QED
  BY <1>1, <1>2, <1>3, <1>4, <1>5, <1>6, <1>7

\* The session of a client that left is destroyed, or its destruction refused.
Frees(r) == FreeSession(r) \/ (RequestRefused(r) /\ req[r] = "verifyFree")

\* A request thread gives the session back, takes it for a client that left, or
\* frees it.
LEMMA KeptRequestSteps ==
    ASSUME NEW l \in Link, Kept(l), OwnInv, UNCHANGED setup, NEW r \in Link, RequestThread(r)
    PROVE  Kept(l)'
<1> USE DEF mainVars, routeVars, queueVars, reqVars, sessVars, linkVars
<1>0. /\ req \in [Link -> Running \cup Leaving \cup Ended]
      /\ sess \in [Link -> {"none", "idle", "busy"}]
      /\ req[l] \in Running => sess[l] = "busy"
      /\ req[l] \in Leaving => sess[l] = "none"
  BY DEF OwnInv, Types, Own
<1>1. CASE Unbusy(r)
  <2>1. UNCHANGED <<main, job, ready, kv>> /\ req[r] = "unbusy"
    BY <1>1 DEF Unbusy, Goes
  <2>2. l # r => UNCHANGED <<sess[l], req[l]>>
    BY <1>0, <1>1 DEF Unbusy, Goes
  <2>3. l = r => sess[l] = "busy"
    BY <1>0, <2>1 DEF Running
  <2>4. l = r /\ main = "destroyed" => job.link # l
    BY <2>3 DEF OwnInv, InJob
  <2>5. QED
    BY <2>1, <2>2, <2>3, <2>4 DEF Kept, Cleaning
<1>2. CASE Frees(r)
  <2>1. UNCHANGED <<main, job, ready, sess>> /\ req[r] \in {"left", "verifyFree"} /\ kv' = kv \ {r}
    BY <1>2 DEF Frees, FreeSession, RequestRefused, GivenUp, Goes
  <2>2. l # r => req'[l] = req[l]
    BY <1>0, <1>2 DEF Frees, FreeSession, RequestRefused, Goes
  <2>3. l = r => req'[l] = "freed" /\ sess[l] = "none"
    BY <1>0, <1>2, <2>1 DEF Frees, FreeSession, RequestRefused, Goes, Leaving
  <2>4. l = r => ~(main = "created" /\ job.link = l)
    BY <2>1 DEF OwnInv, InJob, Ended
  <2>5. QED
    BY <2>1, <2>2, <2>3, <2>4 DEF Kept, Cleaning, Ended
<1>3. CASE ~Unbusy(r) /\ ~Frees(r)
  <2>1. UNCHANGED <<main, job, ready, sess, kv>> /\ req[r] \notin Ended
    BY <1>3 DEF RequestThread, RegisterInbox, CheckBroken, StartStream, LastToken, ErrorFrame,
       InboxClosed, StreamTimesOut, EndRequest, CommitRefused, StartRefused, ResetRefused, RequestRefused, RequestThrows, RequestFails,
       RequestCloses, PostAnswer, LeaveBroken, FreeSession, Freed, Frees, Goes, Ended
  <2>2. /\ req'[l] \in {"left", "verifyFree"} => req[l] \in {"left", "verifyFree"}
        /\ l # r => req'[l] = req[l]
    BY <1>0, <1>3 DEF RequestThread, RegisterInbox, CheckBroken, StartStream, LastToken, ErrorFrame,
       InboxClosed, StreamTimesOut, EndRequest, CommitRefused, StartRefused, ResetRefused, RequestRefused, RequestThrows, RequestFails,
       RequestCloses, PostAnswer, LeaveBroken, FreeSession, Freed, Frees, Goes
  <2>3. QED
    BY <2>1, <2>2, KeptFrame
<1>4. QED
  BY <1>1, <1>2, <1>3

LEMMA KeptStep ==
    ASSUME OwnInv, CareInv, \A l \in Link : Listed(l), \A l \in Link : Kept(l),
           [Next /\ UNCHANGED setup]_<<vars, setup>>
    PROVE  \A l \in Link : Kept(l)'
<1> SUFFICES ASSUME NEW l \in Link, Kept(l), Listed(l) PROVE Kept(l)'
  OBVIOUS
<1>1. CASE UNCHANGED <<vars, setup>>
  BY <1>1, KeptFrame DEF vars, mainVars, routeVars, queueVars, reqVars, sessVars
<1>2. CASE Next /\ UNCHANGED setup
  <2>1. CASE MainThread
    BY <1>2, <2>1, KeptFrameSteps, KeptStartSteps, KeptRouteSteps, KeptSessionSteps DEF MainThread
  <2>2. CASE RingReader \/ MemberFails \/ LinkFails
    BY <1>2, <2>2, KeptFrameSteps DEF RingReader
  <2>3. QED
    BY <1>2, <2>1, <2>2, KeptRequestSteps, KeptClientSteps DEF Next
<1>3. QED
  BY <1>1, <1>2

\* The counter is larger than the number of sessions it may have to count.
LEMMA Capacity ==
    ASSUME OwnInv
    PROVE  /\ MaxSessions \in Nat \ {0} /\ Cardinality(Link) \in Nat
           /\ Wrap \in Nat /\ Wrap > 0 /\ Wrap > MaxSessions + Cardinality(Link)
<1>1. Cardinality(Link) \in Nat
  BY OwnerConstants, FS_CardinalityType
<1>2. MaxSessions \in Nat \ {0} /\ Wrap \in Nat /\ Wrap > MaxSessions + Cardinality(Link)
  BY OwnerConstants DEF OwnInv, Types, MaxSessions
<1>3. QED
  BY <1>1, <1>2

LEMMA CountInit == Init => Counts
  BY OwnInit, Capacity DEF Init, Counts, Numbered

LEMMA FinitelyMany ==
    ASSUME CareInv
    PROVE  /\ IsFiniteSet(kv) /\ Cardinality(kv) \in Nat
           /\ IsFiniteSet(Freeing) /\ Cardinality(Freeing) \in Nat
           /\ Cardinality(Freeing) <= Cardinality(Link) /\ Cardinality(Link) \in Nat
<1>1. kv \subseteq Link /\ Freeing \subseteq Link /\ IsFiniteSet(Link)
  BY OwnerConstants DEF CareInv, Doors, Freeing
<1>2. QED
  BY <1>1, FS_Subset, FS_CardinalityType

LEMMA WrapUp ==
    ASSUME OwnInv, NEW n \in Nat, n + 1 < Wrap
    PROVE  (n + 1) % Wrap = n + 1
  BY Capacity

LEMMA WrapDown ==
    ASSUME OwnInv, NEW n \in 0..(Wrap - 1)
    PROVE  (n + Wrap - 1) % Wrap \in 0..(Wrap - 1) /\ (n > 0 => (n + Wrap - 1) % Wrap = n - 1)
<1>1. Wrap \in Nat /\ Wrap > 0
  BY Capacity
<1>2. (n + Wrap - 1) % Wrap \in 0..(Wrap - 1)
  BY <1>1
<1>3. ASSUME n > 0
      PROVE  (n + Wrap - 1) % Wrap = n - 1
  <2>1. n + Wrap - 1 = Wrap * 1 + (n - 1) /\ n - 1 \in 0..(Wrap - 1)
    BY <1>1, <1>3
  <2>2. QED
    BY <1>1, <2>1
<1>4. QED
  BY <1>2, <1>3

LEMMA CountFrame ==
    ASSUME Counts, UNCHANGED <<setup, kv, inUse>>, Freeing' = Freeing, Numbered' => Numbered,
           Numbered' => (main' = "created" <=> main = "created"),
           Numbered' => (main' \in {"destroyed", "cleaned"} <=> main \in {"destroyed", "cleaned"})
    PROVE  Counts'
<1>1. Numbered' => Overcounted' = Overcounted /\ Uncounted' = Uncounted
  BY DEF Overcounted, Uncounted, Freeing
<1>2. QED
  BY <1>1 DEF Counts, MaxSessions

\* Steps that leave the sessions and the count alone.
LEMMA CountFrameSteps ==
    ASSUME Counts, CareInv, UNCHANGED setup,
           \/ ClearJobs \/ OpenDoor \/ WakeBroken \/ Healthy \/ Unhealthy \/ GiveWay \/ Refuse
           \/ CreateThrows \/ ResetOrPrepare \/ PrepareThrows \/ CleanupErases \/ CommandThrows \/ MainFails \/ MainCloses
           \/ ShutDoor \/ DissolveFails \/ AbortMembers \/ TellClients \/ RingThrows \/ RingStops \/ MemberFails
           \/ LinkFails \/ CreateRefused
    PROVE  Counts'
<1> USE DEF mainVars, routeVars, queueVars, reqVars, sessVars, linkVars
<1>0. (ready <=> main \in Serving) /\ (req' = req => Freeing' = Freeing)
  BY DEF CareInv, Doors, Freeing
<1>1. CASE ClearJobs
  BY <1>0, <1>1, CountFrame DEF ClearJobs, Numbered, Serving
<1>2. CASE OpenDoor
  BY <1>0, <1>2, CountFrame DEF OpenDoor, Numbered, Serving
<1>3. CASE WakeBroken
  BY <1>0, <1>3, CountFrame DEF WakeBroken, Numbered, Serving
<1>4. CASE Healthy
  BY <1>0, <1>4, CountFrame DEF Healthy, Numbered, Serving
<1>5. CASE Unhealthy
  BY <1>0, <1>5, CountFrame DEF Unhealthy, Numbered, Serving
<1>6. CASE GiveWay
  BY <1>0, <1>6, CountFrame DEF GiveWay, Numbered, Serving
<1>7. CASE Refuse
  BY <1>0, <1>7, CountFrame DEF Refuse, Executes, JobDone, Numbered, Serving
<1>8. CASE CreateThrows
  BY <1>0, <1>8, CountFrame DEF CreateThrows, Executes, Numbered, Serving
<1>9. CASE ResetOrPrepare
  BY <1>0, <1>9, CountFrame DEF ResetOrPrepare, Executes, JobDone, Numbered, Serving
<1>10. CASE PrepareThrows
  BY <1>0, <1>10, CountFrame DEF PrepareThrows, Executes, JobDone, Numbered, Serving
<1>11. CASE CleanupErases
  BY <1>0, <1>11, CountFrame DEF CleanupErases, Executes, JobDone, Numbered, Serving
<1>12. CASE CommandThrows
  BY <1>0, <1>12, CountFrame DEF CommandThrows, Numbered, Serving
<1>13. CASE MainFails
  BY <1>0, <1>13, CountFrame DEF MainFails, Numbered, Serving
<1>14. CASE MainCloses
  BY <1>0, <1>14, CountFrame DEF MainCloses, JobDone, Numbered, Serving
<1>15. CASE ShutDoor
  BY <1>0, <1>15, CountFrame DEF ShutDoor, Numbered, Serving
<1>16. CASE DissolveFails
  BY <1>0, <1>16, CountFrame DEF DissolveFails, Numbered, Serving
<1>17. CASE AbortMembers
  BY <1>0, <1>17, CountFrame DEF AbortMembers, Numbered, Serving
<1>18. CASE TellClients
  BY <1>0, <1>18, CountFrame DEF TellClients, Numbered, Serving
<1>19. CASE RingThrows
  BY <1>0, <1>19, CountFrame DEF RingThrows, Numbered, Serving
<1>20. CASE RingStops
  BY <1>0, <1>20, CountFrame DEF RingStops, Numbered, Serving
<1>21. CASE MemberFails
  BY <1>0, <1>21, CountFrame DEF MemberFails, Numbered, Serving
<1>22. CASE LinkFails
  BY <1>0, <1>22, CountFrame DEF LinkFails, Numbered, Serving
<1>23. CASE CreateRefused
  BY <1>0, <1>23, CountFrame DEF CreateRefused, Executes, Numbered, Serving
<1>24. QED
  BY <1>1, <1>2, <1>3, <1>4, <1>5, <1>6, <1>7, <1>8, <1>9, <1>10, <1>11, <1>12, <1>13, <1>14, <1>15, <1>16, <1>17, <1>18, <1>19, <1>20, <1>21, <1>22, <1>23

\* Starting requests leaves the threads that are freeing a session alone.
LEMMA CountStartSteps ==
    ASSUME Counts, OwnInv, CareInv, UNCHANGED setup, WakeJob \/ WakeIdle \/ QueueRequest
    PROVE  Counts'
<1>1. \A l \in Link : req'[l] = "freed" <=> req[l] = "freed"
  BY StartsEntry, StartsKeeping DEF Ended
<1>2. Freeing' = Freeing
  BY <1>1 DEF Freeing
<1>3. /\ UNCHANGED <<kv, inUse, ready>> /\ main \in {"wait", "exec"}
      /\ main' \in {"wait", "exec", "health"}
  BY DEF WakeJob, WakeIdle, QueueRequest, Executes, JobDone, routeVars, sessVars
<1>4. QED
  BY <1>2, <1>3, CountFrame DEF Numbered

LEMMA CountRouteSteps ==
    ASSUME Counts, OwnInv, CareInv, UNCHANGED setup, Form \/ DissolveClears \/ ReleaseRoute
    PROVE  Counts'
<1> USE DEF mainVars, routeVars, queueVars, reqVars, sessVars, linkVars
<1>0. (ready <=> main \in Serving) /\ Cardinality({}) = 0 /\ 0 \in 0..(Wrap - 1)
  BY Capacity, FS_EmptySet DEF CareInv, Doors
<1>1. CASE Form
  <2>1. \A l \in Link : req'[l] = "none"
    BY <1>1 DEF Form, OwnInv, Route, Forming
  <2>2. {l \in Link : req[l] = "freed"}' = {}
    BY <2>1
  <2>3. Overcounted' = 0 /\ Uncounted' = 0
    BY <1>0, <1>1, <2>2 DEF Form, Overcounted, Uncounted
  <2>4. kv' = {} /\ inUse' = 0
    BY <1>1 DEF Form
  <2>5. Cardinality(kv)' = 0
    BY <1>0, <2>4
  <2>6. QED
    BY <1>0, <2>3, <2>4, <2>5, Capacity DEF Counts, MaxSessions
<1>2. CASE DissolveClears \/ ReleaseRoute
  <2>1. ~Numbered' /\ inUse' \in 0..(Wrap - 1)
    BY <1>0, <1>2 DEF DissolveClears, ReleaseRoute, Numbered, Serving, Counts
  <2>2. QED
    BY <2>1 DEF Counts
<1>3. QED
  BY <1>1, <1>2

\* A session that is created was not on the members.
LEMMA CreatesNew ==
    ASSUME OwnInv, CareInv, CreateSession
    PROVE  job.link \in Link /\ job.link \notin kv /\ inUse < MaxSessions
<1>1. /\ main = "exec" /\ job.link \notin gone /\ sess[job.link] = "none" /\ inUse < MaxSessions
  BY DEF CreateSession, Executes, CreateAllowed
<1>2. job.link \in Link /\ ready
  BY <1>1 DEF OwnInv, Types, Executing, Queued, CareInv, Doors, Serving
<1>3. req[job.link] \notin {"left", "verifyFree"}
  BY <1>1, <1>2 DEF OwnInv, Own, Leaving
<1>4. ~Cared(job.link)
  BY <1>1, <1>3 DEF Cared, Cleaning
<1>5. QED
  BY <1>1, <1>2, <1>4 DEF CareInv, Care

\* A session is created or destroyed, and counted.
LEMMA CountSessionSteps ==
    ASSUME Counts, OwnInv, CareInv, UNCHANGED setup, \A l \in Link : Kept(l),
           \/ CreateSession \/ Created \/ DestroySession \/ Destroyed \/ CleanupDestroys \/ Cleaned
           \/ CommandRefused
    PROVE  Counts'
<1> USE DEF mainVars, routeVars, queueVars, reqVars, sessVars, linkVars
<1> DEFINE k == Cardinality(kv)
           f == Cardinality(Freeing)
<1>1. /\ k \in Nat /\ f \in Nat /\ f <= Cardinality(Link) /\ Cardinality(Link) \in Nat
      /\ IsFiniteSet(kv) /\ inUse \in Nat /\ inUse \in 0..(Wrap - 1)
      /\ MaxSessions \in Nat /\ Wrap \in Nat /\ Wrap > MaxSessions + Cardinality(Link)
  BY FinitelyMany, Capacity DEF Counts
<1>2. main \in Executing /\ ready /\ job.link \in Link
  BY DEF CreateSession, Created, DestroySession, Destroyed, CleanupDestroys, Cleaned, CommandRefused,
     Executes, Executing, OwnInv, Types, Queued, CareInv, Doors, Serving
<1>3. Freeing' = Freeing /\ Cardinality(Freeing)' = f
  BY DEF CreateSession, Created, DestroySession, Destroyed, CleanupDestroys, Cleaned,
     CommandRefused, Freeing
<1>4. /\ Overcounted = f + (IF main \in {"destroyed", "cleaned"} THEN 1 ELSE 0)
      /\ Overcounted' = f + (IF main' \in {"destroyed", "cleaned"} THEN 1 ELSE 0)
  BY <1>3 DEF Overcounted, Freeing
<1>5. k + Overcounted = inUse + Uncounted /\ k <= MaxSessions
  BY <1>2 DEF Counts, Numbered
<1>0. MaxSessions' = MaxSessions
  BY DEF MaxSessions
<1> HIDE DEF k, f
<1>6. CASE CreateSession
  <2>1. job.link \notin kv /\ inUse < MaxSessions
    BY <1>6, CreatesNew
  <2>2. kv' = kv \cup {job.link} /\ main = "exec" /\ main' = "created" /\ inUse' = inUse
    BY <1>6 DEF CreateSession, Executes
  <2>3. Cardinality(kv)' = k + 1
    BY <1>1, <2>1, <2>2, FS_AddElement DEF k
  <2>4. Overcounted = f /\ Uncounted = 0 /\ Overcounted' = f /\ Uncounted' = 1
    BY <1>1, <1>4, <2>2 DEF Uncounted
  <2>5. QED
    BY <1>0, <1>1, <1>5, <2>1, <2>2, <2>3, <2>4 DEF Counts
<1>7. CASE Created
  <2>1. kv' = kv /\ main = "created" /\ main' = "wait" /\ inUse' = (inUse + 1) % Wrap
    BY <1>7 DEF Created, CountUp, JobDone
  <2>2. Cardinality(kv)' = k
    BY <2>1 DEF k
  <2>3. Overcounted = f /\ Uncounted = 1 /\ Overcounted' = f /\ Uncounted' = 0
    BY <1>1, <1>4, <2>1 DEF Uncounted
  <2>4. inUse + 1 < Wrap
    BY <1>1, <1>5, <2>3
  <2>5. inUse' = inUse + 1
    BY <1>1, <2>1, <2>4, WrapUp
  <2>6. QED
    BY <1>0, <1>1, <1>5, <2>2, <2>3, <2>4, <2>5 DEF Counts
<1>8. CASE DestroySession \/ CleanupDestroys \/ (CommandRefused /\ job.kind = "cleanup")
  <2>1. job.link \in kv
    BY <1>2, <1>8 DEF DestroySession, CleanupDestroys, CommandRefused, Executes, Cleaning, Kept
  <2>2. /\ kv' = kv \ {job.link} /\ main \in {"exec", "cleanup", "verify"}
        /\ main' \in {"destroyed", "cleaned"} /\ inUse' = inUse
    BY <1>8 DEF DestroySession, CleanupDestroys, CommandRefused, GivenUp, Executes
  <2>3. Cardinality(kv)' = k - 1
    BY <1>1, <2>1, <2>2, FS_RemoveElement DEF k
  <2>4. Overcounted = f /\ Uncounted = 0 /\ Overcounted' = f + 1 /\ Uncounted' = 0
    BY <1>1, <1>4, <2>2 DEF Uncounted
  <2>5. QED
    BY <1>0, <1>1, <1>5, <2>2, <2>3, <2>4 DEF Counts
<1>9. CASE Destroyed \/ Cleaned
  <2>1. kv' = kv /\ main \in {"destroyed", "cleaned"} /\ main' = "wait" /\ inUse' = (inUse + Wrap - 1) % Wrap
    BY <1>9 DEF Destroyed, Cleaned, CountDown, JobDone
  <2>2. Cardinality(kv)' = k
    BY <2>1 DEF k
  <2>3. Overcounted = f + 1 /\ Uncounted = 0 /\ Overcounted' = f /\ Uncounted' = 0
    BY <1>1, <1>4, <2>1 DEF Uncounted
  <2>4. inUse > 0
    BY <1>1, <1>5, <2>3
  <2>5. inUse' = inUse - 1
    BY <1>1, <2>1, <2>4, WrapDown
  <2>6. QED
    BY <1>0, <1>1, <1>5, <2>2, <2>3, <2>4, <2>5 DEF Counts
<1>10. CASE CommandRefused /\ job.kind # "cleanup"
  BY <1>2, <1>3, <1>10, CountFrame DEF CommandRefused, JobDone, Numbered
<1>11. QED
  BY <1>6, <1>7, <1>8, <1>9, <1>10

\* The request thread of a client that left frees the session, then takes it off
\* the count.
LEMMA CountRequestSteps ==
    ASSUME Counts, OwnInv, CareInv, UNCHANGED setup, \A l \in Link : Kept(l), NEW r \in Link, RequestThread(r)
    PROVE  Counts'
<1> USE DEF mainVars, routeVars, queueVars, reqVars, sessVars, linkVars
<1> DEFINE k == Cardinality(kv)
           f == Cardinality(Freeing)
<1>0. req \in [Link -> Running \cup Leaving \cup Ended]
  BY DEF OwnInv, Types
<1>1. /\ k \in Nat /\ f \in Nat /\ IsFiniteSet(kv) /\ IsFiniteSet(Freeing)
      /\ inUse \in Nat /\ inUse \in 0..(Wrap - 1) /\ MaxSessions \in Nat /\ Wrap \in Nat
  BY FinitelyMany, Capacity DEF Counts
<1>2. UNCHANGED <<main, job, ready>>
  BY DEF RequestThread, RegisterInbox, CheckBroken, StartStream, LastToken, ErrorFrame, InboxClosed,
     StreamTimesOut, EndRequest, CommitRefused, StartRefused, ResetRefused, RequestRefused, RequestThrows, RequestFails, RequestCloses, PostAnswer,
     Unbusy, LeaveBroken, FreeSession, Freed
<1>3. CASE ~Frees(r) /\ ~Freed(r)
  <2>1. UNCHANGED <<kv, inUse>>
    BY <1>3 DEF RequestThread, RegisterInbox, CheckBroken, StartStream, LastToken, ErrorFrame,
       InboxClosed, StreamTimesOut, EndRequest, CommitRefused, StartRefused, ResetRefused, RequestRefused, RequestThrows, RequestFails,
       RequestCloses, PostAnswer, Unbusy, LeaveBroken, FreeSession, Frees, Goes
  <2>2. \A l \in Link : req'[l] = "freed" <=> req[l] = "freed"
    BY <1>0, <1>3 DEF RequestThread, RegisterInbox, CheckBroken, StartStream, LastToken, ErrorFrame,
       InboxClosed, StreamTimesOut, EndRequest, CommitRefused, StartRefused, ResetRefused, RequestRefused, RequestThrows, RequestFails,
       RequestCloses, PostAnswer, Unbusy, LeaveBroken, FreeSession, Frees, Goes
  <2>3. Freeing' = Freeing
    BY <2>2 DEF Freeing
  <2>4. QED
    BY <1>2, <2>1, <2>3, CountFrame DEF Numbered
<1>4. CASE ~Numbered /\ (Frees(r) \/ Freed(r))
  <2>1. inUse' \in 0..(Wrap - 1)
    <3>1. CASE Frees(r)
      BY <1>1, <3>1 DEF Frees, FreeSession, RequestRefused
    <3>2. CASE Freed(r)
      BY <1>1, <3>2, WrapDown DEF Freed, CountDown
    <3>3. QED
      BY <1>4, <3>1, <3>2
  <2>2. QED
    BY <1>2, <1>4, <2>1 DEF Counts, Numbered
<1>5. CASE Numbered /\ (Frees(r) \/ Freed(r))
  <2> DEFINE d == IF main \in {"destroyed", "cleaned"} THEN 1 ELSE 0
  <2>1. d \in Nat /\ d' = d /\ Uncounted \in {0, 1} /\ Uncounted' = Uncounted
    BY <1>2 DEF Uncounted
  <2>2. /\ Overcounted = f + d /\ Overcounted' = Cardinality(Freeing)' + d
        /\ k + Overcounted = inUse + Uncounted /\ k <= MaxSessions
    BY <1>2, <1>5 DEF Overcounted, Freeing, Counts
  <2>0. MaxSessions' = MaxSessions
    BY DEF MaxSessions
  <2> HIDE DEF k, f, d
  <2>3. CASE Frees(r)
    <3>1. /\ req[r] \in {"left", "verifyFree"} /\ req' = [req EXCEPT ![r] = "freed"]
          /\ kv' = kv \ {r} /\ inUse' = inUse
      BY <2>3 DEF Frees, FreeSession, RequestRefused, GivenUp, Goes
    <3>2. ready
      BY <1>5, <3>1 DEF Numbered, OwnInv, Route, Forming
    <3>3. r \in kv
      BY <3>1, <3>2 DEF Kept
    <3>4. Freeing' = Freeing \cup {r} /\ r \notin Freeing
      BY <1>0, <3>1 DEF Freeing
    <3>5. Cardinality(Freeing)' = f + 1
      BY <1>1, <3>4, FS_AddElement DEF f
    <3>6. Cardinality(kv)' = k - 1
      BY <1>1, <3>1, <3>3, FS_RemoveElement DEF k
    <3>7. QED
      BY <2>0, <1>1, <2>1, <2>2, <3>1, <3>5, <3>6 DEF Counts
  <2>4. CASE Freed(r)
    <3>1. /\ req[r] = "freed" /\ req' = [req EXCEPT ![r] = "done"] /\ kv' = kv
          /\ inUse' = (inUse + Wrap - 1) % Wrap
      BY <2>4 DEF Freed, Goes, CountDown
    <3>2. Freeing' = Freeing \ {r} /\ r \in Freeing
      BY <1>0, <3>1 DEF Freeing
    <3>3. Cardinality(Freeing)' = f - 1 /\ f > 0
      <4>1. Cardinality(Freeing)' = f - 1
        BY <1>1, <3>2, FS_RemoveElement DEF f
      <4>2. f # 0
        BY <1>1, <3>2, FS_EmptySet DEF f
      <4>3. QED
        BY <1>1, <4>1, <4>2
    <3>4. Cardinality(kv)' = k
      BY <3>1 DEF k
    <3>5. main = "created" => k > 0
      <4>1. main = "created" => job.link \in kv
        BY DEF OwnInv, Types, Executing, Queued, Kept
      <4>2. main = "created" => k # 0
        BY <1>1, <4>1, FS_EmptySet DEF k
      <4>3. QED
        BY <1>1, <4>2
    <3>6. inUse > 0
      BY <1>1, <2>1, <2>2, <3>3, <3>5 DEF Uncounted
    <3>7. inUse' = inUse - 1
      BY <1>1, <3>1, <3>6, WrapDown
    <3>8. QED
      BY <2>0, <1>1, <2>1, <2>2, <3>3, <3>4, <3>6, <3>7 DEF Counts
  <2>5. QED
    BY <1>5, <2>3, <2>4
<1>6. QED
  BY <1>3, <1>4, <1>5

LEMMA CountStep ==
    ASSUME OwnInv, CareInv, \A l \in Link : Kept(l), Counts,
           [Next /\ UNCHANGED setup]_<<vars, setup>>
    PROVE  Counts'
<1>1. CASE UNCHANGED <<vars, setup>>
  BY <1>1, CountFrame DEF vars, mainVars, routeVars, queueVars, reqVars, sessVars, Freeing, Numbered
<1>2. CASE Next /\ UNCHANGED setup
  <2>1. CASE MainThread
    BY <1>2, <2>1, CountFrameSteps, CountStartSteps, CountRouteSteps, CountSessionSteps DEF MainThread
  <2>2. CASE RingReader \/ MemberFails \/ LinkFails
    BY <1>2, <2>2, CountFrameSteps DEF RingReader
  <2>3. ASSUME NEW c \in Link, ClientReader(c) \/ Client(c) \/ AnswerEnds(c)
        PROVE  Counts'
    <3>1. UNCHANGED <<main, ready, kv, inUse, req>>
      BY <2>3 DEF ClientReader, Client, Accept, ReadCommand, PushCommand, DropClient, ReaderEnds,
         PushCleanup, AnswerEnds, mainVars, routeVars, queueVars, reqVars, sessVars
    <3>2. QED
      BY <1>2, <3>1, CountFrame DEF Freeing, Numbered
  <2>4. QED
    BY <1>2, <2>1, <2>2, <2>3, CountRequestSteps DEF Next
<1>3. QED
  BY <1>1, <1>2

CountedInv == (\A l \in Link : Listed(l)) /\ (\A l \in Link : Kept(l)) /\ Counts

\* When no reader of a connection that dissolve() closed is still running at the
\* next replica's start, every session is counted.
THEOREM CountedInvariant ==
    ASSUME ~LateReaders
    PROVE  Spec => []CountedInv
<1>1. Init => CountedInv
  BY ListedInit, KeptInit, CountInit DEF CountedInv
<1>2. OwnInv /\ CareInv /\ CountedInv /\ [Next /\ UNCHANGED setup]_<<vars, setup>> => CountedInv'
  <2> SUFFICES ASSUME OwnInv, CareInv, CountedInv, [Next /\ UNCHANGED setup]_<<vars, setup>>
               PROVE  CountedInv'
    OBVIOUS
  <2>1. \A l \in Link : Listed(l)'
    BY ListedStep DEF CountedInv
  <2>2. \A l \in Link : Kept(l)'
    BY KeptStep DEF CountedInv
  <2>3. Counts'
    BY CountStep DEF CountedInv
  <2>4. QED
    BY <2>1, <2>2, <2>3 DEF CountedInv
<1>3. QED
  BY <1>1, <1>2, OwnInvariant, CareInvariant, PTL DEF Spec

\* While a replica serves, sessions_in_use_ (a counter that wraps) is the number
\* of sessions its members hold, but for those a member refused to destroy and up
\* to the ones a thread is in the middle of creating or freeing, and never more
\* than they have KV memory for: when no reader of a connection that dissolve()
\* closed is still running at the next replica's start.
THEOREM AlwaysAccounted ==
    ASSUME ~LateReaders
    PROVE  Spec => []Accounted
<1>1. CountedInv => Accounted
  BY DEF CountedInv, Counts, Accounted, Numbered
<1>2. QED
  BY <1>1, CountedInvariant, PTL

-----------------------------------------------------------------------------
(***************************************************************************)
(* Why the replica is dissolved                                            *)
(***************************************************************************)
\* A member or a link of the ring has failed, a call on one worker timed out, or
\* the dissolution has closed the connections itself.
Lost == members \in {"cut", "down", "desync"} \/ main \in {"disAbort", "disJoin"}

\* A session is to be created on members that hold one they refused to destroy.
NoRoom == main = "dissolve" /\ job.kind = "create" /\ leaked # {}

\* Nobody takes the replica for broken, or is about to, unless it is.
FailureInv ==
    /\ members = "desync" => setup.oneStage /\ setup.longAnswers
    /\ members = "aborted" => main = "disJoin"
    /\ broken => Lost
    /\ main = "failClose" => Lost
    /\ main = "dissolve" => Lost \/ NoRoom
    /\ ring = "failClose" => Lost
    /\ \A l \in Link : req[l] \in {"failClose", "failFree"} => Lost

LEMMA FailureInit == Init => FailureInv
  BY DEF Init, FailureInv

\* A call throws only on a connection that is down, or that a call timed out on.
LEMMA ThrowsWhenLost ==
    ASSUME OwnInv, FailureInv, CallThrows, UNCHANGED setup
    PROVE  /\ members' \in {"down", "desync", "aborted"}
           /\ members' = "desync" => setup'.oneStage /\ setup'.longAnswers
           /\ members' = "aborted" => members = "aborted" /\ main = "disJoin"
  BY DEF OwnInv, Types, FailureInv, CallThrows, WorkerFree

\* Members that have no room for the session the owner has counted room for hold
\* one that it gave up.
LEMMA GivenUpRoom ==
    ASSUME OwnInv, CareInv, CountedInv, CreateRefused
    PROVE  leaked # {}
<1> SUFFICES ASSUME leaked = {} PROVE FALSE
  OBVIOUS
<1>1. /\ main = "exec" /\ inUse < MaxSessions /\ Cardinality(kv) >= MaxSessions
  BY DEF CreateRefused, Executes, CreateAllowed
<1>2. Numbered
  BY <1>1 DEF CareInv, Doors, Serving, Numbered
<1>3. Cardinality(kv) \in Nat /\ Cardinality(Freeing) \in Nat /\ inUse \in Nat /\ MaxSessions \in Nat
  BY FinitelyMany, Capacity DEF CountedInv, Counts
<1>4. Overcounted = Cardinality(Freeing) + 0 /\ Uncounted = 0
  BY <1>1 DEF Overcounted, Uncounted, Freeing
<1>5. Cardinality(kv) + Overcounted = inUse + Uncounted
  BY <1>2 DEF CountedInv, Counts
<1>6. QED
  BY <1>1, <1>3, <1>4, <1>5

LEMMA FailureMainSteps ==
    ASSUME OwnInv, CareInv, CountedInv, FailureInv, MainThread, UNCHANGED setup
    PROVE  FailureInv'
<1> USE DEF mainVars, routeVars, queueVars, reqVars, sessVars, linkVars
<1>1. CASE Form
  BY <1>1 DEF Form, OwnInv, Route, Forming, FailureInv, Lost
<1>2. CASE ClearJobs
  BY <1>2 DEF ClearJobs, FailureInv, Lost, NoRoom
<1>3. CASE OpenDoor
  BY <1>3 DEF OpenDoor, FailureInv, Lost, NoRoom
<1>4. CASE WakeBroken
  BY <1>4 DEF WakeBroken, FailureInv, Lost, NoRoom
<1>5. CASE WakeJob
  <2>1. \A l \in Link : req'[l] \in {"failClose", "failFree"} => req'[l] = req[l]
    BY <1>5, StartsKeeping DEF WakeJob
  <2>2. QED
    BY <1>5, <2>1 DEF WakeJob, FailureInv, Lost, NoRoom
<1>6. CASE WakeIdle
  <2>1. \A l \in Link : req'[l] \in {"failClose", "failFree"} => req'[l] = req[l]
    BY <1>6, StartsKeeping DEF WakeIdle
  <2>2. QED
    BY <1>6, <2>1 DEF WakeIdle, FailureInv, Lost, NoRoom
<1>7. CASE Healthy
  BY <1>7 DEF Healthy, FailureInv, Lost, NoRoom
<1>8. CASE Unhealthy
  BY <1>8, ThrowsWhenLost DEF Unhealthy, FailureInv, Lost, NoRoom
<1>9. CASE GiveWay
  BY <1>9 DEF GiveWay, FailureInv, Lost, NoRoom
<1>10. CASE Refuse
  BY <1>10 DEF Refuse, Executes, JobDone, FailureInv, Lost, NoRoom
<1>11. CASE CreateSession
  BY <1>11 DEF CreateSession, Executes, FailureInv, Lost, NoRoom
<1>12. CASE CreateRefused
  <2>1. leaked # {}
    BY <1>12, GivenUpRoom
  <2>2. QED
    BY <1>12, <2>1 DEF CreateRefused, Executes, FailureInv, Lost, NoRoom
<1>13. CASE CreateThrows
  BY <1>13, ThrowsWhenLost DEF CreateThrows, Executes, FailureInv, Lost, NoRoom
<1>14. CASE Created
  BY <1>14 DEF Created, JobDone, FailureInv, Lost, NoRoom
<1>15. CASE ResetOrPrepare
  BY <1>15 DEF ResetOrPrepare, Executes, JobDone, FailureInv, Lost, NoRoom
<1>16. CASE PrepareThrows
  BY <1>16, ThrowsWhenLost DEF PrepareThrows, Executes, JobDone, FailureInv, Lost, NoRoom
<1>17. CASE DestroySession
  BY <1>17 DEF DestroySession, Executes, FailureInv, Lost, NoRoom
<1>18. CASE Destroyed
  BY <1>18 DEF Destroyed, JobDone, FailureInv, Lost, NoRoom
<1>19. CASE CleanupErases
  BY <1>19 DEF CleanupErases, Executes, JobDone, FailureInv, Lost, NoRoom
<1>20. CASE CleanupDestroys
  BY <1>20 DEF CleanupDestroys, FailureInv, Lost, NoRoom
<1>21. CASE Cleaned
  BY <1>21 DEF Cleaned, JobDone, FailureInv, Lost, NoRoom
<1>22. CASE CommandThrows
  BY <1>22, ThrowsWhenLost DEF CommandThrows, FailureInv, Lost, NoRoom
<1>23. CASE CommandRefused
  BY <1>23 DEF CommandRefused, JobDone, FailureInv, Lost, NoRoom
<1>24. CASE MainFails
  BY <1>24, ThrowsWhenLost DEF MainFails, FailureInv, Lost, NoRoom
<1>25. CASE MainCloses
  BY <1>25 DEF MainCloses, JobDone, FailureInv, Lost, NoRoom
<1>26. CASE QueueRequest
  <2>1. \A l \in Link : req'[l] \in {"failClose", "failFree"} => req'[l] = req[l]
    BY <1>26, StartsKeeping DEF QueueRequest
  <2>2. QED
    BY <1>26, <2>1 DEF QueueRequest, Executes, JobDone, FailureInv, Lost, NoRoom
<1>27. CASE ShutDoor
  BY <1>27 DEF ShutDoor, FailureInv, Lost, NoRoom
<1>28. CASE DissolveClears
  BY <1>28 DEF DissolveClears, FailureInv, Lost, NoRoom
<1>29. CASE DissolveFails
  BY <1>29 DEF DissolveFails, FailureInv, Lost, NoRoom
<1>30. CASE AbortMembers
  BY <1>30 DEF AbortMembers, FailureInv, Lost, NoRoom
<1>31. CASE ReleaseRoute
  BY <1>31 DEF ReleaseRoute, Joined, Reaped, FailureInv, Lost, NoRoom
<1>32. CASE TellClients
  BY <1>32 DEF TellClients, FailureInv, Lost, NoRoom
<1>33. QED
  BY <1>1, <1>2, <1>3, <1>4, <1>5, <1>6, <1>7, <1>8, <1>9, <1>10, <1>11, <1>12, <1>13, <1>14, <1>15, <1>16, <1>17, <1>18, <1>19, <1>20, <1>21, <1>22, <1>23, <1>24, <1>25, <1>26, <1>27, <1>28, <1>29, <1>30, <1>31, <1>32 DEF MainThread

LEMMA FailureRequestSteps ==
    ASSUME OwnInv, FailureInv, NEW l \in Link, RequestThread(l), UNCHANGED setup
    PROVE  FailureInv'
<1> USE DEF mainVars, routeVars, queueVars, reqVars, sessVars, linkVars
<1>0. req \in [Link -> Running \cup Leaving \cup Ended]
  BY DEF OwnInv, Types
<1>1. CASE RequestThrows(l) \/ RequestFails(l)
  <2>1. /\ members' \in {"down", "desync", "aborted"}
        /\ members' = "desync" => setup'.oneStage /\ setup'.longAnswers
        /\ members' = "aborted" => main = "disJoin"
    <3>1. CASE CallThrows
      BY <3>1, ThrowsWhenLost
    <3>2. CASE req[l] = "stream" /\ members \notin {"up", "cut"} /\ UNCHANGED members
      <4>1. members # "none"
        BY <3>2 DEF OwnInv, Route, Forming
      <4>2. QED
        BY <3>2, <4>1 DEF OwnInv, Types, FailureInv
    <3>3. QED
      BY <1>1, <3>1, <3>2 DEF RequestThrows, RequestFails
  <2>2. UNCHANGED <<main, ring, job, leaked>>
    BY <1>1 DEF RequestThrows, RequestFails
  <2>3. Lost'
    BY <2>1, <2>2 DEF Lost
  <2>4. QED
    BY <2>1, <2>2, <2>3 DEF FailureInv
<1>2. CASE StreamTimesOut(l)
  <2>1. members \in {"cut", "down"} /\ UNCHANGED <<setup, main, members, ring, job, leaked>>
    BY <1>2 DEF StreamTimesOut
  <2>2. QED
    BY <2>1 DEF FailureInv, Lost
<1>3. CASE RequestCloses(l)
  BY <1>0, <1>3 DEF RequestCloses, Goes, FailureInv, Lost, NoRoom
<1>4. CASE ~RequestThrows(l) /\ ~RequestFails(l) /\ ~StreamTimesOut(l) /\ ~RequestCloses(l)
  <2>1. /\ UNCHANGED <<main, members, ring, job, broken>>
        /\ leaked \subseteq leaked'
    BY <1>4 DEF RequestThread, RegisterInbox, CheckBroken, StartStream, StartRefused, LastToken,
       ErrorFrame, InboxClosed, EndRequest, CommitRefused, ResetRefused, RequestRefused, GivenUp,
       PostAnswer, Unbusy, LeaveBroken, FreeSession, Freed
  <2>2. \A k \in Link : req'[k] \in {"failClose", "failFree"} => req'[k] = req[k]
    BY <1>0, <1>4 DEF RequestThread, RegisterInbox, CheckBroken, StartStream, StartRefused, LastToken,
       ErrorFrame, InboxClosed, EndRequest, CommitRefused, ResetRefused, RequestRefused,
       PostAnswer, Unbusy, LeaveBroken, FreeSession, Freed, Goes
  <2>3. (Lost' <=> Lost) /\ (NoRoom => NoRoom')
    BY <2>1 DEF Lost, NoRoom
  <2>4. QED
    BY <2>1, <2>2, <2>3 DEF FailureInv
<1>5. QED
  BY <1>1, <1>2, <1>3, <1>4

LEMMA FailureOtherSteps ==
    ASSUME OwnInv, FailureInv, UNCHANGED setup,
           \/ RingReader \/ MemberFails \/ LinkFails
           \/ \E l \in Link : ClientReader(l) \/ Client(l) \/ AnswerEnds(l)
    PROVE  FailureInv'
<1> USE DEF mainVars, routeVars, queueVars, reqVars, sessVars, linkVars
<1>1. CASE RingReader
  BY <1>1 DEF RingReader, RingThrows, RingStops, FailureInv, Lost, NoRoom
<1>2. CASE MemberFails
  BY <1>2 DEF MemberFails, FailureInv, Lost, NoRoom
<1>3. CASE LinkFails
  BY <1>3 DEF LinkFails, FailureInv, Lost, NoRoom
<1>4. CASE \E l \in Link : ClientReader(l) \/ Client(l) \/ AnswerEnds(l)
  <2>1. UNCHANGED <<main, job, members, leaked, broken, ring, req>>
    BY <1>4 DEF ClientReader, Client, Accept, ReadCommand, PushCommand, DropClient, ReaderEnds,
       PushCleanup, AnswerEnds
  <2>2. QED
    BY <2>1 DEF FailureInv, Lost, NoRoom
<1>5. QED
  BY <1>1, <1>2, <1>3, <1>4

LEMMA FailureStep ==
    OwnInv /\ CareInv /\ CountedInv /\ FailureInv /\ [Next /\ UNCHANGED setup]_<<vars, setup>> => FailureInv'
<1> SUFFICES ASSUME OwnInv, CareInv, CountedInv, FailureInv, [Next /\ UNCHANGED setup]_<<vars, setup>>
             PROVE  FailureInv'
  OBVIOUS
<1>1. CASE UNCHANGED <<vars, setup>>
  BY <1>1 DEF vars, mainVars, routeVars, queueVars, reqVars, sessVars, linkVars, FailureInv, Lost, NoRoom
<1>2. CASE Next /\ UNCHANGED setup
  BY <1>2, FailureMainSteps, FailureRequestSteps, FailureOtherSteps DEF Next
<1>3. QED
  BY <1>1, <1>2

\* A replica is dissolved, other than to give way, only when a member or a link of
\* the ring failed, a call timed out behind a long answer of one worker, or a
\* session is created while members hold one they refused to destroy: no client
\* that leaves, no other error of a session and no race between the threads that
\* call the members makes fail() end it.
THEOREM AlwaysDissolvesOnFailure ==
    ASSUME ~LateReaders
    PROVE  Spec => []DissolvesOnFailure
<1>1. FailureInv => DissolvesOnFailure
  BY DEF FailureInv, DissolvesOnFailure, Lost, NoRoom
<1>2. QED
  BY <1>1, FailureInit, FailureStep, OwnInvariant, CareInvariant, CountedInvariant, PTL DEF Spec

=============================================================================
