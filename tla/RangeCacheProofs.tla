-------------------------- MODULE RangeCacheProofs --------------------------
(***************************************************************************)
(* Proofs about module RangeCache, for any models, catalogues, faults and  *)
(* kills, from the one fact about the layout that ChunksCover states.      *)
(***************************************************************************)
EXTENDS RangeCache, TLAPS

-----------------------------------------------------------------------------
(***************************************************************************)
(* The inductive invariant, in named parts.                                *)
(***************************************************************************)
Marks(p) == [rev : Revision, upto : 0..Len(Chunks[p])]
Contents(p) == [0..(LogicalSize[p] - 1) -> Revision \cup {NoRev, "torn", "bad"}]
ChunkUnit(p) == {u \in 0..(LogicalSize[p] - 1) : \E k \in 1..Len(Chunks[p]) : u \in Units(Chunks[p][k])}

Whole(p, rev) == Mine(p) /\ \A k \in 1..Len(Chunks[p]) : Matches(p, k, rev)

Shape ==
    /\ DOMAIN file = Path /\ DOMAIN ranges = Path /\ DOMAIN partial = Path /\ DOMAIN gpu = Path
    /\ catalog \in [Path -> Revision] /\ path \in Path /\ resume \in BOOLEAN
    /\ pc \in {"idle", "check", "drop ranges", "drop partial", "metadata", "resume",
               "discard partial", "create", "mark", "fetch", "copy", "publish", "unmark", "ready",
               "draft", "serving"}

\* What a kill leaves behind: what `.ranges' is for was downloaded whole, unless the
\* file beside it is the user's.
Disk(p) ==
    /\ file[p] \in {NoFile, Users} \cup Contents(p)
    /\ ranges[p] \in Revision \cup {NoRev}
    /\ partial[p] \in {NoMark, Alien} \cup Marks(p)
    /\ Mine(p) /\ ranges[p] # NoRev => \A u \in ChunkUnit(p) : file[p][u] \in {ranges[p], "bad"}

\* Where the loading thread is, and what it has found out about the file by then.
\* The user may have put one there in the meantime.
Stands ==
    /\ pc \in {"drop ranges", "drop partial", "discard partial", "create"} => ~Mine(path)
    /\ pc \in {"drop partial", "metadata", "resume", "discard partial", "create", "mark", "fetch",
               "copy", "publish"} => ranges[path] = NoRev
    /\ pc = "metadata" /\ ~resume => ~Mine(path)
    /\ (pc = "metadata" /\ resume) \/ pc = "resume" => partial[path] \in Marks(path)
    /\ pc \in {"mark", "fetch", "copy"} =>
          /\ Mine(path) /\ done \in 0..Len(Chunks[path])
          /\ \A k \in 1..done : Matches(path, k, catalog[path])
    /\ pc \in {"fetch", "copy"} => done # Len(Chunks[path])
    /\ pc \in {"publish", "unmark", "ready"} => Whole(path, catalog[path])

InMemory(p) == gpu[p] # <<>> => \A u \in ChunkUnit(p) : gpu[p][u] = catalog[p]

CacheInv == Shape /\ Stands /\ \A p \in Path : Disk(p) /\ InMemory(p)

Resting == {"idle", "check", "draft", "serving"}

-----------------------------------------------------------------------------
(***************************************************************************)
(* Lemmas                                                                  *)
(***************************************************************************)
LEMMA MineIs ==
    ASSUME ChunksCover, NEW p \in Path, NEW f \in Contents(p)
    PROVE  f # NoFile /\ f # Users
<1>1. 0 \in DOMAIN f
  BY DEF ChunksCover, Contents
<1>2. 0 \notin DOMAIN NoFile /\ 0 \notin DOMAIN Users
  BY DEF NoFile, Users
<1>3. QED
  BY <1>1, <1>2

LEMMA DiskKept ==
    ASSUME NEW p \in Path, Disk(p), UNCHANGED <<file[p], ranges[p], partial[p]>>
    PROVE  Disk(p)'
  BY DEF Disk, Mine

LEMMA MemoryKept ==
    ASSUME NEW p \in Path, InMemory(p), UNCHANGED catalog, gpu'[p] \in {gpu[p], <<>>}
    PROVE  InMemory(p)'
  BY DEF InMemory

\* A file in which every chunk has its hash is right in every unit of a chunk.
LEMMA WholeUnits ==
    ASSUME NEW p \in Path, NEW rev, Whole(p, rev), NEW u \in ChunkUnit(p)
    PROVE  file[p][u] = rev
  BY DEF Whole, Matches, ChunkUnit

\* A step on the file that is being prepared.
LEMMA PathStep ==
    ASSUME CacheInv, NEW q \in Path, path = q, UNCHANGED <<catalog, path, gpu>>,
           pc' \in {"idle", "check", "drop ranges", "drop partial", "metadata", "resume",
                    "discard partial", "create", "mark", "fetch", "copy", "publish", "unmark",
                    "ready", "draft", "serving"},
           resume' \in BOOLEAN,
           DOMAIN file' = Path, DOMAIN ranges' = Path, DOMAIN partial' = Path,
           \A p \in Path : p # q => UNCHANGED <<file[p], ranges[p], partial[p]>>,
           Disk(q)', Stands'
    PROVE  CacheInv'
<1>1. Shape'
  BY DEF CacheInv, Shape
<1>2. \A p \in Path : InMemory(p)'
  BY MemoryKept DEF CacheInv
<1>3. \A p \in Path : Disk(p)'
  BY DiskKept DEF CacheInv
<1>4. QED
  BY <1>1, <1>2, <1>3 DEF CacheInv

LEMMA CacheInit == ASSUME Init PROVE CacheInv
<1>1. Shape /\ Stands
  BY RangeCacheConstants DEF Init, Shape, Stands
<1>2. ASSUME NEW p \in Path PROVE Disk(p) /\ InMemory(p)
  BY DEF Init, Disk, InMemory, Mine
<1>3. QED
  BY <1>1, <1>2 DEF CacheInv

-----------------------------------------------------------------------------
(***************************************************************************)
(* CacheInv is inductive                                                   *)
(***************************************************************************)
\* Whatever the step, a failure leaves the directory as it is.
LEMMA FailureSteps ==
    ASSUME CacheInv, Fails, UNCHANGED <<file, partial>>
    PROVE  CacheInv'
<1>1. pc' \in {"idle", "serving"} /\ UNCHANGED <<file, ranges, partial, catalog, path, resume, gpu>>
  BY DEF Fails
<1>2. Shape' /\ Stands'
  BY <1>1 DEF CacheInv, Shape, Stands
<1>3. \A p \in Path : Disk(p)' /\ InMemory(p)'
  BY <1>1, DiskKept, MemoryKept DEF CacheInv
<1>4. QED
  BY <1>2, <1>3 DEF CacheInv

\* The stage and its draft are chosen, read into memory, kept or dropped, and the
\* process killed.
LEMMA LoadSteps ==
    ASSUME ChunksCover, CacheInv,
           \/ LoadAssignedStage \/ BuildStage \/ DraftOff \/ DraftKept \/ LoadDraft \/ BuildDraft
           \/ RouteEnds \/ Restart
    PROVE  CacheInv'
<1> USE DEF disk, memory, bounds
<1>0. "stage" \in Path /\ "draft" \in Path /\ DOMAIN gpu = Path
  BY RangeCacheConstants DEF CacheInv, Shape
<1>1. CASE LoadAssignedStage \/ DraftOff \/ DraftKept \/ LoadDraft \/ RouteEnds \/ Restart
  <2>1. /\ pc' \in Resting /\ path' \in Path /\ resume' \in BOOLEAN /\ UNCHANGED <<file, ranges, partial>>
        /\ DOMAIN gpu' = Path /\ catalog' \in [Path -> Revision]
    BY <1>0, <1>1 DEF LoadAssignedStage, DraftOff, DraftKept, LoadDraft, RouteEnds, Restart, Goto, CacheInv,
       Shape, Resting
  <2>2. ASSUME NEW p \in Path PROVE InMemory(p)'
    <3>1. CASE Restart
      BY <3>1 DEF Restart, InMemory
    <3>2. CASE ~Restart
      <4>1. catalog' = catalog /\ gpu'[p] \in {gpu[p], <<>>}
        BY <1>0, <1>1, <3>2 DEF LoadAssignedStage, DraftOff, DraftKept, LoadDraft, RouteEnds, Goto
      <4>2. QED
        BY <4>1, MemoryKept DEF CacheInv
    <3>3. QED
      BY <3>1, <3>2
  <2>3. \A p \in Path : Disk(p)'
    BY <2>1, DiskKept DEF CacheInv
  <2>4. Shape' /\ Stands'
    BY <2>1 DEF CacheInv, Shape, Stands, Resting
  <2>5. QED
    BY <2>2, <2>3, <2>4 DEF CacheInv
<1>2. CASE BuildStage \/ BuildDraft
  <2>1. CASE Fails /\ UNCHANGED <<file, partial>>
    BY <2>1, FailureSteps
  <2>2. CASE ~(Fails /\ UNCHANGED <<file, partial>>)
    <3>1. /\ pc = "ready" /\ pc' \in Resting /\ gpu' = [gpu EXCEPT ![path] = file[path]]
          /\ UNCHANGED <<file, ranges, partial, catalog, path, resume>>
      BY <1>2, <2>2 DEF BuildStage, BuildDraft, StageLoaded, StepFails, Resting
    <3>2. Whole(path, catalog[path]) /\ path \in Path
      BY <3>1 DEF CacheInv, Stands, Shape
    <3>3. ASSUME NEW p \in Path PROVE InMemory(p)'
      <4>1. CASE p = path
        BY <1>0, <3>1, <3>2, <4>1, WholeUnits DEF InMemory
      <4>2. CASE p # path
        BY <1>0, <3>1, <4>2, MemoryKept DEF CacheInv
      <4>3. QED
        BY <4>1, <4>2
    <3>4. \A p \in Path : Disk(p)'
      BY <3>1, DiskKept DEF CacheInv
    <3>5. Shape' /\ Stands'
      BY <3>1 DEF CacheInv, Shape, Stands, Resting
    <3>6. QED
      BY <3>3, <3>4, <3>5 DEF CacheInv
  <2>3. QED
    BY <2>1, <2>2
<1>3. QED
  BY <1>1, <1>2

\* What lies at the path is looked at.
LEMMA LookSteps ==
    ASSUME ChunksCover, CacheInv, ReuseCache \/ FindPartial \/ Refuse \/ Nothing \/ FetchMetadata \/ Resume
    PROVE  CacheInv'
<1> USE DEF disk, memory, bounds
<1>1. CASE Fails /\ UNCHANGED <<file, partial>>
  BY <1>1, FailureSteps
<1>2. CASE ~(Fails /\ UNCHANGED <<file, partial>>)
  <2>1. UNCHANGED <<file, ranges, partial, catalog, path, gpu>>
    BY <1>2 DEF ReuseCache, FindPartial, Refuse, Nothing, FetchMetadata, Resume, Goto, StepFails
  <2>2. path \in Path /\ Disk(path)
    BY DEF CacheInv, Shape
  <2>3. resume' \in BOOLEAN
    BY <1>2 DEF ReuseCache, FindPartial, Refuse, Nothing, FetchMetadata, Resume, StepFails, CacheInv, Shape
  <2>4. /\ pc' \in {"ready", "metadata", "resume", "create", "mark"}
        /\ Stands'
    <3>1. CASE ReuseCache
      BY <2>1, <3>1 DEF ReuseCache, Reusable, Want, Goto, Stands, Whole, Mine, Matches
    <3>2. CASE FindPartial
      <4>1. /\ pc' = "metadata" /\ resume' = TRUE /\ ranges[path] = NoRev /\ file[path] # NoFile
            /\ partial[path] \notin {NoMark, Alien}
        BY <3>2 DEF FindPartial, Candidate, Goto
      <4>2. partial[path] \in Marks(path)
        BY <2>2, <4>1 DEF Disk
      <4>3. QED
        BY <2>1, <4>1, <4>2 DEF Stands, Mine
    <3>3. CASE Refuse
      BY <1>2, <3>3 DEF Refuse
    <3>4. CASE Nothing
      BY <2>1, <3>4 DEF Nothing, Present, Goto, Stands, Mine
    <3>5. CASE FetchMetadata
      <4>1. pc = "metadata" /\ pc' = (IF resume THEN "resume" ELSE "create")
        BY <1>2, <3>5 DEF FetchMetadata, Goto, StepFails
      <4>2. QED
        BY <2>1, <4>1 DEF CacheInv, Stands, Mine
    <3>6. CASE Resume
      <4>1. pc = "resume" /\ PartialGood /\ done' = partial[path].upto /\ pc' = "mark"
        BY <3>6 DEF Resume, Goto
      <4>2. Mine(path) /\ partial[path] \in Marks(path) /\ ranges[path] = NoRev
        BY <4>1 DEF CacheInv, Stands, PartialGood
      <4>3. done' \in 0..Len(Chunks[path]) /\ \A k \in 1..done' : Matches(path, k, catalog[path])
        BY <4>1, <4>2 DEF PartialGood, Want, Marks
      <4>4. QED
        BY <2>1, <4>1, <4>2, <4>3 DEF Stands, Mine, Matches
    <3>7. QED
      BY <3>1, <3>2, <3>3, <3>4, <3>5, <3>6
  <2>5. Disk(path) /\ \A q \in Path : Disk(q) => Disk(q)'
    BY <2>1, <2>2, DiskKept
  <2>6. QED
    BY <2>1, <2>2, <2>3, <2>4, <2>5, PathStep DEF CacheInv, Shape
<1>3. QED
  BY <1>1, <1>2

\* What is there is cleared away: the file before its markers.
LEMMA ClearSteps ==
    ASSUME ChunksCover, CacheInv, NEW q \in Path, path = q,
           DropOrphan \/ Replace \/ DropRanges \/ DropPartial \/ Discard \/ DiscardPartial \/ RemovePartial
    PROVE  CacheInv'
<1> USE DEF disk, memory, bounds
<1>0. /\ UNCHANGED <<catalog, path, gpu>> /\ resume' \in BOOLEAN /\ Disk(q)
      /\ DOMAIN file = Path /\ DOMAIN ranges = Path /\ DOMAIN partial = Path
  BY DEF DropOrphan, Replace, DropRanges, DropPartial, Discard, DiscardPartial, RemovePartial, Goto,
     CacheInv, Shape
<1>1. CASE DropOrphan
  <2>1. /\ pc' = "check" /\ UNCHANGED <<file, ranges>> /\ partial' = [partial EXCEPT ![q] = NoMark]
    BY <1>1 DEF DropOrphan, Goto
  <2>2. Disk(q)'
    BY <1>0, <2>1 DEF Disk, Mine
  <2>3. Stands'
    BY <2>1 DEF Stands
  <2>4. QED
    BY <1>0, <2>1, <2>2, <2>3, PathStep
<1>2. CASE Replace \/ Discard
  <2>1. /\ pc' \in {"drop ranges", "discard partial"} /\ UNCHANGED <<ranges, partial>>
        /\ file' = [file EXCEPT ![q] = NoFile]
        /\ pc' = "discard partial" => ranges[q] = NoRev
    BY <1>2 DEF Replace, Discard, Goto, CacheInv, Stands
  <2>2. Disk(q)'
    BY <1>0, <2>1 DEF Disk, Mine, NoFile, Users
  <2>3. Stands'
    BY <1>0, <2>1 DEF Stands, Mine
  <2>4. QED
    BY <1>0, <2>1, <2>2, <2>3, PathStep
<1>3. CASE DropRanges
  <2>1. /\ pc' = "drop partial" /\ UNCHANGED <<file, partial>> /\ ~Mine(q)
        /\ ranges' = [ranges EXCEPT ![q] = NoRev]
    BY <1>3 DEF DropRanges, Goto, CacheInv, Stands
  <2>2. Disk(q)'
    BY <1>0, <2>1 DEF Disk, Mine
  <2>3. Stands'
    BY <1>0, <2>1 DEF Stands, Mine
  <2>4. QED
    BY <1>0, <2>1, <2>2, <2>3, PathStep
<1>4. CASE DropPartial \/ DiscardPartial
  <2>1. /\ pc' \in {"metadata", "create"} /\ UNCHANGED <<file, ranges>> /\ resume' = FALSE
        /\ ~Mine(q) /\ ranges[q] = NoRev /\ partial' = [partial EXCEPT ![q] = NoMark]
    BY <1>4 DEF DropPartial, DiscardPartial, Goto, CacheInv, Stands
  <2>2. Disk(q)'
    BY <1>0, <2>1 DEF Disk, Mine
  <2>3. Stands'
    BY <1>0, <2>1 DEF Stands, Mine
  <2>4. QED
    BY <1>0, <2>1, <2>2, <2>3, PathStep
<1>5. CASE RemovePartial
  <2>1. /\ pc = "unmark" /\ pc' = "ready" /\ UNCHANGED <<file, ranges>>
        /\ partial' = [partial EXCEPT ![q] = NoMark]
    BY <1>5 DEF RemovePartial, Goto
  <2>2. Disk(q)'
    BY <1>0, <2>1 DEF Disk, Mine
  <2>3. Stands'
    BY <1>0, <2>1 DEF CacheInv, Stands, Whole, Mine, Matches
  <2>4. QED
    BY <1>0, <2>1, <2>2, <2>3, PathStep
<1>6. QED
  BY <1>1, <1>2, <1>3, <1>4, <1>5

\* The file is made and filled, recorded and published.
LEMMA WriteSteps ==
    ASSUME ChunksCover, CacheInv, NEW q \in Path, path = q,
           SparseCreate \/ WritePartial \/ FetchRange \/ CopyInto \/ WriteSidecar
    PROVE  CacheInv'
<1> USE DEF disk, memory, bounds
<1> DEFINE n == Len(Chunks[q])
           Of(k) == Units(Chunks[q][k])
<1>1. CASE Fails /\ UNCHANGED <<file, partial>>
  BY <1>1, FailureSteps
<1>2. CASE ~(Fails /\ UNCHANGED <<file, partial>>)
  <2>0. /\ UNCHANGED <<catalog, path, gpu, resume>> /\ resume \in BOOLEAN /\ Disk(q)
        /\ DOMAIN file = Path /\ DOMAIN ranges = Path /\ DOMAIN partial = Path
        /\ catalog[q] \in Revision
    BY <1>2 DEF SparseCreate, WritePartial, FetchRange, CopyInto, WriteSidecar, Goto, StepFails, CacheInv, Shape
  <2>1. n \in Nat /\ \A k \in 1..n : Of(k) \subseteq 0..(LogicalSize[q] - 1)
    BY DEF ChunksCover
  <2>2. \A j, k \in 1..n : j # k => Of(j) \cap Of(k) = {}
    BY DEF ChunksCover
  <2>3. CASE SparseCreate
    <3> DEFINE f == [u \in 0..(LogicalSize[q] - 1) |-> NoRev]
    <3>1. /\ pc = "create" /\ pc' = "mark" /\ UNCHANGED <<ranges, partial>> /\ done' = 0
          /\ file' = [file EXCEPT ![q] = f]
      BY <1>2, <2>3 DEF SparseCreate, Goto, StepFails
    <3>2. f \in Contents(q) /\ ranges[q] = NoRev
      BY <3>1 DEF Contents, CacheInv, Stands
    <3>3. file'[q] = f /\ f # NoFile /\ f # Users
      BY <2>0, <3>1, <3>2, MineIs
    <3> HIDE DEF f
    <3>4. Disk(q)'
      BY <2>0, <3>1, <3>2, <3>3 DEF Disk
    <3>5. Stands'
      BY <2>0, <2>1, <3>1, <3>2, <3>3 DEF Stands, Mine
    <3>6. QED
      BY <2>0, <3>1, <3>4, <3>5, PathStep
  <2>4. CASE WritePartial
    <3>1. /\ pc = "mark" /\ pc' = (IF done = n THEN "publish" ELSE "fetch")
          /\ UNCHANGED <<file, ranges, done>>
          /\ partial' = [partial EXCEPT ![q] = [rev |-> catalog[q], upto |-> done]]
      BY <1>2, <2>4 DEF WritePartial, Goto, StepFails, Want
    <3>2. /\ Mine(q) /\ done \in 0..n /\ \A k \in 1..done : Matches(q, k, catalog[q])
          /\ ranges[q] = NoRev
      BY <3>1 DEF CacheInv, Stands
    <3>3. Disk(q)'
      BY <2>0, <3>1, <3>2 DEF Disk, Mine, Marks
    <3>4. Stands'
      BY <2>0, <3>1, <3>2 DEF Stands, Whole, Mine, Matches
    <3>5. QED
      BY <2>0, <3>1, <3>3, <3>4, PathStep
  <2>5. CASE FetchRange \/ CopyInto
    <3>1. PICK v \in {"torn", catalog[q]} :
          /\ file' = [file EXCEPT ![q] =
                        [u \in DOMAIN file[q] |-> IF u \in Of(done + 1) THEN v ELSE file[q][u]]]
          /\ \/ pc' = "copy" /\ done' = done
             \/ pc' = "mark" /\ done' = done + 1 /\ v = catalog[q]
          /\ pc \in {"fetch", "copy"} /\ UNCHANGED <<ranges, partial>>
      BY <1>2, <2>5 DEF FetchRange, CopyInto, Goto, StepFails, Want
    <3>2. /\ Mine(q) /\ done \in 0..n /\ done # n /\ \A k \in 1..done : Matches(q, k, catalog[q])
          /\ ranges[q] = NoRev
      BY <3>1 DEF CacheInv, Stands
    <3>3. file[q] \in Contents(q)
      BY <2>0, <3>2 DEF Disk, Mine
    <3> DEFINE f == [u \in DOMAIN file[q] |-> IF u \in Of(done + 1) THEN v ELSE file[q][u]]
    <3>4. f \in Contents(q)
      BY <2>0, <3>1, <3>3 DEF Contents
    <3>5. file'[q] = f /\ f # NoFile /\ f # Users
      BY <2>0, <3>1, <3>4, MineIs
    <3>6. /\ DOMAIN f = 0..(LogicalSize[q] - 1)
          /\ \A u \in DOMAIN f : f[u] = IF u \in Of(done + 1) THEN v ELSE file[q][u]
      BY <3>3 DEF Contents
    <3> HIDE DEF f
    <3>7. done + 1 \in 1..n /\ \A k \in 1..done : k \in 1..n /\ k # done + 1
      BY <2>1, <3>2
    <3>8. \A k \in 1..done : \A u \in Of(k) : f[u] = catalog[q]
      <4>1. ASSUME NEW k \in 1..done, NEW u \in Of(k) PROVE f[u] = catalog[q]
        <5>1. u \in DOMAIN f /\ u \notin Of(done + 1)
          BY <2>1, <2>2, <3>6, <3>7
        <5>2. file[q][u] = catalog[q]
          BY <3>2 DEF Matches
        <5>3. QED
          BY <3>6, <5>1, <5>2
      <4>2. QED
        BY <4>1
    <3>9. v = catalog[q] => \A u \in Of(done + 1) : f[u] = catalog[q]
      BY <2>1, <3>6, <3>7
    <3>10. Disk(q)'
      BY <2>0, <3>1, <3>2, <3>4, <3>5 DEF Disk
    <3>11. \A k \in 1..done' : \A u \in Of(k) : f[u] = catalog[q]
      BY <3>1, <3>2, <3>8, <3>9
    <3>12. done' \in 0..n
      BY <2>1, <3>1, <3>2
    <3>13. pc' = "copy" => done' # n
      BY <3>1, <3>2
    <3>14. Stands'
      BY <2>0, <3>1, <3>2, <3>5, <3>11, <3>12, <3>13 DEF Stands, Mine, Matches
    <3>15. QED
      BY <2>0, <3>1, <3>10, <3>14, PathStep
  <2>6. CASE WriteSidecar
    <3>1. /\ pc = "publish" /\ pc' = "unmark" /\ UNCHANGED <<file, partial>>
          /\ ranges' = [ranges EXCEPT ![q] = catalog[q]]
      BY <1>2, <2>6 DEF WriteSidecar, Goto, StepFails, Want
    <3>2. Whole(q, catalog[q])
      BY <3>1 DEF CacheInv, Stands
    <3>3. \A u \in ChunkUnit(q) : file[q][u] = catalog[q]
      BY <3>2, WholeUnits
    <3>4. Mine(q)
      BY <3>2 DEF Whole
    <3>5. Disk(q)'
      BY <2>0, <3>1, <3>3, <3>4 DEF Disk, Mine
    <3>6. Stands'
      BY <2>0, <3>1, <3>2 DEF Stands, Whole, Mine, Matches
    <3>7. QED
      BY <2>0, <3>1, <3>5, <3>6, PathStep
  <2>7. QED
    BY <2>3, <2>4, <2>5, <2>6
<1>3. QED
  BY <1>1, <1>2

\* A unit goes bad while nothing is prepared, or the user puts a file where there
\* is none, at any moment.
LEMMA OutsideSteps ==
    ASSUME ChunksCover, CacheInv, NEW q \in Path,
           UserPutsFile(q) \/ \E u \in 0..(LogicalSize[q] - 1) : GoesBad(q, u)
    PROVE  CacheInv'
<1> USE DEF disk, memory, bounds
<1>1. /\ UNCHANGED <<ranges, catalog, pc, path, resume, done, gpu>>
      /\ \A p \in Path : Disk(p) /\ InMemory(p)
      /\ DOMAIN file = Path /\ DOMAIN partial = Path /\ DOMAIN file' = Path /\ DOMAIN partial' = Path
      /\ \A p \in Path : p # q => UNCHANGED <<file[p], partial[p]>>
  BY DEF UserPutsFile, GoesBad, CacheInv, Shape
<1>2. Disk(q)' /\ Stands'
  <2>1. CASE UserPutsFile(q)
    <3>1. PICK m \in {partial[q], Alien} :
            partial' = [partial EXCEPT ![q] = m] /\ (m # partial[q] => partial[q] = NoMark)
      BY <2>1 DEF UserPutsFile
    <3>2. file[q] = NoFile /\ file'[q] = Users /\ partial'[q] = m /\ Disk(q)
      BY <1>1, <2>1, <3>1 DEF UserPutsFile
    <3>3. ~Mine(q) /\ ~Mine(q)'
      BY <3>2 DEF Mine
    <3>4. Disk(q)'
      BY <1>1, <3>1, <3>2, <3>3 DEF Disk
    <3>5. Stands'
      <4>1. CASE path # q
        <5>1. path \in Path /\ Stands
          BY DEF CacheInv, Shape
        <5>2. UNCHANGED <<pc, path, resume, done, catalog, file[path], ranges[path], partial[path]>>
          BY <1>1, <4>1, <5>1
        <5>3. UNCHANGED Mine(path) /\ UNCHANGED Whole(path, catalog[path])
          BY <5>2 DEF Mine, Whole, Matches
        <5>4. (\A k \in 1..done : Matches(path, k, catalog[path]))
                => \A k \in 1..done' : Matches(path, k, catalog[path])'
          BY <5>2 DEF Matches
        <5>5. QED
          BY <5>1, <5>2, <5>3, <5>4 DEF Stands
      <4>2. CASE path = q
        <5>1. pc \notin {"mark", "fetch", "copy", "publish", "unmark", "ready"}
          BY <3>3, <4>2 DEF CacheInv, Stands, Whole
        <5>2. partial[q] \in Marks(q) => partial'[q] = partial[q]
          BY <3>1, <3>2, RangeCacheConstants DEF Marks, NoMark
        <5>3. QED
          BY <1>1, <3>3, <4>2, <5>1, <5>2 DEF CacheInv, Stands
      <4>3. QED
        BY <4>1, <4>2
    <3>6. QED
      BY <3>4, <3>5
  <2>2. ASSUME NEW u \in 0..(LogicalSize[q] - 1), GoesBad(q, u) PROVE Disk(q)' /\ Stands'
    <3>1. /\ Mine(q) /\ file' = [file EXCEPT ![q][u] = "bad"] /\ UNCHANGED partial
          /\ pc \in {"idle", "serving"}
      BY <2>2 DEF GoesBad
    <3>2. file[q] \in Contents(q)
      BY <1>1, <3>1 DEF Disk, Mine
    <3> DEFINE f == [file[q] EXCEPT ![u] = "bad"]
    <3>3. f \in Contents(q) /\ \A w \in 0..(LogicalSize[q] - 1) : f[w] \in {file[q][w], "bad"}
      BY <3>2 DEF Contents
    <3>4. file'[q] = f /\ f # NoFile /\ f # Users
      BY <1>1, <3>1, <3>3, MineIs
    <3> HIDE DEF f
    <3>5. \A w \in ChunkUnit(q) : w \in 0..(LogicalSize[q] - 1)
      BY DEF ChunkUnit
    <3>6. Disk(q)
      BY <1>1
    <3>7. Disk(q)'
      BY <1>1, <3>1, <3>3, <3>4, <3>5, <3>6 DEF Disk, Mine
    <3>8. Stands'
      BY <1>1, <3>1 DEF Stands
    <3>9. QED
      BY <3>7, <3>8
  <2>3. QED
    BY <2>1, <2>2
<1>3. \A p \in Path : Disk(p)'
  BY <1>1, <1>2, DiskKept
<1>4. \A p \in Path : InMemory(p)'
  BY <1>1, MemoryKept
<1>5. Shape'
  BY <1>1 DEF CacheInv, Shape
<1>6. QED
  BY <1>2, <1>3, <1>4, <1>5 DEF CacheInv

\* The creation that finds a file in its way fails, and may remove it.
LEMMA BlockedStep ==
    ASSUME ChunksCover, CacheInv, CreateBlocked
    PROVE  CacheInv'
<1>1. CASE file' = file
  BY <1>1, FailureSteps DEF CreateBlocked
<1>2. CASE file' = [file EXCEPT ![path] = NoFile]
  <2>1. /\ pc' \in {"idle", "serving"} /\ UNCHANGED <<ranges, partial, catalog, path, resume, gpu>>
        /\ path \in Path /\ DOMAIN file = Path
    BY DEF CreateBlocked, Fails, CacheInv, Shape
  <2>2. Shape' /\ Stands'
    BY <1>2, <2>1 DEF CacheInv, Shape, Stands
  <2>3. Disk(path)'
    BY <1>2, <2>1 DEF CacheInv, Disk, Mine
  <2>4. \A p \in Path : Disk(p)' /\ InMemory(p)'
    BY <1>2, <2>1, <2>3, DiskKept, MemoryKept DEF CacheInv
  <2>5. QED
    BY <2>2, <2>4 DEF CacheInv
<1>3. QED
  BY <1>1, <1>2 DEF CreateBlocked

LEMMA CacheStep ==
    ASSUME ChunksCover, CacheInv, [Next]_vars
    PROVE  CacheInv'
<1>1. CASE UNCHANGED vars
  BY <1>1, DiskKept, MemoryKept DEF vars, disk, memory, bounds, CacheInv, Shape, Stands, Whole, Mine, Matches
<1>2. CASE Next
  <2>1. path \in Path
    BY DEF CacheInv, Shape
  <2>2. CASE Prepare
    BY <2>1, <2>2, LookSteps, ClearSteps, WriteSteps, BlockedStep DEF Prepare
  <2>3. QED
    BY <1>2, <2>2, LoadSteps, OutsideSteps DEF Next, Load
<1>3. QED
  BY <1>1, <1>2

-----------------------------------------------------------------------------
\* Whatever is interrupted, replaced or goes bad, the files, their markers and what
\* the loading thread has checked by then stay consistent with each other.
THEOREM CacheInvariant == ASSUME ChunksCover PROVE Spec => []CacheInv
<1>1. Init => CacheInv
  BY CacheInit
<1>2. CacheInv /\ [Next]_vars => CacheInv'
  BY CacheStep
<1>3. QED
  BY <1>1, <1>2, PTL DEF Spec

\* The weights in memory are those of the pinned revision in every unit the stage
\* owns, however often its download was interrupted, and whatever went bad on disk.
THEOREM AlwaysWeightsAreRight == ASSUME ChunksCover PROVE Spec => []WeightsAreRight
<1>1. CacheInv => WeightsAreRight
  <2> SUFFICES ASSUME CacheInv, NEW p \in Path, gpu[p] # <<>>,
                      NEW u \in Needs[p] \cup 0..(Header - 1)
               PROVE  gpu[p][u] = catalog[p]
    BY DEF WeightsAreRight
  <2>1. u \in ChunkUnit(p)
    BY DEF ChunksCover, ChunkUnit
  <2>2. QED
    BY <2>1 DEF CacheInv, InMemory
<1>2. QED
  BY <1>1, CacheInvariant, PTL

\* A file with a `.ranges' beside it was downloaded completely for the revision that
\* records: no kill between two file operations leaves one that only looks whole.
THEOREM AlwaysAnnouncedIsWhole == ASSUME ChunksCover PROVE Spec => []AnnouncedIsWhole
<1>1. CacheInv => AnnouncedIsWhole
  <2> SUFFICES ASSUME CacheInv, NEW p \in Path, Mine(p), ranges[p] # NoRev, NEW u \in Needs[p]
               PROVE  file[p][u] \in {ranges[p], "bad"}
    BY DEF AnnouncedIsWhole
  <2>1. u \in ChunkUnit(p)
    BY DEF ChunksCover, ChunkUnit
  <2>2. QED
    BY <2>1 DEF CacheInv, Disk
<1>2. QED
  BY <1>1, CacheInvariant, PTL

\* "Never overwrite or silently treat a full file as a range cache"
\* (range_model.cpp:748): a file of the user's with nothing of DAN's beside it, and no
\* download under way that found the path free, stays there and is never taken for
\* DAN's, through every load, failure and kill.
THEOREM AlwaysUsersFileKept == ASSUME ChunksCover PROVE Spec => UsersFileKept
<1>1. CacheInv /\ [Next]_vars => [\A p \in Path : Untouchable(p) => Untouchable(p)']_vars
  <2> SUFFICES ASSUME CacheInv, Next, NEW p \in Path, Untouchable(p) PROVE Untouchable(p)'
    BY DEF vars
  <2> USE DEF disk, memory, bounds
  <2>0. /\ DOMAIN file = Path /\ DOMAIN ranges = Path /\ DOMAIN partial = Path /\ path \in Path
        /\ file[p] = Users /\ ranges[p] = NoRev /\ partial[p] \in {NoMark, Alien}
        /\ file[p] # NoFile /\ ~Mine(p)
    <3>1. Users # NoFile
      BY DEF Users, NoFile
    <3>2. QED
      BY <3>1 DEF CacheInv, Shape, Mine, Untouchable
  <2>1. CASE Prepare /\ path = p
    <3>1. pc \in {"idle", "check", "draft", "serving"}
      BY <2>1 DEF Untouchable
    <3>2. ~Reusable /\ ~Ours /\ Present /\ (Candidate => partial[path] = Alien)
      BY <2>0, <2>1 DEF Reusable, Ours, Present, Candidate
    <3>3. Refuse
      BY <2>0, <2>1, <3>1, <3>2, Zenon DEF Prepare, DropOrphan, ReuseCache, FindPartial, Replace, DropRanges,
         DropPartial, Nothing, FetchMetadata, Resume, Discard, DiscardPartial, SparseCreate,
         CreateBlocked, WritePartial, FetchRange, CopyInto, WriteSidecar, RemovePartial
    <3>4. pc' \in {"idle", "serving"} /\ UNCHANGED <<file, ranges, partial, path>>
      BY <3>3 DEF Refuse, Fails
    <3>5. QED
      BY <2>0, <3>4 DEF Untouchable
  <2>2. CASE Prepare /\ path # p
    <3>1. /\ path' = path
          /\ \A q \in Path : q # path => UNCHANGED <<file[q], ranges[q], partial[q]>>
      BY <2>0, <2>2 DEF Prepare, DropOrphan, ReuseCache, FindPartial, Refuse, Replace, DropRanges, DropPartial,
         Nothing, FetchMetadata, Resume, Discard, DiscardPartial, SparseCreate, CreateBlocked,
         WritePartial, FetchRange, CopyInto, WriteSidecar, RemovePartial, Goto, StepFails, Fails
    <3>2. QED
      BY <2>0, <2>2, <3>1 DEF Untouchable
  <2>3. CASE BuildStage \/ BuildDraft
    <3>1. pc = "ready" /\ pc' \in {"idle", "draft", "serving"} /\ UNCHANGED <<file, ranges, partial>>
      BY <2>3 DEF BuildStage, BuildDraft, StepFails, Fails
    <3>2. QED
      BY <2>0, <3>1 DEF Untouchable
  <2>4. CASE LoadAssignedStage \/ DraftOff \/ DraftKept \/ LoadDraft \/ RouteEnds \/ Restart
    <3>1. /\ pc' \in {"idle", "check", "draft", "serving"} /\ UNCHANGED <<file, ranges, partial>>
      BY <2>4 DEF LoadAssignedStage, DraftOff, DraftKept, LoadDraft, RouteEnds, Restart, Goto
    <3>2. QED
      BY <2>0, <3>1 DEF Untouchable
  <2>5. CASE \E q \in Path : UserPutsFile(q) \/ \E u \in 0..(LogicalSize[q] - 1) : GoesBad(q, u)
    <3>1. PICK q \in Path : UserPutsFile(q) \/ \E u \in 0..(LogicalSize[q] - 1) : GoesBad(q, u)
      BY <2>5
    <3>2. q # p
      BY <2>0, <3>1 DEF UserPutsFile, GoesBad
    <3>3. UNCHANGED <<file[p], ranges, partial[p], pc, path>>
      BY <2>0, <3>1, <3>2 DEF UserPutsFile, GoesBad
    <3>4. QED
      BY <2>0, <3>3 DEF Untouchable
  <2>6. QED
    BY <2>1, <2>2, <2>3, <2>4, <2>5 DEF Next, Load
<1>2. QED
  BY <1>1, CacheInvariant, PTL DEF Spec, UsersFileKept

=============================================================================
