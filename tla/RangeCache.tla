----------------------------- MODULE RangeCache ----------------------------
(***************************************************************************)
(* The layers a worker keeps on disk (engine/range_model.cpp) and loads    *)
(* for the stage it is assigned (load_assigned_stage and load_draft_model  *)
(* in engine/stage_worker.cpp).                                            *)
(*                                                                         *)
(* A stage's weights are a sparse file of the model's full size, into      *)
(* which only the byte ranges of its own tensors are downloaded, chunk by  *)
(* chunk.  Beside it lie `.ranges.incomplete', which records how many      *)
(* chunks are in place with their hashes, and later `.ranges', which says  *)
(* that all are.  The process may be killed between any two file           *)
(* operations and started again, with the same or a newer catalogue;       *)
(* downloads and writes may fail; a stored unit may go bad on disk.        *)
(*                                                                         *)
(* A byte is one of a few units of the file.  Its content is the revision  *)
(* it was downloaded from, so equal hashes are equal contents.  Revisions  *)
(* of a model have the same size and layout, which leaves the hashes and   *)
(* the recorded revision to tell them apart.  The HTTP fetch (curl, with   *)
(* its own retries and the checks of the headers) either brings the pinned *)
(* revision's units or fails.  One file is prepared at a time: loading is  *)
(* under load_mutex, and the directory is the worker's own.                *)
(***************************************************************************)
EXTENDS Integers, Sequences, FiniteSets

LOCAL INSTANCE SequencesExt

CONSTANTS
    Revision,       \* revisions of the models that catalogues pin
    NoRev,
    Path,           \* the files: the stage's and the draft model's
    Tensors,        \* Tensors[p]: its model's tensors in file order, [kind, layer, size]
    Header,         \* units of GGUF metadata before the tensors
    Span,           \* Span[p]: the layers kept, <<stage_start, stage_end>>
    ChunkUnits,     \* download_chunk
    MaxFaults,      \* bound: failed operations and units gone bad
    MaxRestarts     \* bound: kills of the process

ASSUME RangeCacheConstants ==
    /\ NoRev \notin Revision
    /\ Path = {"stage", "draft"}
    /\ Header \in Nat \ {0} /\ ChunkUnits \in Nat \ {0}

VARIABLES
    file,       \* file[p]: NoFile, the user's own file, or the content of each unit
    ranges,     \* .ranges: NoRev or the revision it is for
    partial,    \* .ranges.incomplete: NoMark, or its revision and chunks in place
    catalog,    \* the revision pinned for each file's model
    pc,         \* what the loading thread does next
    path,       \* the file being prepared
    resume,     \* partial_candidate
    done,       \* chunks in place: completed_ranges.size()
    loaded,     \* ServeContext::loaded: the revision, with the draft's
    gpu,        \* weights of the stage and the draft in memory: <<>> or the units
    faults, restarts

disk == <<file, ranges, partial>>
memory == <<loaded, gpu>>
bounds == <<faults, restarts>>
vars == <<disk, catalog, pc, path, resume, done, memory, bounds>>

NoFile == <<>>
Users == <<"the user's file">>
NoMark == [rev |-> NoRev, upto |-> -1]
Alien == [rev |-> NoRev, upto |-> -2]   \* "not a DAN cache"
Mine(p) == file[p] \notin {NoFile, Users}

-----------------------------------------------------------------------------
(* Which units a stage needs.                                              *)

Start(ts, i) == Header + FoldLeft(LAMBDA n, t : n + t.size, 0, SubSeq(ts, 1, i - 1))
LogicalSize == [p \in Path |-> Start(Tensors[p], Len(Tensors[p]) + 1)]
Layers(ts) == Cardinality({ts[i].layer : i \in {j \in 1..Len(ts) : ts[j].kind = "blk"}})

OwnedTensor(ts, t, begin, end) ==
    LET output == \E i \in 1..Len(ts) : ts[i].kind = "output"
    IN  CASE t.kind = "blk" -> t.layer \in begin..(end - 1)
          [] t.kind = "token_embd" -> begin = 0 \/ (end = Layers(ts) /\ ~output)
          [] OTHER -> end = Layers(ts)

\* The header and the owned tensors, neighbours joined: <<offset, size>>.
RequiredRanges(p) ==
    LET ts == Tensors[p]
        Add(rs, i) ==
            IF ~OwnedTensor(ts, ts[i], Span[p][1], Span[p][2]) THEN rs
            ELSE LET last == rs[Len(rs)]
                     at == Start(ts, i)
                 IN  IF last[1] + last[2] = at
                     THEN [rs EXCEPT ![Len(rs)] = <<last[1], last[2] + ts[i].size>>]
                     ELSE Append(rs, <<at, ts[i].size>>)
    IN  FoldLeft(Add, <<<<0, Header>>>>, [i \in 1..Len(ts) |-> i])

\* Ranges cut into chunks that are downloaded and recorded one by one.
BoundedRanges(rs) ==
    LET Least(a, b) == IF a < b THEN a ELSE b
        Split(r) == [k \in 1..((r[2] + ChunkUnits - 1) \div ChunkUnits) |->
                        <<r[1] + (k - 1) * ChunkUnits, Least(ChunkUnits, r[2] - (k - 1) * ChunkUnits)>>]
    IN  FoldLeft(LAMBDA out, r : out \o Split(r), <<>>, rs)

Chunks == [p \in Path |-> BoundedRanges(RequiredRanges(p))]
Units(chunk) == chunk[1]..(chunk[1] + chunk[2] - 1)
Matches(p, k, rev) == \A u \in Units(Chunks[p][k]) : file[p][u] = rev

-----------------------------------------------------------------------------
Init ==
    /\ file = [p \in Path |-> NoFile]
    /\ ranges = [p \in Path |-> NoRev]
    /\ partial = [p \in Path |-> NoMark]
    /\ catalog \in [Path -> Revision]
    /\ pc = "idle" /\ path = "stage" /\ resume = FALSE /\ done = 0
    /\ loaded = NoRev
    /\ gpu = [p \in Path |-> <<>>]
    /\ faults = 0 /\ restarts = 0

Fault == faults < MaxFaults /\ faults' = faults + 1 /\ UNCHANGED restarts
Goto(to) == pc' = to /\ UNCHANGED <<catalog, path, memory, bounds>>
Want == catalog[path]

\* prepare_range_model returns false.  For the stage the load is refused; a route
\* without a draft model decodes without one ("Never fatal").
Fails ==
    /\ \/ path = "stage" /\ pc' = "idle" /\ UNCHANGED loaded
       \/ path = "draft" /\ pc' = "serving" /\ loaded' = catalog["stage"]
    /\ UNCHANGED <<ranges, catalog, path, resume, done, gpu>>

\* The file, the download, the write or the rename the step needs is refused.
StepFails == Fault /\ Fails

\* load_assigned_stage: the stage in memory is kept when it is the one asked for.
LoadAssignedStage ==
    /\ pc = "idle"
    /\ path' = "stage"
    /\ IF loaded = catalog["stage"]
       THEN pc' = "draft" /\ UNCHANGED memory
       ELSE /\ pc' = "check"
            /\ loaded' = NoRev
            /\ gpu' = [gpu EXCEPT !["stage"] = <<>>]
    /\ UNCHANGED <<disk, catalog, resume, done, bounds>>

\* A record of an interrupted download whose file is gone.
DropOrphan ==
    /\ pc = "check" /\ partial[path] # NoMark /\ file[path] = NoFile
    /\ partial' = [partial EXCEPT ![path] = NoMark]
    /\ Goto("check") /\ UNCHANGED <<file, ranges, resume, done>>

Checking == pc = "check" /\ ~(partial[path] # NoMark /\ file[path] = NoFile)
Present == file[path] # NoFile \/ ranges[path] # NoRev

\* reuse_cache: the sidecar is for this revision and stage and every recorded
\* range still has its hash.
Reusable == ranges[path] = Want /\ Mine(path) /\ \A k \in 1..Len(Chunks[path]) : Matches(path, k, Want)
ReuseCache ==
    /\ Checking /\ Present /\ Reusable
    /\ Goto("ready") /\ UNCHANGED <<disk, resume, done>>

Candidate == ranges[path] = NoRev /\ file[path] # NoFile /\ partial[path] # NoMark
FindPartial ==
    /\ Checking /\ Present /\ ~Reusable /\ Candidate /\ partial[path] # Alien
    /\ resume' = TRUE
    /\ Goto("metadata") /\ UNCHANGED <<disk, done>>

\* The sidecar's first line is DAN's.
Ours == ranges[path] # NoRev

\* "Never overwrite or silently treat a full file as a range cache": there is a
\* file with a marker that is not DAN's, or with none.
Refuse ==
    /\ Checking /\ Present /\ ~Reusable
    /\ IF Candidate THEN partial[path] = Alien ELSE ~Ours
    /\ Fails /\ UNCHANGED <<file, partial, bounds>>

\* A variant that keeps the sidecar while the new file is downloaded.
ReplaceFileOnly ==
    /\ Checking /\ Present /\ ~Reusable /\ ~Candidate /\ Ours
    /\ file' = [file EXCEPT ![path] = NoFile]
    /\ resume' = FALSE
    /\ Goto("metadata") /\ UNCHANGED <<ranges, partial, done>>

\* The sidecar is DAN's, for another revision or for a file that went bad: the file
\* is removed first, then the sidecar, then any record of a download.
Replace ==
    /\ Checking /\ Present /\ ~Reusable /\ ~Candidate /\ Ours
    /\ file' = [file EXCEPT ![path] = NoFile]
    /\ Goto("drop ranges") /\ UNCHANGED <<ranges, partial, resume, done>>
DropRanges ==
    /\ pc = "drop ranges"
    /\ ranges' = [ranges EXCEPT ![path] = NoRev]
    /\ Goto("drop partial") /\ UNCHANGED <<file, partial, resume, done>>
DropPartial ==
    /\ pc = "drop partial"
    /\ partial' = [partial EXCEPT ![path] = NoMark]
    /\ resume' = FALSE
    /\ Goto("metadata") /\ UNCHANGED <<file, ranges, done>>

Nothing ==
    /\ Checking /\ ~Present
    /\ resume' = FALSE
    /\ Goto("metadata") /\ UNCHANGED <<disk, done>>

\* The GGUF header is fetched and parsed, piece by piece into `.download', and the
\* ranges of the stage's tensors follow from it.
FetchMetadata ==
    /\ pc = "metadata"
    /\ \/ Goto(IF resume THEN "resume" ELSE "create") /\ UNCHANGED <<disk, resume, done>>
       \/ StepFails /\ UNCHANGED <<file, partial>>

\* A variant that believes the record of an interrupted download.
PartialGoodUnhashed ==
    partial[path].rev = Want /\ Mine(path) /\ partial[path].upto <= Len(Chunks[path])

\* The record is for this revision and stage, the file has the model's size and
\* every chunk the record lists is in place.
PartialGood ==
    /\ partial[path].rev = Want /\ Mine(path)
    /\ partial[path].upto <= Len(Chunks[path])
    /\ \A k \in 1..partial[path].upto : Matches(path, k, Want)

Resume ==
    /\ pc = "resume" /\ PartialGood
    /\ done' = partial[path].upto
    /\ Goto("mark") /\ UNCHANGED <<disk, resume>>

\* A variant that gives up on a record it cannot use and leaves it in place.
DiscardNothing ==
    /\ pc = "resume" /\ ~PartialGood
    /\ Fails /\ UNCHANGED <<file, partial, bounds>>

\* The record is for something else, or a chunk went bad: start over.
Discard ==
    /\ pc = "resume" /\ ~PartialGood
    /\ file' = [file EXCEPT ![path] = NoFile]
    /\ Goto("discard partial") /\ UNCHANGED <<ranges, partial, resume, done>>
DiscardPartial ==
    /\ pc = "discard partial"
    /\ partial' = [partial EXCEPT ![path] = NoMark]
    /\ resume' = FALSE
    /\ Goto("create") /\ UNCHANGED <<file, ranges, done>>

\* sparse_create makes a file only where there is none (O_EXCL, CREATE_NEW).
SparseCreate ==
    /\ pc = "create" /\ file[path] = NoFile
    /\ \/ /\ file' = [file EXCEPT ![path] = [u \in 0..(LogicalSize[path] - 1) |-> NoRev]]
          /\ done' = 0
          /\ Goto("mark") /\ UNCHANGED <<ranges, partial, resume>>
       \/ StepFails /\ UNCHANGED <<file, partial>>

\* A file has come to the path since it was checked.  The POSIX build clears up
\* after the failed creation by removing what is there; the Windows build does not.
CreateBlocked ==
    /\ pc = "create" /\ file[path] # NoFile
    /\ file' \in {file, [file EXCEPT ![path] = NoFile]}
    /\ Fails /\ UNCHANGED <<partial, bounds>>

\* write_sidecar_file: a temporary file, renamed over the old record.
WritePartial ==
    /\ pc = "mark"
    /\ \/ /\ partial' = [partial EXCEPT ![path] = [rev |-> Want, upto |-> done]]
          /\ Goto(IF done = Len(Chunks[path]) THEN "publish" ELSE "fetch")
          /\ UNCHANGED <<file, ranges, resume, done>>
       \/ StepFails /\ UNCHANGED <<file, partial>>

\* The next chunk is downloaded to `.download' and hashed, and the copy into the
\* file begins: until it ends the chunk holds anything ("torn").  Too little free
\* space is a failure before the first fetch.
FetchRange ==
    /\ pc = "fetch"
    /\ \/ /\ file' = [file EXCEPT ![path] =
                [u \in DOMAIN @ |-> IF u \in Units(Chunks[path][done + 1]) THEN "torn" ELSE @[u]]]
          /\ Goto("copy") /\ UNCHANGED <<ranges, partial, resume, done>>
       \/ StepFails /\ UNCHANGED <<file, partial>>

CopyInto ==
    /\ pc = "copy"
    /\ \/ /\ file' = [file EXCEPT ![path] =
                [u \in DOMAIN @ |-> IF u \in Units(Chunks[path][done + 1]) THEN Want ELSE @[u]]]
          /\ done' = done + 1
          /\ Goto("mark") /\ UNCHANGED <<ranges, partial, resume>>
       \/ StepFails /\ UNCHANGED <<file, partial>>

\* Every range is in place: the file must be sparse, then `.ranges' is published.
WriteSidecar ==
    /\ pc = "publish"
    /\ \/ /\ ranges' = [ranges EXCEPT ![path] = Want]
          /\ Goto("unmark") /\ UNCHANGED <<file, partial, resume, done>>
       \/ StepFails /\ UNCHANGED <<file, partial>>
RemovePartial ==
    /\ pc = "unmark"
    /\ partial' = [partial EXCEPT ![path] = NoMark]
    /\ Goto("ready") /\ UNCHANGED <<file, ranges, resume, done>>

\* The constructor of Stage: the weights of the file's layers are in memory.
StageLoaded(p) == gpu' = [gpu EXCEPT ![p] = file[p]]

\* The weights are read into memory: after the stage comes its draft model.
BuildStage ==
    /\ pc = "ready" /\ path = "stage"
    /\ \/ /\ StageLoaded("stage")
          /\ pc' = "draft"
          /\ UNCHANGED <<disk, catalog, path, resume, done, loaded, bounds>>
       \/ StepFails /\ UNCHANGED <<file, partial>>

\* load_draft_model: off when the request wants none or it does not fit, kept when
\* the stage was kept and the draft is the same, prepared like the stage otherwise.
DraftOff ==
    /\ pc = "draft"
    /\ gpu' = [gpu EXCEPT !["draft"] = <<>>]
    /\ loaded' = catalog["stage"] /\ pc' = "serving"
    /\ UNCHANGED <<disk, catalog, path, resume, done, bounds>>
DraftKept ==
    /\ pc = "draft" /\ loaded # NoRev /\ gpu["draft"] # <<>>
    /\ loaded' = catalog["stage"] /\ pc' = "serving"
    /\ UNCHANGED <<disk, catalog, path, resume, done, gpu, bounds>>
LoadDraft ==
    /\ pc = "draft" /\ ~(loaded # NoRev /\ gpu["draft"] # <<>>)
    /\ gpu' = [gpu EXCEPT !["draft"] = <<>>]
    /\ path' = "draft" /\ pc' = "check" /\ resume' = FALSE /\ done' = 0
    /\ UNCHANGED <<disk, catalog, loaded, bounds>>
BuildDraft ==
    /\ pc = "ready" /\ path = "draft"
    /\ \/ /\ StageLoaded("draft")
          /\ loaded' = catalog["stage"] /\ pc' = "serving"
          /\ UNCHANGED <<disk, catalog, path, resume, done, bounds>>
       \/ StepFails /\ UNCHANGED <<file, partial>>

\* The route ends; the stage stays in memory for the next one.
RouteEnds ==
    /\ pc = "serving"
    /\ Goto("idle") /\ UNCHANGED <<disk, resume, done>>

-----------------------------------------------------------------------------
(* What happens to the worker and its directory.                           *)

\* The process is killed, at any point, and started with a catalogue that pins the
\* same revisions or others.
Restart ==
    /\ restarts < MaxRestarts /\ restarts' = restarts + 1
    /\ catalog' \in [Path -> Revision]
    /\ pc' = "idle" /\ path' = "stage" /\ resume' = FALSE /\ done' = 0
    /\ loaded' = NoRev /\ gpu' = [p \in Path |-> <<>>]
    /\ UNCHANGED <<disk, faults>>

\* A stored unit goes bad while nothing is being prepared.
GoesBad(p, u) ==
    /\ pc \in {"idle", "serving"} /\ Mine(p) /\ u \in DOMAIN file[p] /\ file[p][u] \in Revision
    /\ Fault
    /\ file' = [file EXCEPT ![p][u] = "bad"]
    /\ UNCHANGED <<ranges, partial, catalog, pc, path, resume, done, memory>>

\* The user puts a model of their own, of another size, where there is no file, at
\* any moment: beside a marker that a kill left there, or alone, or with something
\* of theirs beside it.
UserPutsFile(p) ==
    /\ file[p] = NoFile
    /\ Fault
    /\ file' = [file EXCEPT ![p] = Users]
    /\ \E m \in {partial[p]} \cup (IF partial[p] = NoMark THEN {Alien} ELSE {}) :
          partial' = [partial EXCEPT ![p] = m]
    /\ UNCHANGED <<ranges, catalog, pc, path, resume, done, memory>>

Prepare ==
    \/ DropOrphan \/ ReuseCache \/ FindPartial \/ Refuse \/ Replace \/ DropRanges \/ DropPartial
    \/ Nothing \/ FetchMetadata \/ Resume \/ Discard \/ DiscardPartial \/ SparseCreate
    \/ CreateBlocked \/ WritePartial \/ FetchRange \/ CopyInto \/ WriteSidecar \/ RemovePartial

Load ==
    \/ LoadAssignedStage \/ Prepare \/ BuildStage \/ DraftOff \/ DraftKept \/ LoadDraft
    \/ BuildDraft \/ RouteEnds

Next ==
    \/ Load \/ Restart
    \/ \E p \in Path : UserPutsFile(p) \/ \E u \in 0..(LogicalSize[p] - 1) : GoesBad(p, u)

\* Clients keep asking for the stage and the loading thread runs.
Spec == Init /\ [][Next]_vars /\ WF_vars(Load)

-----------------------------------------------------------------------------
TypeOK ==
    /\ ranges \in [Path -> Revision \cup {NoRev}]
    /\ done \in 0..Len(Chunks[path])
    /\ loaded \in Revision \cup {NoRev}

\* The units of the tensors each file must hold.
Needs ==
    LET Tensor(p, i) == Start(Tensors[p], i)..(Start(Tensors[p], i + 1) - 1)
        Owned(p) == {i \in 1..Len(Tensors[p]) :
                        OwnedTensor(Tensors[p], Tensors[p][i], Span[p][1], Span[p][2])}
    IN  [p \in Path |-> UNION {Tensor(p, i) : i \in Owned(p)}]

\* The chunks lie in the file and apart from each other, and cover the header and
\* the tensors the stage owns.
ChunksCover ==
    \A p \in Path :
        LET n == Len(Chunks[p])
            Of(k) == Units(Chunks[p][k])
        IN  /\ n \in Nat /\ LogicalSize[p] \in Nat \ {0}
            /\ \A k \in 1..n : Of(k) \subseteq 0..(LogicalSize[p] - 1)
            /\ \A j, k \in 1..n : j # k => Of(j) \cap Of(k) = {}
            /\ \A u \in Needs[p] \cup 0..(Header - 1) : \E k \in 1..n : u \in Of(k)

\* Whatever was interrupted, replaced or went bad on disk before, the weights in
\* memory are the pinned revision's in every unit of every tensor the stage owns
\* (range_model.cpp, reuse_cache and the check of a resumed download).
WeightsAreRight ==
    \A p \in Path : gpu[p] # <<>> =>
        \A u \in Needs[p] \cup 0..(Header - 1) : gpu[p][u] = catalog[p]

\* What a worker announces as cached (cached_ranges: a file with a `.ranges' beside
\* it) was downloaded completely for the revision recorded there: no restart leaves
\* a half-downloaded file that looks whole.  (A file of the user's that was put beside
\* a leftover `.ranges' is announced too; it is not loaded.)
AnnouncedIsWhole ==
    \A p \in Path : Mine(p) /\ ranges[p] # NoRev =>
        \A u \in Needs[p] : file[p][u] \in {ranges[p], "bad"}

\* A file of DAN's without either marker: nothing recognises it any more.
Stranded(p) == Mine(p) /\ ranges[p] = NoRev /\ partial[p] = NoMark

\* A file of the user's that prepare_range_model has to leave alone: nothing of DAN's
\* lies beside it, and no download that found the path free is under way.
Untouchable(p) ==
    /\ file[p] = Users /\ ranges[p] = NoRev /\ partial[p] \in {NoMark, Alien}
    /\ path = p => pc \in {"idle", "check", "draft", "serving"}

\* Once it is to be left alone, a user's file stays where it is and is never taken
\* for DAN's, whatever is loaded, killed and started again ("Never overwrite or
\* silently treat a full file as a range cache", range_model.cpp:748).
UsersFileKept == [][\A p \in Path : Untouchable(p) => Untouchable(p)']_vars

\* What that comment says of every file of the user's.  The code removes one that
\* lies beside a leftover `.ranges' or `.ranges.incomplete' (lines 751 and 818), and
\* one that came while the metadata was downloaded (line 425).
NeverRemoved == [][\A p \in Path : file[p] = Users => file'[p] = Users]_vars

\* However often it is interrupted, the worker serves its stage again and again,
\* resuming or starting over ("An incomplete range index supports resumption",
\* docs/CURRENT_TECHNICAL_STATE.md): only the user's own file at the path, or a kill
\* or failed write between the creation of the file and its first record, stops it.
Recovers ==
    []<>(pc = "serving") \/ <>[](file["stage"] = Users) \/ <>[]Stranded("stage")
=============================================================================
