------------------------------- MODULE Pipeline -------------------------------
(***************************************************************************)
(* The commands over one SQLite file: process, enrich, attach-ocr and       *)
(* attach-vision, index, search and build-training-dataset, which derive    *)
(* data from the source records; and the import of trajectories, their      *)
(* generation by a container, and their export to files and to databases.   *)
(* Each is a process of its own with a row in jobs.                         *)
(*                                                                          *)
(* A write is one transaction that needs the file's write lock.  index      *)
(* holds the lock from its first statement to its commit, with every batch  *)
(* it encodes in between; a writer that waits five seconds raises "database *)
(* is locked".  A read takes no lock, and what it returned may be old when  *)
(* it is used: import and attach compare with the latest record before the  *)
(* first INSERT takes the lock, process computes canonical records from     *)
(* sources it read earlier, search and the dataset builder read in several  *)
(* statements.                                                              *)
(*                                                                          *)
(* A source record of an identifier is the version its source gave it and   *)
(* whether text of a picture was attached; a second source may add fields.  *)
(* Records with the same version are taken to have the same description.    *)
(***************************************************************************)
EXTENDS Integers, FiniteSets, FiniteSetsExt, Sequences

CONSTANTS
    Procs, Free,
    Ids,
    Versions,     \* revisions of a source record, in the order of their times
    Rejected,     \* the versions that withdraw the vulnerability
    SplitOf,      \* the split the hash of a family's identifier selects
    Files,        \* files of a dataset, and databases of an export: one per category
    Items,        \* trajectories an import reads
    IndexLimits,  \* values of index --max-records
    Starts,       \* tables to start from: what earlier commands left, indexed
    Uses,         \* ways to operate an installation: the commands given
    MaxCommands, MaxKills

VARIABLES
    src,        \* source_latest: the record of an identifier, None before the first
    canonical, vectors, views,     \* the revision each table holds, or None
    lock,       \* the process whose transaction holds the write lock
    cmd,        \* the command a process executes
    jobs,       \* job rows: started, and the status of each
    dataset,    \* the build each published file is of, and the manifest's
    builds,     \* splits given to the texts of each build
    stored,     \* kinds of trajectories each category has: acceptable ones, others
    databases,  \* the published database of each category, and the manifest
    exports,    \* the files of trajectories the commands dump and docker write
    batch,      \* the input of the last batch of containers, and its manifest
    replaced,   \* times the canonical records were replaced
    back,       \* identifiers whose source record was overwritten by an older one
    uses, given, kills

tables == <<canonical, vectors, views>>
counts == <<uses, given, kills>>
written == <<databases, exports, batch>>
trajectories == <<stored, written>>
rest == <<jobs, dataset, builds, trajectories, replaced, counts>>
vars == <<src, back, tables, lock, cmd, rest>>

None == [version |-> 0, text |-> FALSE, extra |-> FALSE]
Records == [version : Versions, text : BOOLEAN, extra : BOOLEAN]
Table == [Ids -> Records \cup {None}]
Empty == [i \in Ids |-> None]
Status == {"running", "succeeded", "failed"}
NoFiles == [f \in Files |-> 0]
NoExport == [files |-> NoFiles, manifest |-> 0]
Partial == -1    \* a file that is not written to its end

\* The commands; a command starts at the step of its name.
Kinds == {"import", "process", "enrich", "attach", "index", "search", "dataset",
          "trajectories", "docker", "dump", "export"}

ASSUME PipelineAssumption ==
    /\ Free \notin Procs
    /\ Ids \subseteq Nat /\ IsFiniteSet(Ids) /\ Ids # {} /\ Files \subseteq Nat
    /\ Versions \subseteq Nat \ {0} /\ Rejected \subseteq Versions
    /\ IndexLimits \subseteq Nat \ {0}
    /\ Starts \subseteq Table /\ \A s \in Starts : \A i \in Ids : s[i].version \notin Rejected
    /\ MaxCommands \in Nat /\ MaxKills \in Nat
    /\ DOMAIN SplitOf = Ids
    /\ Uses \subseteq SUBSET Kinds

Active(r) == r # None /\ r.version \notin Rejected

NoCommand == [kind |-> "none", pc |-> "none", job |-> 0]
Working(p) == cmd[p].kind # "none"

PipelineInit ==
    /\ \E start \in Starts :
          /\ src = start /\ canonical = start /\ vectors = start /\ views = start
    /\ lock = Free
    /\ cmd = [p \in Procs |-> NoCommand]
    /\ jobs = <<>>
    /\ dataset = NoExport
    /\ builds = <<>>
    /\ stored = [c \in Files |-> {}]
    /\ databases = NoExport
    /\ exports = [k \in {"dump", "docker"} |-> NoExport]
    /\ batch = [input |-> 0, manifest |-> 0]
    /\ replaced = 0 /\ back = {}
    /\ uses \in Uses /\ given = 0 /\ kills = 0

-----------------------------------------------------------------------------
(* Commands begin and end *)

\* Commands that write a directory: two of a kind are not run side by side.
Writers == {"dataset", "export", "dump", "docker"}

\* start_job.  The fields a command uses later have their first values.
StartJob(p, kind) ==
    /\ ~Working(p) /\ given < MaxCommands /\ lock = Free
    /\ kind \in Writers => \A q \in Procs : cmd[q].kind # kind
    /\ given' = given + 1
    /\ jobs' = Append(jobs, "running")
    /\ cmd' = [cmd EXCEPT ![p] =
                  [kind |-> kind, pc |-> kind, job |-> Len(jobs) + 1, read |-> Empty,
                   id |-> 0, since |-> 0, todo |-> {}, found |-> {}, vectors |-> Empty, views |-> Empty, left |-> Items]]
    /\ UNCHANGED <<src, back, tables, lock, dataset, builds, trajectories, replaced, uses, kills>>

At(p, pc) == cmd[p].pc = pc
Goto(p, pc) == cmd' = [cmd EXCEPT ![p].pc = pc]
CanWrite(p) == lock \in {Free, p}

\* Mutant: the handler of an exception ends a job that has ended.
FinishAgain(p) == Goto(p, "failed")
Finish(p) == cmd' = [cmd EXCEPT ![p] = NoCommand]

\* end_job.
EndJob(p) ==
    \E outcome \in {"succeeded", "failed"} :
        /\ At(p, outcome) /\ CanWrite(p)
        /\ jobs' = [jobs EXCEPT ![cmd[p].job] = outcome]
        /\ Finish(p)
        /\ UNCHANGED <<src, back, tables, lock, dataset, builds, trajectories, replaced, counts>>

\* The lock was not free within the busy timeout: the command fails, and when
\* end_job meets the same lock its row stays running.
LockedOut(p) ==
    /\ Working(p) /\ lock \notin {Free, p}
    /\ cmd[p].pc \in {"insert", "replace", "candidates", "resolve", "index", "trajectories",
                      "succeeded", "failed"}
    /\ cmd' = IF cmd[p].pc = "failed" THEN [cmd EXCEPT ![p] = NoCommand] ELSE [cmd EXCEPT ![p].pc = "failed"]
    /\ UNCHANGED <<src, back, tables, lock, rest>>

\* A command raises: input missing, a model that does not load, a full disk.
Fails(p) ==
    /\ Working(p) /\ cmd[p].pc \notin {"succeeded", "failed"}
    /\ lock' = IF lock = p THEN Free ELSE lock
    /\ Goto(p, "failed")
    /\ UNCHANGED <<src, back, tables, rest>>

Kill(p) ==
    /\ Working(p) /\ kills < MaxKills
    /\ kills' = kills + 1
    /\ cmd' = [cmd EXCEPT ![p] = NoCommand]
    /\ lock' = IF lock = p THEN Free ELSE lock
    /\ UNCHANGED <<src, back, tables, jobs, dataset, builds, trajectories, replaced, uses, given>>

-----------------------------------------------------------------------------
(* import, process, enrich, attach *)

\* Mutant: a snapshot replaces the one stored whatever its time.
AcceptedAny(i, record) == TRUE
\* A snapshot that is not stale and says something new is to replace the one stored.
Accepted(i, record) == record.version >= src[i].version /\ record # src[i]

AfterSave(p) == IF cmd[p].kind = "attach" THEN "process" ELSE "succeeded"

\* save_sources_detailed, up to its first INSERT: the latest record is read and
\* compared, and no lock is held yet.
Compare(p, i, record) ==
    /\ cmd' = IF Accepted(i, record)
              THEN [cmd EXCEPT ![p].read = [Empty EXCEPT ![i] = record], ![p].id = i,
                               ![p].since = src[i].version, ![p].pc = "insert"]
              ELSE [cmd EXCEPT ![p].pc = AfterSave(p)]
    /\ UNCHANGED <<src, back, tables, lock, rest>>

\* The INSERT and the commit, whatever the latest record is by then.
Insert(p) ==
    LET i == cmd[p].id
        record == [cmd[p].read[i] EXCEPT !.extra = src[i].extra]
    IN /\ At(p, "insert") /\ CanWrite(p)
       /\ src' = [src EXCEPT ![i] = record]
       /\ back' = IF record.version < src[i].version THEN back \cup {i} ELSE back
       /\ Goto(p, AfterSave(p))
       /\ UNCHANGED <<tables, lock, rest>>

Import(p) ==
    /\ At(p, "import")
    /\ \E i \in Ids, v \in Versions : Compare(p, i, [version |-> v, text |-> FALSE, extra |-> src[i].extra])

\* process(store.sources()): one canonical record per identifier, whose revision
\* is a digest of the sources read; here it is named by them.
ReadSources(p) ==
    /\ At(p, "process")
    /\ cmd' = [cmd EXCEPT ![p].read = src, ![p].since = replaced, ![p].pc = "replace"]
    /\ UNCHANGED <<src, back, tables, lock, rest>>

\* Mutant: the rows of the views table are kept.
DropAggregate(new) ==
    /\ vectors' = [i \in Ids |-> IF vectors[i] = new[i] THEN vectors[i] ELSE None]
    /\ views' = views
\* Vectors and views of revisions that are canonical no more are deleted.
DropDerived(new) ==
    /\ vectors' = [i \in Ids |-> IF vectors[i] = new[i] THEN vectors[i] ELSE None]
    /\ views' = [i \in Ids |-> IF views[i] = new[i] THEN views[i] ELSE None]

\* replace_canonical, in one transaction.
ReplaceCanonical(p) ==
    /\ At(p, "replace") /\ CanWrite(p)
    /\ canonical' = cmd[p].read /\ replaced' = replaced + 1
    /\ DropDerived(cmd[p].read)
    /\ Goto(p, IF cmd[p].kind = "enrich" THEN "resolve" ELSE "succeeded")
    /\ UNCHANGED <<src, back, lock, jobs, dataset, builds, trajectories, counts>>

\* enrich_missing: active records that lack fields, from sources read now.
ReadTargets(p) ==
    /\ At(p, "enrich")
    /\ cmd' = [cmd EXCEPT ![p].todo = {i \in Ids : Active(src[i]) /\ ~src[i].extra}, ![p].pc = "fetch"]
    /\ UNCHANGED <<src, back, tables, lock, rest>>

\* One record is fetched, or its failure written down.
FetchCandidate(p) ==
    /\ At(p, "fetch") /\ cmd[p].todo # {}
    /\ LET i == Min(cmd[p].todo)
       IN \E got \in {{i}} \cup (IF CanWrite(p) THEN {{}} ELSE {}) :
              cmd' = [cmd EXCEPT ![p].todo = @ \ {i}, ![p].found = @ \cup got]
    /\ UNCHANGED <<src, back, tables, lock, rest>>

FetchDone(p) ==
    /\ At(p, "fetch") /\ cmd[p].todo = {}
    /\ Goto(p, IF cmd[p].found = {} THEN "succeeded" ELSE "candidates")
    /\ UNCHANGED <<src, back, tables, lock, rest>>

\* The candidates are saved; the canonical records follow in a transaction of
\* their own, and the failure rows in others.
SaveCandidates(p) ==
    /\ At(p, "candidates") /\ CanWrite(p)
    /\ src' = ([i \in Ids |-> IF i \in cmd[p].found THEN [src[i] EXCEPT !.extra = TRUE] ELSE src[i]])
    /\ Goto(p, "process")
    /\ UNCHANGED <<back, tables, lock, rest>>

ResolveCandidates(p) ==
    /\ At(p, "resolve") /\ CanWrite(p)
    /\ Goto(p, "succeeded")
    /\ UNCHANGED <<src, back, tables, lock, rest>>

\* attach_ocr_artifact and attach_vision_artifact: the record is read, changed
\* in memory and saved over the latest one unless that is newer by then.
ReadRecord(p) ==
    /\ At(p, "attach")
    /\ \E i \in Ids :
          /\ src[i] # None
          /\ cmd' = [cmd EXCEPT ![p].read = src, ![p].id = i, ![p].pc = "attached"]
    /\ UNCHANGED <<src, back, tables, lock, rest>>

SaveAttached(p) ==
    LET i == cmd[p].id
    IN At(p, "attached") /\ Compare(p, i, [cmd[p].read[i] EXCEPT !.text = TRUE, !.extra = src[i].extra])

-----------------------------------------------------------------------------
(* index *)

\* The first INSERT takes the lock; the records without current vectors are
\* selected under it.
BeginIndex(p) ==
    /\ At(p, "index") /\ lock = Free
    /\ lock' = p
    /\ \E limit \in IndexLimits :
          cmd' = [cmd EXCEPT ![p].pc = "encode", ![p].left = limit,
                             ![p].vectors = vectors, ![p].views = views,
                             ![p].todo = {i \in Ids : canonical[i] # None /\
                                             (vectors[i] # canonical[i] \/ views[i] # canonical[i])}]
    /\ UNCHANGED <<src, back, tables, rest>>

\* The next record: its vectors are deleted when it is withdrawn, replaced when
\* it is active; --max-records ends the run at the first one too many.
Encode(p) ==
    LET i == Min(cmd[p].todo)
        active == Active(canonical[i])
        row == IF active THEN canonical[i] ELSE None
    IN /\ At(p, "encode") /\ cmd[p].todo # {}
       /\ cmd' = IF active /\ cmd[p].left = 0 THEN [cmd EXCEPT ![p].todo = {}]
                 ELSE [cmd EXCEPT ![p].todo = @ \ {i}, ![p].left = IF active THEN @ - 1 ELSE @,
                                  ![p].vectors[i] = row, ![p].views[i] = row]
       /\ UNCHANGED <<src, back, tables, lock, rest>>

CommitIndex(p) ==
    /\ At(p, "encode") /\ cmd[p].todo = {}
    /\ vectors' = cmd[p].vectors /\ views' = cmd[p].views
    /\ lock' = Free
    /\ Goto(p, "succeeded")
    /\ UNCHANGED <<src, back, canonical, rest>>

-----------------------------------------------------------------------------
(* search *)

\* Vectors joined with the canonical records of their revision; both are kept.
SelectHits(p) ==
    /\ At(p, "search")
    /\ cmd' = [cmd EXCEPT ![p].read = canonical, ![p].vectors = vectors, ![p].since = replaced, ![p].pc = "views",
                          ![p].found = {i \in Ids : vectors[i] = canonical[i] /\ Active(canonical[i])}]
    /\ UNCHANGED <<src, back, tables, lock, rest>>

\* Mutant: views are looked up by identifier only.
ViewOfId(i, r) == views[i]
\* The views of a hit, by identifier and revision.
ViewOf(i, r) == IF views[i] = r THEN views[i] ELSE None

SelectViews(p) ==
    /\ At(p, "views")
    /\ cmd' = [cmd EXCEPT ![p].pc = "succeeded",
                          ![p].views = [i \in Ids |-> IF i \in cmd[p].found THEN ViewOf(i, cmd[p].read[i]) ELSE None]]
    /\ UNCHANGED <<src, back, tables, lock, rest>>

\* What a hit is ranked and shown with: its views or, without any, the aggregate
\* vector the first statement found.
Shown(c, i) == IF c.views[i] # None THEN c.views[i] ELSE c.vectors[i]

-----------------------------------------------------------------------------
(* build-training-dataset *)

\* The descriptions are read once for the families of equal texts.
ReadTexts(p) ==
    /\ At(p, "dataset")
    /\ cmd' = [cmd EXCEPT ![p].read = canonical, ![p].pc = "rows"]
    /\ UNCHANGED <<src, back, tables, lock, rest>>

\* Mutant: every record is a family of its own.
FamilyOne(i, t) == i
\* The family of a record among the texts read: its least member.
Family(i, t) ==
    IF Active(t[i]) THEN Min({j \in Ids : Active(t[j]) /\ t[j].version = t[i].version}) ELSE i

\* They are read again for the rows, written to temporary files.
ReadRows(p) ==
    LET texts == cmd[p].read
    IN /\ At(p, "rows")
       /\ builds' = Append(builds,
              [rows |-> {[version |-> canonical[i].version, split |-> SplitOf[Family(i, texts)]] :
                             i \in {j \in Ids : Active(canonical[j])}},
               steady |-> canonical = texts])
       /\ cmd' = [cmd EXCEPT ![p].pc = "publish", ![p].id = Len(builds) + 1, ![p].todo = Files]
       /\ UNCHANGED <<src, back, tables, lock, jobs, dataset, trajectories, replaced, counts>>

\* The temporary files replace the published ones, one after the other.
PublishFile(p) ==
    /\ At(p, "publish") /\ cmd[p].todo # {}
    /\ LET f == Min(cmd[p].todo)
       IN /\ dataset' = [dataset EXCEPT !.files[f] = cmd[p].id]
          /\ cmd' = [cmd EXCEPT ![p].todo = @ \ {f}]
    /\ UNCHANGED <<src, back, tables, lock, jobs, builds, trajectories, replaced, counts>>

\* Mutant: the manifest is written before the files are replaced.
ManifestMay(p) == At(p, "publish")
\* The manifest is written when every file has been replaced.
ManifestReady(p) == At(p, "publish") /\ cmd[p].todo = {}

PublishManifest(p) ==
    /\ ManifestReady(p)
    /\ dataset' = [dataset EXCEPT !.manifest = cmd[p].id]
    /\ Goto(p, "succeeded")
    /\ UNCHANGED <<src, back, tables, lock, jobs, builds, trajectories, replaced, counts>>

-----------------------------------------------------------------------------
(* trajectory-docker-generate, trajectory-import and trajectory-export *)

\* An image that is there and a container that exits with 0 in time give the
\* results; anything else raises.
ContainerOutcomes == {"trajectories", "failed"}

\* The scenarios are written and given to the container.  Each has to have a
\* result that is the evidence it calls for, or nothing of the batch is stored.
RunContainer(p) ==
    /\ At(p, "docker")
    /\ batch' = [batch EXCEPT !.input = cmd[p].job]
    /\ \E outcome \in ContainerOutcomes : Goto(p, outcome)
    /\ UNCHANGED <<src, back, tables, lock, jobs, dataset, builds, stored, databases, exports, replaced, counts>>

\* Kinds of trajectories a command stores.
Imported(p) == IF cmd[p].kind = "docker" THEN {"acceptable"} ELSE {"acceptable", "other"}

\* Each item is validated and saved in a transaction of its own.
SaveTrajectory(p) ==
    /\ At(p, "trajectories") /\ cmd[p].left > 0 /\ CanWrite(p)
    /\ \E c \in Files, kind \in Imported(p) : stored' = [stored EXCEPT ![c] = @ \cup {kind}]
    /\ cmd' = [cmd EXCEPT ![p].left = @ - 1]
    /\ UNCHANGED <<src, back, tables, lock, jobs, dataset, builds, written, replaced, counts>>

\* validate_trajectory refuses an item: those before it stay.
RefuseTrajectory(p) ==
    /\ At(p, "trajectories") /\ cmd[p].left > 0 /\ cmd[p].kind = "trajectories"
    /\ Goto(p, "failed")
    /\ UNCHANGED <<src, back, tables, lock, rest>>

ImportDone(p) ==
    /\ At(p, "trajectories") /\ cmd[p].left = 0
    /\ Goto(p, IF cmd[p].kind = "docker" THEN "dump" ELSE "succeeded")
    /\ UNCHANGED <<src, back, tables, lock, rest>>

\* export_trajectories: the trajectories are read, and its files written in place.
BeginDump(p) ==
    /\ At(p, "dump")
    /\ cmd' = [cmd EXCEPT ![p].pc = "files", ![p].todo = Files]
    /\ UNCHANGED <<src, back, tables, lock, rest>>

\* Opening a file to write it empties it.
OpenDump(p) ==
    /\ At(p, "files") /\ cmd[p].todo # {}
    /\ exports' = [exports EXCEPT ![cmd[p].kind].files[Min(cmd[p].todo)] = Partial]
    /\ Goto(p, "writing")
    /\ UNCHANGED <<src, back, tables, lock, jobs, dataset, builds, stored, databases, batch, replaced, counts>>

WriteDump(p) ==
    /\ At(p, "writing")
    /\ LET f == Min(cmd[p].todo)
       IN /\ exports' = [exports EXCEPT ![cmd[p].kind].files[f] = cmd[p].job]
          /\ cmd' = [cmd EXCEPT ![p].todo = @ \ {f}, ![p].pc = "files"]
    /\ UNCHANGED <<src, back, tables, lock, jobs, dataset, builds, stored, databases, batch, replaced, counts>>

\* Mutant: the manifest is written first.
DumpEarly(p) == At(p, "files")
\* Its manifest is written last.
DumpReady(p) == At(p, "files") /\ cmd[p].todo = {}

FinishDump(p) ==
    /\ DumpReady(p)
    /\ exports' = [exports EXCEPT ![cmd[p].kind].manifest = cmd[p].job]
    /\ Goto(p, IF cmd[p].kind = "docker" THEN "batch" ELSE "succeeded")
    /\ UNCHANGED <<src, back, tables, lock, jobs, dataset, builds, stored, databases, batch, replaced, counts>>

\* docker-run-manifest.json, with the hashes of the files.
WriteBatchManifest(p) ==
    /\ At(p, "batch")
    /\ batch' = [batch EXCEPT !.manifest = cmd[p].job]
    /\ Goto(p, "succeeded")
    /\ UNCHANGED <<src, back, tables, lock, jobs, dataset, builds, stored, databases, exports, replaced, counts>>

-----------------------------------------------------------------------------
(* trajectory-split-databases *)

\* _requirement_acceptance: there are enough, and every one passes the checks.
Acceptable(c) == stored[c] = {"acceptable"}

\* One read of both categories; nothing is written unless both are acceptable
\* and no database is there, or is to be overwritten.
ReadTrajectories(p) ==
    /\ At(p, "export")
    /\ \E overwrite \in BOOLEAN :
          cmd' = IF (\A c \in Files : Acceptable(c)) /\ (overwrite \/ databases.files = NoFiles)
                 THEN [cmd EXCEPT ![p].todo = Files, ![p].pc = "build"]
                 ELSE [cmd EXCEPT ![p].pc = "failed"]
    /\ UNCHANGED <<src, back, tables, lock, rest>>

\* Mutant: the database is built where it is published.
BuildingInPlace(c) == [databases EXCEPT !.files[c] = Partial]
\* A database is built beside the published one, which stays as it is.
Building(c) == databases

BuildDatabase(p) ==
    /\ At(p, "build") /\ cmd[p].todo # {}
    /\ databases' = Building(Min(cmd[p].todo))
    /\ Goto(p, "swap")
    /\ UNCHANGED <<src, back, tables, lock, jobs, dataset, builds, stored, exports, batch, replaced, counts>>

\* The database that passed its checks replaces the published one.
SwapDatabase(p) ==
    /\ At(p, "swap")
    /\ LET c == Min(cmd[p].todo)
       IN /\ databases' = [databases EXCEPT !.files[c] = cmd[p].job]
          /\ cmd' = [cmd EXCEPT ![p].todo = @ \ {c}, ![p].pc = "build"]
    /\ UNCHANGED <<src, back, tables, lock, jobs, dataset, builds, stored, exports, batch, replaced, counts>>

WriteManifest(p) ==
    /\ At(p, "build") /\ cmd[p].todo = {}
    /\ databases' = [databases EXCEPT !.manifest = cmd[p].job]
    /\ Goto(p, "succeeded")
    /\ UNCHANGED <<src, back, tables, lock, jobs, dataset, builds, stored, exports, batch, replaced, counts>>

-----------------------------------------------------------------------------

Step(p) ==
    \/ EndJob(p) \/ LockedOut(p)
    \/ Import(p) \/ Insert(p) \/ ReadSources(p) \/ ReplaceCanonical(p)
    \/ ReadTargets(p) \/ FetchCandidate(p) \/ FetchDone(p) \/ SaveCandidates(p) \/ ResolveCandidates(p)
    \/ ReadRecord(p) \/ SaveAttached(p)
    \/ BeginIndex(p) \/ Encode(p) \/ CommitIndex(p)
    \/ SelectHits(p) \/ SelectViews(p)
    \/ ReadTexts(p) \/ ReadRows(p) \/ PublishFile(p) \/ PublishManifest(p)
    \/ RunContainer(p) \/ SaveTrajectory(p) \/ RefuseTrajectory(p) \/ ImportDone(p)
    \/ BeginDump(p) \/ OpenDump(p) \/ WriteDump(p) \/ FinishDump(p) \/ WriteBatchManifest(p)
    \/ ReadTrajectories(p) \/ BuildDatabase(p) \/ SwapDatabase(p) \/ WriteManifest(p)

Next == \E p \in Procs : Step(p) \/ Fails(p) \/ Kill(p) \/ \E kind \in uses : StartJob(p, kind)

Spec == PipelineInit /\ [][Next]_vars

-----------------------------------------------------------------------------
(* Properties *)

PipelineTypeOK ==
    /\ src \in Table /\ canonical \in Table /\ vectors \in Table /\ views \in Table
    /\ lock \in Procs \cup {Free}
    /\ \A p \in Procs : Working(p) => jobs[cmd[p].job] = "running"
    /\ jobs \in Seq(Status)

\* A vector or a view is of the revision its record has now, and no record has
\* the one without the other, whatever process, enrich, attach and index commands
\* ran side by side or were killed between two batches.
VectorsAreCurrent ==
    \A i \in Ids : vectors[i] \in {None, canonical[i]} /\ views[i] = vectors[i]

\* A source record is overwritten by an older one only when another command saved
\* a record between the comparison and the INSERT; and the canonical record of an
\* identifier that never was goes back to an older revision only when another
\* command replaced the table between the reading of the sources and their use.
OnlyAnOverlapGoesBack ==
    [][/\ \A i \in Ids : src'[i].version < src[i].version =>
              \E p \in Procs : At(p, "insert") /\ cmd[p].id = i /\ cmd[p].since # src[i].version
       /\ \A p \in Procs :
              At(p, "replace") /\ ~At(p, "replace")' /\ canonical' # canonical /\ cmd[p].since = replaced =>
                  \A i \in Ids \ back : canonical'[i].version >= canonical[i].version]_vars

\* An answer shows each record with views, or else a vector, of that very revision,
\* though process and index may run between the statements that select the records
\* with their vectors and then the views; and a hit does without its views only
\* when the canonical records were replaced since it was selected.
AnswersOfOneRevision ==
    \A p \in Procs : cmd[p].kind = "search" /\ At(p, "succeeded") =>
        \A i \in cmd[p].found :
            /\ Shown(cmd[p], i) = cmd[p].read[i]
            /\ cmd[p].views[i] = None => cmd[p].since # replaced

\* A manifest is never ahead of a whole file it lists or of the batch it describes
\* (a file of an export that is written again is cut short in between), no
\* database is published half built, and a build that no process disturbed gives
\* one split to one text.
PublishedFiles ==
    /\ \A f \in Files : dataset.files[f] >= dataset.manifest /\ databases.files[f] >= databases.manifest
    /\ \A k \in DOMAIN exports, f \in Files :
           exports[k].files[f] = Partial \/ exports[k].files[f] >= exports[k].manifest
    /\ batch.input >= batch.manifest /\ exports["docker"].manifest >= batch.manifest
    /\ dataset.manifest # 0 /\ builds[dataset.manifest].steady =>
           \A r, q \in builds[dataset.manifest].rows : r.version = q.version => r.split = q.split
=============================================================================
