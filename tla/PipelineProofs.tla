---------------------------- MODULE PipelineProofs ----------------------------
(***************************************************************************)
(* Proofs about Pipeline, for any processes, identifiers, revisions and     *)
(* limits, from five invariants:                                            *)
(*   PInv   vectors and views are of the revision their record has: index   *)
(*          works under the write lock on what it read, and nobody replaces *)
(*          the canonical records before it commits;                        *)
(*   OInv   what a command read of the sources is behind the canonical      *)
(*          records only when another command replaced those in between;    *)
(*   FInv   a published file is numbered by its job or build, and the only  *)
(*          command of its kind that runs writes the manifest last;         *)
(*   TInv   what a command holds at each of its steps has the type of the   *)
(*          table it read, and the job row of a command that runs is its    *)
(*          own and running;                                                *)
(*   SInv   a search knows the rows it selected as long as nobody replaces  *)
(*          the canonical records, for index does not touch current rows.   *)
(***************************************************************************)
EXTENDS Pipeline, WellFoundedInduction, TLAPS

\* The fields of a command that is executed.
Fields == {"kind", "pc", "job", "read", "id", "since", "todo", "found", "vectors", "views", "left"}

\* A command is the empty one or has all of the fields.
Shaped(c) == c = NoCommand \/ DOMAIN c = Fields

\* Rows that are of the revision the canonical records have, or absent.
Current(rows) == DOMAIN rows = Ids /\ \A i \in Ids : rows[i] \in {None, canonical[i]}

\* The process that encodes holds the lock, and so far its rows are current.
EncodesLocked(p) ==
    cmd[p].pc = "encode" => lock = p /\ Current(cmd[p].vectors) /\ cmd[p].views = cmd[p].vectors

\* The inductive invariant.
PInv ==
    /\ Current(vectors) /\ views = vectors
    /\ uses \in Uses
    /\ DOMAIN cmd = Procs
    /\ \A p \in Procs : Shaped(cmd[p]) /\ EncodesLocked(p)

-----------------------------------------------------------------------------

\* A step of p that leaves the tables as they are, and does not encode.
Quiet(p) ==
    /\ UNCHANGED <<tables, uses>>
    /\ lock' = lock \/ lock = p
    /\ DOMAIN cmd' = Procs
    /\ \A q \in Procs \ {p} : cmd'[q] = cmd[q]
    /\ Shaped(cmd'[p]) /\ cmd'[p].pc # "encode"

\* Such a step keeps the invariant: who encodes is another process, and has the
\* lock before and after it.
LEMMA QuietSteps ==
    ASSUME PInv, NEW p \in Procs, Quiet(p)
    PROVE  PInv'
  <1>1. Current(vectors)' /\ views' = vectors'
      BY DEF PInv, Quiet, tables, Current
  <1>2. ASSUME NEW q \in Procs PROVE (Shaped(cmd[q]) /\ EncodesLocked(q))'
    <2>1. CASE q = p  BY <2>1 DEF Quiet, EncodesLocked
    <2>2. CASE q # p
        BY <2>2 DEF PInv, Quiet, tables, EncodesLocked, Current
    <2> QED  BY <2>1, <2>2
  <1> QED  BY <1>1, <1>2 DEF PInv, Quiet

\* Nobody encodes while the lock is free or a process that does not has it.
LEMMA NobodyEncodes ==
    ASSUME PInv, NEW p \in Procs, CanWrite(p), cmd[p].pc # "encode"
    PROVE  \A q \in Procs : cmd[q].pc # "encode"
  BY PipelineAssumption DEF PInv, EncodesLocked, CanWrite

\* What a command that is executed has.
LEMMA HasFields ==
    ASSUME PInv, NEW p \in Procs, cmd[p].pc # "none" \/ Working(p)
    PROVE  DOMAIN cmd[p] = Fields
  BY DEF PInv, Shaped, NoCommand, Working

\* The invariant holds of an empty database with no command running.
LEMMA InitHolds == PipelineInit => PInv
  <1> SUFFICES ASSUME PipelineInit PROVE PInv
      OBVIOUS
  <1>1. Current(vectors) /\ views = vectors
      BY PipelineAssumption DEF PipelineInit, Current, Table
  <1>2. ASSUME NEW p \in Procs PROVE Shaped(cmd[p]) /\ EncodesLocked(p)
      BY DEF PipelineInit, Shaped, EncodesLocked, NoCommand
  <1> QED  BY <1>1, <1>2 DEF PInv, PipelineInit

\* Commands begin and end.
LEMMA BeginEnd ==
    ASSUME PInv, NEW p \in Procs,
           (\E kind \in uses : StartJob(p, kind)) \/ EndJob(p) \/ LockedOut(p) \/ Fails(p) \/ Kill(p)
    PROVE  Quiet(p)
  <1>1. ASSUME NEW kind \in uses, StartJob(p, kind) PROVE Quiet(p)
    <2>1. kind # "encode"  BY PipelineAssumption DEF PInv, Kinds
    <2> QED  BY <1>1, <2>1 DEF StartJob, Quiet, PInv, Shaped, Fields
  <1>2. CASE EndJob(p)
      BY <1>2 DEF EndJob, Finish, counts, Quiet, PInv, Shaped, NoCommand
  <1>3. CASE LockedOut(p)
      BY <1>3, HasFields DEF LockedOut, Quiet, PInv, Shaped, NoCommand, Fields, rest, counts
  <1>4. CASE Fails(p)
      BY <1>4, HasFields DEF Fails, Goto, rest, counts, Quiet, PInv, Shaped, Fields
  <1>5. CASE Kill(p)
      BY <1>5 DEF Kill, Quiet, PInv, Shaped, NoCommand
  <1> QED  BY <1>1, <1>2, <1>3, <1>4, <1>5

\* A table with one record.
Only(i, record) == [Empty EXCEPT ![i] = record]

\* What a comparison leaves: the record to be inserted, or the next step.
LEMMA Compares ==
    ASSUME PInv, NEW p \in Procs, cmd[p].pc # "none", NEW i, NEW record, Compare(p, i, record)
    PROVE  /\ UNCHANGED <<src, back, tables, lock, rest>>
           /\ DOMAIN cmd' = Procs /\ \A q \in Procs \ {p} : cmd'[q] = cmd[q]
           /\ DOMAIN cmd'[p] = Fields /\ cmd'[p].kind = cmd[p].kind /\ cmd'[p].job = cmd[p].job
           /\ \/ /\ cmd'[p].pc = "insert" /\ cmd'[p].id = i /\ cmd'[p].since = src[i].version
                 /\ cmd'[p].read = Only(i, record)
                 /\ record.version >= src[i].version
              \/ cmd'[p].pc \in {"process", "succeeded"}
  <1>1. DOMAIN cmd[p] = Fields  BY HasFields
  <1>2. UNCHANGED <<src, back, tables, lock, rest>>  BY DEF Compare
  <1>3. CASE Accepted(i, record)
    <2>1. cmd' = [cmd EXCEPT ![p].read = [Empty EXCEPT ![i] = record], ![p].id = i,
                             ![p].since = src[i].version, ![p].pc = "insert"]
        BY <1>3 DEF Compare
    <2> QED  BY <1>1, <1>2, <1>3, <2>1 DEF Accepted, PInv, Fields, Only
  <1>4. CASE ~Accepted(i, record)
    <2>1. cmd' = [cmd EXCEPT ![p].pc = IF cmd[p].kind = "attach" THEN "process" ELSE "succeeded"]
        BY <1>4 DEF Compare, AfterSave
    <2> QED  BY <1>1, <1>2, <2>1 DEF PInv, Fields
  <1> QED  BY <1>3, <1>4

\* import, process, enrich and attach, but for the replacement.
LEMMA DerivingSteps ==
    ASSUME PInv, NEW p \in Procs,
           \/ Import(p) \/ Insert(p) \/ ReadSources(p) \/ ReadTargets(p) \/ FetchCandidate(p) \/ FetchDone(p)
           \/ SaveCandidates(p) \/ ResolveCandidates(p) \/ ReadRecord(p) \/ SaveAttached(p)
    PROVE  Quiet(p)
  <1> USE HasFields DEF Quiet, PInv, Shaped, Fields, At, Goto, rest, counts
  <1>1. CASE Import(p)
    <2>1. PICK i \in Ids : \E v \in Versions : Compare(p, i, [version |-> v, text |-> FALSE, extra |-> src[i].extra])
        BY <1>1 DEF Import
    <2> QED  BY <1>1, <2>1, Compares DEF Import
  <1>2. CASE ReadSources(p)  BY <1>2 DEF ReadSources
  <1>3. CASE ReadTargets(p)  BY <1>3 DEF ReadTargets
  <1>4. CASE FetchCandidate(p)  BY <1>4 DEF FetchCandidate
  <1>5. CASE FetchDone(p)  BY <1>5 DEF FetchDone
  <1>6. CASE SaveCandidates(p)  BY <1>6 DEF SaveCandidates
  <1>7. CASE ResolveCandidates(p)  BY <1>7 DEF ResolveCandidates
  <1>8. CASE ReadRecord(p)  BY <1>8 DEF ReadRecord
  <1>9. CASE SaveAttached(p)  BY <1>9, Compares DEF SaveAttached
  <1>10. CASE Insert(p)  BY <1>10 DEF Insert, AfterSave
  <1> QED  BY <1>1, <1>2, <1>3, <1>4, <1>5, <1>6, <1>7, <1>8, <1>9, <1>10

\* search, build-training-dataset, and the commands on trajectories.
LEMMA ReadingSteps ==
    ASSUME PInv, NEW p \in Procs,
           \/ SelectHits(p) \/ SelectViews(p)
           \/ ReadTexts(p) \/ ReadRows(p) \/ PublishFile(p) \/ PublishManifest(p)
    PROVE  Quiet(p)
  <1> USE HasFields DEF Quiet, PInv, Shaped, Fields, At, Goto, rest, counts
  <1>1. CASE SelectHits(p)  BY <1>1 DEF SelectHits
  <1>2. CASE SelectViews(p)  BY <1>2 DEF SelectViews
  <1>3. CASE ReadTexts(p)  BY <1>3 DEF ReadTexts
  <1>4. CASE ReadRows(p)  BY <1>4 DEF ReadRows
  <1>5. CASE PublishFile(p)  BY <1>5 DEF PublishFile
  <1>6. CASE PublishManifest(p)  BY <1>6 DEF PublishManifest, ManifestReady
  <1> QED  BY <1>1, <1>2, <1>3, <1>4, <1>5, <1>6

\* The steps of the trajectory commands keep the invariant: they write no derived row.
LEMMA TrajectorySteps ==
    ASSUME PInv, NEW p \in Procs,
           \/ RunContainer(p) \/ SaveTrajectory(p) \/ RefuseTrajectory(p) \/ ImportDone(p)
           \/ BeginDump(p) \/ OpenDump(p) \/ WriteDump(p) \/ FinishDump(p) \/ WriteBatchManifest(p)
           \/ ReadTrajectories(p) \/ BuildDatabase(p) \/ SwapDatabase(p) \/ WriteManifest(p)
    PROVE  Quiet(p)
  <1> USE HasFields DEF Quiet, PInv, Shaped, Fields, At, Goto, rest, counts
  <1>1. CASE RunContainer(p)  BY <1>1 DEF RunContainer, ContainerOutcomes
  <1>2. CASE SaveTrajectory(p)  BY <1>2 DEF SaveTrajectory
  <1>3. CASE RefuseTrajectory(p)  BY <1>3 DEF RefuseTrajectory
  <1>4. CASE ImportDone(p)  BY <1>4 DEF ImportDone
  <1>5. CASE BeginDump(p)  BY <1>5 DEF BeginDump
  <1>6. CASE WriteDump(p)  BY <1>6 DEF WriteDump
  <1>7. CASE FinishDump(p)  BY <1>7 DEF FinishDump, DumpReady
  <1>8. CASE WriteBatchManifest(p)  BY <1>8 DEF WriteBatchManifest
  <1>9. CASE ReadTrajectories(p)  BY <1>9 DEF ReadTrajectories
  <1>10. CASE BuildDatabase(p)  BY <1>10 DEF BuildDatabase
  <1>11. CASE SwapDatabase(p)  BY <1>11 DEF SwapDatabase
  <1>12. CASE WriteManifest(p)  BY <1>12 DEF WriteManifest
  <1>13. CASE OpenDump(p)  BY <1>13 DEF OpenDump
  <1> QED  BY <1>1, <1>2, <1>3, <1>4, <1>5, <1>6, <1>7, <1>8, <1>9, <1>10, <1>11, <1>12, <1>13

\* The replacement: nobody encodes, and what is of another revision goes.
LEMMA ReplaceHolds ==
    ASSUME PInv, NEW p \in Procs, ReplaceCanonical(p)
    PROVE  PInv'
  <1>1. \A q \in Procs : cmd[q].pc # "encode"
      BY NobodyEncodes DEF ReplaceCanonical, At
  <1>2. Current(vectors)' /\ views' = vectors'
      BY DEF ReplaceCanonical, DropDerived, Current, PInv
  <1>3. DOMAIN cmd[p] = Fields
      BY HasFields DEF ReplaceCanonical, At
  <1>4. /\ DOMAIN cmd' = Procs
        /\ \A q \in Procs \ {p} : cmd'[q] = cmd[q]
        /\ DOMAIN cmd'[p] = Fields /\ cmd'[p].pc # "encode"
      BY <1>3 DEF ReplaceCanonical, Goto, PInv, Fields
  <1>5. UNCHANGED uses  BY DEF ReplaceCanonical, counts
  <1> QED  BY <1>1, <1>2, <1>4, <1>5 DEF PInv, Shaped, EncodesLocked

\* index: it takes the lock with current rows, keeps them current, and commits them.
LEMMA IndexHolds ==
    ASSUME PInv, NEW p \in Procs, BeginIndex(p) \/ Encode(p) \/ CommitIndex(p)
    PROVE  PInv'
  <1>1. CASE BeginIndex(p)
    <2>1. PICK limit \in IndexLimits :
             cmd' = [cmd EXCEPT ![p].pc = "encode", ![p].left = limit,
                             ![p].vectors = vectors, ![p].views = views,
                             ![p].todo = {i \in Ids : canonical[i] # None /\
                                             (vectors[i] # canonical[i] \/ views[i] # canonical[i])}]
        BY <1>1 DEF BeginIndex
    <2>2. DOMAIN cmd[p] = Fields  BY <1>1, HasFields DEF BeginIndex, At
    <2>3. /\ DOMAIN cmd' = Procs /\ \A q \in Procs \ {p} : cmd'[q] = cmd[q]
          /\ DOMAIN cmd'[p] = Fields /\ cmd'[p].vectors = vectors /\ cmd'[p].views = views
        BY <2>1, <2>2 DEF PInv, Fields
    <2>4. \A q \in Procs : cmd[q].pc # "encode"
        BY <1>1, NobodyEncodes DEF BeginIndex, At, CanWrite
    <2>5. lock' = p /\ UNCHANGED <<tables, uses>>  BY <1>1 DEF BeginIndex, rest, counts
    <2> QED  BY <2>3, <2>4, <2>5 DEF PInv, Shaped, EncodesLocked, Current, tables
  <1>2. CASE Encode(p)
    <2> DEFINE i == Min(cmd[p].todo)
               row == IF Active(canonical[i]) THEN canonical[i] ELSE None
    <2>1. DOMAIN cmd[p] = Fields  BY <1>2, HasFields DEF Encode, At
    <2>2. \/ cmd' = [cmd EXCEPT ![p].todo = {}]
          \/ cmd' = [cmd EXCEPT ![p].todo = @ \ {i},
                                ![p].left = IF Active(canonical[i]) THEN @ - 1 ELSE @,
                                ![p].vectors[i] = row, ![p].views[i] = row]
        BY <1>2 DEF Encode
    <2>3. row \in {None, canonical[i]}  OBVIOUS
    <2> HIDE DEF i, row
    <2>4. /\ DOMAIN cmd' = Procs /\ \A q \in Procs \ {p} : cmd'[q] = cmd[q]
          /\ DOMAIN cmd'[p] = Fields
          /\ \/ cmd'[p].vectors = cmd[p].vectors /\ cmd'[p].views = cmd[p].views
             \/ /\ cmd'[p].vectors = [cmd[p].vectors EXCEPT ![i] = row]
                /\ cmd'[p].views = [cmd[p].views EXCEPT ![i] = row]
        BY <2>1, <2>2 DEF PInv, Fields
    <2>5. lock = p /\ Current(cmd[p].vectors) /\ cmd[p].views = cmd[p].vectors /\ UNCHANGED <<tables, lock, uses>>
        BY <1>2 DEF Encode, rest, counts, At, PInv, EncodesLocked
    <2>6. ASSUME NEW rows, Current(rows) PROVE Current([rows EXCEPT ![i] = row])
        BY <2>3, <2>6 DEF Current
    <2>7. Current(cmd'[p].vectors) /\ cmd'[p].views = cmd'[p].vectors
        BY <2>4, <2>5, <2>6
    <2> QED  BY <2>4, <2>5, <2>7 DEF PInv, Shaped, EncodesLocked, Current, tables
  <1>3. CASE CommitIndex(p)
    <2>1. DOMAIN cmd[p] = Fields  BY <1>3, HasFields DEF CommitIndex, At
    <2>2. /\ DOMAIN cmd' = Procs /\ \A q \in Procs \ {p} : cmd'[q] = cmd[q]
          /\ DOMAIN cmd'[p] = Fields /\ cmd'[p].pc = "succeeded"
        BY <1>3, <2>1 DEF CommitIndex, Goto, PInv, Fields
    <2>3. lock = p /\ Current(cmd[p].vectors) /\ cmd[p].views = cmd[p].vectors
        BY <1>3 DEF CommitIndex, At, PInv, EncodesLocked
    <2>4. \A q \in Procs \ {p} : cmd[q].pc # "encode"
        BY <2>3 DEF PInv, EncodesLocked
    <2>5. Current(vectors)' /\ views' = vectors'
        BY <1>3, <2>3 DEF CommitIndex, Current
    <2>6. UNCHANGED uses  BY <1>3 DEF CommitIndex, rest, counts
    <2> QED  BY <2>2, <2>4, <2>5, <2>6 DEF PInv, Shaped, EncodesLocked
  <1> QED  BY <1>1, <1>2, <1>3

\* Every step of every command keeps the invariant.
LEMMA StepHolds == PInv /\ [Next]_vars => PInv'
  <1> SUFFICES ASSUME PInv, [Next]_vars PROVE PInv'
      OBVIOUS
  <1>1. CASE UNCHANGED vars
      BY <1>1 DEF vars, tables, rest, counts, PInv, Shaped, EncodesLocked, Current
  <1>2. CASE Next
    <2>1. PICK p \in Procs : Step(p) \/ Fails(p) \/ Kill(p) \/ \E kind \in uses : StartJob(p, kind)
        BY <1>2 DEF Next
    <2> QED
        BY <2>1, QuietSteps, BeginEnd, DerivingSteps, ReadingSteps, TrajectorySteps, ReplaceHolds, IndexHolds DEF Step
  <1> QED  BY <1>1, <1>2

\* The invariant holds in every reachable state.
THEOREM Inductive == Spec => []PInv
  BY InitHolds, StepHolds, PTL DEF Spec

\* Vectors and views are of the revision their record has, and a record has both or
\* neither, whatever commands run side by side or are killed.
THEOREM VectorsHold == Spec => []VectorsAreCurrent
  <1>1. PInv => VectorsAreCurrent
      BY DEF PInv, Current, VectorsAreCurrent
  <1> QED  BY <1>1, Inductive, PTL

-----------------------------------------------------------------------------
(* What it takes for a canonical record to go back                           *)

\* Tables of records with a version.
Versioned(t) ==
    DOMAIN t = Ids /\ \A i \in Ids : DOMAIN t[i] = {"version", "text", "extra"} /\ t[i].version \in Nat

\* No record of a is newer than the one of b, but for those set aside.
Behind(a, b, aside) == \A i \in Ids \ aside : a[i].version <= b[i].version

\* What a process will replace the canonical records with.
ReadIsOrdered(p) ==
    /\ cmd[p].pc = "replace" =>
           /\ Versioned(cmd[p].read) /\ Behind(cmd[p].read, src, back)
           /\ cmd[p].since \in Nat /\ cmd[p].since <= replaced
           /\ cmd[p].since = replaced => Behind(canonical, cmd[p].read, back)
    /\ cmd[p].pc \in {"attached", "insert"} => Versioned(cmd[p].read) /\ cmd[p].id \in Ids
    /\ cmd[p].pc = "insert" => cmd[p].since \in Nat /\ cmd[p].since <= cmd[p].read[cmd[p].id].version

\* The inductive invariant, beside PInv.
OInv ==
    /\ Versioned(src) /\ Versioned(canonical) /\ Behind(canonical, src, back)
    /\ replaced \in Nat
    /\ \A p \in Procs : ReadIsOrdered(p)

-----------------------------------------------------------------------------

\* A step moves the sources forward, or sets aside those that go back.
Moves == Versioned(src') /\ Behind(src, src', back') /\ back \subseteq back'

\* A step of p that moves the sources, replaces nothing, and does not read the
\* sources for a later write.
Forward(p) ==
    /\ Moves
    /\ UNCHANGED <<canonical, replaced>>
    /\ \A q \in Procs \ {p} : cmd'[q] = cmd[q]
    /\ cmd'[p].pc \notin {"replace", "attached", "insert"}

\* The order of versions.
LEMMA BehindIsTransitive ==
    ASSUME NEW a, NEW b, NEW c, NEW less, NEW more, less \subseteq more,
           Versioned(a), Versioned(b), Versioned(c), Behind(a, b, less), Behind(b, c, more)
    PROVE  Behind(a, c, more)
  BY DEF Versioned, Behind

\* A state of the tables is never ahead of itself.
LEMMA BehindItself ==
    ASSUME NEW a, NEW aside, Versioned(a)
    PROVE  Behind(a, a, aside)
  BY DEF Versioned, Behind

\* What another process read stays behind the sources.
LEMMA OthersStayOrdered ==
    ASSUME OInv, NEW p \in Procs, Moves,
           UNCHANGED <<canonical, replaced>>,
           \A q \in Procs \ {p} : cmd'[q] = cmd[q]
    PROVE  \A q \in Procs \ {p} : ReadIsOrdered(q)'
  <1> TAKE q \in Procs \ {p}
  <1>1. ReadIsOrdered(q) /\ cmd'[q] = cmd[q]  BY DEF OInv
  <1>2. cmd[q].pc = "replace" => Behind(cmd[q].read, src', back')
      BY <1>1, BehindIsTransitive DEF ReadIsOrdered, OInv, Moves
  <1> QED  BY <1>1, <1>2 DEF ReadIsOrdered, Versioned, Behind, Moves

\* A step that only moves versions forward keeps the order.
LEMMA ForwardHolds ==
    ASSUME OInv, NEW p \in Procs, Forward(p)
    PROVE  OInv'
  <1>1. \A q \in Procs \ {p} : ReadIsOrdered(q)'  BY OthersStayOrdered DEF Forward
  <1>2. ReadIsOrdered(p)'  BY DEF Forward, ReadIsOrdered
  <1>3. Versioned(src)' /\ Versioned(canonical)' /\ Behind(canonical, src, back)'
    <2>1. Versioned(src') /\ Versioned(canonical') /\ canonical' = canonical
        BY DEF Forward, Moves, OInv, Versioned
    <2>2. Behind(canonical, src', back')  BY <2>1, BehindIsTransitive DEF Forward, Moves, OInv
    <2> QED  BY <2>1, <2>2 DEF Versioned, Behind
  <1> QED  BY <1>1, <1>2, <1>3 DEF OInv, Forward

\* The order holds of an empty database.
LEMMA OrderInit == PipelineInit => OInv
  <1> SUFFICES ASSUME PipelineInit PROVE OInv
      OBVIOUS
  <1>1. src \in Table /\ canonical = src
      BY PipelineAssumption DEF PipelineInit
  <1>2. Versioned(src)
    <2>1. Versions \subseteq Nat  BY PipelineAssumption
    <2>2. \A r \in Records : DOMAIN r = {"version", "text", "extra"} /\ r.version \in Nat
        BY <2>1 DEF Records
    <2>3. DOMAIN None = {"version", "text", "extra"} /\ None.version \in Nat
        BY DEF None
    <2>4. DOMAIN src = Ids /\ \A i \in Ids : src[i] \in Records \/ src[i] = None
        BY <1>1 DEF Table
    <2> QED  BY <2>2, <2>3, <2>4 DEF Versioned
  <1>3. Behind(canonical, src, back)  BY <1>1, <1>2, BehindItself
  <1>4. \A p \in Procs : ReadIsOrdered(p)
      BY DEF PipelineInit, NoCommand, ReadIsOrdered
  <1> QED  BY <1>1, <1>2, <1>3, <1>4 DEF OInv, PipelineInit

\* A process reads the sources: what it read is they, and nobody has replaced
\* the canonical records since.
LEMMA ReadSourcesOrdered ==
    ASSUME PInv, OInv, NEW p \in Procs, ReadSources(p)
    PROVE  OInv'
  <1>1. DOMAIN cmd[p] = Fields  BY HasFields DEF ReadSources, At
  <1>2. /\ \A q \in Procs \ {p} : cmd'[q] = cmd[q]
        /\ cmd'[p].read = src /\ cmd'[p].since = replaced /\ cmd'[p].pc = "replace"
      BY <1>1 DEF ReadSources, PInv, Fields
  <1>3. UNCHANGED <<src, back, canonical, replaced>>  BY DEF ReadSources, tables, rest
  <1>4. Behind(src, src, back) /\ Moves  BY <1>3, BehindItself DEF OInv, Moves, Versioned
  <1>5. \A q \in Procs \ {p} : ReadIsOrdered(q)'
      BY <1>2, <1>3, <1>4, OthersStayOrdered DEF OInv
  <1>6. ReadIsOrdered(p)'
      BY <1>2, <1>3, <1>4 DEF ReadIsOrdered, OInv, Versioned, Behind
  <1> QED  BY <1>3, <1>5, <1>6 DEF OInv, Versioned, Behind

\* A record is read to attach what belongs to it.
LEMMA ReadRecordOrdered ==
    ASSUME PInv, OInv, NEW p \in Procs, ReadRecord(p)
    PROVE  OInv'
  <1>1. DOMAIN cmd[p] = Fields  BY HasFields DEF ReadRecord, At
  <1>2. /\ \A q \in Procs \ {p} : cmd'[q] = cmd[q]
        /\ cmd'[p].read = src /\ cmd'[p].id \in Ids /\ cmd'[p].pc = "attached"
      BY <1>1 DEF ReadRecord, PInv, Fields
  <1>3. UNCHANGED <<src, back, canonical, replaced>>  BY DEF ReadRecord, tables, rest
  <1>4. Behind(src, src, back) /\ Moves  BY <1>3, BehindItself DEF OInv, Moves, Versioned
  <1>5. \A q \in Procs \ {p} : ReadIsOrdered(q)'
      BY <1>2, <1>3, <1>4, OthersStayOrdered DEF OInv
  <1>6. ReadIsOrdered(p)'
      BY <1>2, <1>3, <1>4 DEF ReadIsOrdered, OInv, Versioned
  <1> QED  BY <1>3, <1>5, <1>6 DEF OInv, Versioned, Behind

\* A record is compared with the latest one: what is to be inserted is not older.
LEMMA CompareOrdered ==
    ASSUME PInv, OInv, NEW p \in Procs, cmd[p].pc # "none", NEW i \in Ids, NEW record, Compare(p, i, record),
           DOMAIN record = {"version", "text", "extra"}, record.version \in Nat
    PROVE  OInv' /\ UNCHANGED <<src, canonical>>
  <1>1. /\ UNCHANGED <<src, back, canonical, replaced>>
        /\ \A q \in Procs \ {p} : cmd'[q] = cmd[q]
        /\ \/ /\ cmd'[p].pc = "insert" /\ cmd'[p].id = i /\ cmd'[p].since = src[i].version
              /\ cmd'[p].read = Only(i, record)
              /\ record.version >= src[i].version
           \/ cmd'[p].pc \in {"process", "succeeded"}
      BY Compares DEF tables, rest
  <1>2. Moves  BY <1>1, BehindItself DEF OInv, Moves, Versioned
  <1>3. \A q \in Procs \ {p} : ReadIsOrdered(q)'
      BY <1>1, <1>2, OthersStayOrdered
  <1>4. ReadIsOrdered(p)'
    <2>1. CASE cmd'[p].pc \in {"process", "succeeded"}  BY <2>1 DEF ReadIsOrdered
    <2>2. CASE cmd'[p].pc = "insert"
      <3> DEFINE read == Only(i, record)
      <3>1. Versioned(read) /\ read[i] = record  BY DEF Versioned, Only, Empty, None
      <3> HIDE DEF read
      <3>2. cmd'[p].read = read /\ cmd'[p].id = i /\ cmd'[p].since = src[i].version
            /\ record.version >= src[i].version
          BY <1>1, <2>2 DEF read
      <3>3. src[i].version \in Nat  BY DEF OInv, Versioned
      <3> QED  BY <2>2, <3>1, <3>2, <3>3 DEF ReadIsOrdered, Versioned
    <2> QED  BY <1>1, <2>1, <2>2
  <1> QED  BY <1>1, <1>3, <1>4 DEF OInv, Versioned, Behind

\* Both commands that compare.
LEMMA ComparisonsOrdered ==
    ASSUME PInv, OInv, NEW p \in Procs, Import(p) \/ SaveAttached(p)
    PROVE  OInv' /\ UNCHANGED <<src, canonical>>
  <1>1. CASE Import(p)
    <2>1. PICK i \in Ids : \E v \in Versions : Compare(p, i, [version |-> v, text |-> FALSE, extra |-> src[i].extra])
        BY <1>1 DEF Import
    <2>2. PICK v \in Versions : Compare(p, i, [version |-> v, text |-> FALSE, extra |-> src[i].extra])
        BY <2>1
    <2>3. v \in Nat  BY PipelineAssumption
    <2> QED  BY <1>1, <2>2, <2>3, CompareOrdered DEF Import, At
  <1>2. CASE SaveAttached(p)
    <2> DEFINE i == cmd[p].id
               record == [cmd[p].read[i] EXCEPT !.text = TRUE, !.extra = src[i].extra]
    <2>1. Versioned(cmd[p].read) /\ i \in Ids /\ cmd[p].pc = "attached"
        BY <1>2 DEF SaveAttached, At, OInv, ReadIsOrdered
    <2>2. Compare(p, i, record)  BY <1>2 DEF SaveAttached
    <2>3. DOMAIN record = {"version", "text", "extra"} /\ record.version \in Nat
        BY <2>1 DEF Versioned
    <2> HIDE DEF i, record
    <2> QED  BY <2>1, <2>2, <2>3, CompareOrdered
  <1> QED  BY <1>1, <1>2

\* What is inserted is not older than what the comparison found: when it replaces a
\* newer record, another one was saved in between, and the identifier is set aside.
LEMMA InsertMoves ==
    ASSUME PInv, OInv, NEW p \in Procs, Insert(p)
    PROVE  /\ Moves
           /\ \A i \in Ids : src'[i].version < src[i].version => cmd[p].id = i /\ cmd[p].since # src[i].version
  <1> DEFINE i == cmd[p].id
             record == [cmd[p].read[i] EXCEPT !.extra = src[i].extra]
  <1>1. /\ Versioned(cmd[p].read) /\ i \in Ids /\ cmd[p].since \in Nat
        /\ cmd[p].since <= cmd[p].read[i].version
      BY DEF Insert, At, OInv, ReadIsOrdered
  <1>2. /\ src' = [src EXCEPT ![i] = record]
        /\ back' = IF record.version < src[i].version THEN back \cup {i} ELSE back
      BY DEF Insert
  <1>3. DOMAIN record = {"version", "text", "extra"} /\ record.version = cmd[p].read[i].version
        /\ record.version \in Nat
      BY <1>1 DEF Versioned
  <1> HIDE DEF record
  <1>4. Versioned(src) /\ src[i].version \in Nat  BY <1>1 DEF OInv, Versioned
  <1>5. /\ DOMAIN src' = Ids /\ src'[i] = record
        /\ \A j \in Ids \ {i} : src'[j] = src[j]
      BY <1>1, <1>2, <1>4 DEF Versioned
  <1>6. Versioned(src')  BY <1>3, <1>4, <1>5 DEF Versioned
  <1>7. Behind(src, src', back')
    <2> SUFFICES ASSUME NEW j \in Ids, j \notin back' PROVE src[j].version <= src'[j].version
        BY DEF Behind
    <2>1. CASE j = i  BY <1>2, <1>3, <1>4, <1>5, <2>1
    <2>2. CASE j # i  BY <1>4, <1>5, <2>2 DEF Versioned
    <2> QED  BY <2>1, <2>2
  <1>8. ASSUME NEW j \in Ids, src'[j].version < src[j].version
        PROVE  i = j /\ cmd[p].since # src[j].version
    <2>1. CASE j = i  BY <1>1, <1>3, <1>4, <1>5, <1>8, <2>1
    <2>2. CASE j # i  BY <1>4, <1>5, <1>8, <2>2 DEF Versioned
    <2> QED  BY <2>1, <2>2
  <1> QED  BY <1>2, <1>6, <1>7, <1>8 DEF Moves

\* Candidates are records of another source: no version changes.
LEMMA CandidatesMove ==
    ASSUME PInv, OInv, NEW p \in Procs, SaveCandidates(p)
    PROVE  Moves /\ \A i \in Ids : src'[i].version = src[i].version
  <1>1. Versioned(src)  BY DEF OInv
  <1>2. src' = [i \in Ids |-> IF i \in cmd[p].found THEN [src[i] EXCEPT !.extra = TRUE] ELSE src[i]]
        /\ back' = back
      BY DEF SaveCandidates
  <1>3. Versioned(src') /\ \A i \in Ids : src'[i].version = src[i].version
      BY <1>1, <1>2 DEF Versioned
  <1> QED  BY <1>1, <1>2, <1>3 DEF Moves, Versioned, Behind

\* A step that leaves the sources alone and replaces nothing.
Aside(p) ==
    /\ UNCHANGED <<src, back, canonical, replaced>>
    /\ \A q \in Procs \ {p} : cmd'[q] = cmd[q]
    /\ cmd'[p].pc \notin {"replace", "attached", "insert"}

\* A step that touches no version keeps the order.
LEMMA AsideHolds ==
    ASSUME OInv, NEW p \in Procs, Aside(p)
    PROVE  OInv'
  <1>1. Moves
      BY BehindItself DEF OInv, Aside, Moves, Versioned, Behind
  <1> QED  BY <1>1, ForwardHolds DEF Aside, Forward

\* The steps that save records.
LEMMA SavesOrdered ==
    ASSUME PInv, OInv, NEW p \in Procs, Insert(p) \/ SaveCandidates(p)
    PROVE  OInv'
  <1>1. Moves  BY InsertMoves, CandidatesMove
  <1>2. /\ UNCHANGED <<canonical, replaced>>
        /\ \A q \in Procs \ {p} : cmd'[q] = cmd[q]
        /\ cmd'[p].pc \in {"succeeded", "process"}
    <2> USE HasFields DEF PInv, Fields, At, Goto, tables, rest
    <2>1. CASE Insert(p)  BY <2>1 DEF Insert, AfterSave
    <2>2. CASE SaveCandidates(p)  BY <2>2 DEF SaveCandidates
    <2> QED  BY <2>1, <2>2
  <1> QED  BY <1>1, <1>2, ForwardHolds DEF Forward

\* Commands begin and end.
LEMMA BeginEndAside ==
    ASSUME PInv, NEW p \in Procs,
           (\E kind \in uses : StartJob(p, kind)) \/ EndJob(p) \/ LockedOut(p) \/ Fails(p) \/ Kill(p)
    PROVE  Aside(p)
  <1> USE DEF Aside, PInv, tables, rest, Fields, NoCommand
  <1>1. ASSUME NEW kind \in uses, StartJob(p, kind) PROVE Aside(p)
    <2>1. kind \notin {"replace", "attached", "insert"}  BY PipelineAssumption DEF Kinds
    <2> QED  BY <1>1, <2>1 DEF StartJob
  <1>2. CASE EndJob(p)  BY <1>2 DEF EndJob, Finish
  <1>3. CASE LockedOut(p)  BY <1>3, HasFields DEF LockedOut
  <1>4. CASE Fails(p)  BY <1>4, HasFields DEF Fails, Goto
  <1>5. CASE Kill(p)  BY <1>5 DEF Kill
  <1> QED  BY <1>1, <1>2, <1>3, <1>4, <1>5

\* The steps that read, and those of index.
LEMMA ReadingAside ==
    ASSUME PInv, NEW p \in Procs,
           \/ ReadTargets(p) \/ FetchCandidate(p) \/ FetchDone(p) \/ ResolveCandidates(p)
           \/ BeginIndex(p) \/ Encode(p) \/ CommitIndex(p)
           \/ SelectHits(p) \/ SelectViews(p)
           \/ ReadTexts(p) \/ ReadRows(p) \/ PublishFile(p) \/ PublishManifest(p)
    PROVE  Aside(p)
  <1> USE HasFields DEF Aside, PInv, Fields, At, Goto, tables, rest
  <1>1. CASE ReadTargets(p)  BY <1>1 DEF ReadTargets
  <1>2. CASE FetchCandidate(p)  BY <1>2 DEF FetchCandidate
  <1>3. CASE FetchDone(p)  BY <1>3 DEF FetchDone
  <1>4. CASE ResolveCandidates(p)  BY <1>4 DEF ResolveCandidates
  <1>5. CASE BeginIndex(p)
    <2>1. PICK limit \in IndexLimits :
             cmd' = [cmd EXCEPT ![p].pc = "encode", ![p].left = limit,
                             ![p].vectors = vectors, ![p].views = views,
                             ![p].todo = {i \in Ids : canonical[i] # None /\
                                             (vectors[i] # canonical[i] \/ views[i] # canonical[i])}]
        BY <1>5 DEF BeginIndex
    <2>2. DOMAIN cmd[p] = Fields  BY <1>5 DEF BeginIndex
    <2>3. cmd'[p].pc = "encode" /\ \A q \in Procs \ {p} : cmd'[q] = cmd[q]
        BY <2>1, <2>2
    <2> QED  BY <1>5, <2>3 DEF BeginIndex
  <1>6. CASE Encode(p)  BY <1>6 DEF Encode
  <1>7. CASE CommitIndex(p)  BY <1>7 DEF CommitIndex
  <1>8. CASE SelectHits(p)  BY <1>8 DEF SelectHits
  <1>9. CASE SelectViews(p)  BY <1>9 DEF SelectViews
  <1>10. CASE ReadTexts(p)  BY <1>10 DEF ReadTexts
  <1>11. CASE ReadRows(p)  BY <1>11 DEF ReadRows
  <1>12. CASE PublishFile(p)  BY <1>12 DEF PublishFile
  <1>13. CASE PublishManifest(p)  BY <1>13 DEF PublishManifest, ManifestReady
  <1> QED  BY <1>1, <1>2, <1>3, <1>4, <1>5, <1>6, <1>7, <1>8, <1>9, <1>10, <1>11, <1>12, <1>13

\* The commands on trajectories.
LEMMA TrajectoriesAside ==
    ASSUME PInv, NEW p \in Procs,
           \/ RunContainer(p) \/ SaveTrajectory(p) \/ RefuseTrajectory(p) \/ ImportDone(p)
           \/ BeginDump(p) \/ OpenDump(p) \/ WriteDump(p) \/ FinishDump(p) \/ WriteBatchManifest(p)
           \/ ReadTrajectories(p) \/ BuildDatabase(p) \/ SwapDatabase(p) \/ WriteManifest(p)
    PROVE  Aside(p)
  <1> USE HasFields DEF Aside, PInv, Fields, At, Goto, tables, rest
  <1>1. CASE RunContainer(p)  BY <1>1 DEF RunContainer, ContainerOutcomes
  <1>2. CASE SaveTrajectory(p)  BY <1>2 DEF SaveTrajectory
  <1>3. CASE RefuseTrajectory(p)  BY <1>3 DEF RefuseTrajectory
  <1>4. CASE ImportDone(p)  BY <1>4 DEF ImportDone
  <1>5. CASE BeginDump(p)  BY <1>5 DEF BeginDump
  <1>6. CASE WriteDump(p)  BY <1>6 DEF WriteDump
  <1>7. CASE FinishDump(p)  BY <1>7 DEF FinishDump, DumpReady
  <1>8. CASE WriteBatchManifest(p)  BY <1>8 DEF WriteBatchManifest
  <1>9. CASE ReadTrajectories(p)
    <2> DEFINE ready == (\A c \in Files : Acceptable(c))
    <2>1. cmd' = [cmd EXCEPT ![p].todo = Files, ![p].pc = "build"] \/ cmd' = [cmd EXCEPT ![p].pc = "failed"]
        BY <1>9 DEF ReadTrajectories
    <2>2. DOMAIN cmd[p] = Fields /\ UNCHANGED <<src, back, tables, lock, rest>>
        BY <1>9 DEF ReadTrajectories
    <2> QED  BY <2>1, <2>2
  <1>10. CASE BuildDatabase(p)  BY <1>10 DEF BuildDatabase
  <1>11. CASE SwapDatabase(p)  BY <1>11 DEF SwapDatabase
  <1>12. CASE WriteManifest(p)  BY <1>12 DEF WriteManifest
  <1>13. CASE OpenDump(p)  BY <1>13 DEF OpenDump
  <1> QED  BY <1>1, <1>2, <1>3, <1>4, <1>5, <1>6, <1>7, <1>8, <1>9, <1>10, <1>11, <1>12, <1>13

\* The replacement: the new records are those that were read, which are behind
\* the sources still; everything read before it is of an earlier count.
LEMMA ReplaceOrdered ==
    ASSUME PInv, OInv, NEW p \in Procs, ReplaceCanonical(p)
    PROVE  /\ OInv'
           /\ cmd[p].since = replaced => Behind(canonical, canonical', back)
           /\ \A q \in Procs \ {p} : cmd'[q] = cmd[q]
  <1>1. DOMAIN cmd[p] = Fields  BY HasFields DEF ReplaceCanonical, At
  <1>2. /\ \A q \in Procs \ {p} : cmd'[q] = cmd[q]
        /\ cmd'[p].pc \notin {"replace", "attached", "insert"}
      BY <1>1 DEF ReplaceCanonical, Goto, PInv, Fields
  <1>3. canonical' = cmd[p].read /\ replaced' = replaced + 1 /\ UNCHANGED <<src, back>>
      BY DEF ReplaceCanonical
  <1>4. /\ Versioned(cmd[p].read) /\ Behind(cmd[p].read, src, back)
        /\ cmd[p].since = replaced => Behind(canonical, cmd[p].read, back)
      BY DEF ReplaceCanonical, At, OInv, ReadIsOrdered
  <1>5. ASSUME NEW q \in Procs PROVE ReadIsOrdered(q)'
    <2>1. CASE q = p  BY <1>2, <2>1 DEF ReadIsOrdered
    <2>2. CASE q # p
      <3>1. ReadIsOrdered(q) /\ cmd'[q] = cmd[q] /\ replaced \in Nat  BY <1>2, <2>2 DEF OInv
      <3>2. cmd[q].pc = "replace" => cmd[q].since # replaced'
          BY <1>3, <3>1 DEF ReadIsOrdered
      <3> QED  BY <1>3, <3>1, <3>2 DEF ReadIsOrdered, Versioned, Behind
    <2> QED  BY <2>1, <2>2
  <1>6. Versioned(src)' /\ Versioned(canonical)' /\ Behind(canonical, src, back)' /\ replaced' \in Nat
      BY <1>3, <1>4 DEF OInv, Versioned, Behind
  <1> QED  BY <1>2, <1>3, <1>4, <1>5, <1>6 DEF OInv, Behind

\* What every other step does.
LEMMA OtherSteps ==
    ASSUME PInv, OInv, NEW p \in Procs,
           Step(p) \/ Fails(p) \/ Kill(p) \/ \E kind \in uses : StartJob(p, kind),
           ~ReplaceCanonical(p)
    PROVE  /\ OInv' /\ canonical' = canonical
           /\ \A i \in Ids : src'[i].version < src[i].version =>
                  At(p, "insert") /\ cmd[p].id = i /\ cmd[p].since # src[i].version
  <1>0. \A i \in Ids : src[i].version \in Nat /\ ~(src[i].version < src[i].version)
      BY DEF OInv, Versioned
  <1>1. CASE BeginIndex(p) \/ Encode(p) \/ CommitIndex(p) \/ Aside(p)
      BY <1>0, <1>1, ReadingAside, AsideHolds DEF Aside
  <1>2. CASE Insert(p)
      BY <1>2, SavesOrdered, InsertMoves DEF Insert, tables
  <1>3. CASE SaveCandidates(p)
      BY <1>0, <1>3, SavesOrdered, CandidatesMove DEF SaveCandidates, tables
  <1>4. CASE Import(p) \/ SaveAttached(p)
      BY <1>0, <1>4, ComparisonsOrdered
  <1>5. CASE ReadSources(p) \/ ReadRecord(p)
      BY <1>0, <1>5, ReadSourcesOrdered, ReadRecordOrdered DEF ReadSources, ReadRecord, tables
  <1> QED  BY <1>1, <1>2, <1>3, <1>4, <1>5, BeginEndAside, ReadingAside, TrajectoriesAside DEF Step

\* Every step of every command keeps the order.
LEMMA OrderSteps == PInv /\ OInv /\ [Next]_vars => OInv'
  <1> SUFFICES ASSUME PInv, OInv, [Next]_vars PROVE OInv'
      OBVIOUS
  <1>1. CASE UNCHANGED vars
      BY <1>1 DEF vars, tables, rest, OInv, ReadIsOrdered, Versioned, Behind
  <1>2. CASE Next
    <2>1. PICK p \in Procs : Step(p) \/ Fails(p) \/ Kill(p) \/ \E kind \in uses : StartJob(p, kind)
        BY <1>2 DEF Next
    <2> QED  BY <2>1, ReplaceOrdered, OtherSteps
  <1> QED  BY <1>1, <1>2

\* Of an identifier whose source was never overwritten by an older record, the
\* canonical record is not newer than the source, and what is to replace it is not
\* older than it is unless it was replaced since the sources were read.
THEOREM Ordered == Spec => []OInv
  BY OrderInit, OrderSteps, StepHolds, InitHolds, PTL DEF Spec

\* A source goes back only when another command saved a record between the
\* comparison and the INSERT, and the canonical record of another identifier only
\* when the table was replaced between the reading of the sources and their use.
THEOREM GoesBackOnOverlap == Spec => OnlyAnOverlapGoesBack
  <1> DEFINE Forth ==
        \A i \in Ids : src'[i].version < src[i].version =>
            \E p \in Procs : At(p, "insert") /\ cmd[p].id = i /\ cmd[p].since # src[i].version
             Kept ==
        \A p \in Procs :
          At(p, "replace") /\ ~At(p, "replace")' /\ canonical' # canonical /\ cmd[p].since = replaced =>
              \A i \in Ids \ back : canonical'[i].version >= canonical[i].version
  <1>0. ASSUME PInv, OInv, Next PROVE Forth
    <2>1. PICK q \in Procs : Step(q) \/ Fails(q) \/ Kill(q) \/ \E kind \in uses : StartJob(q, kind)
        BY <1>0 DEF Next
    <2>2. CASE ReplaceCanonical(q)
        BY <1>0, <2>2 DEF ReplaceCanonical, OInv, Versioned
    <2>3. CASE ~ReplaceCanonical(q)
        BY <1>0, <2>1, <2>3, OtherSteps
    <2> QED  BY <2>2, <2>3
  <1>1. ASSUME PInv, OInv, [Next]_vars PROVE Kept
    <2> SUFFICES ASSUME NEW p \in Procs, cmd[p].pc = "replace", cmd'[p].pc # "replace",
                        canonical' # canonical, cmd[p].since = replaced
                 PROVE  \A i \in Ids \ back : canonical'[i].version >= canonical[i].version
        BY DEF At
    <2>1. PICK q \in Procs : Step(q) \/ Fails(q) \/ Kill(q) \/ \E kind \in uses : StartJob(q, kind)
        BY <1>1 DEF Next, vars, tables
    <2>2. ReplaceCanonical(q)  BY <1>1, <2>1, OtherSteps
    <2>3. p = q  BY <1>1, <2>2, ReplaceOrdered
    <2>4. Behind(canonical, canonical', back) /\ OInv'  BY <1>1, <2>2, <2>3, ReplaceOrdered
    <2> QED  BY <1>1, <2>4 DEF Behind, OInv, Versioned
  <1>2. PInv /\ OInv /\ [Next]_vars => [Forth /\ Kept]_vars
      BY <1>0, <1>1
  <1> QED  BY <1>2, Inductive, Ordered, PTL DEF Spec, OnlyAnOverlapGoesBack

-----------------------------------------------------------------------------
(* Published files: the numbers of jobs and builds *)

\* Steps at which a command is about to write files or has begun to.
FileSteps == {"rows", "publish", "build", "swap", "trajectories", "dump", "files", "writing", "batch"}

\* The commands whose steps these are.
Course(c) ==
    /\ c.pc \in {"dataset", "rows", "publish"} => c.kind = "dataset"
    /\ c.pc \in {"export", "build", "swap"} => c.kind = "export"
    /\ c.pc \in {"dump", "files", "writing"} => c.kind \in {"dump", "docker"}
    /\ c.pc = "trajectories" => c.kind \in {"trajectories", "docker"}
    /\ c.pc \in {"docker", "batch"} => c.kind = "docker"

\* Files of builds up to n: none is older than the manifest, but for those cut short.
Numbered(out, n, short) ==
    /\ DOMAIN out = {"files", "manifest"} /\ DOMAIN out.files = Files
    /\ out.manifest \in Nat /\ out.manifest <= n
    /\ \A f \in Files : \/ out.files[f] \in short
                       \/ /\ out.files[f] \in Nat /\ out.manifest <= out.files[f]
                          /\ out.files[f] <= n

\* All files but those to do are of build n.
Replaced(out, todo, n) == todo \subseteq Files /\ \A f \in Files \ todo : out.files[f] = n

\* Equal texts of an undisturbed build have one split.
OneSplit(b) == b.steady => \A r, q \in b.rows : r.version = q.version => r.split = q.split

\* Jobs are numbered, and a command that writes a directory runs once at a time.
CommandsOK ==
    /\ jobs \in Seq(Status)
    /\ \A p \in Procs : Course(cmd[p]) /\ (Working(p) => cmd[p].job \in 1..Len(jobs))
    /\ \A p, q \in Procs : cmd[p].kind = cmd[q].kind /\ cmd[p].kind \in Writers => p = q

\* The dataset is of builds that were made, and the one being published is the last.
DatasetOK ==
    /\ Len(builds) \in Nat /\ DOMAIN builds = 1..Len(builds)
    /\ \A n \in 1..Len(builds) : OneSplit(builds[n])
    /\ Numbered(dataset, Len(builds), {})
    /\ \A p \in Procs : cmd[p].pc = "publish" =>
           cmd[p].id = Len(builds) /\ cmd[p].id # 0 /\ Replaced(dataset, cmd[p].todo, cmd[p].id)

\* The databases are of jobs that were given, none later than a running export.
DatabasesOK ==
    /\ Numbered(databases, Len(jobs), {})
    /\ \A p \in Procs :
           /\ cmd[p].kind = "export" => Numbered(databases, cmd[p].job, {})
           /\ cmd[p].pc \in {"build", "swap"} => Replaced(databases, cmd[p].todo, cmd[p].job)

\* The same of the two exports, each with the jobs of its own kind.
ExportsOK ==
    /\ DOMAIN exports = {"dump", "docker"}
    /\ \A k \in {"dump", "docker"} : Numbered(exports[k], Len(jobs), {Partial})
    /\ \A p \in Procs :
           /\ cmd[p].kind \in {"dump", "docker"} => Numbered(exports[cmd[p].kind], cmd[p].job, {Partial})
           /\ cmd[p].pc \in {"files", "writing"} => Replaced(exports[cmd[p].kind], cmd[p].todo, cmd[p].job)

\* The input of a batch is kept until its trajectories are in the files.
BatchOK ==
    /\ DOMAIN batch = {"input", "manifest"}
    /\ batch.input \in 0..Len(jobs) /\ batch.manifest \in 0..batch.input
    /\ batch.manifest <= exports["docker"].manifest
    /\ \A p \in Procs : cmd[p].kind = "docker" =>
           /\ batch.input <= cmd[p].job
           /\ cmd[p].pc \in {"trajectories", "dump", "files", "writing", "batch"} => batch.input = cmd[p].job
           /\ cmd[p].pc = "batch" => exports["docker"].manifest = cmd[p].job

\* The inductive invariant.
FInv == CommandsOK /\ DatasetOK /\ DatabasesOK /\ ExportsOK /\ BatchOK

\* A step of p that writes no file and leaves the course of its command, or stays in it.
Apart(p) ==
    /\ UNCHANGED <<dataset, builds, databases, exports, batch>>
    /\ jobs' \in Seq(Status) /\ Len(jobs') = Len(jobs)
    /\ DOMAIN cmd' = Procs
    /\ \A q \in Procs \ {p} : cmd'[q] = cmd[q]
    /\ \/ cmd'[p] = NoCommand
       \/ /\ cmd'[p].kind = cmd[p].kind /\ cmd'[p].job = cmd[p].job
          /\ \/ cmd'[p].pc \notin FileSteps \cup {"dataset", "export", "docker"}
             \/ cmd'[p].pc = "rows" /\ cmd[p].pc = "dataset"
             \/ cmd'[p].pc = cmd[p].pc /\ cmd'[p].todo = cmd[p].todo /\ cmd'[p].id = cmd[p].id

\* Such a step keeps every file and every directory in order.
LEMMA ApartHolds ==
    ASSUME FInv, NEW p \in Procs, Apart(p)
    PROVE  FInv'
  <1>1. CommandsOK'
    <2>1. \A q \in Procs : Course(cmd'[q]) /\ (cmd'[q].kind # "none" => cmd'[q].job \in 1..Len(jobs'))
        BY DEF FInv, CommandsOK, Apart, Course, Working, NoCommand, FileSteps
    <2>2. \A q \in Procs : cmd'[q].kind \in Writers => cmd'[q].kind = cmd[q].kind
        BY DEF FInv, CommandsOK, Apart, Writers, NoCommand
    <2>3. \A q, r \in Procs : cmd'[q].kind = cmd'[r].kind /\ cmd'[q].kind \in Writers => q = r
        BY <2>2 DEF FInv, CommandsOK
    <2> QED  BY <2>1, <2>3 DEF CommandsOK, Working, Apart, Course
  <1>2. DatasetOK'
      BY DEF FInv, DatasetOK, Apart, Numbered, Replaced, OneSplit, NoCommand, FileSteps
  <1>3. DatabasesOK'
      BY DEF FInv, DatabasesOK, Apart, Numbered, Replaced, NoCommand, FileSteps
  <1>4. ExportsOK'
      BY DEF FInv, ExportsOK, Apart, Numbered, Replaced, NoCommand, FileSteps
  <1>5. BatchOK'
      BY DEF FInv, BatchOK, Apart, NoCommand, FileSteps
  <1> QED  BY <1>1, <1>2, <1>3, <1>4, <1>5 DEF FInv

\* Commands end, fail and are killed.
LEMMA EndsApart ==
    ASSUME PInv, FInv, NEW p \in Procs, EndJob(p) \/ LockedOut(p) \/ Fails(p) \/ Kill(p)
    PROVE  Apart(p)
  <1> USE DEF Apart, PInv, rest, trajectories, written, Fields, FileSteps
  <1>1. CASE EndJob(p)
    <2>1. PICK outcome \in {"succeeded", "failed"} :
             /\ jobs' = [jobs EXCEPT ![cmd[p].job] = outcome]
             /\ Finish(p) /\ UNCHANGED <<dataset, builds, trajectories>>
        BY <1>1 DEF EndJob
    <2>2. jobs' \in Seq(Status) /\ Len(jobs') = Len(jobs)
      <3>1. jobs \in Seq(Status) /\ outcome \in Status  BY DEF FInv, CommandsOK, Status
      <3>2. jobs \in [1..Len(jobs) -> Status] /\ Len(jobs) \in Nat  BY <3>1
      <3>3. jobs' \in [1..Len(jobs) -> Status]
        <4> HIDE DEF Status
        <4> QED  BY <2>1, <3>1, <3>2
      <3> QED  BY <3>2, <3>3
    <2> QED  BY <2>1, <2>2 DEF Finish
  <1>2. CASE LockedOut(p)
      BY <1>2, HasFields DEF LockedOut, FInv, CommandsOK
  <1>3. CASE Fails(p)
      BY <1>3, HasFields DEF Fails, Goto, FInv, CommandsOK
  <1>4. CASE Kill(p)
      BY <1>4 DEF Kill, FInv, CommandsOK
  <1> QED  BY <1>1, <1>2, <1>3, <1>4

\* An import and an attach command compare a record with the latest one.
LEMMA SomethingCompared ==
    ASSUME NEW p \in Procs, Import(p) \/ SaveAttached(p)
    PROVE  \E i : \E record : Compare(p, i, record)
  BY DEF Import, SaveAttached

\* A step of p that writes no file and no job row.
LEMMA NoFileApart ==
    ASSUME PInv, FInv, NEW p \in Procs,
           \/ Import(p) \/ Insert(p) \/ ReadSources(p) \/ ReplaceCanonical(p)
           \/ ReadTargets(p) \/ FetchCandidate(p) \/ FetchDone(p) \/ SaveCandidates(p) \/ ResolveCandidates(p)
           \/ ReadRecord(p) \/ SaveAttached(p)
           \/ BeginIndex(p) \/ Encode(p) \/ CommitIndex(p)
           \/ SelectHits(p) \/ SelectViews(p) \/ ReadTexts(p) \/ RefuseTrajectory(p)
    PROVE  Apart(p)
  <1>1. CASE Import(p) \/ SaveAttached(p)
    <2>1. PICK i : \E record : Compare(p, i, record)
        BY <1>1, SomethingCompared
    <2>2. PICK record : Compare(p, i, record)  BY <2>1
    <2>3. cmd[p].pc # "none"  BY <1>1 DEF Import, SaveAttached, At
    <2>4. /\ UNCHANGED <<jobs, dataset, builds, databases, exports, batch>>
          /\ DOMAIN cmd' = Procs /\ \A q \in Procs \ {p} : cmd'[q] = cmd[q]
          /\ cmd'[p].kind = cmd[p].kind /\ cmd'[p].job = cmd[p].job
          /\ cmd'[p].pc \in {"insert", "process", "succeeded"}
        BY <2>2, <2>3, Compares DEF rest, trajectories, written
    <2> QED  BY <2>4 DEF Apart, FInv, CommandsOK, FileSteps
  <1> USE HasFields DEF Apart, PInv, FInv, CommandsOK, Fields, FileSteps, At, Goto, rest, trajectories, written
  <1>2. CASE ReadSources(p)  BY <1>2 DEF ReadSources
  <1>3. CASE ReplaceCanonical(p)  BY <1>3 DEF ReplaceCanonical
  <1>4. CASE ReadTargets(p)  BY <1>4 DEF ReadTargets
  <1>5. CASE FetchCandidate(p)
    <2>1. PICK i, got : cmd' = [cmd EXCEPT ![p].todo = @ \ {i}, ![p].found = @ \cup got]
        BY <1>5 DEF FetchCandidate
    <2> QED  BY <1>5, <2>1 DEF FetchCandidate
  <1>6. CASE FetchDone(p)  BY <1>6 DEF FetchDone
  <1>7. CASE SaveCandidates(p)  BY <1>7 DEF SaveCandidates
  <1>8. CASE ResolveCandidates(p)  BY <1>8 DEF ResolveCandidates
  <1>9. CASE ReadRecord(p)
    <2>1. PICK i \in Ids : cmd' = [cmd EXCEPT ![p].read = src, ![p].id = i, ![p].pc = "attached"]
        BY <1>9 DEF ReadRecord
    <2> QED  BY <1>9, <2>1 DEF ReadRecord
  <1>10. CASE Insert(p)  BY <1>10 DEF Insert, AfterSave
  <1>11. CASE BeginIndex(p)
    <2>1. PICK limit \in IndexLimits :
             cmd' = [cmd EXCEPT ![p].pc = "encode", ![p].left = limit,
                             ![p].vectors = vectors, ![p].views = views,
                             ![p].todo = {i \in Ids : canonical[i] # None /\
                                             (vectors[i] # canonical[i] \/ views[i] # canonical[i])}]
        BY <1>11 DEF BeginIndex
    <2>2. DOMAIN cmd[p] = Fields  BY <1>11 DEF BeginIndex
    <2>3. /\ DOMAIN cmd' = Procs /\ \A q \in Procs \ {p} : cmd'[q] = cmd[q]
          /\ cmd'[p].pc = "encode" /\ cmd'[p].kind = cmd[p].kind /\ cmd'[p].job = cmd[p].job
        BY <2>1, <2>2
    <2> QED  BY <1>11, <2>3 DEF BeginIndex
  <1>12. CASE Encode(p)  BY <1>12 DEF Encode
  <1>13. CASE CommitIndex(p)  BY <1>13 DEF CommitIndex
  <1>14. CASE SelectHits(p)  BY <1>14 DEF SelectHits
  <1>15. CASE SelectViews(p)  BY <1>15 DEF SelectViews
  <1>16. CASE ReadTexts(p)  BY <1>16 DEF ReadTexts
  <1>17. CASE RefuseTrajectory(p)  BY <1>17 DEF RefuseTrajectory
  <1> QED  BY <1>1, <1>2, <1>3, <1>4, <1>5, <1>6, <1>7, <1>8, <1>9, <1>10,
              <1>11, <1>12, <1>13, <1>14, <1>15, <1>16, <1>17

\* A command is given: its job is newer than everything published.
LEMMA StartHolds ==
    ASSUME PInv, FInv, NEW p \in Procs, NEW kind \in uses, StartJob(p, kind)
    PROVE  FInv'
  <1>1. /\ jobs' = Append(jobs, "running")
        /\ UNCHANGED <<dataset, builds, databases, exports, batch>>
        /\ DOMAIN cmd' = Procs /\ \A q \in Procs \ {p} : cmd'[q] = cmd[q]
        /\ cmd'[p].kind = kind /\ cmd'[p].pc = kind /\ cmd'[p].job = Len(jobs) + 1
        /\ kind \in Writers => \A q \in Procs : cmd[q].kind # kind
        /\ cmd[p].kind = "none"
      BY DEF StartJob, PInv, trajectories, written, Working
  <1>2. jobs' \in Seq(Status) /\ Len(jobs') = Len(jobs) + 1 /\ Len(jobs) \in Nat
      BY <1>1 DEF FInv, CommandsOK, Status
  <1>3. kind \in Kinds  BY PipelineAssumption DEF PInv
  <1>4. CommandsOK'
    <2>1. \A q \in Procs : Course(cmd[q])' /\ (Working(q)' => cmd'[q].job \in 1..Len(jobs'))
        BY <1>1, <1>2, <1>3 DEF FInv, CommandsOK, Course, Working, Kinds
    <2>2. \A q, r \in Procs : cmd'[q].kind = cmd'[r].kind /\ cmd'[q].kind \in Writers => q = r
        BY <1>1 DEF FInv, CommandsOK
    <2> QED  BY <1>2, <2>1, <2>2 DEF CommandsOK
  <1>5. DatasetOK'
      BY <1>1, <1>3 DEF FInv, DatasetOK, Numbered, Replaced, OneSplit, Kinds
  <1>6. ASSUME NEW out, NEW short, Numbered(out, Len(jobs), short) PROVE Numbered(out, Len(jobs) + 1, short)
      BY <1>2, <1>6 DEF Numbered
  <1>7. DatabasesOK'
    <2>1. Numbered(databases, Len(jobs), {}) /\ Numbered(databases, Len(jobs) + 1, {})
        BY <1>6 DEF FInv, DatabasesOK
    <2> QED  BY <1>1, <1>2, <1>3, <2>1 DEF FInv, DatabasesOK, Replaced, Kinds
  <1>8. ExportsOK'
    <2>1. \A k \in {"dump", "docker"} : Numbered(exports[k], Len(jobs), {Partial}) /\ Numbered(exports[k], Len(jobs) + 1, {Partial})
        BY <1>6 DEF FInv, ExportsOK
    <2>2. ASSUME NEW q \in Procs
          PROVE  /\ cmd'[q].kind \in {"dump", "docker"} => Numbered(exports[cmd'[q].kind], cmd'[q].job, {Partial})
                 /\ cmd'[q].pc \in {"files", "writing"} => Replaced(exports[cmd'[q].kind], cmd'[q].todo, cmd'[q].job)
      <3>1. CASE q = p  BY <1>1, <1>3, <2>1, <3>1 DEF Kinds
      <3>2. CASE q # p  BY <1>1, <3>2 DEF FInv, ExportsOK
      <3> QED  BY <3>1, <3>2
    <2> QED  BY <1>1, <1>2, <2>1, <2>2 DEF FInv, ExportsOK, Numbered, Replaced
  <1>9. BatchOK'
      BY <1>1, <1>2, <1>3 DEF FInv, BatchOK, Kinds
  <1> QED  BY <1>4, <1>5, <1>7, <1>8, <1>9 DEF FInv

\* A step of p within the course of its command.
Continues(p) ==
    /\ UNCHANGED jobs
    /\ DOMAIN cmd' = Procs
    /\ \A q \in Procs \ {p} : cmd'[q] = cmd[q]
    /\ cmd'[p].kind = cmd[p].kind /\ cmd'[p].job = cmd[p].job
    /\ Course(cmd'[p])

\* It disturbs no other command.
LEMMA ContinuesHolds ==
    ASSUME FInv, NEW p \in Procs, Continues(p)
    PROVE  CommandsOK'
  <1>1. \A q \in Procs : Course(cmd[q])' /\ (Working(q)' => cmd'[q].job \in 1..Len(jobs'))
      BY DEF FInv, CommandsOK, Continues, Course, Working
  <1>2. \A q \in Procs : cmd'[q].kind = cmd[q].kind
      BY DEF Continues
  <1> QED  BY <1>1, <1>2 DEF FInv, CommandsOK, Continues

\* Directories a step does not write, while their command is not where it counts.
LEMMA DatasetStays ==
    ASSUME FInv, NEW p \in Procs, Continues(p), UNCHANGED <<dataset, builds>>, cmd'[p].pc # "publish"
    PROVE  DatasetOK'
  BY DEF FInv, DatasetOK, Continues, Numbered, Replaced, OneSplit

\* The same of the databases.
LEMMA DatabasesStay ==
    ASSUME FInv, NEW p \in Procs, Continues(p), UNCHANGED databases, cmd'[p].pc \notin {"build", "swap"}
    PROVE  DatabasesOK'
  BY DEF FInv, DatabasesOK, Continues, Numbered, Replaced

\* The same of the exports.
LEMMA ExportsStay ==
    ASSUME FInv, NEW p \in Procs, Continues(p), UNCHANGED exports, cmd'[p].pc \notin {"files", "writing"}
    PROVE  ExportsOK'
  BY DEF FInv, ExportsOK, Continues, Numbered, Replaced

\* The same of the batch of containers.
LEMMA BatchStays ==
    ASSUME FInv, NEW p \in Procs, Continues(p), UNCHANGED <<exports, batch>>,
           cmd'[p].kind = "docker" => cmd'[p].pc \notin {"trajectories", "dump", "files", "writing", "batch"}
    PROVE  BatchOK'
  BY DEF FInv, BatchOK, Continues

\* The directories of other commands.
LEMMA OthersStay ==
    ASSUME FInv, NEW p \in Procs, Continues(p)
    PROVE  /\ cmd[p].kind # "dataset" /\ UNCHANGED <<dataset, builds>> => DatasetOK'
           /\ cmd[p].kind # "export" /\ UNCHANGED databases => DatabasesOK'
           /\ cmd[p].kind \notin {"dump", "docker"} /\ UNCHANGED <<exports, batch>> => ExportsOK' /\ BatchOK'
  <1>1. Course(cmd'[p]) /\ cmd'[p].kind = cmd[p].kind  BY DEF Continues
  <1> QED  BY <1>1, DatasetStays, DatabasesStay, ExportsStay, BatchStays DEF Course

\* Equal texts of the rows a build reads are of one family when nothing was
\* replaced since its texts were read.
LEMMA NewBuild ==
    ASSUME NEW texts, texts = canonical
    PROVE  LET rows == {[version |-> canonical[i].version, split |-> SplitOf[Family(i, texts)]] :
                             i \in {j \in Ids : Active(canonical[j])}}
           IN \A r, q \in rows : r.version = q.version => r.split = q.split
  <1> DEFINE live == {j \in Ids : Active(canonical[j])}
             Row(i) == [version |-> canonical[i].version, split |-> SplitOf[Family(i, texts)]]
  <1>1. ASSUME NEW i \in live, NEW j \in live, canonical[i].version = canonical[j].version
        PROVE  Family(i, texts) = Family(j, texts)
      BY <1>1 DEF Family
  <1>2. SUFFICES ASSUME NEW i \in live, NEW j \in live, Row(i).version = Row(j).version
                 PROVE  Row(i).split = Row(j).split
      OBVIOUS
  <1> QED  BY <1>1, <1>2

\* A new build is numbered after all others, and none of its files is published yet.
LEMMA ReadRowsHolds ==
    ASSUME PInv, FInv, NEW p \in Procs, ReadRows(p)
    PROVE  FInv'
  <1> DEFINE texts == cmd[p].read
             rows == {[version |-> canonical[i].version, split |-> SplitOf[Family(i, texts)]] :
                          i \in {j \in Ids : Active(canonical[j])}}
             new == [rows |-> rows, steady |-> canonical = texts]
  <1>1. OneSplit(new)
    <2>1. texts = canonical => \A r, q \in rows : r.version = q.version => r.split = q.split
        BY NewBuild
    <2> HIDE DEF rows, texts
    <2>2. new.rows = rows /\ new.steady = (canonical = texts)  OBVIOUS
    <2> QED  BY <2>1, <2>2 DEF OneSplit
  <1>2. /\ builds' = Append(builds, new)
        /\ cmd' = [cmd EXCEPT ![p].pc = "publish", ![p].id = Len(builds) + 1, ![p].todo = Files]
        /\ UNCHANGED <<jobs, dataset, databases, exports, batch>>
      BY DEF ReadRows, trajectories, written
  <1>3. DOMAIN cmd[p] = Fields /\ cmd[p].kind = "dataset"
      BY HasFields DEF ReadRows, At, FInv, CommandsOK, Course
  <1> HIDE DEF new
  <1>4. /\ cmd'[p].pc = "publish" /\ cmd'[p].id = Len(builds) + 1 /\ cmd'[p].todo = Files
        /\ cmd'[p].kind = "dataset" /\ cmd'[p].job = cmd[p].job
        /\ DOMAIN cmd' = Procs /\ \A q \in Procs \ {p} : cmd'[q] = cmd[q]
      BY <1>2, <1>3 DEF PInv, Fields
  <1>5. Continues(p)  BY <1>2, <1>3, <1>4 DEF Continues, Course
  <1>6. \A q \in Procs \ {p} : cmd'[q].pc # "publish"
      BY <1>3, <1>4 DEF FInv, CommandsOK, Course, Writers
  <1>7. DatasetOK'
    <2>1. Len(builds) \in Nat /\ DOMAIN builds = 1..Len(builds)  BY DEF FInv, DatasetOK
    <2>2. /\ Len(builds') = Len(builds) + 1 /\ DOMAIN builds' = 1..Len(builds')
          /\ builds'[Len(builds) + 1] = new
          /\ \A n \in 1..Len(builds) : builds'[n] = builds[n]
        BY <1>2, <2>1
    <2>3. \A n \in 1..Len(builds') : OneSplit(builds'[n])
        BY <1>1, <2>1, <2>2 DEF FInv, DatasetOK
    <2>4. Numbered(dataset, Len(builds'), {})  BY <2>1, <2>2 DEF FInv, DatasetOK, Numbered
    <2>5. \A q \in Procs : cmd'[q].pc = "publish" =>
             cmd'[q].id = Len(builds') /\ cmd'[q].id # 0 /\ Replaced(dataset, cmd'[q].todo, cmd'[q].id)
        BY <1>4, <1>6, <2>1, <2>2 DEF Replaced
    <2>6. dataset' = dataset /\ Len(builds') \in Nat  BY <1>2, <2>1, <2>2
    <2>7. \A n \in 1..Len(builds') : OneSplit(builds[n])'
        BY <2>3 DEF OneSplit
    <2> QED  BY <2>2, <2>4, <2>5, <2>6, <2>7 DEF DatasetOK, Numbered, Replaced
  <1> QED  BY <1>2, <1>3, <1>5, <1>7, ContinuesHolds, OthersStay DEF FInv

\* The files of the dataset are replaced one by one, the manifest last.
LEMMA PublishHolds ==
    ASSUME PInv, FInv, NEW p \in Procs, PublishFile(p) \/ PublishManifest(p)
    PROVE  FInv'
  <1>1. DOMAIN cmd[p] = Fields /\ cmd[p].kind = "dataset" /\ cmd[p].pc = "publish"
      BY HasFields DEF PublishFile, PublishManifest, ManifestReady, At, FInv, CommandsOK, Course
  <1>2. \A q \in Procs \ {p} : cmd[q].pc # "publish"
      BY <1>1 DEF FInv, CommandsOK, Course, Writers
  <1>3. /\ cmd[p].id = Len(builds) /\ Len(builds) \in Nat /\ Replaced(dataset, cmd[p].todo, cmd[p].id)
        /\ Numbered(dataset, Len(builds), {})
      BY <1>1 DEF FInv, DatasetOK
  <1>4. CASE PublishFile(p)
    <2> DEFINE f == Min(cmd[p].todo)
    <2>1. /\ dataset' = [dataset EXCEPT !.files[f] = cmd[p].id]
          /\ cmd' = [cmd EXCEPT ![p].todo = @ \ {f}]
          /\ UNCHANGED <<jobs, builds, databases, exports, batch>>
        BY <1>4 DEF PublishFile, trajectories, written
    <2> HIDE DEF f
    <2>2. /\ cmd'[p].pc = "publish" /\ cmd'[p].id = cmd[p].id /\ cmd'[p].todo = cmd[p].todo \ {f}
          /\ cmd'[p].kind = "dataset" /\ cmd'[p].job = cmd[p].job
          /\ DOMAIN cmd' = Procs /\ \A q \in Procs \ {p} : cmd'[q] = cmd[q]
        BY <1>1, <2>1 DEF PInv, Fields
    <2>3. Continues(p)  BY <1>1, <2>1, <2>2 DEF Continues, Course
    <2>4. Numbered(dataset', Len(builds), {}) /\ Replaced(dataset', cmd'[p].todo, cmd[p].id)
        BY <1>3, <2>1, <2>2 DEF Numbered, Replaced
    <2>5. DatasetOK'
        BY <1>2, <2>1, <2>2, <2>4 DEF FInv, DatasetOK, OneSplit, Numbered, Replaced
    <2> QED  BY <1>1, <2>1, <2>3, <2>5, ContinuesHolds, OthersStay DEF FInv
  <1>5. CASE PublishManifest(p)
    <2>1. /\ dataset' = [dataset EXCEPT !.manifest = cmd[p].id]
          /\ cmd' = [cmd EXCEPT ![p].pc = "succeeded"] /\ cmd[p].todo = {}
          /\ UNCHANGED <<jobs, builds, databases, exports, batch>>
        BY <1>5 DEF PublishManifest, ManifestReady, Goto, trajectories, written
    <2>2. /\ cmd'[p].pc = "succeeded" /\ cmd'[p].kind = "dataset" /\ cmd'[p].job = cmd[p].job
          /\ DOMAIN cmd' = Procs /\ \A q \in Procs \ {p} : cmd'[q] = cmd[q]
        BY <1>1, <2>1 DEF PInv, Fields
    <2>3. Continues(p)  BY <1>1, <2>1, <2>2 DEF Continues, Course
    <2>4. Numbered(dataset', Len(builds), {})
        BY <1>3, <2>1 DEF Numbered, Replaced
    <2>5. DatasetOK'
        BY <1>2, <2>1, <2>2, <2>4 DEF FInv, DatasetOK, OneSplit, Numbered, Replaced
    <2> QED  BY <1>1, <2>1, <2>3, <2>5, ContinuesHolds, OthersStay DEF FInv
  <1> QED  BY <1>4, <1>5

\* What is bounded by a number is bounded by a larger one.
LEMMA NumberedUpTo ==
    ASSUME NEW m \in Nat, NEW n \in Nat, m <= n, NEW out, NEW short, Numbered(out, m, short)
    PROVE  Numbered(out, n, short)
  BY DEF Numbered

\* The job of a command that writes a directory.
LEMMA WriterJob ==
    ASSUME FInv, NEW p \in Procs, cmd[p].kind \in Writers
    PROVE  /\ cmd[p].job \in Nat /\ Len(jobs) \in Nat /\ cmd[p].job <= Len(jobs) /\ cmd[p].job # 0
           /\ \A q \in Procs \ {p} : cmd[q].kind # cmd[p].kind
  BY DEF FInv, CommandsOK, Writers, Working

\* The databases after a step of the only export.
LEMMA DatabasesWritten ==
    ASSUME PInv, FInv, NEW p \in Procs, Continues(p), cmd[p].kind = "export",
           UNCHANGED <<dataset, builds, exports, batch>>,
           Numbered(databases', cmd[p].job, {}),
           cmd'[p].pc \in {"build", "swap"} => Replaced(databases', cmd'[p].todo, cmd[p].job)
    PROVE  FInv'
  <1>1. \A q \in Procs \ {p} : cmd'[q].kind # "export" /\ cmd'[q].pc \notin {"build", "swap"}
      BY WriterJob DEF Continues, Writers, FInv, CommandsOK, Course
  <1>2. Numbered(databases', Len(jobs), {})
      BY WriterJob, NumberedUpTo DEF Writers
  <1>3. DatabasesOK'
      BY <1>1, <1>2 DEF DatabasesOK, Continues, Numbered, Replaced
  <1> QED  BY <1>3, ContinuesHolds, OthersStay DEF FInv

\* The databases are replaced one by one, the manifest last.
LEMMA ExportHolds ==
    ASSUME PInv, FInv, NEW p \in Procs,
           ReadTrajectories(p) \/ BuildDatabase(p) \/ SwapDatabase(p) \/ WriteManifest(p)
    PROVE  FInv'
  <1>1. DOMAIN cmd[p] = Fields /\ cmd[p].kind = "export"
      BY HasFields DEF ReadTrajectories, BuildDatabase, SwapDatabase, WriteManifest, At, FInv, CommandsOK, Course
  <1>2. Numbered(databases, cmd[p].job, {}) /\ cmd[p].job \in Nat
      BY <1>1, WriterJob DEF FInv, DatabasesOK, Writers
  <1>3. cmd[p].pc \in {"build", "swap"} => Replaced(databases, cmd[p].todo, cmd[p].job)
      BY DEF FInv, DatabasesOK
  <1>4. CASE ReadTrajectories(p)
    <2>1. /\ cmd' = [cmd EXCEPT ![p].todo = Files, ![p].pc = "build"] \/ cmd' = [cmd EXCEPT ![p].pc = "failed"]
          /\ UNCHANGED <<jobs, dataset, builds, databases, exports, batch>>
        BY <1>4 DEF ReadTrajectories, rest, trajectories, written
    <2>2. /\ (cmd'[p].pc = "build" /\ cmd'[p].todo = Files) \/ cmd'[p].pc = "failed"
          /\ cmd'[p].kind = "export" /\ cmd'[p].job = cmd[p].job
          /\ DOMAIN cmd' = Procs /\ \A q \in Procs \ {p} : cmd'[q] = cmd[q]
        BY <1>1, <2>1 DEF PInv, Fields
    <2>3. Continues(p)  BY <1>1, <2>1, <2>2 DEF Continues, Course
    <2> QED  BY <1>1, <1>2, <2>1, <2>2, <2>3, DatabasesWritten DEF Replaced
  <1>5. CASE BuildDatabase(p)
    <2>1. /\ cmd' = [cmd EXCEPT ![p].pc = "swap"] /\ cmd[p].pc = "build"
          /\ UNCHANGED <<jobs, dataset, builds, databases, exports, batch>>
        BY <1>5 DEF BuildDatabase, Building, Goto, At
    <2>2. /\ cmd'[p].pc = "swap" /\ cmd'[p].todo = cmd[p].todo
          /\ cmd'[p].kind = "export" /\ cmd'[p].job = cmd[p].job
          /\ DOMAIN cmd' = Procs /\ \A q \in Procs \ {p} : cmd'[q] = cmd[q]
        BY <1>1, <2>1 DEF PInv, Fields
    <2>3. Continues(p)  BY <1>1, <2>1, <2>2 DEF Continues, Course
    <2> QED  BY <1>1, <1>2, <1>3, <2>1, <2>2, <2>3, DatabasesWritten
  <1>6. CASE SwapDatabase(p)
    <2> DEFINE c == Min(cmd[p].todo)
    <2>1. /\ databases' = [databases EXCEPT !.files[c] = cmd[p].job]
          /\ cmd' = [cmd EXCEPT ![p].todo = @ \ {c}, ![p].pc = "build"] /\ cmd[p].pc = "swap"
          /\ UNCHANGED <<jobs, dataset, builds, exports, batch>>
        BY <1>6 DEF SwapDatabase, At
    <2> HIDE DEF c
    <2>2. /\ cmd'[p].pc = "build" /\ cmd'[p].todo = cmd[p].todo \ {c}
          /\ cmd'[p].kind = "export" /\ cmd'[p].job = cmd[p].job
          /\ DOMAIN cmd' = Procs /\ \A q \in Procs \ {p} : cmd'[q] = cmd[q]
        BY <1>1, <2>1 DEF PInv, Fields
    <2>3. Continues(p)  BY <1>1, <2>1, <2>2 DEF Continues, Course
    <2>4. Numbered(databases', cmd[p].job, {}) /\ Replaced(databases', cmd'[p].todo, cmd[p].job)
        BY <1>2, <1>3, <2>1, <2>2 DEF Numbered, Replaced
    <2> QED  BY <1>1, <2>1, <2>3, <2>4, DatabasesWritten
  <1>7. CASE WriteManifest(p)
    <2>1. /\ databases' = [databases EXCEPT !.manifest = cmd[p].job]
          /\ cmd' = [cmd EXCEPT ![p].pc = "succeeded"] /\ cmd[p].pc = "build" /\ cmd[p].todo = {}
          /\ UNCHANGED <<jobs, dataset, builds, exports, batch>>
        BY <1>7 DEF WriteManifest, At, Goto
    <2>2. /\ cmd'[p].pc = "succeeded" /\ cmd'[p].kind = "export" /\ cmd'[p].job = cmd[p].job
          /\ DOMAIN cmd' = Procs /\ \A q \in Procs \ {p} : cmd'[q] = cmd[q]
        BY <1>1, <2>1 DEF PInv, Fields
    <2>3. Continues(p)  BY <1>1, <2>1, <2>2 DEF Continues, Course
    <2>4. Numbered(databases', cmd[p].job, {})
        BY <1>2, <1>3, <2>1 DEF Numbered, Replaced
    <2> QED  BY <1>1, <2>1, <2>2, <2>3, <2>4, DatabasesWritten
  <1> QED  BY <1>4, <1>5, <1>6, <1>7

\* The exports and the batch after a step of the only command of its kind.
LEMMA ExportsWritten ==
    ASSUME PInv, FInv, NEW p \in Procs, Continues(p), cmd[p].kind \in {"dump", "docker"},
           UNCHANGED <<dataset, builds, databases, batch>>,
           DOMAIN exports' = {"dump", "docker"},
           \A k \in {"dump", "docker"} \ {cmd[p].kind} : exports'[k] = exports[k],
           Numbered(exports'[cmd[p].kind], cmd[p].job, {Partial}),
           exports'[cmd[p].kind].manifest >= exports[cmd[p].kind].manifest,
           cmd'[p].pc \in {"files", "writing"} => Replaced(exports'[cmd[p].kind], cmd'[p].todo, cmd[p].job),
           cmd[p].kind = "docker" /\ cmd'[p].pc \in {"dump", "files", "writing", "batch"} => batch.input = cmd[p].job,
           cmd'[p].pc = "batch" => exports'["docker"].manifest = cmd[p].job,
           cmd'[p].pc # "trajectories"
    PROVE  FInv'
  <1>1. \A q \in Procs \ {p} : cmd'[q].kind # cmd[p].kind /\ cmd'[q] = cmd[q]
      BY WriterJob DEF Continues, Writers
  <1>2. Numbered(exports'[cmd[p].kind], Len(jobs), {Partial})
      BY WriterJob, NumberedUpTo DEF Writers
  <1>3. ExportsOK'
    <2>1. \A k \in {"dump", "docker"} : Numbered(exports'[k], Len(jobs'), {Partial})
        BY <1>2 DEF FInv, ExportsOK, Continues
    <2>2. ASSUME NEW q \in Procs
          PROVE  /\ cmd'[q].kind \in {"dump", "docker"} => Numbered(exports'[cmd'[q].kind], cmd'[q].job, {Partial})
                 /\ cmd'[q].pc \in {"files", "writing"} => Replaced(exports'[cmd'[q].kind], cmd'[q].todo, cmd'[q].job)
      <3>1. CASE q = p  BY <3>1 DEF Continues
      <3>2. CASE q # p
        <4>1. /\ cmd'[q] = cmd[q] /\ cmd[q].kind # cmd[p].kind
              /\ cmd[q].pc \in {"files", "writing"} => cmd[q].kind \in {"dump", "docker"}
            BY <1>1, <3>2 DEF FInv, CommandsOK, Course
        <4>2. cmd[q].kind \in {"dump", "docker"} => exports'[cmd[q].kind] = exports[cmd[q].kind]
            BY <4>1
        <4> QED  BY <4>1, <4>2 DEF FInv, ExportsOK
      <3> QED  BY <3>1, <3>2
    <2> QED  BY <2>1, <2>2 DEF ExportsOK, Numbered, Replaced
  <1>4. BatchOK'
    <2>1. exports'["docker"].manifest >= exports["docker"].manifest
          /\ exports'["docker"].manifest \in Nat /\ exports["docker"].manifest \in Nat
        BY <1>2 DEF FInv, ExportsOK, Numbered
    <2>2. ASSUME NEW q \in Procs, cmd'[q].kind = "docker"
          PROVE  /\ batch.input <= cmd'[q].job
                 /\ cmd'[q].pc \in {"trajectories", "dump", "files", "writing", "batch"} => batch.input = cmd'[q].job
                 /\ cmd'[q].pc = "batch" => exports'["docker"].manifest = cmd'[q].job
      <3>1. CASE q = p  BY <2>2, <3>1 DEF Continues, FInv, BatchOK
      <3>2. CASE q # p  BY <1>1, <2>2, <3>2 DEF FInv, BatchOK
      <3> QED  BY <3>1, <3>2
    <2>3. batch' = batch /\ jobs' = jobs  BY DEF Continues
    <2> QED  BY <2>1, <2>2, <2>3 DEF FInv, BatchOK
  <1> QED  BY <1>3, <1>4, ContinuesHolds, OthersStay DEF FInv

\* The least element of a set of naturals is one of them.
LEMMA LeastOfNaturals ==
    ASSUME NEW S \in SUBSET Nat, S # {}
    PROVE  Min(S) \in S
  <1> DEFINE R == OpToRel(<, Nat)
  <1>1. IsWellFoundedOn(R, Nat)  BY NatLessThanWellFounded
  <1>2. \A x, y \in Nat : <<y, x>> \in R <=> y < x  BY DEF OpToRel
  <1> HIDE DEF R
  <1>3. PICK x \in S : \A y \in S : ~(<<y, x>> \in R)  BY <1>1, WFMin
  <1>4. \A y \in S : x \in Nat /\ y \in Nat /\ ~(y < x)  BY <1>2, <1>3
  <1>5. \A y \in S : x <= y  BY <1>4
  <1> QED  BY <1>3, <1>5 DEF Min

\* The next file to write is one of those to do.
LEMMA LeastToDo ==
    ASSUME NEW todo, todo \subseteq Files, todo # {}
    PROVE  Min(todo) \in todo
  <1>1. todo \in SUBSET Nat  BY PipelineAssumption
  <1> QED  BY <1>1, LeastOfNaturals

\* The files of an export are emptied and written one by one, the manifest last.
LEMMA DumpHolds ==
    ASSUME PInv, FInv, NEW p \in Procs, BeginDump(p) \/ OpenDump(p) \/ WriteDump(p) \/ FinishDump(p)
    PROVE  FInv'
  <1> DEFINE k == cmd[p].kind
  <1>1. DOMAIN cmd[p] = Fields /\ k \in {"dump", "docker"} /\ cmd[p].pc \in {"dump", "files", "writing"}
      BY HasFields DEF BeginDump, OpenDump, WriteDump, FinishDump, DumpReady, At, FInv, CommandsOK, Course
  <1>2. /\ Numbered(exports[k], cmd[p].job, {Partial}) /\ cmd[p].job \in Nat
        /\ DOMAIN exports = {"dump", "docker"}
        /\ cmd[p].pc \in {"files", "writing"} => Replaced(exports[k], cmd[p].todo, cmd[p].job)
        /\ k = "docker" => batch.input = cmd[p].job
      BY <1>1, WriterJob DEF FInv, ExportsOK, BatchOK, Writers
  <1>3. CASE BeginDump(p)
    <2>1. /\ cmd' = [cmd EXCEPT ![p].pc = "files", ![p].todo = Files]
          /\ UNCHANGED <<jobs, dataset, builds, databases, exports, batch>>
        BY <1>3 DEF BeginDump, rest, trajectories, written
    <2>2. /\ cmd'[p].pc = "files" /\ cmd'[p].todo = Files
          /\ cmd'[p].kind = k /\ cmd'[p].job = cmd[p].job
          /\ DOMAIN cmd' = Procs /\ \A q \in Procs \ {p} : cmd'[q] = cmd[q]
        BY <1>1, <2>1 DEF PInv, Fields
    <2>3. Continues(p)  BY <1>1, <2>1, <2>2 DEF Continues, Course
    <2> QED  BY <1>1, <1>2, <2>1, <2>2, <2>3, ExportsWritten DEF Replaced, Numbered
  <1>4. CASE WriteDump(p)
    <2> DEFINE f == Min(cmd[p].todo)
    <2>1. /\ exports' = [exports EXCEPT ![k].files[f] = cmd[p].job]
          /\ cmd' = [cmd EXCEPT ![p].todo = @ \ {f}, ![p].pc = "files"] /\ cmd[p].pc = "writing"
          /\ UNCHANGED <<jobs, dataset, builds, databases, batch>>
        BY <1>4 DEF WriteDump, At
    <2> HIDE DEF f
    <2>2. /\ cmd'[p].pc = "files" /\ cmd'[p].todo = cmd[p].todo \ {f}
          /\ cmd'[p].kind = k /\ cmd'[p].job = cmd[p].job
          /\ DOMAIN cmd' = Procs /\ \A q \in Procs \ {p} : cmd'[q] = cmd[q]
        BY <1>1, <2>1 DEF PInv, Fields
    <2>3. Continues(p)  BY <1>1, <2>1, <2>2 DEF Continues, Course
    <2>4. /\ DOMAIN exports' = {"dump", "docker"}
          /\ \A j \in {"dump", "docker"} \ {k} : exports'[j] = exports[j]
          /\ exports'[k] = [exports[k] EXCEPT !.files[f] = cmd[p].job]
        BY <1>1, <1>2, <2>1
    <2>5. /\ Numbered(exports'[k], cmd[p].job, {Partial}) /\ Replaced(exports'[k], cmd'[p].todo, cmd[p].job)
          /\ exports'[k].manifest >= exports[k].manifest
      <3> DEFINE old == exports[k]
      <3> HIDE DEF old, k
      <3>1. Numbered(old, cmd[p].job, {Partial}) /\ Replaced(old, cmd[p].todo, cmd[p].job)
          BY <1>2, <2>1 DEF old
      <3>2. exports'[k] = [old EXCEPT !.files[f] = cmd[p].job]  BY <2>4 DEF old
      <3>3. exports'[k].manifest = old.manifest /\ old.manifest \in Nat  BY <3>1, <3>2 DEF Numbered
      <3>4. Numbered(exports'[k], cmd[p].job, {Partial}) /\ Replaced(exports'[k], cmd'[p].todo, cmd[p].job)
          BY <1>2, <2>2, <3>1, <3>2 DEF Numbered, Replaced
      <3> QED  BY <3>3, <3>4 DEF old
    <2> QED  BY <1>1, <1>2, <2>1, <2>2, <2>3, <2>4, <2>5, ExportsWritten
  <1>5. CASE FinishDump(p)
    <2>1. /\ exports' = [exports EXCEPT ![k].manifest = cmd[p].job]
          /\ cmd' = [cmd EXCEPT ![p].pc = IF k = "docker" THEN "batch" ELSE "succeeded"]
          /\ cmd[p].pc = "files" /\ cmd[p].todo = {}
          /\ UNCHANGED <<jobs, dataset, builds, databases, batch>>
        BY <1>5 DEF FinishDump, DumpReady, At, Goto
    <2>2. /\ cmd'[p].pc = IF k = "docker" THEN "batch" ELSE "succeeded"
          /\ cmd'[p].kind = k /\ cmd'[p].job = cmd[p].job
          /\ DOMAIN cmd' = Procs /\ \A q \in Procs \ {p} : cmd'[q] = cmd[q]
        BY <1>1, <2>1 DEF PInv, Fields
    <2>3. Continues(p)  BY <1>1, <2>1, <2>2 DEF Continues, Course
    <2>4. /\ DOMAIN exports' = {"dump", "docker"}
          /\ \A j \in {"dump", "docker"} \ {k} : exports'[j] = exports[j]
          /\ exports'[k] = [exports[k] EXCEPT !.manifest = cmd[p].job]
        BY <1>1, <1>2, <2>1
    <2>5. /\ Numbered(exports'[k], cmd[p].job, {Partial}) /\ exports'[k].manifest = cmd[p].job
          /\ exports'[k].manifest >= exports[k].manifest
      <3> DEFINE old == exports[k]
      <3> HIDE DEF old, k
      <3>1. Numbered(old, cmd[p].job, {Partial}) /\ Replaced(old, {}, cmd[p].job)
          BY <1>2, <2>1 DEF old
      <3>2. exports'[k] = [old EXCEPT !.manifest = cmd[p].job]  BY <2>4 DEF old
      <3>3. exports'[k].manifest = cmd[p].job /\ cmd[p].job >= old.manifest
          BY <1>2, <3>1, <3>2 DEF Numbered
      <3>4. Numbered(exports'[k], cmd[p].job, {Partial})
          BY <1>2, <3>1, <3>2 DEF Numbered, Replaced
      <3> QED  BY <3>3, <3>4 DEF old
    <2>6. /\ cmd'[p].pc \in {"batch", "succeeded"} /\ (cmd'[p].pc = "batch" => k = "docker")
          /\ UNCHANGED <<dataset, builds, databases, batch>>
        BY <2>1, <2>2
    <2>7. cmd'[p].pc = "batch" => exports'["docker"].manifest = cmd[p].job  BY <2>5, <2>6
    <2> QED  BY <1>1, <1>2, <2>3, <2>4, <2>5, <2>6, <2>7, ExportsWritten
  <1>6. CASE OpenDump(p)
    <2> DEFINE f == Min(cmd[p].todo)
    <2>1. /\ exports' = [exports EXCEPT ![k].files[f] = Partial]
          /\ cmd' = [cmd EXCEPT ![p].pc = "writing"] /\ cmd[p].pc = "files" /\ cmd[p].todo # {} /\ f \in cmd[p].todo
          /\ UNCHANGED <<jobs, dataset, builds, databases, batch>>
        BY <1>2, <1>6, LeastToDo DEF OpenDump, Goto, At, Replaced
    <2> HIDE DEF f
    <2>2. /\ cmd'[p].pc = "writing" /\ cmd'[p].todo = cmd[p].todo
          /\ cmd'[p].kind = k /\ cmd'[p].job = cmd[p].job
          /\ DOMAIN cmd' = Procs /\ \A q \in Procs \ {p} : cmd'[q] = cmd[q]
        BY <1>1, <2>1 DEF PInv, Fields
    <2>3. Continues(p)  BY <1>1, <2>1, <2>2 DEF Continues, Course
    <2>4. /\ DOMAIN exports' = {"dump", "docker"}
          /\ \A j \in {"dump", "docker"} \ {k} : exports'[j] = exports[j]
          /\ exports'[k] = [exports[k] EXCEPT !.files[f] = Partial]
        BY <1>1, <1>2, <2>1
    <2>5. /\ Numbered(exports'[k], cmd[p].job, {Partial}) /\ Replaced(exports'[k], cmd'[p].todo, cmd[p].job)
          /\ exports'[k].manifest >= exports[k].manifest
      <3> DEFINE old == exports[k]
      <3> HIDE DEF old, k
      <3>1. Numbered(old, cmd[p].job, {Partial}) /\ Replaced(old, cmd[p].todo, cmd[p].job)
          BY <1>2, <2>1 DEF old
      <3>2. exports'[k] = [old EXCEPT !.files[f] = Partial] /\ f \in cmd[p].todo  BY <2>1, <2>4 DEF old
      <3>3. exports'[k].manifest = old.manifest /\ old.manifest \in Nat  BY <3>1, <3>2 DEF Numbered
      <3>4. Numbered(exports'[k], cmd[p].job, {Partial})
          BY <3>1, <3>2 DEF Numbered
      <3>5. Replaced(exports'[k], cmd'[p].todo, cmd[p].job)
          BY <2>2, <3>1, <3>2 DEF Numbered, Replaced
      <3> QED  BY <3>3, <3>4, <3>5 DEF old
    <2>6. /\ UNCHANGED <<dataset, builds, databases, batch>>
          /\ cmd'[p].pc = "writing" /\ cmd[p].kind = k
          /\ Replaced(exports'[k], cmd'[p].todo, cmd[p].job)
        BY <2>1, <2>2, <2>5
    <2> HIDE DEF k
    <2> QED  BY <1>1, <1>2, <2>3, <2>4, <2>5, <2>6, ExportsWritten
  <1> QED  BY <1>3, <1>4, <1>5, <1>6

\* The batch after a step of the only container run.
LEMMA BatchWritten ==
    ASSUME PInv, FInv, NEW p \in Procs, Continues(p), cmd[p].kind = "docker",
           UNCHANGED <<dataset, builds, databases, exports>>,
           DOMAIN batch' = {"input", "manifest"},
           batch'.input \in 0..cmd[p].job /\ batch'.manifest \in 0..batch'.input,
           batch'.manifest <= exports["docker"].manifest,
           cmd'[p].pc \in {"trajectories", "dump", "files", "writing", "batch"} => batch'.input = cmd[p].job,
           cmd'[p].pc \notin {"files", "writing", "batch"}
    PROVE  FInv'
  <1>1. \A q \in Procs \ {p} : cmd'[q].kind # "docker"
      BY WriterJob DEF Continues, Writers
  <1>2. cmd[p].job <= Len(jobs) /\ Len(jobs) \in Nat /\ cmd[p].job \in Nat
      BY WriterJob DEF Writers
  <1>3. BatchOK'
      BY <1>1, <1>2 DEF BatchOK, Continues
  <1>4. cmd[p].kind # "dataset" /\ cmd[p].kind # "export"  OBVIOUS
  <1> QED  BY <1>3, <1>4, ContinuesHolds, OthersStay, ExportsStay DEF FInv

\* The input of a batch is written before, its manifest after the trajectories are exported.
LEMMA ContainerHolds ==
    ASSUME PInv, FInv, NEW p \in Procs, RunContainer(p) \/ WriteBatchManifest(p)
    PROVE  FInv'
  <1>1. DOMAIN cmd[p] = Fields /\ cmd[p].kind = "docker"
      BY HasFields DEF RunContainer, WriteBatchManifest, At, FInv, CommandsOK, Course
  <1>2. /\ DOMAIN batch = {"input", "manifest"} /\ batch.input \in Nat /\ batch.manifest \in 0..batch.input
        /\ batch.input <= cmd[p].job /\ cmd[p].job \in Nat
        /\ batch.manifest <= exports["docker"].manifest
        /\ cmd[p].pc = "batch" => batch.input = cmd[p].job /\ exports["docker"].manifest = cmd[p].job
      BY <1>1, WriterJob DEF FInv, BatchOK, Writers
  <1>3. CASE RunContainer(p)
    <2>1. PICK outcome \in ContainerOutcomes : cmd' = [cmd EXCEPT ![p].pc = outcome]
        BY <1>3 DEF RunContainer, Goto
    <2>2. /\ batch' = [batch EXCEPT !.input = cmd[p].job]
          /\ UNCHANGED <<jobs, dataset, builds, databases, exports>>
        BY <1>3 DEF RunContainer
    <2>3. /\ cmd'[p].pc \in {"trajectories", "failed"}
          /\ cmd'[p].kind = "docker" /\ cmd'[p].job = cmd[p].job
          /\ DOMAIN cmd' = Procs /\ \A q \in Procs \ {p} : cmd'[q] = cmd[q]
        BY <1>1, <2>1 DEF PInv, Fields, ContainerOutcomes
    <2>4. Continues(p)  BY <1>1, <2>2, <2>3 DEF Continues, Course
    <2> QED  BY <1>1, <1>2, <2>2, <2>3, <2>4, BatchWritten
  <1>4. CASE WriteBatchManifest(p)
    <2>1. /\ batch' = [batch EXCEPT !.manifest = cmd[p].job] /\ cmd[p].pc = "batch"
          /\ cmd' = [cmd EXCEPT ![p].pc = "succeeded"]
          /\ UNCHANGED <<jobs, dataset, builds, databases, exports>>
        BY <1>4 DEF WriteBatchManifest, At, Goto
    <2>2. /\ cmd'[p].pc = "succeeded" /\ cmd'[p].kind = "docker" /\ cmd'[p].job = cmd[p].job
          /\ DOMAIN cmd' = Procs /\ \A q \in Procs \ {p} : cmd'[q] = cmd[q]
        BY <1>1, <2>1 DEF PInv, Fields
    <2>3. Continues(p)  BY <1>1, <2>1, <2>2 DEF Continues, Course
    <2> QED  BY <1>1, <1>2, <2>1, <2>2, <2>3, BatchWritten
  <1> QED  BY <1>3, <1>4

\* Storing trajectories leaves the files and the input of the batch alone.
LEMMA ImportHolds ==
    ASSUME PInv, FInv, NEW p \in Procs, SaveTrajectory(p) \/ ImportDone(p)
    PROVE  FInv'
  <1>1. DOMAIN cmd[p] = Fields /\ cmd[p].kind \in {"trajectories", "docker"} /\ cmd[p].pc = "trajectories"
      BY HasFields DEF SaveTrajectory, ImportDone, At, FInv, CommandsOK, Course
  <1>2. /\ UNCHANGED <<jobs, dataset, builds, databases, exports, batch>>
        /\ \/ cmd' = [cmd EXCEPT ![p].left = @ - 1]
           \/ cmd' = [cmd EXCEPT ![p].pc = IF cmd[p].kind = "docker" THEN "dump" ELSE "succeeded"]
      BY DEF SaveTrajectory, ImportDone, Goto, rest, trajectories, written
  <1>3. /\ cmd'[p].kind = cmd[p].kind /\ cmd'[p].job = cmd[p].job
        /\ \/ cmd'[p].pc = "trajectories"
           \/ cmd[p].kind = "docker" /\ cmd'[p].pc = "dump"
           \/ cmd[p].kind = "trajectories" /\ cmd'[p].pc = "succeeded"
        /\ DOMAIN cmd' = Procs /\ \A q \in Procs \ {p} : cmd'[q] = cmd[q]
    <2>1. CASE cmd' = [cmd EXCEPT ![p].left = @ - 1]
        BY <1>1, <2>1 DEF PInv, Fields
    <2>2. CASE cmd' = [cmd EXCEPT ![p].pc = IF cmd[p].kind = "docker" THEN "dump" ELSE "succeeded"]
        BY <1>1, <2>2 DEF PInv, Fields
    <2> QED  BY <1>2, <2>1, <2>2
  <1>4. Continues(p)  BY <1>1, <1>2, <1>3 DEF Continues, Course
  <1>5. CASE cmd[p].kind = "trajectories"
      BY <1>2, <1>4, <1>5, ContinuesHolds, OthersStay DEF FInv
  <1>6. CASE cmd[p].kind = "docker"
    <2>1. /\ DOMAIN batch = {"input", "manifest"} /\ batch.input \in Nat /\ batch.manifest \in 0..batch.input
          /\ batch.input = cmd[p].job /\ cmd[p].job \in Nat
          /\ batch.manifest <= exports["docker"].manifest
        BY <1>1, <1>6, WriterJob DEF FInv, BatchOK, Writers
    <2> QED  BY <1>2, <1>3, <1>4, <1>6, <2>1, BatchWritten
  <1> QED  BY <1>1, <1>5, <1>6

\* Nothing is published at first.
LEMMA FilesInit == PipelineInit => FInv
  <1> SUFFICES ASSUME PipelineInit PROVE FInv
      OBVIOUS
  <1>1. CommandsOK
      BY DEF PipelineInit, CommandsOK, NoCommand, Course, Working, Writers
  <1>2. \A short : Numbered(NoExport, 0, short)  BY DEF Numbered, NoExport, NoFiles
  <1>3. DatasetOK  BY <1>2 DEF PipelineInit, DatasetOK, NoCommand
  <1>4. DatabasesOK  BY <1>2 DEF PipelineInit, DatabasesOK, NoCommand
  <1>5. ExportsOK  BY <1>2 DEF PipelineInit, ExportsOK, NoCommand
  <1>6. BatchOK  BY DEF PipelineInit, BatchOK, NoCommand, NoExport
  <1> QED  BY <1>1, <1>3, <1>4, <1>5, <1>6 DEF FInv

\* Every step of every command keeps the files in order.
LEMMA FilesSteps == PInv /\ FInv /\ [Next]_vars => FInv'
  <1> SUFFICES ASSUME PInv, FInv, [Next]_vars PROVE FInv'
      OBVIOUS
  <1>1. CASE UNCHANGED vars
    <2>1. UNCHANGED <<cmd, jobs, dataset, builds, databases, exports, batch>>
        BY <1>1 DEF vars, rest, trajectories, written
    <2> QED  BY <2>1 DEF FInv, CommandsOK, DatasetOK, DatabasesOK, ExportsOK, BatchOK,
                 Course, Working, Numbered, Replaced, OneSplit
  <1>2. CASE Next
    <2>1. PICK p \in Procs : Step(p) \/ Fails(p) \/ Kill(p) \/ \E kind \in uses : StartJob(p, kind)
        BY <1>2 DEF Next
    <2> QED  BY <2>1, StartHolds, EndsApart, NoFileApart, ApartHolds, ReadRowsHolds, PublishHolds,
                ExportHolds, DumpHolds, ContainerHolds, ImportHolds DEF Step
  <1> QED  BY <1>1, <1>2

\* What is written is numbered by the job or build it is of, and a command that
\* writes a directory is the only one of its kind.
THEOREM Filed == Spec => []FInv
  BY FilesInit, FilesSteps, InitHolds, StepHolds, PTL DEF Spec

\* No manifest is ahead of the whole files it lists or of the batch it describes, and a
\* build that nothing disturbed gives equal texts one split, wherever a command
\* fails or is killed.
THEOREM FilesHold == Spec => []PublishedFiles
  <1>1. FInv => PublishedFiles
    <2> SUFFICES ASSUME FInv PROVE PublishedFiles
        OBVIOUS
    <2>1. \A f \in Files : dataset.files[f] >= dataset.manifest /\ databases.files[f] >= databases.manifest
        BY DEF FInv, DatasetOK, DatabasesOK, Numbered
    <2>2. \A k \in DOMAIN exports, f \in Files :
             exports[k].files[f] = Partial \/ exports[k].files[f] >= exports[k].manifest
        BY DEF FInv, ExportsOK, Numbered
    <2>3. batch.input >= batch.manifest /\ exports["docker"].manifest >= batch.manifest
      <3>1. exports["docker"].manifest \in Nat  BY DEF FInv, ExportsOK, Numbered
      <3> QED  BY <3>1 DEF FInv, BatchOK
    <2>4. dataset.manifest # 0 => OneSplit(builds[dataset.manifest])
        BY DEF FInv, DatasetOK, Numbered
    <2> QED  BY <2>1, <2>2, <2>3, <2>4 DEF PublishedFiles, OneSplit
  <1> QED  BY <1>1, Filed, PTL

-----------------------------------------------------------------------------
(* Types, jobs and answers                                                   *)

\* What a command holds at each step.  Of a record to be saved there is one already,
\* and a search has its hits from the records it read.
CommandTyped(c) ==
    /\ c.kind = "none" => c.pc = "none"
    /\ c.pc \in {"replace", "attached", "insert"} => c.read \in Table
    /\ c.pc \in {"attached", "insert"} => c.id \in Ids /\ c.read[c.id] # None
    /\ c.pc = "encode" => c.vectors \in Table /\ c.views \in Table
    /\ c.pc \in {"enrich", "fetch", "candidates"} => \A i \in c.todo \cup c.found : i \in Ids /\ src[i] # None
    /\ c.pc \in {"search", "views"} => c.kind = "search"
    /\ c.kind = "search" =>
         /\ c.pc \in {"search", "views", "succeeded", "failed"}
         /\ c.pc \in {"views", "succeeded"} => c.found \subseteq Ids
         /\ c.pc = "views" => \A i \in c.found : c.vectors[i] = c.read[i]
         /\ c.pc = "succeeded" => \A i \in c.found : Shown(c, i) = c.read[i]

\* A command that runs has a job row of its own, and it is running.
JobsOK ==
    /\ \A p \in Procs : Working(p) => jobs[cmd[p].job] = "running"
    /\ \A p, q \in Procs : Working(p) /\ Working(q) /\ cmd[p].job = cmd[q].job => p = q

\* The inductive invariant, beside PInv and FInv.
TInv ==
    /\ src \in Table /\ canonical \in Table /\ vectors \in Table /\ views \in Table
    /\ lock \in Procs \cup {Free}
    /\ \A p \in Procs : CommandTyped(cmd[p])
    /\ JobsOK

-----------------------------------------------------------------------------

\* A record is typed when its fields are; one that was saved is not None.
LEMMA RecordsTyped ==
    /\ None = [version |-> 0, text |-> FALSE, extra |-> FALSE] /\ None \notin Records
    /\ \A v \in Versions, t \in BOOLEAN, e \in BOOLEAN : [version |-> v, text |-> t, extra |-> e] \in Records
    /\ \A r \in Records : r.version \in Versions /\ r.text \in BOOLEAN /\ r.extra \in BOOLEAN
                          /\ r = [version |-> r.version, text |-> r.text, extra |-> r.extra]
  BY PipelineAssumption DEF Records, None

\* What another process holds stays typed when the sources keep their records.
LEMMA OthersStayTyped ==
    ASSUME TInv, NEW p \in Procs, \A q \in Procs \ {p} : cmd'[q] = cmd[q],
           \A i \in Ids : src[i] # None => src'[i] # None,
           CommandTyped(cmd[p])'
    PROVE  \A q \in Procs : CommandTyped(cmd[q])'
  <1>1. ASSUME NEW q \in Procs, q # p PROVE CommandTyped(cmd[q])'
    <2>1. CommandTyped(cmd[q]) /\ cmd'[q] = cmd[q]  BY <1>1 DEF TInv
    <2> QED  BY <2>1 DEF CommandTyped
  <1> QED  BY <1>1

\* A command at any other step holds nothing the tables depend on.
LEMMA UntypedSteps ==
    ASSUME NEW p \in Procs, cmd'[p].kind = "none" => cmd'[p].pc = "none",
           cmd'[p].pc \notin {"replace", "attached", "insert", "encode", "enrich", "fetch", "candidates"},
           cmd'[p].pc \in {"search", "views"} => cmd'[p].kind = "search",
           cmd'[p].kind # "search" \/ cmd'[p].pc \in {"search", "failed"}
    PROVE  CommandTyped(cmd[p])'
  BY DEF CommandTyped

\* A step of p within its command writes no job row.
OwnRow(p) ==
    /\ jobs' = jobs
    /\ \A q \in Procs \ {p} : cmd'[q] = cmd[q]
    /\ cmd'[p] = NoCommand \/ (cmd'[p].kind = cmd[p].kind /\ cmd'[p].job = cmd[p].job)

\* Such a step leaves every command its row.
LEMMA OwnRowHolds ==
    ASSUME TInv, NEW p \in Procs, OwnRow(p)
    PROVE  JobsOK'
  BY DEF TInv, JobsOK, OwnRow, Working, NoCommand

\* The steps that change no table.
LEMMA ReadsTyped ==
    ASSUME TInv, NEW p \in Procs, OwnRow(p), UNCHANGED <<src, tables>>,
           lock' \in Procs \cup {Free}, CommandTyped(cmd[p])'
    PROVE  TInv'
  <1>1. \A q \in Procs : CommandTyped(cmd[q])'  BY OthersStayTyped DEF OwnRow
  <1>2. JobsOK'  BY OwnRowHolds
  <1> QED  BY <1>1, <1>2 DEF TInv, tables

\* A command is given a row of its own; at its end the row has the outcome, and
\* the command is no more.
LEMMA JobsTyped ==
    ASSUME PInv, FInv, TInv, NEW p \in Procs,
           (\E kind \in uses : StartJob(p, kind)) \/ EndJob(p)
    PROVE  TInv'
  <1>1. jobs \in Seq(Status) /\ \A q \in Procs : Working(q) => cmd[q].job \in 1..Len(jobs)
      BY DEF FInv, CommandsOK
  <1>2. ASSUME NEW kind \in uses, StartJob(p, kind) PROVE TInv'
    <2>1. /\ jobs' = Append(jobs, "running") /\ UNCHANGED <<src, tables, lock>>
          /\ \A q \in Procs \ {p} : cmd'[q] = cmd[q]
          /\ cmd'[p].pc = kind /\ cmd'[p].kind = kind /\ cmd'[p].job = Len(jobs) + 1
          /\ cmd'[p].todo = {} /\ cmd'[p].found = {}
        BY <1>2 DEF StartJob, PInv
    <2>2. kind \in Kinds  BY PipelineAssumption DEF PInv
    <2>3. CommandTyped(cmd[p])'  BY <2>1, <2>2 DEF Kinds, CommandTyped
    <2>4. \A q \in Procs : CommandTyped(cmd[q])'  BY <2>1, <2>3, OthersStayTyped
    <2>5. /\ \A n \in 1..Len(jobs) : jobs'[n] = jobs[n]
          /\ jobs'[Len(jobs) + 1] = "running" /\ Len(jobs) \in Nat
        BY <1>1, <2>1
    <2>6. JobsOK'  BY <1>1, <2>1, <2>5 DEF TInv, JobsOK, Working
    <2> QED  BY <2>1, <2>4, <2>6 DEF TInv, tables
  <1>3. CASE EndJob(p)
    <2>1. PICK outcome \in {"succeeded", "failed"} :
             /\ cmd[p].pc = outcome /\ jobs' = [jobs EXCEPT ![cmd[p].job] = outcome]
             /\ cmd' = [cmd EXCEPT ![p] = NoCommand] /\ UNCHANGED <<src, tables, lock>>
        BY <1>3 DEF EndJob, At, Finish
    <2>2. cmd'[p] = NoCommand /\ \A q \in Procs \ {p} : cmd'[q] = cmd[q]
        BY <2>1 DEF PInv
    <2>3. Working(p)  BY <2>1 DEF TInv, CommandTyped, Working
    <2>4. CommandTyped(cmd[p])'  BY <2>2, UntypedSteps DEF NoCommand
    <2>5. \A q \in Procs : CommandTyped(cmd[q])'  BY <2>1, <2>2, <2>4, OthersStayTyped
    <2>6. JobsOK'
      <3>1. ASSUME NEW q \in Procs, Working(q)' PROVE q # p /\ Working(q) /\ jobs'[cmd[q].job] = "running"
        <4>1. q # p /\ Working(q)  BY <2>2, <3>1 DEF Working, NoCommand
        <4>2. cmd[q].job # cmd[p].job  BY <2>3, <4>1 DEF TInv, JobsOK
        <4>3. cmd[q].job \in DOMAIN jobs /\ jobs[cmd[q].job] = "running"
            BY <1>1, <4>1 DEF TInv, JobsOK
        <4> QED  BY <2>1, <4>1, <4>2, <4>3
      <3> QED  BY <2>2, <3>1 DEF TInv, JobsOK
    <2> QED  BY <2>1, <2>5, <2>6 DEF TInv, tables
  <1> QED  BY <1>2, <1>3

\* Failures, kills and the lock that is not free.
LEMMA FailuresTyped ==
    ASSUME PInv, TInv, NEW p \in Procs, LockedOut(p) \/ Fails(p) \/ Kill(p)
    PROVE  TInv'
  <1>1. /\ OwnRow(p) /\ UNCHANGED <<src, tables>> /\ lock' \in {lock, Free}
        /\ cmd'[p] = NoCommand \/ (cmd'[p].pc = "failed" /\ cmd'[p].kind # "none")
    <2>1. CASE LockedOut(p)
        BY <2>1, HasFields DEF LockedOut, OwnRow, PInv, Fields, rest, Working
    <2>2. CASE Fails(p)
        BY <2>2, HasFields DEF Fails, Goto, OwnRow, PInv, Fields, rest, Working
    <2>3. CASE Kill(p)
        BY <2>3 DEF Kill, OwnRow, PInv
    <2> QED  BY <2>1, <2>2, <2>3
  <1>2. CommandTyped(cmd[p])'  BY <1>1, UntypedSteps DEF NoCommand
  <1> QED  BY <1>1, <1>2, ReadsTyped DEF TInv

\* A command at some step is executed.
LEMMA AtStep ==
    ASSUME PInv, TInv, NEW p \in Procs, cmd[p].pc # "none"
    PROVE  DOMAIN cmd[p] = Fields /\ cmd[p].kind # "none"
  BY HasFields DEF TInv, CommandTyped

\* The steps that read, and those that write files: they hold nothing that is to
\* become a table, but for the records to replace and the candidates to fetch.
LEMMA DerivingTyped ==
    ASSUME PInv, TInv, NEW p \in Procs,
           \/ ReadSources(p) \/ ReadTargets(p) \/ FetchCandidate(p) \/ FetchDone(p)
           \/ ResolveCandidates(p) \/ ReadRecord(p)
    PROVE  TInv'
  <1>1. DOMAIN cmd[p] = Fields /\ cmd[p].kind # "none" /\ CommandTyped(cmd[p])
      BY AtStep DEF ReadSources, ReadTargets, FetchCandidate, FetchDone, ResolveCandidates, ReadRecord, At, TInv
  <1>2. UNCHANGED <<src, tables, lock, jobs>>
      BY DEF ReadSources, ReadTargets, FetchCandidate, FetchDone, ResolveCandidates, ReadRecord, rest
  <1>3. OwnRow(p) /\ CommandTyped(cmd[p])'
    <2> USE <1>1, <1>2 DEF OwnRow, PInv, Fields, At, Goto
    <2>1. CASE ReadSources(p)
      <3>1. cmd' = [cmd EXCEPT ![p].read = src, ![p].since = replaced, ![p].pc = "replace"] /\ cmd[p].pc = "process"
          BY <2>1 DEF ReadSources
      <3>2. cmd'[p].read = src /\ cmd'[p].pc = "replace" /\ cmd'[p].kind = cmd[p].kind /\ OwnRow(p)
          BY <3>1
      <3>3. cmd[p].kind # "search"  BY <3>1 DEF CommandTyped
      <3> QED  BY <3>2, <3>3 DEF TInv, CommandTyped
    <2>2. CASE ReadTargets(p)
      <3>1. /\ cmd' = [cmd EXCEPT ![p].todo = {i \in Ids : Active(src[i]) /\ ~src[i].extra}, ![p].pc = "fetch"]
            /\ cmd[p].pc = "enrich"
          BY <2>2 DEF ReadTargets
      <3>2. /\ cmd'[p].todo = {i \in Ids : Active(src[i]) /\ ~src[i].extra} /\ cmd'[p].found = cmd[p].found
            /\ cmd'[p].pc = "fetch" /\ cmd'[p].kind = cmd[p].kind /\ OwnRow(p)
          BY <3>1
      <3>3. cmd[p].kind # "search"  BY <3>1 DEF CommandTyped
      <3>4. \A i \in cmd[p].found : i \in Ids /\ src[i] # None  BY <3>1 DEF CommandTyped
      <3>5. \A i \in cmd'[p].todo : i \in Ids /\ src[i] # None  BY <3>2 DEF Active
      <3> QED  BY <3>2, <3>3, <3>4, <3>5 DEF CommandTyped
    <2>3. CASE FetchCandidate(p)
      <3> DEFINE i == Min(cmd[p].todo)
      <3>1. PICK got \in {{}, {i}} : cmd' = [cmd EXCEPT ![p].todo = @ \ {i}, ![p].found = @ \cup got]
          BY <2>3 DEF FetchCandidate
      <3>2. i \in cmd[p].todo
        <4>1. cmd[p].todo # {} /\ cmd[p].todo \subseteq Ids /\ Ids \subseteq Nat
            BY <2>3, PipelineAssumption DEF FetchCandidate, CommandTyped
        <4>2. cmd[p].todo \in SUBSET Nat  BY <4>1
        <4> QED  BY <4>1, <4>2, LeastOfNaturals
      <3> HIDE DEF i
      <3>3. /\ cmd'[p].todo \subseteq cmd[p].todo /\ cmd'[p].found \subseteq cmd[p].found \cup {i}
            /\ cmd'[p].pc = cmd[p].pc /\ cmd'[p].kind = cmd[p].kind /\ OwnRow(p)
          BY <3>1
      <3>4. cmd[p].pc = "fetch"  BY <2>3 DEF FetchCandidate
      <3> QED  BY <3>2, <3>3, <3>4 DEF CommandTyped
    <2>4. CASE FetchDone(p)
      <3>1. PICK pc \in {"succeeded", "candidates"} : cmd' = [cmd EXCEPT ![p].pc = pc]
          BY <2>4 DEF FetchDone
      <3>2. /\ cmd'[p].pc = pc /\ cmd'[p].todo = cmd[p].todo /\ cmd'[p].found = cmd[p].found
            /\ cmd'[p].kind = cmd[p].kind /\ OwnRow(p)
          BY <3>1
      <3>3. cmd[p].pc = "fetch"  BY <2>4 DEF FetchDone
      <3> QED  BY <3>2, <3>3 DEF CommandTyped
    <2>5. CASE ResolveCandidates(p)
      <3>1. cmd' = [cmd EXCEPT ![p].pc = "succeeded"] /\ cmd[p].pc = "resolve"
          BY <2>5 DEF ResolveCandidates
      <3>2. cmd'[p].pc = "succeeded" /\ cmd'[p].kind = cmd[p].kind /\ OwnRow(p)  BY <3>1
      <3> QED  BY <3>1, <3>2 DEF CommandTyped
    <2>6. CASE ReadRecord(p)
      <3>1. PICK i \in Ids : /\ cmd' = [cmd EXCEPT ![p].read = src, ![p].id = i, ![p].pc = "attached"]
                            /\ src[i] # None /\ cmd[p].pc = "attach"
          BY <2>6 DEF ReadRecord
      <3>2. /\ cmd'[p].read = src /\ cmd'[p].id = i /\ cmd'[p].pc = "attached"
            /\ cmd'[p].kind = cmd[p].kind /\ OwnRow(p)
          BY <3>1
      <3> QED  BY <3>1, <3>2 DEF TInv, CommandTyped
    <2> QED  BY <2>1, <2>2, <2>3, <2>4, <2>5, <2>6
  <1> QED  BY <1>2, <1>3, ReadsTyped DEF TInv

\* A record that is compared has the type of the table it may be inserted into.
LEMMA CompareTyped ==
    ASSUME PInv, TInv, NEW p \in Procs, cmd[p].pc # "none", cmd[p].kind \notin {"none", "search"},
           NEW i \in Ids, NEW record \in Records, Compare(p, i, record)
    PROVE  TInv'
  <1>1. /\ UNCHANGED <<src, tables, lock, jobs>>
        /\ \A q \in Procs \ {p} : cmd'[q] = cmd[q]
        /\ cmd'[p].kind = cmd[p].kind /\ cmd'[p].job = cmd[p].job
        /\ \/ /\ cmd'[p].pc = "insert" /\ cmd'[p].id = i
              /\ cmd'[p].read = Only(i, record)
           \/ cmd'[p].pc \in {"process", "succeeded"}
      BY Compares DEF tables, rest
  <1>2. CommandTyped(cmd[p])'
    <2>1. CASE cmd'[p].pc = "insert"
      <3> DEFINE read == Only(i, record)
      <3>1. read \in Table /\ read[i] = record /\ record # None
          BY RecordsTyped DEF Table, Only, Empty
      <3> HIDE DEF read
      <3>2. cmd'[p].id = i /\ cmd'[p].read = read  BY <1>1, <2>1 DEF read
      <3> QED  BY <1>1, <2>1, <3>1, <3>2 DEF CommandTyped
    <2>2. CASE cmd'[p].pc \in {"process", "succeeded"}
        BY <1>1, <2>2, UntypedSteps
    <2> QED  BY <1>1, <2>1, <2>2
  <1>3. OwnRow(p)  BY <1>1 DEF OwnRow
  <1> QED  BY <1>1, <1>2, <1>3, ReadsTyped DEF TInv

\* Both commands that compare.
LEMMA ComparesTyped ==
    ASSUME PInv, TInv, NEW p \in Procs, Import(p) \/ SaveAttached(p)
    PROVE  TInv'
  <1>1. DOMAIN cmd[p] = Fields /\ cmd[p].kind # "none" /\ CommandTyped(cmd[p]) /\ cmd[p].pc # "none"
      BY AtStep DEF Import, SaveAttached, At, TInv
  <1>2. \A i \in Ids : src[i].extra \in BOOLEAN
    <2> TAKE i \in Ids
    <2>1. src[i] \in Records \cup {None}  BY DEF TInv, Table
    <2>2. CASE src[i] = None  BY <2>2 DEF None
    <2>3. CASE src[i] \in Records  BY <2>3 DEF Records
    <2> QED  BY <2>1, <2>2, <2>3
  <1>3. PICK i \in Ids : \E r \in Records : Compare(p, i, r)
    <2>1. CASE Import(p)
      <3>1. PICK i \in Ids : \E v \in Versions : Compare(p, i, [version |-> v, text |-> FALSE, extra |-> src[i].extra])
          BY <2>1 DEF Import
      <3>2. \A v \in Versions : [version |-> v, text |-> FALSE, extra |-> src[i].extra] \in Records
          BY <1>2, RecordsTyped
      <3> QED  BY <3>1, <3>2
    <2>2. CASE SaveAttached(p)
      <3> DEFINE i == cmd[p].id
                 record == [cmd[p].read[i] EXCEPT !.text = TRUE, !.extra = src[i].extra]
      <3>1. i \in Ids /\ cmd[p].read \in Table /\ cmd[p].read[i] # None
          BY <1>1, <2>2 DEF SaveAttached, At, CommandTyped
      <3>2. cmd[p].read[i] \in Records  BY <3>1 DEF Table
      <3>3. record \in Records  BY <1>2, <3>1, <3>2 DEF Records
      <3>4. Compare(p, i, record)  BY <2>2 DEF SaveAttached
      <3> QED  BY <3>1, <3>3, <3>4
    <2> QED  BY <2>1, <2>2
  <1>4. PICK r \in Records : Compare(p, i, r)  BY <1>3
  <1>5. cmd[p].kind # "search"
      BY <1>1 DEF CommandTyped, Import, SaveAttached, At
  <1> QED  BY <1>1, <1>4, <1>5, CompareTyped

\* The sources that are saved are records, and none is taken away.
LEMMA SavesTyped ==
    ASSUME PInv, TInv, NEW p \in Procs, Insert(p) \/ SaveCandidates(p)
    PROVE  TInv'
  <1>1. DOMAIN cmd[p] = Fields /\ cmd[p].kind # "none" /\ CommandTyped(cmd[p])
      BY AtStep DEF Insert, SaveCandidates, At, TInv
  <1>2. UNCHANGED <<tables, lock, jobs>>
      BY DEF Insert, SaveCandidates, rest
  <1>3. PICK pc \in {"succeeded", "process"} : cmd' = [cmd EXCEPT ![p].pc = pc]
      BY DEF Insert, AfterSave, SaveCandidates, Goto
  <1>4. OwnRow(p) /\ cmd'[p].pc = pc /\ cmd'[p].kind = cmd[p].kind
      BY <1>1, <1>2, <1>3 DEF OwnRow, PInv, Fields
  <1>5. cmd[p].kind # "search"
      BY <1>1 DEF CommandTyped, Insert, SaveCandidates, At
  <1>6. CommandTyped(cmd[p])'
      BY <1>1, <1>4, <1>5, UntypedSteps
  <1>7. \A i \in Ids : src[i] \in Records \cup {None} /\ src[i].extra \in BOOLEAN /\ src[i].text \in BOOLEAN
    <2> TAKE i \in Ids
    <2>1. src[i] \in Records \cup {None}  BY DEF TInv, Table
    <2>2. CASE src[i] = None  BY <2>2 DEF None
    <2>3. CASE src[i] \in Records  BY <2>3 DEF Records
    <2> QED  BY <2>1, <2>2, <2>3
  <1>8. src' \in Table /\ \A i \in Ids : src[i] # None => src'[i] # None
    <2>0. src \in [Ids -> Records \cup {None}]  BY DEF TInv, Table
    <2>1. CASE Insert(p)
      <3> DEFINE i == cmd[p].id
                 record == [cmd[p].read[i] EXCEPT !.extra = src[i].extra]
      <3>1. i \in Ids /\ cmd[p].read \in Table /\ cmd[p].read[i] # None
          BY <1>1, <2>1 DEF Insert, At, CommandTyped
      <3>2. cmd[p].read[i] \in Records  BY <3>1 DEF Table
      <3>3. record \in Records  BY <1>7, <3>1, <3>2 DEF Records
      <3>4. record # None  BY <3>3, RecordsTyped
      <3>5. src' = [src EXCEPT ![i] = record]  BY <2>1 DEF Insert
      <3> HIDE DEF i, record
      <3> QED  BY <2>0, <3>1, <3>3, <3>4, <3>5 DEF Table
    <2>2. CASE SaveCandidates(p)
      <3>1. src' = [i \in Ids |-> IF i \in cmd[p].found THEN [src[i] EXCEPT !.extra = TRUE] ELSE src[i]]
          BY <2>2 DEF SaveCandidates
      <3>2. \A i \in cmd[p].found : i \in Ids /\ src[i] # None
          BY <1>1, <2>2 DEF SaveCandidates, At, CommandTyped
      <3>3. ASSUME NEW i \in cmd[p].found
            PROVE  [src[i] EXCEPT !.extra = TRUE] \in Records
        <4>1. src[i] \in Records  BY <1>7, <3>2
        <4> QED  BY <4>1 DEF Records
      <3>4. \A i \in Ids : src'[i] \in Records \cup {None} /\ (src[i] # None => src'[i] # None)
          BY <1>7, <3>1, <3>3, RecordsTyped
      <3> QED  BY <3>1, <3>4 DEF Table
    <2> QED  BY <2>1, <2>2
  <1>9. \A q \in Procs : CommandTyped(cmd[q])'  BY <1>4, <1>6, <1>8, OthersStayTyped DEF OwnRow
  <1>10. JobsOK'  BY <1>4, OwnRowHolds
  <1> QED  BY <1>2, <1>8, <1>9, <1>10 DEF TInv, tables

\* The canonical records that are replaced, and the rows that stay, are typed.
LEMMA ReplaceTyped ==
    ASSUME PInv, TInv, NEW p \in Procs, ReplaceCanonical(p)
    PROVE  TInv'
  <1>1. DOMAIN cmd[p] = Fields /\ cmd[p].kind # "none" /\ CommandTyped(cmd[p]) /\ cmd[p].pc = "replace"
      BY AtStep DEF ReplaceCanonical, At, TInv
  <1>2. PICK pc \in {"resolve", "succeeded"} : cmd' = [cmd EXCEPT ![p].pc = pc]
      BY DEF ReplaceCanonical, Goto
  <1>3. UNCHANGED <<src, lock, jobs>> /\ canonical' = cmd[p].read
      BY DEF ReplaceCanonical
  <1>4. OwnRow(p) /\ cmd'[p].pc = pc /\ cmd'[p].kind = cmd[p].kind
      BY <1>1, <1>2, <1>3 DEF OwnRow, PInv, Fields
  <1>5. cmd[p].kind # "search"  BY <1>1 DEF CommandTyped
  <1>6. CommandTyped(cmd[p])'  BY <1>1, <1>4, <1>5, UntypedSteps
  <1>7. canonical' \in Table  BY <1>1, <1>3 DEF CommandTyped
  <1>8. vectors' \in Table /\ views' \in Table
    <2>1. \A i \in Ids : vectors[i] \in Records \cup {None} /\ views[i] \in Records \cup {None}
        BY DEF TInv, Table
    <2> QED  BY <2>1 DEF ReplaceCanonical, DropDerived, Table
  <1>9. \A q \in Procs : CommandTyped(cmd[q])'  BY <1>3, <1>4, <1>6, OthersStayTyped DEF OwnRow
  <1>10. JobsOK'  BY <1>4, OwnRowHolds
  <1> QED  BY <1>3, <1>7, <1>8, <1>9, <1>10 DEF TInv

\* index works on copies of the tables, one row after the other, and commits them.
LEMMA IndexTyped ==
    ASSUME PInv, TInv, NEW p \in Procs, BeginIndex(p) \/ Encode(p) \/ CommitIndex(p)
    PROVE  TInv'
  <1>1. DOMAIN cmd[p] = Fields /\ cmd[p].kind # "none" /\ CommandTyped(cmd[p])
      BY AtStep DEF BeginIndex, Encode, CommitIndex, At, TInv
  <1>2. cmd[p].kind # "search"
      BY <1>1 DEF BeginIndex, Encode, CommitIndex, At, CommandTyped
  <1>3. CASE BeginIndex(p)
    <2>1. PICK limit, todo :
             cmd' = [cmd EXCEPT ![p].pc = "encode", ![p].left = limit,
                                ![p].vectors = vectors, ![p].views = views, ![p].todo = todo]
        BY <1>3 DEF BeginIndex
    <2>2. UNCHANGED <<src, tables, jobs>> /\ lock' = p  BY <1>3 DEF BeginIndex, rest
    <2>3. /\ OwnRow(p) /\ cmd'[p].pc = "encode" /\ cmd'[p].kind = cmd[p].kind
          /\ cmd'[p].vectors = vectors /\ cmd'[p].views = views
        BY <1>1, <2>1, <2>2 DEF OwnRow, PInv, Fields
    <2>4. CommandTyped(cmd[p])'  BY <1>1, <1>2, <2>3 DEF CommandTyped, TInv
    <2> QED  BY <2>2, <2>3, <2>4, ReadsTyped
  <1>4. CASE Encode(p)
    <2> DEFINE i == Min(cmd[p].todo)
               row == IF Active(canonical[i]) THEN canonical[i] ELSE None
    <2>1. \/ cmd' = [cmd EXCEPT ![p].todo = {}]
          \/ cmd' = [cmd EXCEPT ![p].todo = @ \ {i},
                                ![p].left = IF Active(canonical[i]) THEN @ - 1 ELSE @,
                                ![p].vectors[i] = row, ![p].views[i] = row]
        BY <1>4 DEF Encode
    <2>2. i \in Ids => row \in Records \cup {None}
      <3> HIDE DEF i
      <3> QED  BY DEF TInv, Table
    <2>3. cmd[p].pc = "encode" /\ UNCHANGED <<src, tables, lock, jobs>>  BY <1>4 DEF Encode, At, rest
    <2> HIDE DEF i, row
    <2>4. /\ OwnRow(p) /\ cmd'[p].pc = "encode" /\ cmd'[p].kind = cmd[p].kind
          /\ cmd'[p].vectors \in {cmd[p].vectors, [cmd[p].vectors EXCEPT ![i] = row]}
          /\ cmd'[p].views \in {cmd[p].views, [cmd[p].views EXCEPT ![i] = row]}
        BY <1>1, <2>1, <2>3 DEF OwnRow, PInv, Fields
    <2>5. \A t \in Table : [t EXCEPT ![i] = row] \in Table
        BY <2>2 DEF Table
    <2>6. CommandTyped(cmd[p])'  BY <1>1, <1>2, <2>3, <2>4, <2>5 DEF CommandTyped
    <2> QED  BY <2>3, <2>4, <2>6, ReadsTyped DEF TInv
  <1>5. CASE CommitIndex(p)
    <2>1. /\ vectors' = cmd[p].vectors /\ views' = cmd[p].views /\ lock' = Free
          /\ cmd' = [cmd EXCEPT ![p].pc = "succeeded"] /\ UNCHANGED <<src, canonical, jobs>>
          /\ cmd[p].pc = "encode"
        BY <1>5 DEF CommitIndex, Goto, At, rest
    <2>2. OwnRow(p) /\ cmd'[p].pc = "succeeded" /\ cmd'[p].kind = cmd[p].kind
        BY <1>1, <2>1 DEF OwnRow, PInv, Fields
    <2>3. CommandTyped(cmd[p])'  BY <1>1, <1>2, <2>2, UntypedSteps
    <2>4. vectors' \in Table /\ views' \in Table  BY <1>1, <2>1 DEF CommandTyped
    <2>5. \A q \in Procs : CommandTyped(cmd[q])'  BY <2>1, <2>2, <2>3, OthersStayTyped DEF OwnRow
    <2>6. JobsOK'  BY <2>2, OwnRowHolds
    <2> QED  BY <2>1, <2>4, <2>5, <2>6 DEF TInv
  <1> QED  BY <1>3, <1>4, <1>5

\* A hit is shown with the views of the revision it was selected with.
LEMMA SearchTyped ==
    ASSUME PInv, TInv, NEW p \in Procs, SelectHits(p) \/ SelectViews(p)
    PROVE  TInv'
  <1>1. DOMAIN cmd[p] = Fields /\ cmd[p].kind # "none" /\ CommandTyped(cmd[p])
      BY AtStep DEF SelectHits, SelectViews, At, TInv
  <1>2. UNCHANGED <<src, tables, lock, jobs>>  BY DEF SelectHits, SelectViews, rest
  <1>3. CASE SelectHits(p)
    <2> DEFINE hits == {i \in Ids : vectors[i] = canonical[i] /\ Active(canonical[i])}
    <2>0. hits \subseteq Ids /\ \A i \in hits : vectors[i] = canonical[i]  OBVIOUS
    <2>1. cmd' = [cmd EXCEPT ![p].read = canonical, ![p].vectors = vectors, ![p].since = replaced,
                             ![p].pc = "views", ![p].found = hits]
        BY <1>3 DEF SelectHits
    <2> HIDE DEF hits
    <2>2. /\ OwnRow(p) /\ cmd'[p].pc = "views" /\ cmd'[p].kind = cmd[p].kind
          /\ cmd'[p].found = hits /\ cmd'[p].vectors = vectors /\ cmd'[p].read = canonical
        BY <1>1, <1>2, <2>1 DEF OwnRow, PInv, Fields
    <2>3. cmd[p].kind = "search"  BY <1>1, <1>3 DEF CommandTyped, SelectHits, At
    <2>4. CommandTyped(cmd[p])'  BY <1>1, <2>0, <2>2, <2>3 DEF CommandTyped
    <2> QED  BY <1>2, <2>2, <2>4, ReadsTyped DEF TInv
  <1>4. CASE SelectViews(p)
    <2> DEFINE shown == [i \in Ids |-> IF i \in cmd[p].found THEN ViewOf(i, cmd[p].read[i]) ELSE None]
    <2>0. cmd[p].kind = "search"  BY <1>1, <1>4 DEF SelectViews, At, CommandTyped
    <2>1. cmd' = [cmd EXCEPT ![p].pc = "succeeded", ![p].views = shown] /\ cmd[p].pc = "views"
        BY <1>4 DEF SelectViews, At
    <2>2. \A i \in cmd[p].found : cmd[p].vectors[i] = cmd[p].read[i] /\ shown[i] \in {None, cmd[p].read[i]}
      <3>1. \A i \in cmd[p].found : i \in Ids /\ cmd[p].vectors[i] = cmd[p].read[i]
          BY <1>1, <2>0, <2>1 DEF CommandTyped
      <3> QED  BY <3>1 DEF ViewOf
    <2> HIDE DEF shown
    <2>3. /\ OwnRow(p) /\ cmd'[p].pc = "succeeded" /\ cmd'[p].kind = cmd[p].kind
          /\ cmd'[p].found = cmd[p].found /\ cmd'[p].read = cmd[p].read /\ cmd'[p].views = shown
          /\ cmd'[p].vectors = cmd[p].vectors
        BY <1>1, <1>2, <2>1 DEF OwnRow, PInv, Fields
    <2>5. \A i \in cmd[p].found : Shown(cmd'[p], i) = cmd[p].read[i]  BY <2>2, <2>3 DEF Shown
    <2>4. CommandTyped(cmd[p])'  BY <1>1, <2>1, <2>3, <2>5 DEF CommandTyped
    <2> QED  BY <1>2, <2>3, <2>4, ReadsTyped DEF TInv
  <1> QED  BY <1>3, <1>4

\* The commands on datasets and trajectories hold no table.
LEMMA WritersTyped ==
    ASSUME PInv, TInv, NEW p \in Procs,
           \/ ReadTexts(p) \/ ReadRows(p) \/ PublishFile(p) \/ PublishManifest(p)
           \/ RunContainer(p) \/ SaveTrajectory(p) \/ RefuseTrajectory(p) \/ ImportDone(p)
           \/ BeginDump(p) \/ OpenDump(p) \/ WriteDump(p) \/ FinishDump(p) \/ WriteBatchManifest(p)
           \/ ReadTrajectories(p) \/ BuildDatabase(p) \/ SwapDatabase(p) \/ WriteManifest(p)
    PROVE  TInv'
  <1> DEFINE Later == {"rows", "publish", "trajectories", "dump", "files", "writing", "batch", "build", "swap", "succeeded", "failed"}
  <1>1. DOMAIN cmd[p] = Fields /\ cmd[p].kind # "none" /\ cmd[p].kind # "search"
      BY AtStep DEF ReadTexts, ReadRows, PublishFile, PublishManifest, ManifestReady, RunContainer, SaveTrajectory,
         RefuseTrajectory, ImportDone, BeginDump, OpenDump, WriteDump, FinishDump, DumpReady, WriteBatchManifest,
         ReadTrajectories, BuildDatabase, SwapDatabase, WriteManifest, At, TInv, CommandTyped
  <1>2. OwnRow(p) /\ UNCHANGED <<src, tables, lock>> /\ cmd'[p].kind = cmd[p].kind /\ cmd'[p].pc \in Later
    <2> USE <1>1 DEF OwnRow, PInv, Fields, At, Goto, rest
    <2>1. CASE ReadTexts(p)  BY <2>1 DEF ReadTexts
    <2>2. CASE ReadRows(p)  BY <2>2 DEF ReadRows
    <2>3. CASE PublishFile(p)  BY <2>3 DEF PublishFile
    <2>4. CASE PublishManifest(p)  BY <2>4 DEF PublishManifest, ManifestReady
    <2>5. CASE RunContainer(p)  BY <2>5 DEF RunContainer, ContainerOutcomes
    <2>6. CASE SaveTrajectory(p)  BY <2>6 DEF SaveTrajectory
    <2>7. CASE RefuseTrajectory(p)  BY <2>7 DEF RefuseTrajectory
    <2>8. CASE ImportDone(p)  BY <2>8 DEF ImportDone
    <2>9. CASE BeginDump(p)  BY <2>9 DEF BeginDump
    <2>10. CASE WriteDump(p)  BY <2>10 DEF WriteDump
    <2>11. CASE FinishDump(p)  BY <2>11 DEF FinishDump, DumpReady
    <2>12. CASE WriteBatchManifest(p)  BY <2>12 DEF WriteBatchManifest
    <2>13. CASE ReadTrajectories(p)
      <3>1. PICK pc \in {"build", "failed"}, todo \in {Files, cmd[p].todo} :
              cmd' = [cmd EXCEPT ![p].todo = todo, ![p].pc = pc]
        <4>1. \/ cmd' = [cmd EXCEPT ![p].todo = Files, ![p].pc = "build"]
              \/ cmd' = [cmd EXCEPT ![p].pc = "failed"]
            BY <2>13 DEF ReadTrajectories
        <4>2. [cmd EXCEPT ![p].pc = "failed"] = [cmd EXCEPT ![p].todo = cmd[p].todo, ![p].pc = "failed"]
            OBVIOUS
        <4> QED  BY <4>1, <4>2
      <3> QED  BY <2>13, <3>1 DEF ReadTrajectories
    <2>14. CASE BuildDatabase(p)  BY <2>14 DEF BuildDatabase
    <2>15. CASE SwapDatabase(p)  BY <2>15 DEF SwapDatabase
    <2>16. CASE WriteManifest(p)  BY <2>16 DEF WriteManifest
    <2>17. CASE OpenDump(p)  BY <2>17 DEF OpenDump
    <2> QED  BY <2>1, <2>2, <2>3, <2>4, <2>5, <2>6, <2>7, <2>8, <2>9, <2>10,
                <2>11, <2>12, <2>13, <2>14, <2>15, <2>16, <2>17
  <1>3. CommandTyped(cmd[p])'  BY <1>1, <1>2, UntypedSteps
  <1> QED  BY <1>2, <1>3, ReadsTyped DEF TInv

\* The tables a database starts with.
LEMMA TypesInit == PipelineInit => TInv
  <1> SUFFICES ASSUME PipelineInit PROVE TInv
      OBVIOUS
  <1>1. src \in Table /\ canonical \in Table /\ vectors \in Table /\ views \in Table /\ lock = Free
      BY PipelineAssumption DEF PipelineInit
  <1>2. \A p \in Procs : CommandTyped(cmd[p])
      BY DEF PipelineInit, CommandTyped, NoCommand
  <1>3. JobsOK  BY DEF PipelineInit, JobsOK, Working, NoCommand
  <1> QED  BY <1>1, <1>2, <1>3 DEF TInv

\* Every step of every command keeps the types.
LEMMA TypesSteps == PInv /\ FInv /\ TInv /\ [Next]_vars => TInv'
  <1> SUFFICES ASSUME PInv, FInv, TInv, [Next]_vars PROVE TInv'
      OBVIOUS
  <1>1. CASE UNCHANGED vars
      BY <1>1 DEF vars, tables, rest, TInv, CommandTyped, JobsOK, Working
  <1>2. CASE Next
    <2>1. PICK p \in Procs : Step(p) \/ Fails(p) \/ Kill(p) \/ \E kind \in uses : StartJob(p, kind)
        BY <1>2 DEF Next
    <2> QED  BY <2>1, JobsTyped, FailuresTyped, DerivingTyped, ComparesTyped, SavesTyped, ReplaceTyped, IndexTyped,
                SearchTyped, WritersTyped DEF Step
  <1> QED  BY <1>1, <1>2

\* What a command holds has the type of what it read, and it has a running job row
\* of its own, whatever other commands, kills and locks do.
THEOREM Typed == Spec => []TInv
  BY TypesInit, TypesSteps, Inductive, Filed, PTL DEF Spec

\* Every table keeps its type, and the row of a command that runs is running.
THEOREM TypeCorrect == Spec => []PipelineTypeOK
  <1>1. FInv /\ TInv => PipelineTypeOK
      BY DEF FInv, CommandsOK, TInv, JobsOK, PipelineTypeOK
  <1> QED  BY <1>1, Filed, Typed, PTL

-----------------------------------------------------------------------------
(* What a search knows of the rows it selected                               *)

\* An index run writes the rows again that are current when it takes the lock.
EncodesKeep(p) ==
    cmd[p].pc = "encode" =>
        \A i \in Ids : Active(canonical[i]) /\ vectors[i] = canonical[i] => cmd[p].vectors[i] = canonical[i]

\* Unless the canonical records were replaced, a hit has its vectors and views;
\* and one that was found to have no views is evidence of a replacement.
SearchKnows(p) ==
    cmd[p].kind = "search" /\ cmd[p].pc \in {"views", "succeeded"} =>
        /\ cmd[p].since \in Nat /\ cmd[p].since <= replaced /\ cmd[p].found \subseteq Ids
        /\ cmd[p].pc = "views" /\ cmd[p].since = replaced =>
               \A i \in cmd[p].found :
                   Active(canonical[i]) /\ vectors[i] = canonical[i] /\ cmd[p].read[i] = canonical[i]
        /\ cmd[p].pc = "succeeded" => \A i \in cmd[p].found : cmd[p].views[i] = None => cmd[p].since # replaced

\* The inductive invariant, beside PInv, OInv and TInv.
SInv == \A p \in Procs : EncodesKeep(p) /\ SearchKnows(p)

-----------------------------------------------------------------------------

\* A step of p that touches no derived row, and neither encodes nor selects.
Bystander(p) ==
    /\ UNCHANGED <<tables, replaced>>
    /\ \A q \in Procs \ {p} : cmd'[q] = cmd[q]
    /\ cmd'[p].pc # "encode"
    /\ cmd'[p].kind # "search" \/ cmd'[p].pc \in {"search", "failed"}

\* Such a step changes nothing a search or an index run relies on.
LEMMA BystanderHolds ==
    ASSUME SInv, NEW p \in Procs, Bystander(p)
    PROVE  SInv'
  <1>1. ASSUME NEW q \in Procs PROVE EncodesKeep(q)' /\ SearchKnows(q)'
    <2>1. CASE q = p  BY <2>1 DEF Bystander, EncodesKeep, SearchKnows
    <2>2. CASE q # p
      <3>1. EncodesKeep(q) /\ SearchKnows(q) /\ cmd'[q] = cmd[q]  BY <2>2 DEF SInv, Bystander
      <3> QED  BY <3>1 DEF Bystander, EncodesKeep, SearchKnows, tables
    <2> QED  BY <2>1, <2>2
  <1> QED  BY <1>1 DEF SInv

\* Commands that begin, end, fail or are killed.
LEMMA BeginEndBystands ==
    ASSUME PInv, TInv, NEW p \in Procs,
           (\E kind \in uses : StartJob(p, kind)) \/ EndJob(p) \/ LockedOut(p) \/ Fails(p) \/ Kill(p)
    PROVE  Bystander(p)
  <1>1. UNCHANGED tables /\ (\A q \in Procs \ {p} : cmd'[q] = cmd[q]) /\ cmd'[p].pc # "encode"
      BY BeginEnd DEF Quiet
  <1>2. UNCHANGED replaced
      BY DEF StartJob, EndJob, LockedOut, Fails, Kill, rest
  <1>3. cmd'[p].kind # "search" \/ cmd'[p].pc \in {"search", "failed"}
    <2>1. ASSUME NEW kind \in uses, StartJob(p, kind) PROVE cmd'[p].pc = cmd'[p].kind
        BY <2>1 DEF StartJob, PInv
    <2>2. CASE EndJob(p) \/ Kill(p)
        BY <2>2 DEF EndJob, Kill, Finish, NoCommand, PInv
    <2>3. CASE LockedOut(p)
        BY <2>3, HasFields DEF LockedOut, NoCommand, PInv, Fields
    <2>4. CASE Fails(p)
        BY <2>4, HasFields DEF Fails, Goto, PInv, Fields
    <2> QED  BY <2>1, <2>2, <2>3, <2>4
  <1> QED  BY <1>1, <1>2, <1>3 DEF Bystander

\* The steps of the commands that are no search.
LEMMA OthersBystand ==
    ASSUME PInv, TInv, NEW p \in Procs, cmd[p].kind # "search",
           \/ Import(p) \/ Insert(p) \/ ReadSources(p) \/ ReadTargets(p) \/ FetchCandidate(p) \/ FetchDone(p)
           \/ SaveCandidates(p) \/ ResolveCandidates(p) \/ ReadRecord(p) \/ SaveAttached(p)
           \/ ReadTexts(p) \/ ReadRows(p) \/ PublishFile(p) \/ PublishManifest(p)
    PROVE  Bystander(p)
  <1>1. UNCHANGED tables /\ (\A q \in Procs \ {p} : cmd'[q] = cmd[q]) /\ cmd'[p].pc # "encode"
      BY DerivingSteps, ReadingSteps DEF Quiet
  <1>2. UNCHANGED replaced /\ cmd'[p].kind = cmd[p].kind
    <2> USE HasFields DEF PInv, Fields, At, Goto, rest
    <2>1. CASE Import(p)
      <3>1. PICK i \in Ids : \E v \in Versions : Compare(p, i, [version |-> v, text |-> FALSE, extra |-> src[i].extra])
          BY <2>1 DEF Import
      <3> QED  BY <2>1, <3>1, Compares DEF Import
    <2>2. CASE Insert(p)  BY <2>2 DEF Insert, AfterSave
    <2>3. CASE ReadSources(p)  BY <2>3 DEF ReadSources
    <2>4. CASE ReadTargets(p)  BY <2>4 DEF ReadTargets
    <2>5. CASE FetchCandidate(p)  BY <2>5 DEF FetchCandidate
    <2>6. CASE FetchDone(p)  BY <2>6 DEF FetchDone
    <2>7. CASE SaveCandidates(p)  BY <2>7 DEF SaveCandidates
    <2>8. CASE ResolveCandidates(p)  BY <2>8 DEF ResolveCandidates
    <2>9. CASE ReadRecord(p)  BY <2>9 DEF ReadRecord
    <2>10. CASE SaveAttached(p)  BY <2>10, Compares DEF SaveAttached
    <2>11. CASE ReadTexts(p)  BY <2>11 DEF ReadTexts
    <2>12. CASE ReadRows(p)  BY <2>12 DEF ReadRows
    <2>13. CASE PublishFile(p)  BY <2>13 DEF PublishFile
    <2>14. CASE PublishManifest(p)  BY <2>14 DEF PublishManifest, ManifestReady
    <2> QED  BY <2>1, <2>2, <2>3, <2>4, <2>5, <2>6, <2>7, <2>8, <2>9, <2>10, <2>11, <2>12, <2>13, <2>14
  <1> QED  BY <1>1, <1>2 DEF Bystander

\* The commands on trajectories.
LEMMA TrajectoriesBystand ==
    ASSUME PInv, TInv, NEW p \in Procs, cmd[p].kind # "search",
           \/ RunContainer(p) \/ SaveTrajectory(p) \/ RefuseTrajectory(p) \/ ImportDone(p)
           \/ BeginDump(p) \/ OpenDump(p) \/ WriteDump(p) \/ FinishDump(p) \/ WriteBatchManifest(p)
           \/ ReadTrajectories(p) \/ BuildDatabase(p) \/ SwapDatabase(p) \/ WriteManifest(p)
    PROVE  Bystander(p)
  <1>1. UNCHANGED tables /\ (\A q \in Procs \ {p} : cmd'[q] = cmd[q]) /\ cmd'[p].pc # "encode"
      BY TrajectorySteps DEF Quiet
  <1>2. UNCHANGED replaced
      BY TrajectoriesAside DEF Aside
  <1>3. cmd'[p].kind = cmd[p].kind
    <2> USE HasFields DEF PInv, Fields, At, Goto
    <2>1. CASE RunContainer(p)  BY <2>1 DEF RunContainer, ContainerOutcomes
    <2>2. CASE SaveTrajectory(p)  BY <2>2 DEF SaveTrajectory
    <2>3. CASE RefuseTrajectory(p)  BY <2>3 DEF RefuseTrajectory
    <2>4. CASE ImportDone(p)  BY <2>4 DEF ImportDone
    <2>5. CASE BeginDump(p)  BY <2>5 DEF BeginDump
    <2>6. CASE OpenDump(p)  BY <2>6 DEF OpenDump
    <2>7. CASE WriteDump(p)  BY <2>7 DEF WriteDump
    <2>8. CASE FinishDump(p)  BY <2>8 DEF FinishDump, DumpReady
    <2>9. CASE WriteBatchManifest(p)  BY <2>9 DEF WriteBatchManifest
    <2>10. CASE ReadTrajectories(p)
      <3>1. cmd' = [cmd EXCEPT ![p].todo = Files, ![p].pc = "build"] \/ cmd' = [cmd EXCEPT ![p].pc = "failed"]
          BY <2>10 DEF ReadTrajectories
      <3>2. DOMAIN cmd[p] = Fields  BY <2>10 DEF ReadTrajectories
      <3> QED  BY <3>1, <3>2
    <2>11. CASE BuildDatabase(p)  BY <2>11 DEF BuildDatabase
    <2>12. CASE SwapDatabase(p)  BY <2>12 DEF SwapDatabase
    <2>13. CASE WriteManifest(p)  BY <2>13 DEF WriteManifest
    <2> QED  BY <2>1, <2>2, <2>3, <2>4, <2>5, <2>6, <2>7, <2>8, <2>9, <2>10, <2>11, <2>12, <2>13
  <1> QED  BY <1>1, <1>2, <1>3 DEF Bystander

\* A replacement is counted: what any search selected before it is of an earlier count.
LEMMA ReplaceKnown ==
    ASSUME PInv, OInv, TInv, SInv, NEW p \in Procs, ReplaceCanonical(p)
    PROVE  SInv'
  <1>1. \A q \in Procs : cmd[q].pc # "encode"  BY NobodyEncodes DEF ReplaceCanonical, At
  <1>2. DOMAIN cmd[p] = Fields /\ cmd[p].kind # "search"
      BY AtStep DEF ReplaceCanonical, At, TInv, CommandTyped
  <1>3. /\ \A q \in Procs \ {p} : cmd'[q] = cmd[q]
        /\ cmd'[p].kind # "search" /\ cmd'[p].pc # "encode"
      BY <1>2 DEF ReplaceCanonical, Goto, PInv, Fields
  <1>4. replaced' = replaced + 1 /\ replaced \in Nat  BY DEF ReplaceCanonical, OInv
  <1>5. ASSUME NEW q \in Procs PROVE EncodesKeep(q)' /\ SearchKnows(q)'
    <2>1. CASE q = p  BY <1>3, <2>1 DEF EncodesKeep, SearchKnows
    <2>2. CASE q # p
      <3>1. cmd'[q] = cmd[q] /\ SearchKnows(q)  BY <1>3, <2>2 DEF SInv
      <3> QED  BY <1>1, <1>4, <3>1 DEF EncodesKeep, SearchKnows
    <2> QED  BY <2>1, <2>2
  <1> QED  BY <1>5 DEF SInv

\* An index run takes the rows as they are, and writes current ones as they are.
LEMMA IndexKnown ==
    ASSUME PInv, TInv, SInv, NEW p \in Procs, BeginIndex(p) \/ Encode(p) \/ CommitIndex(p)
    PROVE  SInv'
  <1>1. DOMAIN cmd[p] = Fields /\ cmd[p].kind # "search" /\ cmd[p].pc \in {"index", "encode"}
      BY AtStep DEF BeginIndex, Encode, CommitIndex, At, TInv, CommandTyped
  <1>2. UNCHANGED <<canonical, replaced>>  BY DEF BeginIndex, Encode, CommitIndex, tables, rest
  <1>3. CASE BeginIndex(p)
    <2>1. PICK limit \in IndexLimits :
             cmd' = [cmd EXCEPT ![p].pc = "encode", ![p].left = limit,
                             ![p].vectors = vectors, ![p].views = views,
                             ![p].todo = {i \in Ids : canonical[i] # None /\
                                             (vectors[i] # canonical[i] \/ views[i] # canonical[i])}]
        BY <1>3 DEF BeginIndex
    <2>2. /\ \A q \in Procs \ {p} : cmd'[q] = cmd[q]
          /\ cmd'[p].kind # "search" /\ cmd'[p].vectors = vectors
        BY <1>1, <2>1 DEF PInv, Fields
    <2>3. UNCHANGED <<vectors, views>>  BY <1>3 DEF BeginIndex, tables
    <2> QED  BY <1>2, <2>2, <2>3 DEF SInv, EncodesKeep, SearchKnows
  <1>4. CASE Encode(p)
    <2> DEFINE i == Min(cmd[p].todo)
               row == IF Active(canonical[i]) THEN canonical[i] ELSE None
    <2>1. \/ cmd' = [cmd EXCEPT ![p].todo = {}]
          \/ cmd' = [cmd EXCEPT ![p].todo = @ \ {i},
                                ![p].left = IF Active(canonical[i]) THEN @ - 1 ELSE @,
                                ![p].vectors[i] = row, ![p].views[i] = row]
        BY <1>4 DEF Encode
    <2>2. Active(canonical[i]) => row = canonical[i]  OBVIOUS
    <2> HIDE DEF i, row
    <2>3. /\ \A q \in Procs \ {p} : cmd'[q] = cmd[q]
          /\ cmd'[p].kind # "search"
          /\ \/ cmd'[p].vectors = cmd[p].vectors
             \/ cmd'[p].vectors = [cmd[p].vectors EXCEPT ![i] = row]
        BY <1>1, <2>1 DEF PInv, Fields
    <2>4. EncodesKeep(p) /\ cmd[p].pc = "encode" /\ DOMAIN cmd[p].vectors = Ids /\ UNCHANGED <<vectors, views>>
        BY <1>4 DEF SInv, Encode, At, PInv, EncodesLocked, Current, tables
    <2>5. EncodesKeep(p)'  BY <1>2, <2>2, <2>3, <2>4 DEF EncodesKeep
    <2> QED  BY <1>2, <2>3, <2>4, <2>5 DEF SInv, EncodesKeep, SearchKnows
  <1>5. CASE CommitIndex(p)
    <2>1. /\ \A q \in Procs \ {p} : cmd'[q] = cmd[q]
          /\ cmd'[p].kind # "search" /\ cmd'[p].pc # "encode"
        BY <1>1, <1>5 DEF CommitIndex, Goto, PInv, Fields
    <2>2. /\ vectors' = cmd[p].vectors
          /\ \A i \in Ids : Active(canonical[i]) /\ vectors[i] = canonical[i] => vectors'[i] = canonical[i]
        BY <1>5 DEF CommitIndex, At, SInv, EncodesKeep
    <2>3. \A q \in Procs \ {p} : cmd[q].pc # "encode"
        BY <1>5 DEF CommitIndex, At, PInv, EncodesLocked
    <2>4. ASSUME NEW q \in Procs \ {p} PROVE SearchKnows(q)'
      <3>1. SearchKnows(q) /\ cmd'[q] = cmd[q]  BY <2>1 DEF SInv
      <3> QED  BY <1>2, <2>2, <3>1 DEF SearchKnows
    <2> QED  BY <2>1, <2>3, <2>4 DEF SInv, EncodesKeep, SearchKnows
  <1> QED  BY <1>3, <1>4, <1>5

\* A search selects rows that are current, and looks up the views they have.
LEMMA SearchKnown ==
    ASSUME PInv, OInv, TInv, SInv, NEW p \in Procs, SelectHits(p) \/ SelectViews(p)
    PROVE  SInv'
  <1>1. DOMAIN cmd[p] = Fields /\ cmd[p].kind = "search"
      BY AtStep DEF SelectHits, SelectViews, At, TInv, CommandTyped
  <1>2. UNCHANGED <<canonical, vectors, views, replaced>>  BY DEF SelectHits, SelectViews, tables, rest
  <1>3. /\ \A q \in Procs \ {p} : cmd'[q] = cmd[q]
        /\ cmd'[p].pc # "encode" /\ SearchKnows(p)'
    <2>1. CASE SelectHits(p)
      <3> DEFINE hits == {i \in Ids : vectors[i] = canonical[i] /\ Active(canonical[i])}
      <3>1. cmd' = [cmd EXCEPT ![p].read = canonical, ![p].vectors = vectors, ![p].since = replaced,
                               ![p].pc = "views", ![p].found = hits]
          BY <2>1 DEF SelectHits
      <3>2. hits \subseteq Ids /\ \A i \in hits : Active(canonical[i]) /\ vectors[i] = canonical[i]
          OBVIOUS
      <3> HIDE DEF hits
      <3>3. /\ \A q \in Procs \ {p} : cmd'[q] = cmd[q]
            /\ cmd'[p].pc = "views" /\ cmd'[p].since = replaced
            /\ cmd'[p].found = hits /\ cmd'[p].read = canonical
          BY <1>1, <3>1 DEF PInv, Fields
      <3>4. replaced \in Nat  BY DEF OInv
      <3> QED  BY <1>2, <3>2, <3>3, <3>4 DEF SearchKnows
    <2>2. CASE SelectViews(p)
      <3> DEFINE shown == [i \in Ids |-> IF i \in cmd[p].found THEN ViewOf(i, cmd[p].read[i]) ELSE None]
      <3>1. cmd' = [cmd EXCEPT ![p].pc = "succeeded", ![p].views = shown] /\ cmd[p].pc = "views"
          BY <2>2 DEF SelectViews, At
      <3>2. SearchKnows(p) /\ views = vectors  BY DEF SInv, PInv
      <3>3. cmd[p].since = replaced => \A i \in cmd[p].found : shown[i] # None
        <4>1. \A i \in cmd[p].found : i \in Ids  BY <1>1, <3>1, <3>2 DEF SearchKnows
        <4> QED  BY <1>1, <3>1, <3>2, <4>1 DEF SearchKnows, ViewOf, Active
      <3> HIDE DEF shown
      <3>4. /\ \A q \in Procs \ {p} : cmd'[q] = cmd[q]
            /\ cmd'[p].pc = "succeeded" /\ cmd'[p].views = shown
            /\ cmd'[p].since = cmd[p].since /\ cmd'[p].found = cmd[p].found
          BY <1>1, <3>1 DEF PInv, Fields
      <3> QED  BY <1>1, <1>2, <3>1, <3>2, <3>3, <3>4 DEF SearchKnows
    <2> QED  BY <2>1, <2>2
  <1> QED  BY <1>2, <1>3 DEF SInv, EncodesKeep, SearchKnows

\* Every step of every command keeps what searches know.
LEMMA SearchSteps == PInv /\ OInv /\ TInv /\ SInv /\ [Next]_vars => SInv'
  <1> SUFFICES ASSUME PInv, OInv, TInv, SInv, [Next]_vars PROVE SInv'
      OBVIOUS
  <1>1. CASE UNCHANGED vars
      BY <1>1 DEF vars, tables, rest, SInv, EncodesKeep, SearchKnows
  <1>2. CASE Next
    <2>1. PICK p \in Procs : Step(p) \/ Fails(p) \/ Kill(p) \/ \E kind \in uses : StartJob(p, kind)
        BY <1>2 DEF Next
    <2>2. CASE cmd[p].kind = "search"
      <3>1. cmd[p].pc \in {"search", "views", "succeeded", "failed"}  BY <2>2 DEF TInv, CommandTyped
      <3>2. Step(p) => SelectHits(p) \/ SelectViews(p) \/ EndJob(p) \/ LockedOut(p)
          BY <3>1 DEF Step, At, Import, Insert, ReadSources, ReplaceCanonical, ReadTargets, FetchCandidate, FetchDone,
             SaveCandidates, ResolveCandidates, ReadRecord, SaveAttached, BeginIndex, Encode, CommitIndex,
             ReadTexts, ReadRows, PublishFile, PublishManifest, ManifestReady, RunContainer, SaveTrajectory,
             RefuseTrajectory, ImportDone, BeginDump, OpenDump, WriteDump, FinishDump, DumpReady, WriteBatchManifest,
             ReadTrajectories, BuildDatabase, SwapDatabase, WriteManifest
      <3> QED  BY <2>1, <3>2, BeginEndBystands, BystanderHolds, SearchKnown
    <2>3. CASE cmd[p].kind # "search"
        BY <2>1, <2>3, BeginEndBystands, OthersBystand, TrajectoriesBystand, BystanderHolds,
           ReplaceKnown, IndexKnown, SearchKnown DEF Step
    <2> QED  BY <2>2, <2>3
  <1> QED  BY <1>1, <1>2

\* As long as nobody replaces the canonical records a hit keeps the vectors and
\* views it was selected with, whatever index runs commit.
THEOREM SearchesKnow == Spec => []SInv
  <1>1. PipelineInit => SInv
      BY DEF PipelineInit, NoCommand, SInv, EncodesKeep, SearchKnows
  <1> QED  BY <1>1, SearchSteps, Inductive, Ordered, Typed, PTL DEF Spec

\* An answer shows each record with views, or else a vector, of its own revision,
\* though process and index may run between the statements that read them; and it
\* does without the views only when the canonical records were replaced in between.
THEOREM AnswersHold == Spec => []AnswersOfOneRevision
  <1>1. TInv /\ SInv => AnswersOfOneRevision
      BY DEF TInv, CommandTyped, SInv, SearchKnows, AnswersOfOneRevision, At
  <1> QED  BY <1>1, Typed, SearchesKnow, PTL

=============================================================================
