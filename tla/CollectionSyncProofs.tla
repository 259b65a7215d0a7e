-------------------------- MODULE CollectionSyncProofs --------------------------
(***************************************************************************)
(* CollectionSync for any number of processes, identifiers and batches: the *)
(* baseline of the cvelistV5 checkout is whole.  A run that has not failed  *)
(* has each file it passed in the store, in its batch or in the call that   *)
(* saves a batch; one that failed leaves the cursor where others may have   *)
(* put it, or at its own start.  Then the types, for any number of          *)
(* processes, and what the marks of the other streams promise when one      *)
(* process synchronises at a time: the delta stream has what was published  *)
(* up to its mark, the NVD stream what was modified before the overlap of   *)
(* its watermark, or it is excused.                                         *)
(***************************************************************************)
EXTENDS CollectionSync, FiniteSetTheorems, SequenceTheorems, TLAPS

\* A set of identifiers has a least one.
LEMMA LeastMember ==
    ASSUME NEW S, S \subseteq Nat, S # {}, IsFiniteSet(S)
    PROVE  Min(S) \in S /\ \A y \in S : Min(S) <= y
  <1> DEFINE Below(x) == {y \in S : y <= x}
             Cuts == {Below(x) : x \in S}
  <1>1. Cuts \subseteq FiniteSubsetsOf(S) /\ Cuts # {}
    <2>1. ASSUME NEW x \in S PROVE Below(x) \in SUBSET S /\ IsFiniteSet(Below(x))
        BY FS_Subset, Below(x) \subseteq S
    <2> HIDE DEF Below
    <2> QED  BY <2>1 DEF FiniteSubsetsOf
  <1>2. PICK cut \in Cuts : \A other \in Cuts : ~(<<other, cut>> \in StrictSubsetOrdering(S))
    <2> HIDE DEF Cuts
    <2> QED  BY <1>1, FS_StrictSubsetOrderingWellFounded, WFMin
  <1>3. PICK x \in S : cut = Below(x)
      OBVIOUS
  <1>4. ASSUME NEW y \in S PROVE x <= y
    <2>1. Below(y) \in Cuts /\ Below(y) \in SUBSET S /\ cut \in SUBSET S
        BY <1>3
    <2>2. SUFFICES ASSUME y < x PROVE FALSE
        OBVIOUS
    <2>3. Below(y) \subseteq cut /\ x \in cut /\ x \notin Below(y)
      <3>1. x \in Nat /\ y \in Nat /\ \A z \in S : z \in Nat
          OBVIOUS
      <3>2. \A z \in S : z <= y => z <= x
          BY <2>2, <3>1
      <3>3. x <= x /\ ~(x <= y)
          BY <2>2, <3>1
      <3> QED  BY <1>3, <3>2, <3>3
    <2>4. <<Below(y), cut>> \in StrictSubsetOrdering(S)
      <3> HIDE DEF Below
      <3> QED  BY <2>1, <2>3 DEF StrictSubsetOrdering
    <2> QED  BY <1>2, <2>1, <2>4
  <1> QED  BY <1>4 DEF Min

-----------------------------------------------------------------------------
(* The invariant *)

Stored(i) == latest["cve"][i] # NoSnapshot

CallFields == {"source", "batch", "chosen"}
BaselineFields == {"kind", "pc", "files", "batch", "left", "last", "failed", "after"}
ItemKinds == {"nvd", "delta", "batch", "collect"}

\* A call holds records, not the want of one.
CallOK(call) ==
    /\ DOMAIN call = CallFields
    /\ call.source = "cve" => \A i \in DOMAIN call.batch \cap Ids : call.batch[i] # NoSnapshot

\* The CVE records a call of p has still to compare or to write.
Pending(p) == {i \in Ids : saving[p].source = "cve" /\ i \in DOMAIN saving[p].batch}

\* A command of another kind than the baseline.
ItemCommand(r) ==
    /\ r.kind \in ItemKinds /\ {"kind", "pc"} \subseteq DOMAIN r
    /\ r.kind = "nvd" => "stream" \in DOMAIN r /\ r.stream \in {"modified", "full"}

\* The shape of a command, as far as the baseline and the calls depend on it.
Shaped(r) ==
    \/ r = NoRun
    \/ ItemCommand(r)
    \/ r.kind = "baseline" /\ DOMAIN r = BaselineFields

\* Where a call may be under way.
Waits(p) ==
    Saved(p) \/ run[p].kind = "baseline" \/ (run[p].kind \in ItemKinds /\ run[p].pc = "resolve")

BaselineTyped(r) ==
    /\ r.files \subseteq Ids /\ r.left \in Nat /\ r.last \in Nat /\ r.after \in Nat
    /\ r.pc \in {"file", "flush", "flushed"}
    /\ \A i \in DOMAIN r.batch : r.batch[i] # NoSnapshot

\* What a run of the baseline has passed.
BaselinePassed(p) ==
    LET r == run[p]
    IN /\ \A i \in Ids : i <= r.after => Stored(i)
       /\ \A i \in Ids : i <= r.last => i \notin r.files
       /\ ~r.failed => \A i \in Ids \ r.files : Stored(i) \/ i \in DOMAIN r.batch \/ i \in Pending(p)
       /\ r.pc = "flushed" => DOMAIN r.batch = {}
       /\ ~Saved(p) => /\ DOMAIN r.batch = {}
                       /\ r.pc = "flushed" \/ (r.pc = "file" /\ (r.files = {} \/ r.left = 0))

ProcessOK(p) ==
    /\ CallOK(saving[p]) /\ Shaped(run[p]) /\ Waits(p)
    /\ run[p].kind = "baseline" => BaselineTyped(run[p]) /\ BaselinePassed(p)

\* What the cursor promises.
CursorOK(c) ==
    /\ c.after \in Nat
    /\ \A i \in Ids : c.complete \/ i <= c.after => Stored(i)

WorldOK ==
    /\ now \in Nat \ {0}
    /\ \A i \in Ids : official["cve"][i] \in Nat \ {0}
    /\ DOMAIN official = Sources /\ DOMAIN official["cve"] = Ids

\* The inductive invariant.
BInv ==
    /\ WorldOK
    /\ DOMAIN latest = Sources
    /\ DOMAIN cursor = {"modified", "full", "delta", "baseline"} /\ CursorOK(cursor.baseline)
    /\ DOMAIN saving = Procs /\ DOMAIN run = Procs
    /\ \A p \in Procs : ProcessOK(p)

-----------------------------------------------------------------------------
(* Steps that keep it because they are about something else *)

\* What is stored stays stored.
Keeps == \A i \in Ids : Stored(i) => Stored(i)'

\* A step of p that does not change what the other processes are at.
Alone(p) ==
    /\ WorldOK' /\ DOMAIN latest' = Sources /\ Keeps
    /\ DOMAIN saving' = Procs /\ DOMAIN run' = Procs
    /\ \A q \in Procs \ {p} : saving'[q] = saving[q] /\ run'[q] = run[q]

\* A step of one process leaves what the invariant says of the others.
LEMMA OthersKeep ==
    ASSUME BInv, NEW p \in Procs, Alone(p)
    PROVE  \A q \in Procs \ {p} : ProcessOK(q)'
  <1> TAKE q \in Procs \ {p}
  <1>1. ProcessOK(q) /\ saving'[q] = saving[q] /\ run'[q] = run[q]
      BY DEF BInv, Alone
  <1>2. CallOK(saving[q])' /\ Shaped(run[q])' /\ Waits(q)'
      BY <1>1 DEF ProcessOK, CallOK, Shaped, ItemCommand, Waits, Saved
  <1>3. ASSUME run[q].kind = "baseline" PROVE (BaselineTyped(run[q]) /\ BaselinePassed(q))'
    <2>1. BaselineTyped(run[q])'  BY <1>1, <1>3 DEF ProcessOK, BaselineTyped
    <2>2. Pending(q)' = Pending(q)  BY <1>1 DEF Pending
    <2>3. BaselinePassed(q)'
        BY <1>1, <1>3, <2>2 DEF ProcessOK, BaselinePassed, Alone, Keeps, Saved
    <2> QED  BY <2>1, <2>3
  <1> QED  BY <1>1, <1>2, <1>3 DEF ProcessOK

\* A command of another kind: its process saves nothing, or a good call.
Elsewhere(p) ==
    /\ Alone(p)
    /\ cursor'.baseline = cursor.baseline /\ DOMAIN cursor' = DOMAIN cursor
    /\ CallOK(saving'[p])
    /\ \/ run'[p] = NoRun /\ saving'[p] = NoCall
       \/ /\ ItemCommand(run'[p])
          /\ saving'[p] = NoCall \/ run'[p].pc = "resolve"

\* A step outside what the invariant is about keeps it.
LEMMA ElsewhereKeeps ==
    ASSUME BInv, NEW p \in Procs, Elsewhere(p)
    PROVE  BInv'
  <1>1. \A q \in Procs \ {p} : ProcessOK(q)'  BY OthersKeep DEF Elsewhere
  <1>2. ProcessOK(p)'
      BY DEF Elsewhere, ProcessOK, Shaped, ItemCommand, Waits, Saved, ItemKinds, NoRun
  <1>3. CursorOK(cursor.baseline)'
      BY DEF BInv, Elsewhere, Alone, Keeps, CursorOK
  <1> QED  BY <1>1, <1>2, <1>3 DEF BInv, Elsewhere, Alone

\* Without a write of the store, what is stored stays.
LEMMA KeptUnchanged == UNCHANGED latest => Keeps
  BY DEF Keeps, Stored

\* What the invariant says of the sources depends on the sources and the clock alone.
LEMMA WorldUnchanged == WorldOK /\ UNCHANGED <<now, official>> => WorldOK'
  BY DEF WorldOK

\* The call that saves nothing.
LEMMA NoCallOK == CallOK(NoCall)
  BY DEF CallOK, NoCall, CallFields, EmptyBatch

\* A process with a command of another kind, between two calls.
LEMMA ItemShape ==
    ASSUME BInv, NEW p \in Procs, run[p].kind \in ItemKinds
    PROVE  /\ ItemCommand(run[p])
           /\ run[p].pc # "resolve" => saving[p] = NoCall
  BY DEF BInv, ProcessOK, Shaped, Waits, Saved, NoRun, ItemKinds, ItemCommand

\* What such a process asks the sources for.
LEMMA GoodCall ==
    ASSUME BInv, NEW p \in Procs, NEW s, NEW batch,
           s = "cve" => \A i \in DOMAIN batch \cap Ids : batch[i] # NoSnapshot
    PROVE  CallOK(Call(s, batch))
  BY NoCallOK DEF Call, CallOK, CallFields

-----------------------------------------------------------------------------
(* The commands of the other kinds *)

\* A command is given.
LEMMA GivenKeeps ==
    ASSUME BInv, NEW p \in Procs, NEW command, Give(p, command), UNCHANGED cursor,
           ItemCommand(command)
    PROVE  BInv'
  <1>1. saving[p] = NoCall
      BY DEF BInv, ProcessOK, Waits, Saved, Give, NoRun, ItemKinds
  <1>2. /\ DOMAIN saving' = Procs /\ DOMAIN run' = Procs /\ run'[p] = command
        /\ \A q \in Procs \ {p} : saving'[q] = saving[q] /\ run'[q] = run[q]
        /\ saving' = saving /\ UNCHANGED <<latest, now, official>>
      BY DEF BInv, Give, storeVars, world
  <1>3. Alone(p)
      BY <1>2, KeptUnchanged, WorldUnchanged DEF Alone, BInv
  <1> QED  BY <1>1, <1>2, <1>3, NoCallOK, ElsewhereKeeps DEF Elsewhere

\* A command ends, or goes on without a call.
LEMMA RunKeeps ==
    ASSUME BInv, NEW p \in Procs, saving[p] = NoCall, UNCHANGED <<latest, saving, now, official>>,
           cursor'.baseline = cursor.baseline, DOMAIN cursor' = DOMAIN cursor,
           DOMAIN run' = Procs, \A q \in Procs \ {p} : run'[q] = run[q],
           \/ run'[p] = NoRun
           \/ ItemCommand(run'[p])
    PROVE  BInv'
  <1>1. Alone(p)
      BY KeptUnchanged, WorldUnchanged DEF Alone, BInv
  <1> QED  BY <1>1, NoCallOK, ElsewhereKeeps DEF Elsewhere

\* A command calls save_sources_detailed.
LEMMA CallKeeps ==
    ASSUME BInv, NEW p \in Procs, NEW s, NEW batch, BeginSave(p, s, batch),
           s = "cve" => \A i \in DOMAIN batch \cap Ids : batch[i] # NoSnapshot,
           UNCHANGED <<latest, cursor, now, official>>,
           DOMAIN run' = Procs, \A q \in Procs \ {p} : run'[q] = run[q],
           ItemCommand(run'[p]), run'[p].pc = "resolve"
    PROVE  BInv'
  <1>1. DOMAIN saving' = Procs /\ saving'[p] = Call(s, batch) /\ \A q \in Procs \ {p} : saving'[q] = saving[q]
      BY DEF BInv, BeginSave
  <1>2. Alone(p)
      BY <1>1, KeptUnchanged, WorldUnchanged DEF Alone, BInv
  <1> QED  BY <1>1, <1>2, GoodCall, ElsewhereKeeps DEF Elsewhere

\* Starting a command other than the baseline keeps the invariant.
LEMMA StartsOthers ==
    ASSUME BInv, NEW p \in Procs,
           \/ \E full \in BOOLEAN, since \in Starts, end \in Ends, limit \in Limits :
                  StartNvd(p, full, since, end, limit)
           \/ \E end \in Ends, limit \in Limits : StartNvd(p, TRUE, NoTime, end, limit)
           \/ \E since \in Starts, limit \in Limits : StartDelta(p, since, limit)
           \/ \E s \in Sources, ids \in SUBSET Ids : StartBatch(p, s, ids)
           \/ \E s \in Sources, i \in Ids : StartCollect(p, s, i)
           \/ StartRetry(p)
    PROVE  BInv'
  <1>1. ASSUME NEW full, NEW since, NEW end, NEW limit, StartNvd(p, full, since, end, limit) PROVE BInv'
      BY <1>1, GivenKeeps DEF StartNvd, NvdStream, ItemKinds, ItemCommand
  <1>2. ASSUME NEW since, NEW limit, StartDelta(p, since, limit) PROVE BInv'
      BY <1>2, GivenKeeps DEF StartDelta, ItemKinds, ItemCommand
  <1>3. ASSUME NEW s, NEW ids, StartBatch(p, s, ids) PROVE BInv'
      BY <1>3, GivenKeeps DEF StartBatch, ItemKinds, ItemCommand
  <1>4. ASSUME NEW s, NEW i, StartCollect(p, s, i) PROVE BInv'
      BY <1>4, GivenKeeps DEF StartCollect, ItemKinds, ItemCommand
  <1>5. CASE StartRetry(p)
      BY <1>5, GivenKeeps DEF StartRetry, ItemKinds, ItemCommand
  <1> QED  BY <1>1, <1>2, <1>3, <1>4, <1>5

\* sync_nvd.
LEMMA NvdKeeps ==
    ASSUME BInv, NEW p \in Procs, NvdStep(p)
    PROVE  BInv'
  <1> USE ItemShape DEF quiet, world, BInv, ItemKinds, ItemCommand, Finish
  <1>1. CASE FetchPage(p)
    <2>1. BeginSave(p, "nvd", [i \in Page(run[p]) |-> Version("nvd", i)])
        BY <1>1 DEF FetchPage
    <2>2. /\ run[p].kind = "nvd" /\ UNCHANGED <<latest, cursor, now, official>>
          /\ DOMAIN run' = Procs /\ \A q \in Procs \ {p} : run'[q] = run[q]
          /\ ItemCommand(run'[p]) /\ run'[p].pc = "resolve"
        BY <1>1 DEF FetchPage
    <2> QED  BY <2>1, <2>2, CallKeeps
  <1>2. CASE FetchPageFails(p)
      BY <1>2, RunKeeps DEF FetchPageFails, Fetching, Saved
  <1>3. CASE ResolvePage(p)
      BY <1>3, RunKeeps DEF ResolvePage, Saved
  <1>4. CASE SavePageCursor(p)
    <2> DEFINE r == run[p]
               left == IF r.left = NoLimit THEN NoLimit ELSE r.left - r.rows
    <2>1. r.kind = "nvd" /\ r.pc = "cursor" /\ UNCHANGED <<latest, saving, now, official>>
        BY <1>4 DEF SavePageCursor, storeVars
    <2>2. cursor' = [cursor EXCEPT ![r.stream] = [window |-> r.windows[1], next |-> r.next, mark |-> r.mark]]
        BY <1>4 DEF SavePageCursor
    <2>3. r.stream \in {"modified", "full"}
        BY <2>1
    <2>4. run'[p] \in {[r EXCEPT !.pc = "close", !.left = left], NoRun,
                       [r EXCEPT !.pc = "fetch", !.left = left, !.index = NextIndex(r), !.attempt = 1]}
        BY <1>4 DEF SavePageCursor
    <2>5. DOMAIN run' = Procs /\ \A q \in Procs \ {p} : run'[q] = run[q]
        BY <1>4 DEF SavePageCursor
    <2>6. run'[p] = NoRun \/ ItemCommand(run'[p])
        BY <2>1, <2>4
    <2> QED  BY <2>1, <2>2, <2>3, <2>5, <2>6, RunKeeps
  <1>5. CASE CloseWindow(p)
    <2> DEFINE r == run[p]
    <2>1. r.kind = "nvd" /\ r.pc = "close" /\ UNCHANGED <<latest, saving, now, official>>
        BY <1>5 DEF CloseWindow, storeVars
    <2>2. cursor' = [cursor EXCEPT ![r.stream] = [window |-> NoWindow, next |-> 0, mark |-> Reached(r)]]
        BY <1>5 DEF CloseWindow
    <2>3. r.stream \in {"modified", "full"}
        BY <2>1
    <2>4. run'[p] \in {NoRun, [r EXCEPT !.pc = "fetch", !.windows = Tail(r.windows), !.index = 0,
                                       !.attempt = 1, !.mark = Reached(r)]}
        BY <1>5 DEF CloseWindow
    <2>5. DOMAIN run' = Procs /\ \A q \in Procs \ {p} : run'[q] = run[q]
        BY <1>5 DEF CloseWindow
    <2>6. run'[p] = NoRun \/ ItemCommand(run'[p])
        BY <2>1, <2>4
    <2> QED  BY <2>1, <2>2, <2>3, <2>5, <2>6, RunKeeps
  <1> QED  BY <1>1, <1>2, <1>3, <1>4, <1>5 DEF NvdStep

\* sync_cve_delta, collect, collect_batch and retry-collection.
LEMMA ItemsKeep ==
    ASSUME BInv, NEW p \in Procs, ItemStep(p)
    PROVE  BInv'
  <1> USE ItemShape DEF quiet, world, BInv, ItemKinds, ItemCommand, Finish
  <1>1. CASE FetchItem(p)
    <2> DEFINE row == ItemRow(run[p])
    <2>1. PICK record \in Answers(row.source, row.a) : BeginSave(p, row.source, [i \in {row.a} |-> record])
        BY <1>1 DEF FetchItem
    <2>2. /\ run[p].kind \in ItemKinds /\ UNCHANGED <<latest, cursor, now, official>>
          /\ DOMAIN run' = Procs /\ \A q \in Procs \ {p} : run'[q] = run[q]
          /\ ItemCommand(run'[p]) /\ run'[p].pc = "resolve"
        BY <1>1 DEF FetchItem
    <2>3. row.source = "cve" /\ row.a \in Ids => record # NoSnapshot
        BY DEF Answers, Version, NoSnapshot, WorldOK
    <2> HIDE DEF row
    <2> QED  BY <2>1, <2>2, <2>3, CallKeeps
  <1>2. CASE FetchItemFails(p)
      BY <1>2, RunKeeps DEF FetchItemFails, Fetching, Saved
  <1>3. CASE CollectFails(p)
      BY <1>3, RunKeeps DEF CollectFails, Fetching, Saved, storeVars
  <1>4. CASE ResolveItem(p)
      BY <1>4, RunKeeps DEF ResolveItem, Saved
  <1>5. CASE EndDelta(p)
      BY <1>5, RunKeeps DEF EndDelta, storeVars
  <1>6. CASE EndBatch(p)
      BY <1>6, RunKeeps DEF EndBatch, storeVars
  <1> QED  BY <1>1, <1>2, <1>3, <1>4, <1>5, <1>6 DEF ItemStep

\* A request is made again; a process is killed.
LEMMA AgainKeeps ==
    ASSUME BInv, NEW p \in Procs, RequestAgain(p)
    PROVE  BInv'
  BY ItemShape, RunKeeps DEF RequestAgain, Fetching, Saved, storeVars, quiet, world, BInv, ItemKinds, ItemCommand

\* A kill keeps the invariant: what it forgets was never counted as stored.
LEMMA KillKeeps ==
    ASSUME BInv, NEW p \in Procs, Kill(p)
    PROVE  BInv'
  <1>1. /\ DOMAIN saving' = Procs /\ DOMAIN run' = Procs /\ run'[p] = NoRun /\ saving'[p] = NoCall
        /\ \A q \in Procs \ {p} : saving'[q] = saving[q] /\ run'[q] = run[q]
        /\ UNCHANGED <<latest, now, official, cursor>>
      BY DEF BInv, Kill, Finish, world
  <1>2. Alone(p)
      BY <1>1, KeptUnchanged, WorldUnchanged DEF Alone, BInv
  <1> QED  BY <1>1, <1>2, NoCallOK, ElsewhereKeeps DEF Elsewhere

-----------------------------------------------------------------------------
(* sync_cve_directory *)

\* A step of the baseline, once its own process and the cursor are shown.
LEMMA BaselineSuffices ==
    ASSUME BInv, NEW p \in Procs, UNCHANGED <<latest, now, official>>,
           DOMAIN cursor' = DOMAIN cursor, CursorOK(cursor.baseline)',
           DOMAIN saving' = Procs, DOMAIN run' = Procs,
           \A q \in Procs \ {p} : saving'[q] = saving[q] /\ run'[q] = run[q],
           ProcessOK(p)'
    PROVE  BInv'
  <1>1. Alone(p)
      BY KeptUnchanged, WorldUnchanged DEF Alone, BInv
  <1>2. \A q \in Procs \ {p} : ProcessOK(q)'  BY <1>1, OthersKeep
  <1> QED  BY <1>1, <1>2 DEF BInv, Alone

\* A run starts behind what its cursor promises.
LEMMA StartBaselineKeeps ==
    ASSUME BInv, NEW p \in Procs, NEW limit \in Limits, StartBaseline(p, limit)
    PROVE  BInv'
  <1> DEFINE after == IF cursor.baseline.complete THEN NoRecord ELSE cursor.baseline.after
             command == [kind |-> "baseline", pc |-> "file", files |-> {i \in Ids : i > after},
                         batch |-> EmptyBatch, left |-> limit, last |-> NoRecord, failed |-> FALSE,
                         after |-> after]
  <1>1. Give(p, command) /\ UNCHANGED cursor  BY DEF StartBaseline
  <1>2. saving[p] = NoCall
      BY <1>1 DEF BInv, ProcessOK, Waits, Saved, Give, NoRun, ItemKinds
  <1>3. /\ DOMAIN saving' = Procs /\ DOMAIN run' = Procs /\ run'[p] = command
        /\ \A q \in Procs \ {p} : saving'[q] = saving[q] /\ run'[q] = run[q]
        /\ saving' = saving /\ UNCHANGED <<latest, now, official>>
      BY <1>1 DEF BInv, Give, storeVars, world
  <1>4. after \in Nat /\ \A i \in Ids : i <= after => Stored(i)
      BY StoreAssumption DEF BInv, CursorOK, NoRecord
  <1>5. limit \in Nat /\ Ids \subseteq Nat \ {0}
      BY StoreAssumption, CollectionAssumption
  <1> HIDE DEF after
  <1>6. BaselineTyped(command)
      BY <1>4, <1>5 DEF BaselineTyped, EmptyBatch, NoRecord
  <1>7. BaselinePassed(p)'
    <2>1. \A i \in Ids : Stored(i)' <=> Stored(i)  BY <1>3 DEF Stored
    <2>2. \A i \in Ids \ command.files : i <= after  BY <1>4, <1>5
    <2> QED  BY <1>2, <1>3, <1>4, <1>5, <2>1, <2>2 DEF BaselinePassed, Saved, NoRecord
  <1>8. ProcessOK(p)'
      BY <1>2, <1>3, <1>6, <1>7, NoCallOK DEF ProcessOK, Shaped, BaselineFields, Waits, BaselineTyped
  <1>9. CursorOK(cursor.baseline)'
      BY <1>1, <1>3 DEF BInv, CursorOK, Stored
  <1> QED  BY <1>1, <1>3, <1>8, <1>9, BaselineSuffices

\* What is known of a run of the baseline.
LEMMA BaselineRun ==
    ASSUME BInv, NEW p \in Procs, run[p].kind = "baseline"
    PROVE  /\ CallOK(saving[p]) /\ DOMAIN run[p] = BaselineFields
           /\ BaselineTyped(run[p]) /\ BaselinePassed(p)
           /\ Saved(p) => Pending(p) = {}
  BY DEF BInv, ProcessOK, Shaped, ItemCommand, ItemKinds, NoRun, Saved, Pending, NoCall, EmptyBatch

\* A file is read: it joins the batch, or the run has failed.
LEMMA ReadFileKeeps ==
    ASSUME BInv, NEW p \in Procs, ReadFile(p)
    PROVE  BInv'
  <1> DEFINE r == run[p]
             i == Min(r.files)
             batch == IF i \in readable THEN [j \in DOMAIN r.batch \cup {i} |-> [time |-> 1, body |-> 1]] ELSE r.batch
             s == run'[p]
  <1>1. /\ r.kind = "baseline" /\ r.pc = "file" /\ r.files # {} /\ r.left > 0
        /\ run' = [run EXCEPT ![p] =
                     [r EXCEPT !.files = @ \ {i}, !.batch = batch, !.last = i,
                               !.left = IF @ = NoLimit THEN @ ELSE @ - 1,
                               !.failed = @ \/ i \notin readable,
                               !.pc = IF Cardinality(DOMAIN batch) >= BatchSize THEN "flush" ELSE "file"]]
        /\ UNCHANGED <<latest, saving, cursor, now, official>>
      BY DEF ReadFile, quiet, world
  <1>2. /\ CallOK(saving[p]) /\ DOMAIN r = BaselineFields /\ BaselineTyped(r) /\ BaselinePassed(p)
        /\ Saved(p) => Pending(p) = {}
      BY <1>1, BaselineRun
  <1>3. Ids \subseteq Nat \ {0} /\ IsFiniteSet(Ids)  BY StoreAssumption
  <1>4. i \in r.files /\ \A j \in r.files : i <= j
    <2>1. r.files \subseteq Ids  BY <1>2 DEF BaselineTyped
    <2>2. IsFiniteSet(r.files) /\ r.files \subseteq Nat  BY <1>3, <2>1, FS_Subset
    <2> QED  BY <1>1, <2>2, LeastMember
  <1>5. DOMAIN run' = Procs /\ \A q \in Procs \ {p} : run'[q] = run[q]
      BY <1>1 DEF BInv
  <1> HIDE DEF i, batch
  <1>6. /\ DOMAIN s = BaselineFields /\ s.kind = "baseline" /\ s.pc \in {"flush", "file"}
        /\ s.files = r.files \ {i} /\ s.batch = batch /\ s.last = i /\ s.after = r.after
        /\ s.left = IF r.left = NoLimit THEN r.left ELSE r.left - 1
        /\ s.failed = (r.failed \/ i \notin readable)
    <2>1. p \in DOMAIN run  BY DEF BInv
    <2> QED  BY <1>1, <1>2, <2>1 DEF BaselineFields
  <1>7. Saved(p) /\ Saved(p)'
      BY <1>1, <1>2 DEF BaselinePassed, BaselineTyped, Saved
  <1>8. BaselineTyped(s)
    <2>1. s.left \in Nat  BY <1>1, <1>2, <1>6 DEF BaselineTyped
    <2>2. \A j \in DOMAIN batch : batch[j] # NoSnapshot
        BY <1>2 DEF batch, BaselineTyped, NoSnapshot
    <2>3. i \in Nat /\ s.files \subseteq Ids  BY <1>2, <1>3, <1>4, <1>6 DEF BaselineTyped
    <2> QED  BY <1>2, <1>6, <2>1, <2>2, <2>3 DEF BaselineTyped
  <1>9. BaselinePassed(p)'
    <2>1. \A j \in Ids : Stored(j)' <=> Stored(j)  BY <1>1 DEF Stored
    <2>2. \A j \in Ids : j <= s.after => Stored(j)'  BY <1>2, <1>6, <2>1 DEF BaselinePassed
    <2>3. \A j \in Ids : j <= s.last => j \notin s.files
      <3> SUFFICES ASSUME NEW j \in Ids, j <= i, j \in r.files, j # i PROVE FALSE
          BY <1>6
      <3>1. i \in Nat /\ j \in Nat /\ i <= j  BY <1>2, <1>3, <1>4 DEF BaselineTyped
      <3> QED  BY <3>1
    <2>4. ASSUME ~s.failed, NEW j \in Ids \ s.files PROVE Stored(j)' \/ j \in DOMAIN s.batch
      <3>1. ~r.failed /\ i \in readable  BY <1>6, <2>4
      <3>2. DOMAIN s.batch = DOMAIN r.batch \cup {i}  BY <1>6, <3>1 DEF batch
      <3>3. CASE j = i  BY <3>2, <3>3
      <3>4. CASE j # i
        <4>1. j \notin r.files  BY <1>6, <3>4
        <4> QED  BY <1>2, <1>7, <2>1, <3>1, <3>2, <4>1 DEF BaselinePassed
      <3> QED  BY <3>3, <3>4
    <2> QED  BY <1>6, <1>7, <2>2, <2>3, <2>4 DEF BaselinePassed
  <1>10. ProcessOK(p)'
      BY <1>1, <1>2, <1>6, <1>8, <1>9 DEF ProcessOK, Shaped, Waits, CallOK, BaselineTyped
  <1>11. CursorOK(cursor.baseline)'
      BY <1>1 DEF BInv, CursorOK, Stored
  <1> QED  BY <1>1, <1>5, <1>10, <1>11, BaselineSuffices DEF BInv

\* The batch moves into a call.
LEMMA FlushKeeps ==
    ASSUME BInv, NEW p \in Procs, Flush(p)
    PROVE  BInv'
  <1> DEFINE r == run[p]
             s == run'[p]
             atEnd == r.pc = "file" /\ (r.files = {} \/ r.left = 0) /\ DOMAIN r.batch # {}
  <1>1. /\ r.kind = "baseline" /\ (r.pc = "flush" \/ atEnd)
        /\ saving' = [saving EXCEPT ![p] = Call("cve", r.batch)]
        /\ run' = [run EXCEPT ![p].batch = EmptyBatch, ![p].pc = IF atEnd THEN "file" ELSE "flushed"]
        /\ UNCHANGED <<latest, cursor, now, official>>
      BY DEF Flush, BeginSave, quiet, world
  <1>2. /\ DOMAIN r = BaselineFields /\ BaselineTyped(r) /\ BaselinePassed(p)
        /\ Saved(p) => Pending(p) = {}
      BY <1>1, BaselineRun
  <1>3. Saved(p)
      BY <1>1, <1>2 DEF BaselinePassed
  <1>4. /\ DOMAIN run' = Procs /\ \A q \in Procs \ {p} : run'[q] = run[q]
        /\ DOMAIN saving' = Procs /\ \A q \in Procs \ {p} : saving'[q] = saving[q]
        /\ saving'[p] = Call("cve", r.batch)
      BY <1>1 DEF BInv
  <1> HIDE DEF atEnd
  <1>5. /\ DOMAIN s = BaselineFields /\ s.kind = "baseline" /\ DOMAIN s.batch = {}
        /\ s.pc = IF atEnd THEN "file" ELSE "flushed"
        /\ s.files = r.files /\ s.left = r.left /\ s.last = r.last /\ s.after = r.after /\ s.failed = r.failed
    <2>1. p \in DOMAIN run  BY DEF BInv
    <2> QED  BY <1>1, <1>2, <2>1 DEF BaselineFields, EmptyBatch
  <1>6. CallOK(saving'[p])
      BY <1>2, <1>4, GoodCall DEF BaselineTyped
  <1>7. \A i \in Ids : i \in DOMAIN r.batch => i \in Pending(p)'
      BY <1>4 DEF Pending, Call
  <1>8. BaselineTyped(s)
      BY <1>2, <1>5 DEF BaselineTyped
  <1>9. BaselinePassed(p)'
    <2>1. \A i \in Ids : Stored(i)' <=> Stored(i)  BY <1>1 DEF Stored
    <2>2. s.pc = "file" => (s.files = {} \/ s.left = 0)  BY <1>5 DEF atEnd
    <2>3. s.pc \in {"file", "flushed"}  BY <1>5
    <2> QED  BY <1>2, <1>3, <1>5, <1>7, <2>1, <2>2, <2>3 DEF BaselinePassed
  <1>10. ProcessOK(p)'
      BY <1>5, <1>6, <1>8, <1>9 DEF ProcessOK, Shaped, Waits, CallOK, BaselineTyped
  <1>11. CursorOK(cursor.baseline)'
      BY <1>1 DEF BInv, CursorOK, Stored
  <1> QED  BY <1>1, <1>4, <1>10, <1>11, BaselineSuffices

\* The cursor follows a batch that is saved.
LEMMA AfterFlushKeeps ==
    ASSUME BInv, NEW p \in Procs, AfterFlush(p)
    PROVE  BInv'
  <1> DEFINE r == run[p]
             s == run'[p]
  <1>1. /\ r.kind = "baseline" /\ r.pc = "flushed" /\ Saved(p)
        /\ cursor' = [cursor EXCEPT !.baseline = FlushedCursor(r)]
        /\ run' = [run EXCEPT ![p].pc = "file"]
        /\ UNCHANGED <<latest, saving, now, official>>
      BY DEF AfterFlush, storeVars, quiet, world
  <1>2. /\ CallOK(saving[p]) /\ DOMAIN r = BaselineFields /\ BaselineTyped(r) /\ BaselinePassed(p)
        /\ Pending(p) = {}
      BY <1>1, BaselineRun
  <1>3. DOMAIN run' = Procs /\ \A q \in Procs \ {p} : run'[q] = run[q]
      BY <1>1 DEF BInv
  <1>4. /\ DOMAIN s = BaselineFields /\ s.kind = "baseline" /\ s.pc = "file" /\ s.batch = r.batch
        /\ s.files = r.files /\ s.left = r.left /\ s.last = r.last /\ s.after = r.after /\ s.failed = r.failed
    <2>1. p \in DOMAIN run  BY DEF BInv
    <2> QED  BY <1>1, <1>2, <2>1 DEF BaselineFields
  <1>5. \A i \in Ids : Stored(i)' <=> Stored(i)  BY <1>1 DEF Stored
  <1>6. CursorOK(cursor.baseline)'
    <2>1. cursor'.baseline = FlushedCursor(r)  BY <1>1 DEF BInv
    <2>2. CASE r.failed  BY <1>5, <2>1, <2>2 DEF FlushedCursor, CursorOK, BInv
    <2>3. CASE ~r.failed
      <3>1. cursor'.baseline = [after |-> r.last, complete |-> FALSE]  BY <2>1, <2>3 DEF FlushedCursor
      <3>2. \A i \in Ids : i <= r.last => Stored(i)
          BY <1>1, <1>2, <2>3 DEF BaselinePassed
      <3> QED  BY <1>2, <1>5, <3>1, <3>2 DEF CursorOK, BaselineTyped
    <2> QED  BY <2>2, <2>3
  <1>7. BaselinePassed(p)'
    <2>1. Pending(p)' = Pending(p) /\ Saved(p)'  BY <1>1 DEF Pending, Saved
    <2> QED  BY <1>2, <1>4, <1>5, <2>1 DEF BaselinePassed
  <1>8. ProcessOK(p)'
      BY <1>1, <1>2, <1>4, <1>7 DEF ProcessOK, Shaped, Waits, CallOK, BaselineTyped
  <1> QED  BY <1>1, <1>3, <1>6, <1>8, BaselineSuffices DEF BInv

\* The run ends with the cursor where it may be.
LEMMA EndBaselineKeeps ==
    ASSUME BInv, NEW p \in Procs, EndBaseline(p)
    PROVE  BInv'
  <1> DEFINE r == run[p]
  <1>1. /\ r.kind = "baseline" /\ r.pc = "file" /\ DOMAIN r.batch = {} /\ Saved(p)
        /\ cursor' = [cursor EXCEPT !.baseline = BaselineCursor(r)]
        /\ run' = [run EXCEPT ![p] = NoRun]
        /\ UNCHANGED <<latest, saving, now, official>>
      BY DEF EndBaseline, Finish, storeVars, quiet, world
  <1>2. /\ CallOK(saving[p]) /\ BaselineTyped(r) /\ BaselinePassed(p) /\ Pending(p) = {}
      BY <1>1, BaselineRun
  <1>3. DOMAIN run' = Procs /\ run'[p] = NoRun /\ \A q \in Procs \ {p} : run'[q] = run[q]
      BY <1>1 DEF BInv
  <1>4. \A i \in Ids : Stored(i)' <=> Stored(i)  BY <1>1 DEF Stored
  <1>5. CursorOK(cursor.baseline)'
    <2>1. cursor'.baseline = BaselineCursor(r)  BY <1>1 DEF BInv
    <2>2. CASE r.failed
      <3>1. cursor'.baseline = [after |-> r.after, complete |-> FALSE]  BY <2>1, <2>2 DEF BaselineCursor
      <3> QED  BY <1>2, <1>4, <3>1 DEF CursorOK, BaselineTyped, BaselinePassed
    <2>3. CASE ~r.failed /\ r.files = {}
      <3>1. cursor'.baseline = [after |-> NoRecord, complete |-> TRUE]  BY <2>1, <2>3 DEF BaselineCursor
      <3>2. \A i \in Ids : Stored(i)  BY <1>1, <1>2, <2>3 DEF BaselinePassed
      <3> QED  BY <1>4, <3>1, <3>2 DEF CursorOK, NoRecord
    <2>4. CASE ~r.failed /\ r.files # {} /\ r.last # NoRecord
      <3>1. cursor'.baseline = [after |-> r.last, complete |-> FALSE]  BY <2>1, <2>4 DEF BaselineCursor
      <3>2. \A i \in Ids : i <= r.last => Stored(i)  BY <1>1, <1>2, <2>4 DEF BaselinePassed
      <3> QED  BY <1>2, <1>4, <3>1, <3>2 DEF CursorOK, BaselineTyped
    <2>5. CASE ~r.failed /\ r.files # {} /\ r.last = NoRecord
      <3>1. cursor'.baseline = cursor.baseline  BY <2>1, <2>5 DEF BaselineCursor
      <3> QED  BY <1>4, <3>1 DEF CursorOK, BInv
    <2> QED  BY <2>2, <2>3, <2>4, <2>5
  <1>6. ProcessOK(p)'
      BY <1>1, <1>2, <1>3 DEF ProcessOK, Shaped, Waits, Saved, CallOK, NoRun
  <1> QED  BY <1>1, <1>3, <1>5, <1>6, BaselineSuffices DEF BInv

-----------------------------------------------------------------------------
(* The store *)

\* A record that is not accepted is stored in some version.
LEMMA RefusedIsStored ==
    ASSUME NEW old, NEW new, ~Accepts(old, new), new # NoSnapshot
    PROVE  old # NoSnapshot
  <1>1. CASE old = new  BY <1>1
  <1>2. CASE Stale(old, new)  BY <1>2 DEF Stale, NoSnapshot
  <1> QED  BY <1>1, <1>2 DEF Accepts

\* A record of the batch is compared: it goes only when it is stored.
LEMMA CompareKeeps ==
    ASSUME BInv, NEW p \in Procs, Compare(p), UNCHANGED <<now, official, cursor, run>>
    PROVE  BInv'
  <1> DEFINE call == saving[p]
             first == Min(DOMAIN call.batch)
             remains == Restrict(call.batch, DOMAIN call.batch \ {first})
  <1>1. /\ ~Saved(p) /\ UNCHANGED latest
        /\ \/ saving' = [saving EXCEPT ![p].chosen = first]
           \/ /\ ~Accepts(latest[call.source][first], call.batch[first])
              /\ saving' = [saving EXCEPT ![p] = Call(call.source, remains)]
      BY DEF Compare
  <1>2. ProcessOK(p) /\ CallOK(call)  BY DEF BInv, ProcessOK
  <1> HIDE DEF first
  <1>3. DOMAIN saving' = Procs /\ \A q \in Procs \ {p} : saving'[q] = saving[q]
      BY <1>1 DEF BInv
  <1>4. CallOK(saving'[p]) /\ \A i \in Pending(p) : i \in Pending(p)' \/ Stored(i)
    <2>1. CASE saving' = [saving EXCEPT ![p].chosen = first]
      <3>1. /\ DOMAIN saving'[p] = CallFields
            /\ saving'[p].source = call.source /\ saving'[p].batch = call.batch
        <4>1. p \in DOMAIN saving  BY DEF BInv
        <4> QED  BY <1>2, <2>1, <4>1 DEF CallOK, CallFields
      <3> QED  BY <1>2, <3>1 DEF CallOK, Pending
    <2>2. CASE /\ ~Accepts(latest[call.source][first], call.batch[first])
               /\ saving' = [saving EXCEPT ![p] = Call(call.source, remains)]
      <3>1. saving'[p] = Call(call.source, remains)  BY <2>2 DEF BInv
      <3>2. /\ DOMAIN remains = DOMAIN call.batch \ {first}
            /\ \A i \in DOMAIN remains : remains[i] = call.batch[i]
          BY DEF Restrict
      <3> HIDE DEF remains
      <3>3. CallOK(saving'[p])
          BY <1>2, <3>1, <3>2, GoodCall DEF CallOK
      <3>4. ASSUME NEW i \in Pending(p) PROVE i \in Pending(p)' \/ Stored(i)
        <4>1. i \in Ids /\ i \in DOMAIN call.batch /\ call.source = "cve"  BY DEF Pending
        <4>2. CASE i = first
          <5>1. call.batch[i] # NoSnapshot  BY <1>2, <4>1 DEF CallOK
          <5> QED  BY <2>2, <4>1, <4>2, <5>1, RefusedIsStored DEF Stored
        <4>3. CASE i # first
            BY <3>1, <3>2, <4>1, <4>3 DEF Pending, Call
        <4> QED  BY <4>2, <4>3
      <3> QED  BY <3>3, <3>4
    <2> QED  BY <1>1, <2>1, <2>2
  <1>5. \A i \in Ids : Stored(i)' <=> Stored(i)  BY <1>1 DEF Stored
  <1>6. run'[p] = run[p] /\ ~Saved(p)  BY <1>1
  <1>7. ASSUME run[p].kind = "baseline" PROVE (BaselineTyped(run[p]) /\ BaselinePassed(p))'
    <2>1. BaselineTyped(run[p]) /\ BaselinePassed(p)  BY <1>2, <1>7 DEF ProcessOK
    <2>2. BaselineTyped(run[p])'  BY <1>6, <2>1 DEF BaselineTyped
    <2>3. BaselinePassed(p)'
        BY <1>4, <1>5, <1>6, <2>1 DEF BaselinePassed
    <2> QED  BY <2>2, <2>3
  <1>8. ProcessOK(p)'
      BY <1>2, <1>4, <1>6, <1>7 DEF ProcessOK, Shaped, ItemCommand, Waits, CallOK
  <1>9. CursorOK(cursor.baseline)'
      BY <1>1 DEF BInv, CursorOK, Stored
  <1> QED  BY <1>1, <1>3, <1>8, <1>9, BaselineSuffices DEF BInv

\* A batch is written: what was pending is stored, and what was stored stays.
LEMMA WriteKeeps ==
    ASSUME BInv, NEW p \in Procs, Write(p), UNCHANGED <<now, official, cursor, run>>
    PROVE  BInv'
  <1> DEFINE call == saving[p]
  <1>1. /\ ~Saved(p) /\ saving' = [saving EXCEPT ![p] = NoCall]
        /\ latest' = [latest EXCEPT ![call.source] =
                         [i \in Ids |-> IF i \in Written(p) THEN call.batch[i] ELSE @[i]]]
      BY DEF Write
  <1>2. ProcessOK(p) /\ CallOK(call)  BY DEF BInv, ProcessOK
  <1>3. /\ DOMAIN saving' = Procs /\ saving'[p] = NoCall
        /\ \A q \in Procs \ {p} : saving'[q] = saving[q]
      BY <1>1 DEF BInv
  <1>4. DOMAIN latest' = Sources  BY <1>1 DEF BInv
  <1>5. ASSUME NEW i \in Ids PROVE (Stored(i) => Stored(i)') /\ (i \in Pending(p) => Stored(i)')
    <2>1. "cve" \in Sources  BY CollectionAssumption
    <2>2. CASE call.source # "cve"
        BY <1>1, <2>2 DEF Stored, Pending
    <2>3. CASE call.source = "cve"
      <3>1. latest'["cve"][i] = IF i \in Written(p) THEN call.batch[i] ELSE latest["cve"][i]
          BY <1>1, <2>1, <2>3 DEF BInv
      <3>2. i \in Written(p) => i \in DOMAIN call.batch
          BY DEF Written
      <3>3. i \in DOMAIN call.batch => call.batch[i] # NoSnapshot
          BY <1>2, <2>3 DEF CallOK
      <3>4. i \in DOMAIN call.batch /\ i \notin Written(p) => ~Accepts(latest["cve"][i], call.batch[i])
          BY <2>3 DEF Written
      <3>5. i \in DOMAIN call.batch /\ i \notin Written(p) => Stored(i)
          BY <3>3, <3>4, RefusedIsStored DEF Stored
      <3> QED  BY <3>1, <3>2, <3>3, <3>5 DEF Stored, Pending
    <2> QED  BY <2>2, <2>3
  <1>6. Alone(p)
      BY <1>3, <1>4, <1>5, WorldUnchanged DEF Alone, Keeps, BInv
  <1>7. \A q \in Procs \ {p} : ProcessOK(q)'  BY <1>6, OthersKeep
  <1>8. ASSUME run[p].kind = "baseline" PROVE (BaselineTyped(run[p]) /\ BaselinePassed(p))'
    <2>1. BaselineTyped(run[p]) /\ BaselinePassed(p)  BY <1>2, <1>8 DEF ProcessOK
    <2>2. BaselineTyped(run[p])'  BY <2>1 DEF BaselineTyped
    <2>3. Saved(p)'  BY <1>3 DEF Saved
    <2>4. BaselinePassed(p)'
        BY <1>1, <1>5, <2>1, <2>3 DEF BaselinePassed
    <2> QED  BY <2>2, <2>4
  <1>9. ProcessOK(p)'
      BY <1>2, <1>3, <1>8, NoCallOK DEF ProcessOK, Shaped, ItemCommand, Waits, Saved, CallOK
  <1>10. CursorOK(cursor.baseline)'
      BY <1>5 DEF BInv, CursorOK
  <1> QED  BY <1>4, <1>6, <1>7, <1>9, <1>10 DEF BInv, Alone

-----------------------------------------------------------------------------
(* The whole *)

\* The sources move on.
LEMMA WorldKeeps ==
    ASSUME BInv, World
    PROVE  BInv'
  <1>1. UNCHANGED <<storeVars, cursor, run>>
      BY DEF World, Tick, Roll, Modify, Publish, EditPage, RepairFile, Change
  <1>2. WorldOK'
    <2> USE DEF WorldOK, BInv, Change
    <2>1. CASE Tick  BY <2>1 DEF Tick
    <2>2. CASE Roll  BY <2>2 DEF Roll
    <2>3. ASSUME NEW i \in Ids, Modify(i) PROVE WorldOK'  BY <2>3 DEF Modify
    <2>4. ASSUME NEW i \in Ids, Publish(i) PROVE WorldOK'  BY <2>4 DEF Publish
    <2>5. ASSUME NEW i \in Ids, EditPage(i) PROVE WorldOK'  BY <2>5 DEF EditPage
    <2>6. ASSUME NEW i \in Ids, RepairFile(i) PROVE WorldOK'  BY <2>6 DEF RepairFile
    <2> QED  BY <2>1, <2>2, <2>3, <2>4, <2>5, <2>6 DEF World
  <1>3. \A p \in Procs : ProcessOK(p)'
    <2> TAKE p \in Procs
    <2>1. ProcessOK(p) /\ run' = run /\ saving' = saving /\ latest' = latest
        BY <1>1 DEF BInv, storeVars
    <2>2. CallOK(saving[p])' /\ Shaped(run[p])' /\ Waits(p)'
        BY <2>1 DEF ProcessOK, CallOK, Shaped, ItemCommand, Waits, Saved
    <2>3. run[p].kind = "baseline" => BaselineTyped(run[p])' /\ BaselinePassed(p)'
        BY <2>1 DEF ProcessOK, BaselineTyped, BaselinePassed, Pending, Stored, Saved
    <2> QED  BY <2>1, <2>2, <2>3 DEF ProcessOK
  <1> QED  BY <1>1, <1>2, <1>3 DEF BInv, storeVars, CursorOK, Stored

\* The invariant holds of an empty database.
LEMMA BaselineInit == CollectionInit => BInv
  <1> SUFFICES ASSUME CollectionInit PROVE BInv
      OBVIOUS
  <1>1. WorldOK
    <2>1. now \in Nat \ {0} /\ FirstLogged \in Nat \ {0}
        BY CollectionAssumption DEF CollectionInit, FirstTime, FirstLogged
    <2>2. official = [s \in Sources |-> [i \in Ids |-> IF s = "cve" THEN FirstLogged ELSE 1]] /\ "cve" \in Sources
        BY CollectionAssumption DEF CollectionInit
    <2> QED  BY <2>1, <2>2 DEF WorldOK
  <1>2. DOMAIN latest = Sources /\ DOMAIN saving = Procs /\ DOMAIN run = Procs
      BY DEF CollectionInit, StoreInit
  <1>3. /\ DOMAIN cursor = {"modified", "full", "delta", "baseline"}
        /\ cursor.baseline = [after |-> NoRecord, complete |-> FALSE]
      BY DEF CollectionInit
  <1>4. CursorOK(cursor.baseline)
    <2>1. \A i \in Ids : ~(i <= NoRecord)  BY StoreAssumption DEF NoRecord
    <2> QED  BY <1>3, <2>1 DEF CursorOK, NoRecord
  <1>5. ASSUME NEW p \in Procs PROVE ProcessOK(p)
    <2>1. saving[p] = NoCall /\ run[p] = NoRun  BY DEF CollectionInit, StoreInit
    <2> QED  BY <2>1, NoCallOK DEF ProcessOK, Shaped, Waits, Saved, NoRun
  <1> QED  BY <1>1, <1>2, <1>3, <1>4, <1>5 DEF BInv

\* Every step of every command and of the sources keeps the invariant.
LEMMA BaselineSteps == BInv /\ [Next]_vars => BInv'
  <1> SUFFICES ASSUME BInv, [Next]_vars PROVE BInv'
      OBVIOUS
  <1>1. CASE UNCHANGED vars
    <2>1. UNCHANGED <<latest, saving, now, official, cursor, run>>
        BY <1>1 DEF vars, storeVars, world
    <2>2. ASSUME NEW p \in Procs PROVE ProcessOK(p)'
      <3>1. ProcessOK(p)  BY DEF BInv
      <3> QED
          BY <2>1, <3>1 DEF ProcessOK, CallOK, Shaped, ItemCommand, Waits, Saved, BaselineTyped, BaselinePassed,
             Pending, Stored
    <2> QED  BY <2>1, <2>2 DEF BInv, WorldOK, CursorOK, Stored
  <1>2. CASE World  BY <1>2, WorldKeeps
  <1>3. ASSUME NEW p \in Procs, Start(p) PROVE BInv'
    <2>1. CASE \E limit \in Limits : StartBaseline(p, limit)  BY <2>1, StartBaselineKeeps
    <2> QED  BY <1>3, <2>1, StartsOthers DEF Start
  <1>4. ASSUME NEW p \in Procs, Work(p) PROVE BInv'
    <2>1. CASE RequestAgain(p) \/ NvdStep(p) \/ ItemStep(p)
        BY <2>1, AgainKeeps, NvdKeeps, ItemsKeep
    <2>2. CASE BaselineStep(p)
        BY <2>2, ReadFileKeeps, FlushKeeps, AfterFlushKeeps, EndBaselineKeeps DEF BaselineStep
    <2>3. CASE SaveStep(p)
        BY <2>3, CompareKeeps, WriteKeeps DEF SaveStep, Save, world
    <2> QED  BY <1>4, <2>1, <2>2, <2>3 DEF Work
  <1>5. ASSUME NEW p \in Procs, Kill(p) PROVE BInv'  BY <1>5, KillKeeps
  <1> QED  BY <1>1, <1>2, <1>3, <1>4, <1>5 DEF Next

\* The invariant holds in every reachable state.
THEOREM Inductive == Spec => []BInv
  BY BaselineInit, BaselineSteps, PTL DEF Spec

\* The files the baseline's cursor has passed are in the store: for any number of
\* processes that synchronise, collect and are killed, and any size of a batch.
THEOREM BaselineHolds == Spec => []BaselineIsWhole
  <1>1. BInv => BaselineIsWhole
      BY DEF BInv, CursorOK, Stored, BaselineIsWhole
  <1> QED  BY <1>1, Inductive, PTL

-----------------------------------------------------------------------------
(* One process never replaces a snapshot by an older one *)

\* The times of what a call holds; what it has chosen is not stale.
CallTimed(call) ==
    call.source \in Sources =>
        /\ \A i \in DOMAIN call.batch \cap Ids : call.batch[i].time \in Nat
        /\ call.chosen \in DOMAIN call.batch \cap Ids /\ call.chosen # NoRecord =>
               ~Stale(latest[call.source][call.chosen], call.batch[call.chosen])

RunTimed(r) == r.kind = "baseline" => \A i \in DOMAIN r.batch : r.batch[i].time \in Nat

TimesOK ==
    /\ DOMAIN official = Sources
    /\ \A s \in Sources : DOMAIN official[s] = Ids /\ \A i \in Ids : official[s][i] \in Nat
    /\ \A s \in Sources : DOMAIN latest[s] = Ids /\ \A i \in Ids : latest[s][i].time \in Nat

\* The inductive invariant of one process, beside BInv.
TInv == TimesOK /\ \A p \in Procs : CallTimed(saving[p]) /\ RunTimed(run[p])

OneProcess == \A p, q \in Procs : p = q

\* A process that saves nothing holds no outdated comparison.
LEMMA NoCallTimed == CallTimed(NoCall)
  BY DEF CallTimed, NoCall, EmptyBatch, NoRecord

\* A new call has chosen nothing yet.
LEMMA NewCallTimed ==
    ASSUME NEW s, NEW batch, s \in Sources => \A i \in DOMAIN batch \cap Ids : batch[i].time \in Nat
    PROVE  CallTimed(Call(s, batch))
  BY NoCallTimed DEF CallTimed, Call, NoRecord

\* A step that leaves the store and the call as they are, and no new file in a batch.
LEMMA TimesStay ==
    ASSUME OneProcess, TInv, NEW p \in Procs, UNCHANGED <<latest, official>>,
           saving'[p] = saving[p] \/ CallTimed(saving'[p]),
           run'[p].kind # "baseline" \/ RunTimed(run'[p])
    PROVE  TInv'
  <1>1. TimesOK'  BY DEF TInv, TimesOK
  <1>2. CallTimed(saving[p])' /\ RunTimed(run[p])'
      BY DEF TInv, CallTimed, RunTimed
  <1> QED  BY <1>1, <1>2 DEF TInv, OneProcess

\* Commands that are given, end, or ask again.
LEMMA StartTimed ==
    ASSUME OneProcess, BInv, TInv, NEW p \in Procs, Start(p)
    PROVE  TInv'
  <1>1. ASSUME NEW command, Give(p, command), RunTimed(command) PROVE TInv'
      BY <1>1, TimesStay DEF Give, BInv, storeVars, world
  <1> USE <1>1 DEF RunTimed
  <1>2. ASSUME NEW full, NEW since, NEW end, NEW limit, StartNvd(p, full, since, end, limit) PROVE TInv'
      BY <1>2 DEF StartNvd
  <1>3. ASSUME NEW since, NEW limit, StartDelta(p, since, limit) PROVE TInv'
      BY <1>3 DEF StartDelta
  <1>4. ASSUME NEW limit, StartBaseline(p, limit) PROVE TInv'
      BY <1>4 DEF StartBaseline, EmptyBatch
  <1>5. ASSUME NEW s, NEW ids, StartBatch(p, s, ids) PROVE TInv'
      BY <1>5 DEF StartBatch
  <1>6. ASSUME NEW s, NEW i, StartCollect(p, s, i) PROVE TInv'
      BY <1>6 DEF StartCollect
  <1>7. CASE StartRetry(p)
      BY <1>7 DEF StartRetry
  <1> QED  BY <1>2, <1>3, <1>4, <1>5, <1>6, <1>7 DEF Start

\* The steps of sync_nvd: a page is fetched with the times NVD gives.
LEMMA NvdTimed ==
    ASSUME OneProcess, BInv, TInv, NEW p \in Procs, NvdStep(p)
    PROVE  TInv'
  <1>1. CASE FetchPage(p)
    <2>1. BeginSave(p, "nvd", [i \in Page(run[p]) |-> Version("nvd", i)]) /\ UNCHANGED <<latest, official>>
        BY <1>1 DEF FetchPage, quiet, world
    <2>2. run'[p].kind # "baseline"
      <3>1. run[p].kind = "nvd"  BY <1>1 DEF FetchPage
      <3>2. ItemCommand(run[p])  BY <3>1, ItemShape DEF ItemKinds
      <3> QED  BY <1>1, <3>1, <3>2 DEF FetchPage, BInv, ItemCommand
    <2>3. CallTimed(saving'[p])
      <3>1. saving'[p] = Call("nvd", [i \in Page(run[p]) |-> Version("nvd", i)])
          BY <2>1 DEF BeginSave, BInv
      <3>2. "nvd" \in Sources => \A i \in Page(run[p]) \cap Ids : Version("nvd", i).time \in Nat
          BY DEF TInv, TimesOK, Version
      <3>3. CallTimed(Call("nvd", [i \in Page(run[p]) |-> Version("nvd", i)]))
          BY <3>2, NewCallTimed
      <3> QED  BY <2>1, <3>1, <3>3 DEF CallTimed
    <2> QED  BY <2>1, <2>2, <2>3, TimesStay
  <1>2. CASE FetchPageFails(p) \/ ResolvePage(p) \/ SavePageCursor(p) \/ CloseWindow(p)
    <2>1. UNCHANGED <<latest, official, saving>>
        BY <1>2 DEF FetchPageFails, ResolvePage, SavePageCursor, CloseWindow, storeVars, quiet, world
    <2>2. run[p].kind = "nvd"
        BY <1>2 DEF FetchPageFails, ResolvePage, SavePageCursor, CloseWindow
    <2>3. ItemCommand(run[p]) /\ p \in DOMAIN run
        BY <2>2, ItemShape DEF ItemKinds, BInv
    <2>4. run'[p].kind # "baseline"
      <3> USE <2>2, <2>3 DEF ItemCommand, NoRun, Finish
      <3>1. CASE FetchPageFails(p)  BY <3>1 DEF FetchPageFails
      <3>2. CASE ResolvePage(p)  BY <3>2 DEF ResolvePage
      <3>3. CASE SavePageCursor(p)
        <4> DEFINE r == run[p]
                   left == IF r.left = NoLimit THEN NoLimit ELSE r.left - r.rows
        <4>1. run'[p] \in {[r EXCEPT !.pc = "close", !.left = left], NoRun,
                           [r EXCEPT !.pc = "fetch", !.left = left, !.index = NextIndex(r), !.attempt = 1]}
            BY <3>3 DEF SavePageCursor
        <4>2. run'[p] = NoRun \/ run'[p].kind = "nvd"
            BY <4>1
        <4> QED  BY <4>2
      <3>4. CASE CloseWindow(p)
        <4> DEFINE r == run[p]
        <4>1. run'[p] \in {NoRun, [r EXCEPT !.pc = "fetch", !.windows = Tail(r.windows), !.index = 0,
                                           !.attempt = 1, !.mark = Reached(r)]}
            BY <3>4 DEF CloseWindow
        <4>2. run'[p] = NoRun \/ run'[p].kind = "nvd"
            BY <4>1
        <4> QED  BY <4>2
      <3> QED  BY <1>2, <3>1, <3>2, <3>3, <3>4
    <2> QED  BY <2>1, <2>4, TimesStay
  <1> QED  BY <1>1, <1>2 DEF NvdStep

\* The steps of the commands that collect records one by one.
LEMMA ItemsTimed ==
    ASSUME OneProcess, BInv, TInv, NEW p \in Procs, ItemStep(p) \/ RequestAgain(p)
    PROVE  TInv'
  <1>1. run[p].kind \in ItemKinds
      BY DEF ItemStep, FetchItem, FetchItemFails, CollectFails, ResolveItem, EndDelta, EndBatch, RequestAgain,
         Fetching, ItemKinds
  <1>2. ItemCommand(run[p]) /\ p \in DOMAIN run
      BY <1>1, ItemShape DEF BInv
  <1>3. run'[p].kind # "baseline"
    <2> USE <1>1, <1>2 DEF Finish, ItemCommand, ItemKinds, NoRun
    <2>1. CASE FetchItem(p)  BY <2>1 DEF FetchItem
    <2>2. CASE FetchItemFails(p)  BY <2>2 DEF FetchItemFails
    <2>3. CASE CollectFails(p)  BY <2>3 DEF CollectFails
    <2>4. CASE ResolveItem(p)  BY <2>4 DEF ResolveItem
    <2>5. CASE EndDelta(p)  BY <2>5 DEF EndDelta
    <2>6. CASE EndBatch(p)  BY <2>6 DEF EndBatch
    <2>7. CASE RequestAgain(p)  BY <2>7 DEF RequestAgain
    <2> QED  BY <2>1, <2>2, <2>3, <2>4, <2>5, <2>6, <2>7 DEF ItemStep
  <1>4. UNCHANGED <<latest, official>>
      BY DEF ItemStep, FetchItem, FetchItemFails, CollectFails, ResolveItem, EndDelta, EndBatch, RequestAgain,
         storeVars, quiet, world
  <1>5. CASE FetchItem(p)
    <2> DEFINE row == ItemRow(run[p])
    <2>1. PICK record \in Answers(row.source, row.a) : BeginSave(p, row.source, [i \in {row.a} |-> record])
        BY <1>5 DEF FetchItem
    <2>2. row.source \in Sources /\ row.a \in Ids => record.time \in Nat
        BY DEF Answers, Version, TInv, TimesOK, NoTime
    <2> HIDE DEF row
    <2>3. saving'[p] = Call(row.source, [i \in {row.a} |-> record])
        BY <2>1 DEF BeginSave, BInv
    <2>4. CallTimed(Call(row.source, [i \in {row.a} |-> record]))
        BY <2>2, NewCallTimed
    <2>5. CallTimed(saving'[p])
        BY <1>4, <2>3, <2>4 DEF CallTimed
    <2> QED  BY <1>3, <1>4, <2>5, TimesStay
  <1>6. CASE ~FetchItem(p)
    <2>1. saving' = saving
        BY <1>6 DEF ItemStep, FetchItemFails, CollectFails, ResolveItem, EndDelta, EndBatch, RequestAgain, storeVars
    <2> QED  BY <1>3, <1>4, <2>1, TimesStay
  <1> QED  BY <1>5, <1>6

\* The steps of the baseline: its files have the time of the checkout.
LEMMA BaselineTimed ==
    ASSUME OneProcess, BInv, TInv, NEW p \in Procs, BaselineStep(p)
    PROVE  TInv'
  <1> DEFINE r == run[p]
  <1>1. r.kind = "baseline" /\ p \in DOMAIN run /\ UNCHANGED <<latest, official>>
      BY DEF BaselineStep, ReadFile, Flush, AfterFlush, EndBaseline, storeVars, quiet, world, BInv
  <1>2. DOMAIN r = BaselineFields /\ RunTimed(r)
      BY <1>1, BaselineRun DEF TInv
  <1>3. CASE ReadFile(p)
    <2> DEFINE i == Min(r.files)
               batch == IF i \in readable THEN [j \in DOMAIN r.batch \cup {i} |-> [time |-> 1, body |-> 1]] ELSE r.batch
    <2>1. run' = [run EXCEPT ![p] =
                     [r EXCEPT !.files = @ \ {i}, !.batch = batch, !.last = i,
                               !.left = IF @ = NoLimit THEN @ ELSE @ - 1,
                               !.failed = @ \/ i \notin readable,
                               !.pc = IF Cardinality(DOMAIN batch) >= BatchSize THEN "flush" ELSE "file"]]
        BY <1>3 DEF ReadFile
    <2>2. \A j \in DOMAIN batch : batch[j].time \in Nat
        BY <1>1, <1>2 DEF RunTimed
    <2> HIDE DEF i, batch
    <2>3. run'[p].batch = batch
        BY <1>1, <1>2, <2>1 DEF BaselineFields
    <2> QED  BY <1>1, <1>3, <2>2, <2>3, TimesStay DEF ReadFile, RunTimed
  <1>4. CASE Flush(p)
    <2>1. run'[p].batch = EmptyBatch
        BY <1>1, <1>2, <1>4 DEF Flush, BaselineFields
    <2>2. RunTimed(run'[p])  BY <2>1 DEF RunTimed, EmptyBatch
    <2>3. saving'[p] = Call("cve", r.batch)
        BY <1>4 DEF Flush, BeginSave, BInv
    <2>4. CallTimed(Call("cve", r.batch))
        BY <1>1, <1>2, NewCallTimed DEF RunTimed
    <2>5. CallTimed(saving'[p])  BY <1>1, <2>3, <2>4 DEF CallTimed
    <2> QED  BY <1>1, <2>2, <2>5, TimesStay
  <1>5. CASE AfterFlush(p)
    <2>1. run'[p].batch = r.batch /\ run'[p].kind = "baseline"
        BY <1>1, <1>2, <1>5 DEF AfterFlush, BaselineFields
    <2> QED  BY <1>1, <1>2, <1>5, <2>1, TimesStay DEF AfterFlush, storeVars, RunTimed
  <1>6. CASE EndBaseline(p)
    <2>1. run'[p].kind # "baseline"  BY <1>1, <1>6 DEF EndBaseline, Finish, NoRun
    <2> QED  BY <1>1, <1>6, <2>1, TimesStay DEF EndBaseline, storeVars
  <1> QED  BY <1>3, <1>4, <1>5, <1>6 DEF BaselineStep

\* The comparison chooses a record that is not stale, and nobody else writes
\* before it does.
LEMMA CompareTimed ==
    ASSUME OneProcess, BInv, TInv, NEW p \in Procs, Compare(p), UNCHANGED <<official, run>>
    PROVE  TInv'
  <1> DEFINE call == saving[p]
             first == Min(DOMAIN call.batch)
             remains == Restrict(call.batch, DOMAIN call.batch \ {first})
  <1>1. /\ UNCHANGED latest
        /\ \/ /\ Accepts(latest[call.source][first], call.batch[first])
              /\ saving' = [saving EXCEPT ![p].chosen = first]
           \/ saving' = [saving EXCEPT ![p] = Call(call.source, remains)]
      BY DEF Compare
  <1>2. CallTimed(call) /\ RunTimed(run[p]) /\ DOMAIN call = CallFields
      BY DEF TInv, BInv, ProcessOK, CallOK
  <1> HIDE DEF first
  <1>3. RunTimed(run'[p])  BY <1>2
  <1>4. CASE /\ Accepts(latest[call.source][first], call.batch[first])
             /\ saving' = [saving EXCEPT ![p].chosen = first]
    <2>1. saving'[p].source = call.source /\ saving'[p].batch = call.batch /\ saving'[p].chosen = first
        BY <1>2, <1>4 DEF BInv, CallFields
    <2>2. CallTimed(saving'[p])
        BY <1>1, <1>2, <1>4, <2>1 DEF CallTimed, Accepts
    <2> QED  BY <1>1, <1>3, <2>2, TimesStay
  <1>5. CASE saving' = [saving EXCEPT ![p] = Call(call.source, remains)]
    <2>1. saving'[p] = Call(call.source, remains)  BY <1>5 DEF BInv
    <2>2. /\ DOMAIN remains = DOMAIN call.batch \ {first}
          /\ \A i \in DOMAIN remains : remains[i] = call.batch[i]
        BY DEF Restrict
    <2> HIDE DEF remains
    <2>3. CallTimed(Call(call.source, remains))
        BY <1>2, <2>2, NewCallTimed DEF CallTimed
    <2>4. CallTimed(saving'[p])  BY <1>1, <2>1, <2>3 DEF CallTimed
    <2> QED  BY <1>1, <1>3, <2>4, TimesStay
  <1> QED  BY <1>1, <1>4, <1>5

\* What is written is not older than what it replaces.
LEMMA WriteTimed ==
    ASSUME OneProcess, BInv, TInv, NEW p \in Procs, Write(p), UNCHANGED <<official, run>>
    PROVE  TInv' /\ \A s \in Sources, i \in Ids : latest'[s][i].time >= latest[s][i].time
  <1> DEFINE call == saving[p]
  <1>1. /\ call.chosen # NoRecord /\ saving' = [saving EXCEPT ![p] = NoCall]
        /\ latest' = [latest EXCEPT ![call.source] =
                         [i \in Ids |-> IF i \in Written(p) THEN call.batch[i] ELSE @[i]]]
      BY DEF Write
  <1>2. CallTimed(call) /\ TimesOK /\ DOMAIN latest = Sources
      BY DEF TInv, BInv
  <1>3. ASSUME NEW s \in Sources, NEW i \in Ids
        PROVE  /\ DOMAIN latest'[s] = Ids /\ latest'[s][i].time \in Nat
               /\ latest'[s][i].time >= latest[s][i].time
    <2>1. CASE s # call.source \/ i \notin Written(p)
      <3>1. latest'[s][i] = latest[s][i] /\ DOMAIN latest'[s] = Ids
          BY <1>1, <1>2, <2>1 DEF TimesOK
      <3> QED  BY <1>2, <3>1 DEF TimesOK
    <2>2. CASE s = call.source /\ i \in Written(p)
      <3>1. latest'[s][i] = call.batch[i] /\ DOMAIN latest'[s] = Ids
          BY <1>1, <1>2, <2>2
      <3>2. i \in DOMAIN call.batch  BY <2>2 DEF Written
      <3>3. ~Stale(latest[s][i], call.batch[i])
        <4>1. i = call.chosen \/ Accepts(latest[s][i], call.batch[i])  BY <2>2 DEF Written
        <4>2. CASE i = call.chosen  BY <1>1, <1>2, <2>2, <3>2, <4>2 DEF CallTimed
        <4>3. CASE Accepts(latest[s][i], call.batch[i])  BY <4>3 DEF Accepts
        <4> QED  BY <4>1, <4>2, <4>3
      <3>4. call.batch[i].time \in Nat /\ latest[s][i].time \in Nat
          BY <1>2, <2>2, <3>2 DEF CallTimed, TimesOK
      <3>5. call.batch[i].time >= latest[s][i].time
        <4> DEFINE new == call.batch[i].time
                   old == latest[s][i].time
        <4>1. ~(old > 0 /\ new < old)  BY <3>3 DEF Stale
        <4>2. new \in Nat /\ old \in Nat  BY <3>4
        <4> HIDE DEF new, old
        <4>3. new >= old  BY <4>1, <4>2
        <4> QED  BY <4>3 DEF new, old
      <3> QED  BY <3>1, <3>4, <3>5
    <2> QED  BY <2>1, <2>2
  <1>4. TimesOK'
    <2>1. UNCHANGED official  BY <1>1
    <2>2. \A s \in Sources : DOMAIN latest'[s] = Ids
                            /\ \A i \in Ids : latest'[s][i].time \in Nat
      <3>1. ASSUME NEW s \in Sources PROVE DOMAIN latest'[s] = Ids
        <4>1. CASE s = call.source  BY <1>1, <1>2, <4>1
        <4>2. CASE s # call.source  BY <1>1, <1>2, <4>2 DEF TimesOK
        <4> QED  BY <4>1, <4>2
      <3> QED  BY <1>3, <3>1
    <2>3. DOMAIN official' = Sources
          /\ \A s \in Sources : DOMAIN official'[s] = Ids
                                /\ \A i \in Ids : official'[s][i] \in Nat
        BY <1>2, <2>1 DEF TimesOK
    <2> QED  BY <2>2, <2>3 DEF TimesOK
  <1>5. saving'[p] = NoCall  BY <1>1 DEF BInv
  <1>6. CallTimed(saving[p])' /\ RunTimed(run[p])'
      BY <1>5 DEF TInv, CallTimed, RunTimed, NoCall, EmptyBatch, NoRecord
  <1> QED  BY <1>3, <1>4, <1>6 DEF TInv, OneProcess

\* The sources move on, with times.
LEMMA WorldTimed ==
    ASSUME OneProcess, BInv, TInv, World
    PROVE  TInv' /\ UNCHANGED latest
  <1>1. UNCHANGED <<latest, saving, run>>
      BY DEF World, Tick, Roll, Modify, Publish, EditPage, RepairFile, Change, storeVars
  <1>2. TimesOK'
    <2>1. \/ official' = official
          \/ \E s \in Sources, i \in Ids, t \in Nat : official' = [official EXCEPT ![s][i] = t]
      <3> USE CollectionAssumption DEF BInv, WorldOK, TInv, TimesOK, Change
      <3>1. CASE Tick \/ Roll  BY <3>1 DEF Tick, Roll
      <3>2. ASSUME NEW i \in Ids, Modify(i) PROVE \E t \in Nat : official' = [official EXCEPT !["nvd"][i] = t]
        <4>1. PICK t \in (now - Overlap)..now : t > official["nvd"][i] /\ official' = [official EXCEPT !["nvd"][i] = t]
            BY <3>2 DEF Modify
        <4>2. official["nvd"][i] \in Nat /\ now \in Nat /\ Overlap \in Nat  OBVIOUS
        <4>3. t \in Nat  BY <4>1, <4>2
        <4> QED  BY <4>1, <4>3
      <3>3. ASSUME NEW i \in Ids, Publish(i) PROVE official' = [official EXCEPT !["cve"][i] = now]
          BY <3>3 DEF Publish
      <3>4. ASSUME NEW i \in Ids, EditPage(i) PROVE official' = [official EXCEPT !["avd"][i] = now]
          BY <3>4 DEF EditPage
      <3>5. ASSUME NEW i \in Ids, RepairFile(i) PROVE official' = official
          BY <3>5 DEF RepairFile
      <3> QED  BY <3>1, <3>2, <3>3, <3>4, <3>5 DEF World
    <2> QED  BY <1>1, <2>1 DEF TInv, TimesOK
  <1>3. \A p \in Procs : CallTimed(saving[p])' /\ RunTimed(run[p])'
      BY <1>1 DEF TInv, CallTimed, RunTimed
  <1> QED  BY <1>1, <1>2, <1>3 DEF TInv

\* The times are in order in an empty database.
LEMMA TimesInit == CollectionInit => TInv
  <1> SUFFICES ASSUME CollectionInit PROVE TInv
      OBVIOUS
  <1>1. TimesOK
    <2>1. FirstLogged \in Nat  BY CollectionAssumption DEF FirstLogged
    <2>2. official = [s \in Sources |-> [i \in Ids |-> IF s = "cve" THEN FirstLogged ELSE 1]]
        BY DEF CollectionInit
    <2> QED  BY <2>1, <2>2 DEF CollectionInit, StoreInit, TimesOK, NoSnapshot
  <1>2. \A p \in Procs : CallTimed(saving[p]) /\ RunTimed(run[p])
      BY NoCallTimed DEF CollectionInit, StoreInit, RunTimed, NoRun
  <1> QED  BY <1>1, <1>2 DEF TInv

\* One step, of the one process or of the sources.
LEMMA TimesSteps ==
    ASSUME OneProcess, BInv, TInv, [Next]_vars
    PROVE  TInv' /\ \A s \in Sources, i \in Ids : latest'[s][i].time >= latest[s][i].time
  <1>0. UNCHANGED latest => \A s \in Sources, i \in Ids : latest'[s][i].time >= latest[s][i].time
      BY DEF TInv, TimesOK
  <1>1. CASE UNCHANGED vars
    <2>1. UNCHANGED <<latest, saving, official, run>>
        BY <1>1 DEF vars, storeVars, world
    <2> QED  BY <1>0, <2>1 DEF TInv, TimesOK, CallTimed, RunTimed
  <1>2. CASE World  BY <1>0, <1>2, WorldTimed
  <1>3. ASSUME NEW p \in Procs, Start(p) PROVE TInv' /\ UNCHANGED latest
    <2>1. UNCHANGED latest
        BY <1>3 DEF Start, StartNvd, StartDelta, StartBaseline, StartBatch, StartCollect, StartRetry, Give, storeVars
    <2> QED  BY <1>3, <2>1, StartTimed
  <1>4. ASSUME NEW p \in Procs, Work(p)
        PROVE  TInv' /\ \A s \in Sources, i \in Ids : latest'[s][i].time >= latest[s][i].time
    <2>1. CASE SaveStep(p)
      <3>1. UNCHANGED <<official, run>>  BY <2>1 DEF SaveStep, world
      <3>2. CASE Compare(p)  BY <1>0, <3>1, <3>2, CompareTimed DEF Compare
      <3>3. CASE Write(p)  BY <3>1, <3>3, WriteTimed
      <3> QED  BY <2>1, <3>2, <3>3 DEF SaveStep, Save
    <2>2. CASE RequestAgain(p) \/ ItemStep(p)
      <3>1. UNCHANGED latest
          BY <2>2 DEF ItemStep, FetchItem, FetchItemFails, CollectFails, ResolveItem, EndDelta, EndBatch,
             RequestAgain, storeVars
      <3> QED  BY <1>0, <2>2, <3>1, ItemsTimed
    <2>3. CASE NvdStep(p)
      <3>1. UNCHANGED latest
          BY <2>3 DEF NvdStep, FetchPage, FetchPageFails, ResolvePage, SavePageCursor, CloseWindow, storeVars
      <3> QED  BY <1>0, <2>3, <3>1, NvdTimed
    <2>4. CASE BaselineStep(p)
      <3>1. UNCHANGED latest
          BY <2>4 DEF BaselineStep, ReadFile, Flush, AfterFlush, EndBaseline, storeVars
      <3> QED  BY <1>0, <2>4, <3>1, BaselineTimed
    <2> QED  BY <1>4, <2>1, <2>2, <2>3, <2>4 DEF Work
  <1>5. ASSUME NEW p \in Procs, Kill(p) PROVE TInv' /\ UNCHANGED latest
    <2>1. UNCHANGED <<latest, official>> /\ run'[p] = NoRun /\ saving'[p] = NoCall
        BY <1>5 DEF Kill, Finish, world, BInv
    <2>2. CallTimed(saving'[p])  BY <2>1 DEF CallTimed, NoCall, EmptyBatch, NoRecord
    <2> QED  BY <2>1, <2>2, TimesStay DEF NoRun
  <1> QED  BY <1>0, <1>1, <1>2, <1>3, <1>4, <1>5 DEF Next

\* With one process at work a snapshot is never replaced by one with an older
\* time or none: the comparison that is made without the lock is still true when
\* its record is written.
THEOREM OneProcessNeverGoesBack ==
    ASSUME OneProcess
    PROVE  Spec => NeverGoBack
  <1> DEFINE Forward == \A s \in Sources, i \in Ids : latest'[s][i].time >= latest[s][i].time
  <1>1. BInv /\ TInv /\ [Next]_vars => TInv'  BY TimesSteps
  <1>2. Spec => []TInv
      BY <1>1, TimesInit, Inductive, PTL DEF Spec
  <1>3. BInv /\ TInv /\ [Next]_vars => [Forward]_vars
      BY TimesSteps
  <1> QED  BY <1>2, <1>3, Inductive, PTL DEF Spec, NeverGoBack

-----------------------------------------------------------------------------
(* What the marks of the rolling log and of NVD cover *)

Events == [time : Nat, id : Nat]
Windows == Int \X Int

-----------------------------------------------------------------------------
(* Least and greatest members of finite sets *)

\* A finite set in strict total order has a first element.
LEMMA FirstInOrder ==
    ASSUME NEW S, IsFiniteSet(S), S # {}, NEW R,
           \A x \in S : <<x, x>> \notin R,
           \A x, y \in S : x # y => <<x, y>> \in R \/ <<y, x>> \in R,
           \A x, y, z \in S : <<x, y>> \in R /\ <<y, z>> \in R => <<x, z>> \in R
    PROVE  \E x \in S : \A y \in S \ {x} : <<x, y>> \in R
  <1> DEFINE UpTill(x) == {y \in S : y = x \/ <<y, x>> \in R}
             Cuts == {UpTill(x) : x \in S}
  <1>1. Cuts \subseteq FiniteSubsetsOf(S) /\ Cuts # {}
    <2>1. ASSUME NEW x \in S PROVE UpTill(x) \in SUBSET S /\ IsFiniteSet(UpTill(x))
        BY FS_Subset, UpTill(x) \subseteq S
    <2> HIDE DEF UpTill
    <2> QED  BY <2>1 DEF FiniteSubsetsOf
  <1>2. PICK cut \in Cuts : \A other \in Cuts : ~(<<other, cut>> \in StrictSubsetOrdering(S))
    <2> HIDE DEF Cuts
    <2> QED  BY <1>1, FS_StrictSubsetOrderingWellFounded, WFMin
  <1>3. PICK x \in S : cut = UpTill(x)
      OBVIOUS
  <1>4. ASSUME NEW y \in S \ {x}, <<y, x>> \in R PROVE FALSE
    <2>1. UpTill(y) \in Cuts /\ UpTill(y) \in SUBSET S /\ cut \in SUBSET S
        BY <1>3
    <2>2. UpTill(y) \subseteq cut
        BY <1>3, <1>4
    <2>3. x \in cut /\ x \notin UpTill(y)
      <3>1. <<x, y>> \notin R  BY <1>4
      <3> QED  BY <1>3, <3>1
    <2>4. <<UpTill(y), cut>> \in StrictSubsetOrdering(S)
      <3> HIDE DEF UpTill
      <3> QED  BY <2>1, <2>2, <2>3 DEF StrictSubsetOrdering
    <2> QED  BY <1>2, <2>1, <2>4
  <1> QED  BY <1>4

\* Min and Max of integers.
LEMMA LeastInteger ==
    ASSUME NEW S, S \subseteq Int, S # {}, IsFiniteSet(S)
    PROVE  Min(S) \in S /\ \A y \in S : Min(S) <= y
  <1> DEFINE R == {z \in Int \X Int : z[1] < z[2]}
  <1>1. \A x, y \in Int : <<x, y>> \in R <=> x < y
      OBVIOUS
  <1> HIDE DEF R
  <1>2. \E x \in S : \A y \in S \ {x} : <<x, y>> \in R
    <2>1. \A x \in S : <<x, x>> \notin R  BY <1>1
    <2>2. \A x, y \in S : x # y => <<x, y>> \in R \/ <<y, x>> \in R
      <3> TAKE x, y \in S
      <3>1. x \in Int /\ y \in Int  OBVIOUS
      <3> QED  BY <1>1, <3>1
    <2>3. \A x, y, z \in S : <<x, y>> \in R /\ <<y, z>> \in R => <<x, z>> \in R
      <3> TAKE x, y, z \in S
      <3>1. x \in Int /\ y \in Int /\ z \in Int  OBVIOUS
      <3> QED  BY <1>1, <3>1
    <2> QED  BY <2>1, <2>2, <2>3, FirstInOrder
  <1>3. \E x \in S : \A y \in S : x <= y
    <2>1. PICK x \in S : \A y \in S \ {x} : <<x, y>> \in R  BY <1>2
    <2>2. ASSUME NEW y \in S PROVE x <= y
      <3>1. x \in Int /\ y \in Int  OBVIOUS
      <3>2. x = y \/ <<x, y>> \in R  BY <2>1
      <3> QED  BY <1>1, <3>1, <3>2
    <2> QED  BY <2>2
  <1> QED  BY <1>3 DEF Min

LEMMA GreatestInteger ==
    ASSUME NEW S, S \subseteq Int, S # {}, IsFiniteSet(S)
    PROVE  Max(S) \in S /\ \A y \in S : y <= Max(S)
  <1> DEFINE R == {z \in Int \X Int : z[1] > z[2]}
  <1>1. \A x, y \in Int : <<x, y>> \in R <=> x > y
      OBVIOUS
  <1> HIDE DEF R
  <1>2. \E x \in S : \A y \in S \ {x} : <<x, y>> \in R
    <2>1. \A x \in S : <<x, x>> \notin R  BY <1>1
    <2>2. \A x, y \in S : x # y => <<x, y>> \in R \/ <<y, x>> \in R
      <3> TAKE x, y \in S
      <3>1. x \in Int /\ y \in Int  OBVIOUS
      <3> QED  BY <1>1, <3>1
    <2>3. \A x, y, z \in S : <<x, y>> \in R /\ <<y, z>> \in R => <<x, z>> \in R
      <3> TAKE x, y, z \in S
      <3>1. x \in Int /\ y \in Int /\ z \in Int  OBVIOUS
      <3> QED  BY <1>1, <3>1
    <2> QED  BY <2>1, <2>2, <2>3, FirstInOrder
  <1>3. \E x \in S : \A y \in S : y <= x
    <2>1. PICK x \in S : \A y \in S \ {x} : <<x, y>> \in R  BY <1>2
    <2>2. ASSUME NEW y \in S PROVE y <= x
      <3>1. x \in Int /\ y \in Int  OBVIOUS
      <3>2. x = y \/ <<x, y>> \in R  BY <2>1
      <3> QED  BY <1>1, <3>1, <3>2
    <2> QED  BY <2>2
  <1> QED  BY <1>3 DEF Max

\* Events are ordered by time, and by identifier at the same time.
LEMMA EventOrder ==
    /\ \A e, f \in Events : e # f => Before(e, f) \/ Before(f, e)
    /\ \A e, f \in Events : Before(e, f) => ~Before(f, e) /\ e # f
    /\ \A e, f, g \in Events : Before(e, f) /\ Before(f, g) => Before(e, g)
  <1>1. ASSUME NEW e \in Events, NEW f \in Events, e # f PROVE Before(e, f) \/ Before(f, e)
    <2>1. e.time # f.time \/ e.id # f.id  BY <1>1 DEF Events
    <2> QED  BY <2>1 DEF Events, Before
  <1>2. \A e, f \in Events : Before(e, f) => ~Before(f, e) /\ e # f
      BY DEF Events, Before
  <1>3. \A e, f, g \in Events : Before(e, f) /\ Before(f, g) => Before(e, g)
      BY DEF Events, Before
  <1> QED  BY <1>1, <1>2, <1>3

LEMMA EarliestEvent ==
    ASSUME NEW S, S \subseteq Events, S # {}, IsFiniteSet(S)
    PROVE  Earliest(S) \in S /\ \A f \in S \ {Earliest(S)} : Before(Earliest(S), f)
  <1> DEFINE R == {z \in Events \X Events : Before(z[1], z[2])}
  <1>1. \A x, y \in Events : <<x, y>> \in R <=> Before(x, y)
      OBVIOUS
  <1> HIDE DEF R
  <1>2. \E x \in S : \A y \in S \ {x} : <<x, y>> \in R
    <2>1. \A x \in S : <<x, x>> \notin R  BY <1>1, EventOrder
    <2>2. \A x, y \in S : x # y => <<x, y>> \in R \/ <<y, x>> \in R  BY <1>1, EventOrder
    <2>3. \A x, y, z \in S : <<x, y>> \in R /\ <<y, z>> \in R => <<x, z>> \in R
      <3> TAKE x, y, z \in S
      <3>1. x \in Events /\ y \in Events /\ z \in Events  OBVIOUS
      <3> QED  BY <1>1, <3>1, EventOrder
    <2> QED  BY <2>1, <2>2, <2>3, FirstInOrder
  <1>3. \E x \in S : \A y \in S \ {x} : Before(x, y)
      BY <1>1, <1>2
  <1> QED  BY <1>3 DEF Earliest

LEMMA LastEvent ==
    ASSUME NEW S, S \subseteq Events, S # {}, IsFiniteSet(S)
    PROVE  Last(S) \in S /\ \A f \in S \ {Last(S)} : Before(f, Last(S))
  <1> DEFINE R == {z \in Events \X Events : Before(z[2], z[1])}
  <1>1. \A x, y \in Events : <<x, y>> \in R <=> Before(y, x)
      OBVIOUS
  <1> HIDE DEF R
  <1>2. \E x \in S : \A y \in S \ {x} : <<x, y>> \in R
    <2>1. \A x \in S : <<x, x>> \notin R  BY <1>1, EventOrder
    <2>2. \A x, y \in S : x # y => <<x, y>> \in R \/ <<y, x>> \in R  BY <1>1, EventOrder
    <2>3. \A x, y, z \in S : <<x, y>> \in R /\ <<y, z>> \in R => <<x, z>> \in R
      <3> TAKE x, y, z \in S
      <3>1. x \in Events /\ y \in Events /\ z \in Events  OBVIOUS
      <3> QED  BY <1>1, <3>1, EventOrder
    <2> QED  BY <2>1, <2>2, <2>3, FirstInOrder
  <1>3. \E x \in S : \A y \in S \ {x} : Before(y, x)
      BY <1>1, <1>2
  <1> QED  BY <1>3 DEF Last

\* The times of a log.
LEMMA TimesOfEvents ==
    ASSUME NEW S, S \subseteq Events, S # {}, IsFiniteSet(S)
    PROVE  LET T == {e.time : e \in S}
           IN /\ Min(T) \in Nat /\ Max(T) \in Nat
              /\ \E e \in S : e.time = Min(T)
              /\ \E e \in S : e.time = Max(T)
              /\ \A e \in S : Min(T) <= e.time /\ e.time <= Max(T)
  <1> DEFINE T == {e.time : e \in S}
  <1>1. T \subseteq Nat /\ T # {}  BY DEF Events
  <1>2. IsFiniteSet(T)
    <2> DEFINE f == [e \in S |-> e.time]
    <2>1. f \in Surjection(S, T)  BY DEF Surjection
    <2> QED  BY <2>1, FS_Surjection
  <1> HIDE DEF T
  <1>3. T \subseteq Int  BY <1>1
  <1>4. Min(T) \in T /\ \A t \in T : Min(T) <= t  BY <1>1, <1>2, <1>3, LeastInteger
  <1>5. Max(T) \in T /\ \A t \in T : t <= Max(T)  BY <1>1, <1>2, <1>3, GreatestInteger
  <1> QED  BY <1>1, <1>4, <1>5 DEF T

\* The item a batch takes next.
LEMMA NextItem ==
    ASSUME NEW S, S # {}, IsFiniteSet(S), \A e \in S : e.a \in Int
    PROVE  LET e == CHOOSE e \in S : \A f \in S : e.a < f.a \/ e.a = f.a IN e \in S
  <1> DEFINE T == {e.a : e \in S}
  <1>1. T \subseteq Int /\ T # {}  OBVIOUS
  <1>2. IsFiniteSet(T)
    <2> DEFINE f == [e \in S |-> e.a]
    <2>1. f \in Surjection(S, T)  BY DEF Surjection
    <2> QED  BY <2>1, FS_Surjection
  <1>3. Min(T) \in T /\ \A t \in T : Min(T) <= t
      BY <1>1, <1>2, LeastInteger
  <1>4. PICK e \in S : e.a = Min(T)  BY <1>3
  <1>5. \A f \in S : e.a < f.a \/ e.a = f.a
    <2> TAKE f \in S
    <2>1. e.a <= f.a /\ e.a \in Int /\ f.a \in Int  BY <1>3, <1>4
    <2> QED  BY <2>1
  <1> QED  BY <1>5

-----------------------------------------------------------------------------
(* Windows *)

InOrder(w) == w[1] < w[2]

\* Windows one behind the other, none after the end.
Tiling(ws, end) ==
    \A k \in DOMAIN ws :
        /\ InOrder(ws[k]) /\ ws[k][2] <= end
        /\ k + 1 \in DOMAIN ws => ws[k + 1][1] = ws[k][2]

\* How many spans an interval has.
LEMMA SpansOf ==
    ASSUME NEW x \in Nat, NEW s \in Nat \ {0}
    PROVE  LET n == (x + s - 1) \div s
           IN n \in Nat /\ n * s >= x /\ (n - 1) * s < x + (IF x = 0 THEN 1 ELSE 0) /\ (x > 0 => n > 0) /\ (x = 0 => n = 0)
  <1> DEFINE y == x + s - 1
             n == y \div s
             m == y % s
  <1>1. y \in Nat  OBVIOUS
  <1> HIDE DEF y
  <1>2. n \in Nat /\ m \in 0..(s - 1) /\ y = s * n + m  BY <1>1
  <1> HIDE DEF n, m
  <1>3. n * s = s * n /\ (n - 1) * s = s * n - s /\ s * n \in Nat  BY <1>2
  <1>4. n * s >= x  BY <1>2, <1>3 DEF y
  <1>5. x > 0 => n > 0
    <2>1. n = 0 => s * n = 0  OBVIOUS
    <2> QED  BY <1>2, <2>1 DEF y
  <1>6. x = 0 => n = 0
    <2>1. n >= 1 => s * n >= s  BY <1>2
    <2> QED  BY <1>2, <1>3, <2>1 DEF y
  <1>7. (n - 1) * s < x + (IF x = 0 THEN 1 ELSE 0)
    <2>1. x > 0 \/ x = 0  OBVIOUS
    <2> QED  BY <1>2, <1>3, <2>1 DEF y
  <1> QED  BY <1>2, <1>4, <1>5, <1>6, <1>7 DEF n, y

\* An interval is cut into windows that leave no gap.
LEMMA SplitTiles ==
    ASSUME NEW a \in Int, NEW b \in Int, a <= b
    PROVE  /\ Split(a, b) \in Seq(Windows) /\ Tiling(Split(a, b), b)
           /\ a < b => Split(a, b) # <<>> /\ Split(a, b)[1][1] = a
           /\ a = b => Split(a, b) = <<>>
  <1> DEFINE n == (b - a + Span - 1) \div Span
             w(k) == <<a + (k - 1) * Span, Lesser(a + k * Span, b)>>
  <1>1. Span \in Nat \ {0} /\ b - a \in Nat  BY CollectionAssumption
  <1>2. /\ n \in Nat /\ n * Span >= b - a /\ (a < b => n > 0) /\ (a = b => n = 0)
        /\ a < b => (n - 1) * Span < b - a
    <2> DEFINE x == b - a
    <2>1. x \in Nat /\ (a < b <=> x > 0) /\ (a = b <=> x = 0)  BY <1>1
    <2>2. n = (x + Span - 1) \div Span  OBVIOUS
    <2> HIDE DEF x, n
    <2>3. /\ n \in Nat /\ n * Span >= x /\ (n - 1) * Span < x + (IF x = 0 THEN 1 ELSE 0)
          /\ (x > 0 => n > 0) /\ (x = 0 => n = 0)
        BY <1>1, <2>1, <2>2, SpansOf
    <2>4. x > 0 => (n - 1) * Span < x
      <3> SUFFICES ASSUME x > 0 PROVE (n - 1) * Span < x
          OBVIOUS
      <3>1. (IF x = 0 THEN 1 ELSE 0) = 0 /\ x + 0 = x  BY <2>1
      <3> QED  BY <2>3, <3>1
    <2> QED  BY <2>1, <2>3, <2>4 DEF x
  <1> HIDE DEF n
  <1>3. Split(a, b) = [k \in 1..n |-> w(k)]  BY DEF Split, n
  <1>4. ASSUME NEW k \in 1..n
        PROVE  /\ w(k) \in Windows /\ w(k)[1] < w(k)[2] /\ w(k)[2] <= b
               /\ k + 1 <= n => w(k + 1)[1] = w(k)[2]
    <2> DEFINE c == (k - 1) * Span
               d == k * Span
    <2>1. k \in Int /\ Span \in Int /\ c \in Int /\ d \in Int /\ d = c + Span  BY <1>1, <1>2
    <2>2. n >= 1 /\ a < b  BY <1>2
    <2>3. c < b - a
      <3>1. k - 1 <= n - 1 /\ k - 1 \in Nat /\ n - 1 \in Nat  BY <1>2
      <3>2. c <= (n - 1) * Span  BY <1>1, <3>1
      <3>3. (n - 1) * Span \in Int  BY <1>1, <1>2
      <3> QED  BY <1>2, <2>1, <2>2, <3>2, <3>3
    <2>4. k + 1 <= n => a + d < b
      <3> SUFFICES ASSUME k + 1 <= n PROVE a + d < b
          OBVIOUS
      <3>1. k <= n - 1 /\ k \in Nat /\ n - 1 \in Nat  BY <1>2
      <3>2. d <= (n - 1) * Span  BY <1>1, <3>1
      <3>3. (n - 1) * Span \in Int  BY <1>1, <1>2
      <3> QED  BY <1>2, <2>1, <2>2, <3>2, <3>3
    <2>5. (k + 1) - 1 = k  BY <2>1
    <2>6. w(k) = <<a + c, Lesser(a + d, b)>> /\ w(k + 1)[1] = a + d  BY <2>5
    <2> HIDE DEF c, d, w
    <2>7. Lesser(a + d, b) \in Int /\ Lesser(a + d, b) <= b /\ a + c < Lesser(a + d, b)
        BY <1>1, <2>1, <2>3 DEF Lesser
    <2>8. k + 1 <= n => Lesser(a + d, b) = a + d  BY <2>1, <2>4 DEF Lesser
    <2> QED  BY <2>1, <2>6, <2>7, <2>8 DEF Windows
  <1>5. w(1)[1] = a  BY <1>1
  <1> HIDE DEF w
  <1>6. Split(a, b) \in Seq(Windows)  BY <1>2, <1>3, <1>4
  <1>7. Tiling(Split(a, b), b)
    <2> SUFFICES ASSUME NEW k \in 1..n
                 PROVE  w(k)[1] < w(k)[2] /\ w(k)[2] <= b /\ (k + 1 \in 1..n => w(k + 1)[1] = w(k)[2])
        BY <1>3 DEF Tiling, InOrder
    <2> QED  BY <1>4
  <1>8. a < b => Split(a, b) # <<>> /\ Split(a, b)[1][1] = a
      BY <1>2, <1>3, <1>5
  <1>9. a = b => Split(a, b) = <<>>
      BY <1>2, <1>3
  <1> QED  BY <1>6, <1>7, <1>8, <1>9

-----------------------------------------------------------------------------
(* Types, for any number of processes *)

NvdFields == {"kind", "pc", "stream", "windows", "index", "attempt", "left", "mark", "end", "next", "total", "rows"}
DeltaFields == {"kind", "pc", "items", "failed", "attempt", "truncated", "last", "checkpoint", "newest"}
BatchFields == {"kind", "pc", "items", "attempt"}
RowFields == {"source", "tag", "a", "b"}

\* A row of collection_failures, and an item of a batch: one tagged "id" names a record.
RowTyped(row) ==
    /\ DOMAIN row = RowFields /\ row.a \in Int
    /\ row.tag = "id" => row.source \in Sources /\ row.a \in Ids

\* Times no further ahead of t than an --until.
AheadOf(t) == {n \in Nat : n <= t \/ \E d \in Untils : n <= t + d}

NvdTyped(r, t) ==
    /\ DOMAIN r = NvdFields
    /\ r.pc \in {"fetch", "resolve", "cursor", "close"} /\ r.stream \in {"modified", "full"}
    /\ r.windows \in Seq(Windows) /\ r.windows # <<>>
    /\ \A k \in DOMAIN r.windows : r.windows[k][2] <= r.end
    /\ r.left \in Int /\ {r.index, r.next, r.total, r.rows} \subseteq Nat
    /\ {r.mark, r.end} \subseteq AheadOf(t)

DeltaTyped(r, t) ==
    /\ DOMAIN r = DeltaFields
    /\ r.pc \in {"item", "resolve"} /\ {r.failed, r.truncated} \subseteq BOOLEAN
    /\ r.items \subseteq Events /\ IsFiniteSet(r.items) /\ \A e \in r.items : e.id \in Ids
    /\ r.newest \in 0..t /\ r.checkpoint \in Int /\ r.last \in Events
    /\ r.pc = "resolve" => r.items # {}

BatchTyped(r) ==
    /\ DOMAIN r = BatchFields
    /\ IsFiniteSet(r.items) /\ \A row \in r.items : RowTyped(row)

RunTyped(r, t) ==
    /\ r.kind = "nvd" => NvdTyped(r, t)
    /\ r.kind = "delta" => DeltaTyped(r, t)
    /\ r.kind \in {"batch", "collect"} => BatchTyped(r)
    /\ r.kind = "baseline" => r.batch \in Batches

StreamTyped(c, t) ==
    /\ DOMAIN c = {"window", "next", "mark"}
    /\ c.window = NoWindow \/ c.window \in Windows
    /\ c.next \in Nat /\ c.mark \in AheadOf(t)

DeltaCursorTyped(c, t) ==
    DOMAIN c = {"mark", "scan", "after"} /\ c.mark \in 0..t /\ c.scan \in Int /\ c.after \in Events

LogTyped ==
    /\ IsFiniteSet(log) /\ log # {} /\ log \subseteq Events
    /\ \A e \in log : e.time \in 1..now /\ e.id \in Ids

CallTyped(call) == call.batch \in Batches /\ call.source \in Sources
FailuresTyped == IsFiniteSet(failures) /\ \A row \in failures : RowTyped(row)
CursorTyped(t) ==
    StreamTyped(cursor["modified"], t) /\ StreamTyped(cursor["full"], t) /\ DeltaCursorTyped(cursor.delta, t)

\* The inductive invariant behind CollectionTypeOK, beside BInv.
CTInv ==
    /\ latest \in [Sources -> [Ids -> Snapshots]]
    /\ now \in FirstTime..MaxTime
    /\ official \in [Sources -> [Ids -> 1..now]]
    /\ LogTyped /\ FailuresTyped /\ CursorTyped(now)
    /\ \A p \in Procs : CallTyped(saving[p]) /\ RunTyped(run[p], now)
    /\ uses \in Uses /\ events \in 0..uses.events /\ kills \in 0..MaxKills
    /\ DOMAIN excused = Sources

\* Types hold at later times.
LEMMA LaterTyped ==
    ASSUME NEW r, NEW t \in Int, NEW u \in Int, t <= u
    PROVE  /\ RunTyped(r, t) => RunTyped(r, u)
           /\ StreamTyped(r, t) => StreamTyped(r, u)
           /\ DeltaCursorTyped(r, t) => DeltaCursorTyped(r, u)
  <1>0. \A x : x \in 0..t => x \in 0..u  OBVIOUS
  <1>1. \A x : x \in AheadOf(t) => x \in AheadOf(u)
    <2>1. \A d \in Untils : d \in Int  BY CollectionAssumption
    <2>2. ASSUME NEW n \in Nat, NEW d \in Untils, n <= t + d PROVE n <= u + d  BY <2>1, <2>2
    <2>3. ASSUME NEW n \in Nat, n <= t PROVE n <= u  BY <2>3
    <2> QED  BY <2>2, <2>3 DEF AheadOf
  <1>2. NvdTyped(r, t) => NvdTyped(r, u)  BY <1>1 DEF NvdTyped
  <1>3. DeltaTyped(r, t) => DeltaTyped(r, u)  BY <1>0 DEF DeltaTyped
  <1>4. StreamTyped(r, t) => StreamTyped(r, u)
      BY <1>1 DEF StreamTyped
  <1>5. DeltaCursorTyped(r, t) => DeltaCursorTyped(r, u)  BY <1>0 DEF DeltaCursorTyped
  <1> QED  BY <1>2, <1>3, <1>4, <1>5 DEF RunTyped

\* Constants in use.
LEMMA Bounds ==
    /\ {Overlap, Lookback, MaxKills, FirstTime, FirstLogged, MaxTime} \subseteq Nat
    /\ FirstTime > FirstLogged - 1 /\ FirstLogged > 0 /\ FirstTime <= MaxTime
    /\ "nvd" \in Sources /\ "cve" \in Sources /\ "avd" \in Sources
    /\ Ids \subseteq Nat \ {0} /\ IsFiniteSet(Ids) /\ Ids # {}
  BY CollectionAssumption, StoreAssumption DEF FirstTime, FirstLogged

\* Calls of records the sources have, and the call of none.
LEMMA TypedCall ==
    ASSUME NEW s \in Sources, NEW batch \in Batches
    PROVE  CallTyped(Call(s, batch)) /\ CallTyped(NoCall)
  <1>1. EmptyBatch \in Batches  BY DEF EmptyBatch, Batches
  <1>2. NoCall.source \in Sources  BY DEF NoCall
  <1>3. CallTyped(NoCall)  BY <1>1, <1>2 DEF CallTyped, NoCall
  <1> QED  BY <1>3 DEF Call, CallTyped

LEMMA NoCallTyped == CallTyped(NoCall) /\ EmptyBatch \in Batches
  <1>1. EmptyBatch \in Batches  BY DEF EmptyBatch, Batches
  <1> QED  BY <1>1, Bounds, TypedCall

\* Members of Batches.
LEMMA InBatches ==
    ASSUME NEW D \in SUBSET Ids, NEW f \in [D -> Snapshots]
    PROVE  f \in Batches
  BY DEF Batches

LEMMA OfBatches ==
    ASSUME NEW f \in Batches
    PROVE  DOMAIN f \in SUBSET Ids /\ f \in [DOMAIN f -> Snapshots]
  BY DEF Batches

\* What the sources answer is a snapshot.
LEMMA TypedVersion ==
    ASSUME CTInv, NEW s \in Sources, NEW i \in Ids
    PROVE  Version(s, i) \in Snapshots /\ Answers(s, i) \subseteq Snapshots
  <1>1. official[s][i] \in 0..MaxTime /\ NoTime \in 0..MaxTime
      BY Bounds DEF CTInv, NoTime
  <1> QED  BY <1>1 DEF Version, Answers, Snapshots

\* A step of a command, once its own state is shown.
LEMMA TypedStep ==
    ASSUME BInv, CTInv, NEW p \in Procs, UNCHANGED <<now, official, log, uses, kills>>,
           events' \in 0..uses.events, DOMAIN excused' = Sources,
           latest' \in [Sources -> [Ids -> Snapshots]], FailuresTyped', CursorTyped(now)',
           CallTyped(saving'[p]), RunTyped(run'[p], now),
           \A q \in Procs \ {p} : saving'[q] = saving[q] /\ run'[q] = run[q]
    PROVE  CTInv'
  <1>1. \A q \in Procs : CallTyped(saving'[q]) /\ RunTyped(run'[q], now)
      BY DEF CTInv
  <1>2. LogTyped'  BY DEF CTInv, LogTyped
  <1> QED  BY <1>1, <1>2 DEF CTInv

\* A command is given.
LEMMA GivenTyped ==
    ASSUME BInv, CTInv, NEW p \in Procs, NEW command, Give(p, command), UNCHANGED cursor,
           DOMAIN excused' = Sources, RunTyped(command, now)
    PROVE  CTInv'
  <1>1. /\ UNCHANGED <<latest, failures, saving, now, official, log, uses, kills>> /\ run'[p] = command
        /\ \A q \in Procs \ {p} : run'[q] = run[q]
      BY DEF Give, storeVars, world, BInv
  <1>2. events' \in 0..uses.events
    <2>1. events < uses.events /\ events' = events + 1 /\ uses.events \in Nat /\ events \in 0..uses.events
        BY CollectionAssumption DEF Give, CTInv
    <2> QED  BY <2>1
  <1>3. FailuresTyped' /\ CursorTyped(now)' /\ CallTyped(saving'[p])
      BY <1>1 DEF CTInv, FailuresTyped, CursorTyped
  <1>4. latest' \in [Sources -> [Ids -> Snapshots]]  BY <1>1 DEF CTInv
  <1> QED  BY <1>1, <1>2, <1>3, <1>4, TypedStep

\* The windows of a resumed run.
LEMMA ResumedWindows ==
    ASSUME NEW w \in Windows, NEW b \in Int, w[2] <= b
    PROVE  LET ws == <<w>> \o Split(w[2], b)
           IN /\ ws \in Seq(Windows) /\ ws # <<>> /\ ws[1] = w
              /\ \A k \in DOMAIN ws : ws[k][2] <= b
              /\ InOrder(w) => Tiling(ws, b)
  <1> DEFINE a == w[2]
             s == Split(a, b)
             ws == <<w>> \o s
  <1>1. a \in Int /\ a <= b  BY DEF Windows
  <1>2. /\ s \in Seq(Windows) /\ Tiling(s, b)
        /\ a < b => s # <<>> /\ s[1][1] = a
        /\ a = b => s = <<>>
      BY <1>1, SplitTiles
  <1> HIDE DEF s, a
  <1>3. /\ ws \in Seq(Windows) /\ Len(ws) = 1 + Len(s) /\ Len(s) \in Nat /\ DOMAIN ws = 1..(1 + Len(s))
        /\ DOMAIN s = 1..Len(s) /\ ws[1] = w /\ \A k \in 1..Len(s) : ws[k + 1] = s[k]
      BY <1>2
  <1>4. s # <<>> => s[1][1] = a  BY <1>1, <1>2
  <1> HIDE DEF ws
  <1>5. \A k \in DOMAIN ws : k = 1 \/ (k - 1 \in 1..Len(s) /\ ws[k] = s[k - 1])
      BY <1>3
  <1>6. \A k \in DOMAIN ws : ws[k][2] <= b
      BY <1>1, <1>2, <1>3, <1>5 DEF Tiling, a
  <1>7. ASSUME InOrder(w), NEW k \in DOMAIN ws
        PROVE  InOrder(ws[k]) /\ (k + 1 \in DOMAIN ws => ws[k + 1][1] = ws[k][2])
    <2>1. CASE k = 1
      <3>1. k + 1 \in DOMAIN ws => 1 \in 1..Len(s) /\ ws[k + 1] = s[1] /\ s # <<>>  BY <1>2, <1>3, <2>1
      <3> QED  BY <1>3, <1>4, <1>7, <2>1, <3>1 DEF a
    <2>2. CASE k # 1
      <3>1. k - 1 \in DOMAIN s /\ ws[k] = s[k - 1]  BY <1>3, <1>5, <2>2
      <3>2. k + 1 \in DOMAIN ws => (k - 1) + 1 \in DOMAIN s /\ ws[k + 1] = s[(k - 1) + 1]
          BY <1>3, <3>1
      <3> QED  BY <1>2, <3>1, <3>2 DEF Tiling
    <2> QED  BY <2>1, <2>2
  <1>8. InOrder(w) => Tiling(ws, b)  BY <1>6, <1>7 DEF Tiling
  <1>9. ws # <<>>  BY <1>3
  <1> QED  BY <1>3, <1>6, <1>8, <1>9 DEF ws, s, a

\* What an operator may give.
LEMMA InputsTyped ==
    ASSUME CTInv
    PROVE  now \in Nat /\ Starts \subseteq Int /\ Ends \subseteq AheadOf(now) /\ Limits \subseteq Nat
  <1>1. now \in Nat /\ Lookback + Overlap < now /\ Lookback + Overlap \in Nat
      BY CollectionAssumption DEF CTInv, FirstTime
  <1>2. Sinces \subseteq Int /\ Untils \subseteq Int /\ Limits \subseteq Nat  BY CollectionAssumption
  <1>3. \A d \in Sinces : now + d \in Int  BY <1>1, <1>2
  <1>4. ASSUME NEW d \in Untils PROVE now + d \in AheadOf(now)
    <2>1. d \in Int /\ d >= -(Lookback + Overlap)  BY CollectionAssumption
    <2>2. now + d \in Nat  BY <1>1, <2>1
    <2> QED  BY <2>1, <2>2 DEF AheadOf
  <1>5. now \in AheadOf(now)  BY <1>1 DEF AheadOf
  <1> QED  BY <1>1, <1>2, <1>3, <1>4, <1>5 DEF Starts, Ends, NoTime

\* sync_nvd starts with windows that end by its end.
LEMMA StartNvdTyped ==
    ASSUME BInv, CTInv, NEW p \in Procs, NEW full \in BOOLEAN, NEW since \in Starts,
           NEW end \in Ends, NEW limit \in Limits, StartNvd(p, full, since, end, limit)
    PROVE  CTInv'
  <1> DEFINE stream == NvdStream(full)
             saved == cursor[stream]
             resumed == ~full /\ since = NoTime /\ saved.window # NoWindow
             start == IF resumed THEN saved.window[2] ELSE NvdStart(since, saved.mark, end)
             windows == IF full THEN <<Everything>>
                        ELSE (IF resumed THEN <<saved.window>> ELSE <<>>) \o Split(start, end)
             index == IF saved.window = windows[1] THEN saved.next ELSE 0
             command == [kind |-> "nvd", pc |-> "fetch", stream |-> stream, windows |-> windows,
                         index |-> index, attempt |-> 1, left |-> limit, mark |-> saved.mark, end |-> end,
                         next |-> 0, total |-> 0, rows |-> 0]
  <1>1. /\ full \/ (IF resumed THEN start <= end ELSE start < end)
        /\ Give(p, command) /\ UNCHANGED cursor /\ DOMAIN excused' = DOMAIN excused
      BY DEF StartNvd
  <1>2. end \in AheadOf(now) /\ end \in Nat /\ limit \in Nat
      BY InputsTyped DEF AheadOf
  <1>3. stream \in {"modified", "full"} /\ StreamTyped(saved, now)
      BY DEF NvdStream, CTInv, CursorTyped
  <1>4. start \in Int
    <2>1. since \in Int  BY InputsTyped
    <2>2. resumed => start \in Int  BY <1>3 DEF StreamTyped, Windows
    <2>3. NvdStart(since, saved.mark, end) \in Int
        BY <1>2, <1>3, <2>1, Bounds DEF NvdStart, StreamTyped, AheadOf
    <2> QED  BY <2>2, <2>3
  <1>5. /\ windows \in Seq(Windows) /\ windows # <<>>
        /\ \A k \in DOMAIN windows : windows[k][2] <= end
    <2>1. CASE full
      <3>1. windows = <<Everything>>  BY <2>1
      <3> HIDE DEF windows
      <3>2. Everything \in Windows /\ Everything[2] <= end  BY <1>2 DEF Everything, NoTime, Windows
      <3>3. DOMAIN windows = {1} /\ windows[1] = Everything  BY <3>1
      <3> QED  BY <3>1, <3>2, <3>3
    <2>2. CASE ~full /\ resumed
      <3>1. windows = <<saved.window>> \o Split(saved.window[2], end)  BY <2>2
      <3>2. saved.window \in Windows /\ saved.window[2] <= end /\ end \in Int
          BY <1>1, <1>2, <1>3, <2>2 DEF StreamTyped
      <3> HIDE DEF windows
      <3> QED  BY <3>1, <3>2, ResumedWindows
    <2>3. CASE ~full /\ ~resumed
      <3>1. windows = <<>> \o Split(start, end)  BY <2>3
      <3>4. start < end  BY <1>1, <2>3
      <3>5. end \in Int  BY <1>2
      <3>6. start \in Int /\ start <= end  BY <1>4, <3>4, <3>5
      <3> HIDE DEF start, windows, resumed
      <3>2. Split(start, end) \in Seq(Windows) /\ Tiling(Split(start, end), end) /\ Split(start, end) # <<>>
          BY <3>4, <3>5, <3>6, SplitTiles
      <3>3. windows = Split(start, end)  BY <3>1, <3>2
      <3> QED  BY <3>2, <3>3 DEF Tiling
    <2> QED  BY <2>1, <2>2, <2>3
  <1>6. index \in Nat  BY <1>3 DEF StreamTyped
  <1>7. saved.mark \in AheadOf(now)  BY <1>3 DEF StreamTyped
  <1> HIDE DEF stream, saved, windows, index, start
  <1>8. RunTyped(command, now)
    <2>1. NvdTyped(command, now)
        BY <1>2, <1>3, <1>5, <1>6, <1>7 DEF NvdTyped, NvdFields
    <2> QED  BY <2>1 DEF RunTyped
  <1> HIDE DEF command
  <1>9. DOMAIN excused' = Sources  BY <1>1 DEF CTInv
  <1> QED  BY <1>1, <1>8, <1>9, GivenTyped

\* What a scan starts from: the bounds of the log, and events in it.
LEMMA ScanTyped ==
    ASSUME CTInv, NEW start, NEW found \in SUBSET Discovered(start)
    PROVE  /\ found \subseteq Events /\ IsFiniteSet(found) /\ \A e \in found : e.id \in Ids
           /\ found # {} => Last(found) \in found /\ \A e \in found \ {Last(found)} : Before(e, Last(found))
  <1>1. found \in SUBSET log  BY DEF Discovered
  <1>2. found \subseteq Events /\ IsFiniteSet(found) /\ \A e \in found : e.id \in Ids
      BY <1>1, FS_Subset DEF CTInv, LogTyped
  <1> QED  BY <1>2, LastEvent

LEMMA LogBounds ==
    ASSUME CTInv
    PROVE  LET oldest == Min({e.time : e \in log})
               newest == Max({e.time : e \in log})
           IN /\ oldest \in 1..now /\ newest \in 1..now
              /\ \E e \in log : e.time = oldest
              /\ \E e \in log : e.time = newest
              /\ \A e \in log : oldest <= e.time /\ e.time <= newest
  BY TimesOfEvents DEF CTInv, LogTyped

LEMMA StartDeltaTyped ==
    ASSUME BInv, CTInv, NEW p \in Procs, NEW since \in Starts, NEW limit \in Limits, StartDelta(p, since, limit)
    PROVE  CTInv'
  <1> DEFINE saved == cursor.delta
             asked == CASE since # NoTime -> since
                        [] since = NoTime /\ saved.scan # NoTime -> saved.scan
                        [] OTHER -> saved.mark
             newest == Max({e.time : e \in log})
             checkpoint == IF asked # NoTime THEN asked ELSE newest - Lookback
             after == IF since = NoTime THEN saved.after ELSE NoEvent
             found == {e \in Discovered(checkpoint - Overlap) : after = NoEvent \/ Before(after, e)}
             items == {e \in found : Cardinality({f \in found : Before(f, e)}) < limit}
             command == [kind |-> "delta", pc |-> "item", items |-> items, failed |-> FALSE, attempt |-> 1,
                         truncated |-> items # found, last |-> IF items = {} THEN NoEvent ELSE Last(items),
                         checkpoint |-> checkpoint, newest |-> newest]
  <1>1. Give(p, command) /\ UNCHANGED cursor /\ DOMAIN excused' = DOMAIN excused
      BY DEF StartDelta
  <1>2. newest \in 0..now  BY LogBounds
  <1>3. asked \in Int
    <2>1. since \in Int  BY InputsTyped
    <2> QED  BY <2>1 DEF CTInv, CursorTyped, DeltaCursorTyped
  <1>4. checkpoint \in Int
      BY <1>2, <1>3, Bounds
  <1>5. items \in SUBSET Discovered(checkpoint - Overlap)  OBVIOUS
  <1> HIDE DEF items, checkpoint, newest
  <1>6. /\ items \subseteq Events /\ IsFiniteSet(items) /\ \A e \in items : e.id \in Ids
        /\ items # {} => Last(items) \in items
      BY <1>5, ScanTyped
  <1>7. NoEvent \in Events  BY DEF NoEvent, Events, NoTime, NoRecord
  <1> HIDE DEF found
  <1>8. RunTyped(command, now)
    <2>1. DeltaTyped(command, now)
        BY <1>2, <1>4, <1>6, <1>7 DEF DeltaTyped, DeltaFields
    <2> QED  BY <2>1 DEF RunTyped
  <1> HIDE DEF command
  <1>9. DOMAIN excused' = Sources  BY <1>1 DEF CTInv
  <1> QED  BY <1>1, <1>8, <1>9, GivenTyped

\* The rows of records.
LEMMA IdRowTyped ==
    ASSUME NEW s \in Sources, NEW i \in Ids
    PROVE  RowTyped(IdRow(s, i))
  BY Bounds DEF IdRow, Row, RowTyped, RowFields

LEMMA StartTyped ==
    ASSUME BInv, CTInv, NEW p \in Procs, Start(p)
    PROVE  CTInv'
  <1>1. ASSUME NEW since \in Starts, NEW end \in Ends, NEW limit \in Limits,
               StartNvd(p, FALSE, since, end, limit)
        PROVE CTInv'
      BY <1>1, StartNvdTyped
  <1>2. ASSUME NEW end \in Ends, NEW limit \in Limits, StartNvd(p, TRUE, NoTime, end, limit) PROVE CTInv'
      BY <1>2, StartNvdTyped DEF Starts
  <1>3. ASSUME NEW since \in Starts, NEW limit \in Limits, StartDelta(p, since, limit) PROVE CTInv'
      BY <1>3, StartDeltaTyped
  <1>4. ASSUME NEW limit \in Limits, StartBaseline(p, limit) PROVE CTInv'
    <2> DEFINE after == IF cursor.baseline.complete THEN NoRecord ELSE cursor.baseline.after
               command == [kind |-> "baseline", pc |-> "file", files |-> {i \in Ids : i > after},
                           batch |-> EmptyBatch, left |-> limit, last |-> NoRecord, failed |-> FALSE,
                           after |-> after]
    <2>1. Give(p, command) /\ UNCHANGED <<cursor, excused>>  BY <1>4 DEF StartBaseline
    <2>2. RunTyped(command, now)  BY NoCallTyped DEF RunTyped
    <2>3. DOMAIN excused' = Sources  BY <2>1 DEF CTInv
    <2> HIDE DEF command
    <2> QED  BY <2>1, <2>2, <2>3, GivenTyped
  <1>5. ASSUME NEW s \in Sources, NEW ids \in SUBSET Ids, StartBatch(p, s, ids) PROVE CTInv'
    <2> DEFINE items == {IdRow(s, i) : i \in ids}
               command == [kind |-> "batch", pc |-> "item", items |-> items, attempt |-> 1]
    <2>1. Give(p, command) /\ UNCHANGED <<cursor, excused>>  BY <1>5 DEF StartBatch
    <2>2. IsFiniteSet(items)
      <3> DEFINE f == [i \in ids |-> IdRow(s, i)]
      <3>1. f \in Surjection(ids, items)  BY DEF Surjection
      <3>2. IsFiniteSet(ids)  BY Bounds, FS_Subset
      <3> QED  BY <3>1, <3>2, FS_Surjection
    <2>3. \A row \in items : RowTyped(row)  BY IdRowTyped
    <2> HIDE DEF items
    <2>4. RunTyped(command, now)  BY <2>2, <2>3 DEF RunTyped, BatchTyped, BatchFields
    <2>5. DOMAIN excused' = Sources  BY <2>1 DEF CTInv
    <2> HIDE DEF command
    <2> QED  BY <2>1, <2>4, <2>5, GivenTyped
  <1>6. ASSUME NEW s \in Sources, NEW i \in Ids, StartCollect(p, s, i) PROVE CTInv'
    <2> DEFINE command == [kind |-> "collect", pc |-> "item", items |-> {IdRow(s, i)}, attempt |-> 1]
    <2>1. Give(p, command) /\ UNCHANGED <<cursor, excused>>  BY <1>6 DEF StartCollect
    <2>2. RunTyped(command, now)
        BY IdRowTyped, FS_Singleton DEF RunTyped, BatchTyped, BatchFields
    <2>3. DOMAIN excused' = Sources  BY <2>1 DEF CTInv
    <2> HIDE DEF command
    <2> QED  BY <2>1, <2>2, <2>3, GivenTyped
  <1>7. CASE StartRetry(p)
    <2> DEFINE rows == {r \in failures : r.tag # "file"}
               command == [kind |-> "batch", pc |-> "item", items |-> rows, attempt |-> 1]
    <2>1. Give(p, command) /\ UNCHANGED <<cursor, excused>>  BY <1>7 DEF StartRetry
    <2>2. IsFiniteSet(rows) /\ \A row \in rows : RowTyped(row)
        BY FS_Subset DEF CTInv, FailuresTyped
    <2> HIDE DEF rows
    <2>3. RunTyped(command, now)  BY <2>2 DEF RunTyped, BatchTyped, BatchFields
    <2>4. DOMAIN excused' = Sources  BY <2>1 DEF CTInv
    <2> HIDE DEF command
    <2> QED  BY <2>1, <2>3, <2>4, GivenTyped
  <1> QED  BY <1>1, <1>2, <1>3, <1>4, <1>5, <1>6, <1>7 DEF Start

\* Rows that are opened and closed.
LEMMA FailuresStay ==
    ASSUME FailuresTyped, NEW row
    PROVE  /\ OpenFailure(row) /\ RowTyped(row) => FailuresTyped'
           /\ CloseFailure(row) => FailuresTyped'
           /\ UNCHANGED failures => FailuresTyped'
  <1>1. IsFiniteSet(failures \cup {row}) /\ IsFiniteSet(failures \ {row})
      BY FS_AddElement, FS_RemoveElement DEF FailuresTyped
  <1> QED  BY <1>1 DEF FailuresTyped, OpenFailure, CloseFailure

\* The current item of a delta scan or of a batch.
LEMMA ItemTyped ==
    ASSUME NEW r, NEW t, RunTyped(r, t), r.kind \in {"delta", "batch", "collect"}, r.items # {}
    PROVE  /\ Item(r) \in r.items /\ RowTyped(ItemRow(r)) /\ RowTyped(Upper(ItemRow(r)))
           /\ r.kind = "delta" => Item(r) = Earliest(r.items) /\ ItemRow(r) = IdRow("cve", Item(r).id)
  <1>1. CASE r.kind = "delta"
    <2>1. Item(r) = Earliest(r.items) /\ ItemRow(r) = IdRow("cve", Item(r).id)  BY <1>1 DEF Item, ItemRow
    <2>2. Earliest(r.items) \in r.items  BY <1>1, EarliestEvent DEF RunTyped, DeltaTyped
    <2>3. RowTyped(ItemRow(r))  BY <1>1, <2>1, <2>2, IdRowTyped, Bounds DEF RunTyped, DeltaTyped
    <2>4. Upper(ItemRow(r)) = ItemRow(r)  BY <2>1 DEF Upper, IdRow, Row
    <2> QED  BY <2>1, <2>2, <2>3, <2>4
  <1>2. CASE r.kind # "delta"
    <2>1. BatchTyped(r)  BY <1>2 DEF RunTyped
    <2>2. Item(r) \in r.items
      <3>1. \A e \in r.items : e.a \in Int  BY <2>1 DEF BatchTyped, RowTyped
      <3>2. IsFiniteSet(r.items)  BY <2>1 DEF BatchTyped
      <3> QED  BY <1>2, <3>1, <3>2, NextItem DEF Item
    <2>3. RowTyped(ItemRow(r))  BY <1>2, <2>1, <2>2 DEF BatchTyped, ItemRow
    <2> DEFINE row == ItemRow(r)
    <2> HIDE DEF row
    <2>4. RowTyped(Upper(row))
        BY <2>3 DEF Upper, RowTyped, RowFields, row
    <2> QED  BY <1>2, <2>2, <2>3, <2>4 DEF row
  <1> QED  BY <1>1, <1>2

\* Steps that touch one process and the store only.
LEMMA TypedRun ==
    ASSUME BInv, CTInv, NEW p \in Procs, quiet' = quiet, UNCHANGED <<latest, cursor>>, FailuresTyped',
           CallTyped(saving'[p]), RunTyped(run'[p], now),
           \A q \in Procs \ {p} : saving'[q] = saving[q] /\ run'[q] = run[q]
    PROVE  CTInv'
  <1>1. /\ UNCHANGED <<now, official, log, uses, kills>>
        /\ events' \in 0..uses.events /\ DOMAIN excused' = Sources
        /\ latest' \in [Sources -> [Ids -> Snapshots]] /\ CursorTyped(now)'
      BY DEF quiet, world, counts, CTInv, CursorTyped
  <1> QED  BY <1>1, TypedStep

LEMMA TypedCursor ==
    ASSUME BInv, CTInv, NEW p \in Procs, quiet' = quiet, storeVars' = storeVars, CursorTyped(now)',
           RunTyped(run'[p], now), \A q \in Procs \ {p} : run'[q] = run[q]
    PROVE  CTInv'
  <1>1. /\ UNCHANGED <<now, official, log, uses, kills>>
        /\ events' \in 0..uses.events /\ DOMAIN excused' = Sources
        /\ latest' \in [Sources -> [Ids -> Snapshots]] /\ FailuresTyped'
        /\ CallTyped(saving'[p]) /\ \A q \in Procs \ {p} : saving'[q] = saving[q]
      BY DEF quiet, world, counts, storeVars, CTInv, FailuresTyped
  <1> QED  BY <1>1, TypedStep

\* What is left of a command that ended.
LEMMA EndedTyped == RunTyped(NoRun, now)
  BY DEF RunTyped, NoRun

\* A command that ends, whatever becomes of its row.
LEMMA FinishTyped ==
    ASSUME BInv, CTInv, NEW p \in Procs, Finish(p), quiet' = quiet, UNCHANGED <<latest, saving, cursor>>,
           FailuresTyped'
    PROVE  CTInv'
  <1>1. run'[p] = NoRun /\ \A q \in Procs \ {p} : run'[q] = run[q]  BY DEF Finish, BInv
  <1>2. CallTyped(saving'[p])  BY DEF CTInv
  <1> QED  BY <1>1, <1>2, EndedTyped, TypedRun

\* A command goes on, with another row.
LEMMA GoesOnTyped ==
    ASSUME BInv, CTInv, NEW p \in Procs, quiet' = quiet, UNCHANGED <<latest, saving, cursor>>,
           FailuresTyped', NEW r, run' = [run EXCEPT ![p] = r], RunTyped(r, now)
    PROVE  CTInv'
  <1>1. run'[p] = r /\ \A q \in Procs \ {p} : run'[q] = run[q]  BY DEF BInv
  <1>2. CallTyped(saving'[p])  BY DEF CTInv
  <1> QED  BY <1>1, <1>2, TypedRun

\* The cursors of streams.
LEMMA StreamsTyped ==
    ASSUME BInv, CTInv, UNCHANGED now, NEW s \in {"modified", "full"}, NEW c, StreamTyped(c, now),
           cursor' = [cursor EXCEPT ![s] = c]
    PROVE  CursorTyped(now)'
  BY DEF BInv, CTInv, CursorTyped

LEMMA AgainTyped ==
    ASSUME BInv, CTInv, NEW p \in Procs, RequestAgain(p)
    PROVE  CTInv'
  <1> DEFINE r == run[p]
             s == [r EXCEPT !.attempt = @ + 1]
  <1>1. r.kind \in ItemKinds /\ run' = [run EXCEPT ![p] = s] /\ quiet' = quiet
        /\ UNCHANGED <<latest, saving, cursor, failures>>
      BY DEF RequestAgain, Fetching, ItemKinds, storeVars
  <1>2. RunTyped(r, now)  BY DEF CTInv
  <1>3. RunTyped(s, now)
      BY <1>1, <1>2 DEF RunTyped, NvdTyped, DeltaTyped, BatchTyped, NvdFields, DeltaFields, BatchFields, ItemKinds
  <1>4. FailuresTyped'  BY <1>1 DEF CTInv, FailuresTyped
  <1> HIDE DEF s
  <1> QED  BY <1>1, <1>3, <1>4, GoesOnTyped

\* A page is of records in the window.
LEMMA PageTyped ==
    ASSUME NEW r
    PROVE  /\ Page(r) \in SUBSET Ids /\ Cardinality(Page(r)) \in Nat
           /\ Matching(r) \in SUBSET Ids /\ Cardinality(Matching(r)) \in Nat
  <1>1. Page(r) \in SUBSET Ids /\ Matching(r) \in SUBSET Ids  BY DEF Page, Matching
  <1> QED  BY <1>1, Bounds, FS_Subset, FS_CardinalityType

\* The windows behind the first.
LEMMA WindowsBehind ==
    ASSUME NEW ws \in Seq(Windows), ws # <<>>, Len(ws) # 1
    PROVE  /\ Tail(ws) \in Seq(Windows) /\ Tail(ws) # <<>>
           /\ \A k \in DOMAIN Tail(ws) : Tail(ws)[k] = ws[k + 1] /\ k + 1 \in DOMAIN ws
           /\ 2 \in DOMAIN ws /\ Tail(ws)[1] = ws[2]
  <1>1. Len(ws) \in Nat /\ Len(ws) > 1 /\ DOMAIN ws = 1..Len(ws)
    <2>1. Len(ws) \in Nat /\ DOMAIN ws = 1..Len(ws)  BY LenProperties
    <2>2. Len(ws) # 0  BY EmptySeq
    <2> QED  BY <2>1, <2>2
  <1>2. /\ Tail(ws) \in Seq(Windows) /\ Len(Tail(ws)) = Len(ws) - 1
        /\ \A k \in 1..Len(Tail(ws)) : Tail(ws)[k] = ws[k + 1]
      BY HeadTailProperties
  <1>3. DOMAIN Tail(ws) = 1..(Len(ws) - 1)  BY <1>2
  <1>4. Tail(ws) # <<>>
    <2>1. Len(Tail(ws)) # 0  BY <1>1, <1>2
    <2> QED  BY <2>1, EmptySeq
  <1> QED  BY <1>1, <1>2, <1>3, <1>4

LEMMA NvdStepTyped ==
    ASSUME BInv, CTInv, NEW p \in Procs, NvdStep(p)
    PROVE  CTInv'
  <1> DEFINE r == run[p]
  <1>0. r.kind = "nvd" /\ quiet' = quiet
      BY DEF NvdStep, FetchPage, FetchPageFails, ResolvePage, SavePageCursor, CloseWindow
  <1>1. NvdTyped(r, now)  BY <1>0 DEF CTInv, RunTyped
  <1>2. p \in DOMAIN run /\ now \in Nat  BY Bounds DEF BInv, CTInv
  <1>3. /\ r.windows[1] \in Windows /\ r.windows[1][2] <= r.end
        /\ r.windows[1][1] \in Int /\ r.windows[1][2] \in Int
    <2>1. 1 \in DOMAIN r.windows /\ r.windows[1] \in Windows  BY <1>1 DEF NvdTyped
    <2>2. r.windows[1][2] <= r.end  BY <1>1, <2>1 DEF NvdTyped
    <2>3. r.windows[1][1] \in Int /\ r.windows[1][2] \in Int  BY <2>1 DEF Windows
    <2> QED  BY <1>2, <2>1, <2>2, <2>3
  <1>4. RowTyped(PageRow(r))  BY <1>3 DEF RowTyped, RowFields, PageRow, Row
  <1>5. CASE FetchPage(p)
    <2> DEFINE rows == Page(r)
               batch == [i \in rows |-> Version("nvd", i)]
               s == [r EXCEPT !.pc = "resolve", !.next = r.index + Cardinality(rows),
                              !.rows = Cardinality(rows), !.total = Cardinality(Matching(r))]
    <2>1. BeginSave(p, "nvd", batch) /\ run' = [run EXCEPT ![p] = s] /\ UNCHANGED <<latest, failures, cursor>>
      <3>1. run' = [run EXCEPT ![p].pc = "resolve", ![p].next = run[p].index + Cardinality(rows),
                               ![p].rows = Cardinality(rows), ![p].total = Cardinality(Matching(run[p]))]
          BY <1>5 DEF FetchPage
      <3>2. run' = [run EXCEPT ![p] = s]  BY <1>2, <3>1
      <3> QED  BY <1>5, <3>2 DEF FetchPage
    <2>2. rows \in SUBSET Ids /\ Cardinality(rows) \in Nat /\ Cardinality(Matching(r)) \in Nat
        BY PageTyped
    <2>3. batch \in Batches
      <3>1. batch \in [rows -> Snapshots]  BY <2>2, TypedVersion, Bounds
      <3> QED  BY <2>2, <3>1, InBatches
    <2>4. RunTyped(s, now)
      <3>1. NvdTyped(s, now)  BY <1>1, <2>2 DEF NvdTyped, NvdFields
      <3> QED  BY <1>0, <1>1, <3>1 DEF RunTyped, NvdTyped, NvdFields
    <2> HIDE DEF batch, s
    <2>5. /\ saving'[p] = Call("nvd", batch) /\ run'[p] = s
          /\ \A q \in Procs \ {p} : saving'[q] = saving[q] /\ run'[q] = run[q]
        BY <2>1 DEF BeginSave, BInv
    <2>6. CallTyped(saving'[p])  BY <2>3, <2>5, TypedCall, Bounds
    <2>7. FailuresTyped'  BY <2>1 DEF CTInv, FailuresTyped
    <2> QED  BY <1>0, <2>1, <2>4, <2>5, <2>6, <2>7, TypedRun
  <1>6. CASE FetchPageFails(p)
    <2>1. FailuresTyped'  BY <1>4, <1>6, FailuresStay DEF FetchPageFails, CTInv
    <2> QED  BY <1>0, <1>6, <2>1, FinishTyped DEF FetchPageFails
  <1>7. CASE ResolvePage(p)
    <2> DEFINE s == [r EXCEPT !.pc = "cursor"]
    <2>1. run' = [run EXCEPT ![p] = s] /\ UNCHANGED <<latest, saving, cursor>>
        BY <1>7 DEF ResolvePage
    <2>2. FailuresTyped'  BY <1>7, FailuresStay DEF ResolvePage, CTInv
    <2>3. RunTyped(s, now)  BY <1>0, <1>1 DEF RunTyped, NvdTyped, NvdFields
    <2> HIDE DEF s
    <2> QED  BY <1>0, <2>1, <2>2, <2>3, GoesOnTyped
  <1>8. CASE SavePageCursor(p)
    <2> DEFINE left == IF r.left = NoLimit THEN NoLimit ELSE r.left - r.rows
               c == [window |-> r.windows[1], next |-> r.next, mark |-> r.mark]
    <2>1. /\ cursor' = [cursor EXCEPT ![r.stream] = c] /\ storeVars' = storeVars
          /\ run'[p] \in {[r EXCEPT !.pc = "close", !.left = left], NoRun,
                          [r EXCEPT !.pc = "fetch", !.left = left, !.index = r.next, !.attempt = 1]}
          /\ \A q \in Procs \ {p} : run'[q] = run[q]
        BY <1>2, <1>8 DEF SavePageCursor, NextIndex, BInv
    <2>2. left \in Int  BY <1>1, CollectionAssumption DEF NvdTyped
    <2> HIDE DEF left
    <2>3. RunTyped(run'[p], now)
      <3>1. CASE run'[p] = NoRun  BY <3>1, EndedTyped
      <3>2. CASE run'[p] = [r EXCEPT !.pc = "close", !.left = left]
          BY <1>0, <1>1, <2>2, <3>2 DEF RunTyped, NvdTyped, NvdFields
      <3>3. CASE run'[p] = [r EXCEPT !.pc = "fetch", !.left = left, !.index = r.next, !.attempt = 1]
          BY <1>0, <1>1, <2>2, <3>3 DEF RunTyped, NvdTyped, NvdFields
      <3> QED  BY <2>1, <3>1, <3>2, <3>3
    <2>4. StreamTyped(c, now)  BY <1>1, <1>3 DEF StreamTyped, NvdTyped
    <2> HIDE DEF c
    <2>5. r.stream \in {"modified", "full"} /\ UNCHANGED now  BY <1>0, <1>1 DEF NvdTyped, quiet, world
    <2>6. CursorTyped(now)'  BY <2>1, <2>4, <2>5, StreamsTyped
    <2> QED  BY <1>0, <2>1, <2>3, <2>6, TypedCursor
  <1>9. CASE CloseWindow(p)
    <2> DEFINE c == [window |-> NoWindow, next |-> 0, mark |-> Reached(r)]
               s == [r EXCEPT !.pc = "fetch", !.windows = Tail(r.windows), !.index = 0,
                              !.attempt = 1, !.mark = Reached(r)]
    <2>1. /\ cursor' = [cursor EXCEPT ![r.stream] = c] /\ storeVars' = storeVars
          /\ run'[p] = NoRun \/ (Len(r.windows) # 1 /\ run'[p] = s)
          /\ \A q \in Procs \ {p} : run'[q] = run[q]
        BY <1>2, <1>9 DEF CloseWindow, BInv
    <2>2. Reached(r) \in AheadOf(now)
      <3>1. r.mark \in AheadOf(now) /\ r.end \in AheadOf(now) /\ r.mark \in Nat /\ r.end \in Nat
          BY <1>1 DEF NvdTyped, AheadOf
      <3> DEFINE w == r.windows[1]
                 x == IF w = Everything THEN r.end ELSE w[2]
      <3>2. x \in Int /\ x <= r.end  BY <1>3, <3>1
      <3> HIDE DEF x
      <3>3. CASE x < r.mark  BY <3>1, <3>3 DEF Reached, Greater, x
      <3>4. CASE ~(x < r.mark)
        <4>1. x \in Nat /\ \A d \in Untils : d \in Int  BY <3>1, <3>2, <3>4, CollectionAssumption
        <4>2. x \in AheadOf(now)  BY <1>2, <3>1, <3>2, <4>1 DEF AheadOf
        <4> QED  BY <3>4, <4>2 DEF Reached, Greater, x
      <3> QED  BY <3>3, <3>4
    <2>3. StreamTyped(c, now)  BY <2>2 DEF StreamTyped, NoWindow
    <2>4. Len(r.windows) # 1 => RunTyped(s, now)
      <3> SUFFICES ASSUME Len(r.windows) # 1 PROVE NvdTyped(s, now)
          BY <1>0, <1>1 DEF RunTyped, NvdTyped, NvdFields
      <3> DEFINE ws == r.windows
                 tail == Tail(ws)
      <3>1. ws \in Seq(Windows) /\ ws # <<>>  BY <1>1 DEF NvdTyped
      <3>2. /\ tail \in Seq(Windows) /\ tail # <<>>
            /\ \A k \in DOMAIN tail : tail[k] = ws[k + 1] /\ k + 1 \in DOMAIN ws
          BY <3>1, WindowsBehind
      <3>4. \A k \in DOMAIN tail : tail[k][2] <= r.end  BY <1>1, <3>2 DEF NvdTyped
      <3> HIDE DEF tail
      <3>5. /\ DOMAIN s = NvdFields /\ s.pc = "fetch" /\ s.windows = tail /\ s.stream = r.stream
            /\ s.left = r.left /\ s.index = 0 /\ s.next = r.next /\ s.total = r.total /\ s.rows = r.rows
            /\ s.mark = Reached(r) /\ s.end = r.end
          BY <1>1 DEF NvdTyped, NvdFields, tail
      <3> HIDE DEF s
      <3>6. s.pc \in {"fetch", "resolve", "cursor", "close"} /\ s.stream \in {"modified", "full"}
          BY <1>1, <3>5 DEF NvdTyped
      <3>7. s.left \in Int /\ {s.index, s.next, s.total, s.rows} \subseteq Nat
            /\ {s.mark, s.end} \subseteq AheadOf(now)
          BY <1>1, <2>2, <3>5 DEF NvdTyped
      <3>8. s.windows \in Seq(Windows) /\ s.windows # <<>> /\ \A k \in DOMAIN s.windows : s.windows[k][2] <= s.end
          BY <3>2, <3>4, <3>5
      <3> QED  BY <3>5, <3>6, <3>7, <3>8 DEF NvdTyped
    <2>5. RunTyped(run'[p], now)  BY <2>1, <2>4, EndedTyped
    <2> HIDE DEF c, s
    <2>6. r.stream \in {"modified", "full"} /\ UNCHANGED now  BY <1>0, <1>1 DEF NvdTyped, quiet, world
    <2>7. CursorTyped(now)'  BY <2>1, <2>3, <2>6, StreamsTyped
    <2> QED  BY <1>0, <2>1, <2>5, <2>7, TypedCursor
  <1> QED  BY <1>5, <1>6, <1>7, <1>8, <1>9 DEF NvdStep


\* The commands that collect records one by one.
LEMMA ItemStepTyped ==
    ASSUME BInv, CTInv, NEW p \in Procs, ItemStep(p)
    PROVE  CTInv'
  <1> DEFINE r == run[p]
  <1>0. r.kind \in {"delta", "batch", "collect"} /\ quiet' = quiet
      BY DEF ItemStep, FetchItem, FetchItemFails, CollectFails, ResolveItem, EndDelta, EndBatch, Fetching
  <1>1. RunTyped(r, now)  BY DEF CTInv
  <1>2. p \in DOMAIN run /\ now \in Nat  BY Bounds DEF BInv, CTInv
  <1>3. CASE FetchItem(p)
    <2> DEFINE row == ItemRow(r)
               s == [r EXCEPT !.pc = "resolve"]
    <2>1. /\ row.tag = "id" /\ run' = [run EXCEPT ![p] = s] /\ UNCHANGED <<latest, failures, cursor>>
          /\ r.items # {}
        BY <1>0, <1>3 DEF FetchItem, Fetching
    <2>2. PICK record \in Answers(row.source, row.a) : BeginSave(p, row.source, [i \in {row.a} |-> record])
        BY <1>3 DEF FetchItem
    <2>3. row.source \in Sources /\ row.a \in Ids  BY <1>0, <1>1, <2>1, ItemTyped DEF RowTyped
    <2>4. RunTyped(s, now)
        BY <1>0, <1>1, <2>1 DEF RunTyped, DeltaTyped, BatchTyped, DeltaFields, BatchFields
    <2> HIDE DEF row, s
    <2>5. record \in Snapshots  BY <2>2, <2>3, TypedVersion
    <2>6. [i \in {row.a} |-> record] \in Batches  BY <2>3, <2>5, InBatches
    <2>7. /\ saving'[p] = Call(row.source, [i \in {row.a} |-> record]) /\ run'[p] = s
          /\ \A q \in Procs \ {p} : saving'[q] = saving[q] /\ run'[q] = run[q]
        BY <2>1, <2>2 DEF BeginSave, BInv
    <2>8. CallTyped(saving'[p])  BY <2>3, <2>6, <2>7, TypedCall
    <2>9. FailuresTyped'  BY <2>1 DEF CTInv, FailuresTyped
    <2> QED  BY <1>0, <2>1, <2>4, <2>7, <2>8, <2>9, TypedRun
  <1>4. CASE FetchItemFails(p)
    <2> DEFINE s == IF r.kind = "delta"
                    THEN [r EXCEPT !.items = @ \ {Item(r)}, !.failed = TRUE, !.attempt = 1]
                    ELSE [r EXCEPT !.items = @ \ {Item(r)}, !.attempt = 1]
    <2>1. /\ r.kind \in {"delta", "batch"} /\ r.pc = "item" /\ r.items # {}
          /\ run' = [run EXCEPT ![p] = s] /\ UNCHANGED <<latest, saving, cursor>>
          /\ OpenFailure(Upper(ItemRow(r)))
        BY <1>4 DEF FetchItemFails, Fetching
    <2>2. FailuresTyped'  BY <1>0, <1>1, <2>1, ItemTyped, FailuresStay DEF CTInv
    <2>3. IsFiniteSet(r.items)  BY <1>0, <1>1 DEF RunTyped, DeltaTyped, BatchTyped
    <2>4. IsFiniteSet(r.items \ {Item(r)})  BY <2>3, FS_RemoveElement
    <2>5. RunTyped(s, now)
        BY <1>1, <2>1, <2>4 DEF RunTyped, DeltaTyped, BatchTyped, DeltaFields, BatchFields
    <2> HIDE DEF s
    <2> QED  BY <1>0, <2>1, <2>2, <2>5, GoesOnTyped
  <1>5. CASE CollectFails(p)
    <2>1. FailuresTyped'  BY <1>5 DEF CollectFails, storeVars, CTInv, FailuresTyped
    <2> QED  BY <1>0, <1>5, <2>1, FinishTyped DEF CollectFails, storeVars
  <1>6. CASE ResolveItem(p)
    <2> DEFINE s == [r EXCEPT !.pc = "item", !.items = @ \ {Item(r)}, !.attempt = 1]
    <2>1. r.pc = "resolve" /\ UNCHANGED <<latest, saving, cursor>> /\ run' = [run EXCEPT ![p] = s]
      <3>1. run' = [run EXCEPT ![p].pc = "item", ![p].items = @ \ {Item(r)}, ![p].attempt = 1]
          BY <1>6 DEF ResolveItem
      <3>2. run' = [run EXCEPT ![p] = s]  BY <1>2, <3>1
      <3> QED  BY <1>6, <3>2 DEF ResolveItem
    <2>2. FailuresTyped'  BY <1>6, FailuresStay DEF ResolveItem, CTInv
    <2>3. IsFiniteSet(r.items)  BY <1>0, <1>1 DEF RunTyped, DeltaTyped, BatchTyped
    <2>4. IsFiniteSet(r.items \ {Item(r)})  BY <2>3, FS_RemoveElement
    <2>5. RunTyped(s, now)
        BY <1>0, <1>1, <2>4 DEF RunTyped, DeltaTyped, BatchTyped, DeltaFields, BatchFields
    <2> HIDE DEF s
    <2> QED  BY <1>0, <2>1, <2>2, <2>5, GoesOnTyped
  <1>7. CASE EndDelta(p)
    <2>1. /\ cursor' = [cursor EXCEPT !.delta = DeltaCursor(r)] /\ storeVars' = storeVars /\ UNCHANGED now
          /\ run'[p] = NoRun /\ \A q \in Procs \ {p} : run'[q] = run[q] /\ r.kind = "delta"
        BY <1>0, <1>7 DEF EndDelta, Finish, BInv, quiet, world
    <2>2. DeltaTyped(r, now)
      <3>1. r.kind = "delta"  BY <1>7 DEF EndDelta
      <3> HIDE DEF r
      <3> QED  BY <1>1, <3>1 DEF RunTyped
    <2>3. NoEvent \in Events /\ NoTime \in 0..now  BY <1>2 DEF NoEvent, Events, NoTime, NoRecord
    <2>4. DeltaCursorTyped(ScanCursor(r), now)
        BY <2>2, <2>3 DEF ScanCursor, DeltaCursorTyped, DeltaTyped
    <2>5. DeltaCursorTyped(DeltaCursor(r), now)
        BY <2>4 DEF DeltaCursor, CTInv, CursorTyped
    <2>6. CursorTyped(now)'  BY <2>1, <2>5 DEF BInv, CTInv, CursorTyped
    <2> QED  BY <1>0, <2>1, <2>6, EndedTyped, TypedCursor
  <1>8. CASE EndBatch(p)
    <2>1. FailuresTyped'  BY <1>8 DEF EndBatch, storeVars, CTInv, FailuresTyped
    <2> QED  BY <1>0, <1>8, <2>1, FinishTyped DEF EndBatch, storeVars
  <1> QED  BY <1>3, <1>4, <1>5, <1>6, <1>7, <1>8 DEF ItemStep

\* sync_cve_directory.
LEMMA BaselineStepTyped ==
    ASSUME BInv, CTInv, NEW p \in Procs, BaselineStep(p)
    PROVE  CTInv'
  <1> DEFINE r == run[p]
  <1>0. r.kind = "baseline" /\ quiet' = quiet
      BY DEF BaselineStep, ReadFile, Flush, AfterFlush, EndBaseline
  <1>1. r.batch \in Batches  BY <1>0 DEF CTInv, RunTyped
  <1>2. p \in DOMAIN run /\ DOMAIN r = BaselineFields /\ BaselineTyped(r)
      BY <1>0, BaselineRun DEF BInv, ProcessOK
  <1>3. CASE ReadFile(p)
    <2> DEFINE i == Min(r.files)
               batch == IF i \in readable THEN [j \in DOMAIN r.batch \cup {i} |-> [time |-> 1, body |-> 1]] ELSE r.batch
               s == [r EXCEPT !.files = @ \ {i}, !.batch = batch, !.last = i,
                              !.left = IF @ = NoLimit THEN @ ELSE @ - 1,
                              !.failed = @ \/ i \notin readable,
                              !.pc = IF Cardinality(DOMAIN batch) >= BatchSize THEN "flush" ELSE "file"]
    <2>1. /\ r.files # {} /\ run' = [run EXCEPT ![p] = s] /\ UNCHANGED <<latest, saving, cursor>>
          /\ IF i \in readable THEN CloseFailure(FileRow(i)) ELSE OpenFailure(FileRow(i))
        BY <1>3 DEF ReadFile
    <2>2. i \in Ids
      <3>1. r.files \subseteq Ids /\ r.files \subseteq Nat  BY <1>2, Bounds DEF BaselineTyped
      <3>2. IsFiniteSet(r.files)  BY <3>1, Bounds, FS_Subset
      <3> QED  BY <2>1, <3>1, <3>2, LeastMember
    <2>3. batch \in Batches
      <3> DEFINE new == [j \in DOMAIN r.batch \cup {i} |-> [time |-> 1, body |-> 1]]
      <3>1. DOMAIN r.batch \cup {i} \in SUBSET Ids  BY <1>1, <2>2, OfBatches
      <3>2. [time |-> 1, body |-> 1] \in Snapshots
        <4>1. 1 \in 0..MaxTime  BY Bounds DEF CTInv
        <4> QED  BY <4>1 DEF Snapshots
      <3> HIDE DEF i
      <3>3. new \in Batches  BY <3>1, <3>2, InBatches
      <3> QED  BY <1>1, <3>3
    <2> HIDE DEF i, batch
    <2>4. s.kind = "baseline" /\ s.batch = batch  BY <1>0, <1>2 DEF BaselineFields
    <2>5. RowTyped(FileRow(i))  BY <2>2, Bounds DEF RowTyped, RowFields, FileRow, Row
    <2>6. FailuresTyped'  BY <2>1, <2>5, FailuresStay DEF CTInv
    <2> HIDE DEF s
    <2>7. RunTyped(s, now)  BY <2>3, <2>4 DEF RunTyped
    <2> QED  BY <1>0, <2>1, <2>6, <2>7, GoesOnTyped
  <1>4. CASE Flush(p)
    <2>1. /\ BeginSave(p, "cve", r.batch) /\ UNCHANGED <<latest, failures, cursor>>
          /\ run'[p].batch = EmptyBatch /\ run'[p].kind = "baseline"
          /\ \A q \in Procs \ {p} : run'[q] = run[q]
      <3>1. PICK pc : run' = [run EXCEPT ![p].batch = EmptyBatch, ![p].pc = pc]  BY <1>4 DEF Flush
      <3>2. run'[p].batch = EmptyBatch /\ run'[p].kind = "baseline"  BY <1>0, <1>2, <3>1 DEF BaselineFields
      <3>3. \A q \in Procs \ {p} : run'[q] = run[q]  BY <3>1 DEF BInv
      <3> QED  BY <1>4, <3>2, <3>3 DEF Flush
    <2>2. saving'[p] = Call("cve", r.batch) /\ \A q \in Procs \ {p} : saving'[q] = saving[q]
        BY <2>1 DEF BeginSave, BInv
    <2>3. CallTyped(saving'[p])  BY <1>1, <2>2, TypedCall, Bounds
    <2>4. RunTyped(run'[p], now)  BY <2>1, NoCallTyped DEF RunTyped
    <2>5. FailuresTyped'  BY <2>1 DEF CTInv, FailuresTyped
    <2> QED  BY <1>0, <2>1, <2>2, <2>3, <2>4, <2>5, TypedRun
  <1>5. CASE AfterFlush(p)
    <2>1. /\ run'[p].batch = r.batch /\ run'[p].kind = "baseline" /\ storeVars' = storeVars
          /\ \A q \in Procs \ {p} : run'[q] = run[q]
          /\ cursor' = [cursor EXCEPT !.baseline = FlushedCursor(r)] /\ UNCHANGED now
        BY <1>0, <1>2, <1>5 DEF AfterFlush, BaselineFields, quiet, world
    <2>2. RunTyped(run'[p], now)  BY <1>1, <2>1 DEF RunTyped
    <2>3. CursorTyped(now)'  BY <2>1 DEF CTInv, CursorTyped, BInv
    <2> QED  BY <1>0, <2>1, <2>2, <2>3, TypedCursor
  <1>6. CASE EndBaseline(p)
    <2>1. /\ run'[p] = NoRun /\ storeVars' = storeVars
          /\ \A q \in Procs \ {p} : run'[q] = run[q]
          /\ cursor' = [cursor EXCEPT !.baseline = BaselineCursor(r)] /\ UNCHANGED now
        BY <1>0, <1>2, <1>6 DEF EndBaseline, Finish, quiet, world
    <2>2. CursorTyped(now)'  BY <2>1 DEF CTInv, CursorTyped, BInv
    <2> QED  BY <1>0, <2>1, <2>2, EndedTyped, TypedCursor
  <1> QED  BY <1>3, <1>4, <1>5, <1>6 DEF BaselineStep

\* save_sources_detailed.
LEMMA SaveStepTyped ==
    ASSUME BInv, CTInv, NEW p \in Procs, SaveStep(p)
    PROVE  CTInv'
  <1> DEFINE call == saving[p]
  <1>0. UNCHANGED <<now, official, log, uses, kills, events, excused, cursor, run, failures>>
      BY DEF SaveStep, Save, Compare, Write, world, counts
  <1>1. CallTyped(call) /\ DOMAIN call = CallFields /\ p \in DOMAIN saving
      BY DEF CTInv, BInv, ProcessOK, CallOK
  <1>2. call.batch \in Batches /\ call.source \in Sources  BY <1>1 DEF CallTyped
  <1>3. /\ events' \in 0..uses.events /\ DOMAIN excused' = Sources /\ FailuresTyped'
        /\ CursorTyped(now)' /\ RunTyped(run'[p], now) /\ \A q \in Procs : run'[q] = run[q]
      BY <1>0 DEF CTInv, FailuresTyped, CursorTyped
  <1>4. CASE Compare(p)
    <2> DEFINE first == Min(DOMAIN call.batch)
               remains == Restrict(call.batch, DOMAIN call.batch \ {first})
    <2>1. /\ UNCHANGED latest
          /\ \/ saving' = [saving EXCEPT ![p].chosen = first]
             \/ saving' = [saving EXCEPT ![p] = Call(call.source, remains)]
        BY <1>4 DEF Compare
    <2> HIDE DEF first
    <2>2. remains \in Batches
      <3> DEFINE rest == DOMAIN call.batch \ {first}
      <3>1. rest \in SUBSET Ids /\ \A i \in rest : call.batch[i] \in Snapshots
          BY <1>2, OfBatches
      <3>2. remains \in [rest -> Snapshots]  BY <3>1 DEF Restrict
      <3> HIDE DEF rest, remains
      <3> QED  BY <3>1, <3>2, InBatches
    <2> HIDE DEF remains
    <2>3. CallTyped(saving'[p])
      <3>1. CASE saving' = [saving EXCEPT ![p].chosen = first]
          BY <1>1, <3>1 DEF CallTyped, CallFields
      <3>2. CASE saving' = [saving EXCEPT ![p] = Call(call.source, remains)]
          BY <1>1, <1>2, <2>2, <3>2, TypedCall
      <3> QED  BY <2>1, <3>1, <3>2
    <2>4. \A q \in Procs \ {p} : saving'[q] = saving[q]
      <3> HIDE DEF call
      <3>1. DOMAIN saving = Procs  BY DEF BInv
      <3>3. CASE saving' = [saving EXCEPT ![p].chosen = first]  BY <3>1, <3>3
      <3>4. CASE saving' = [saving EXCEPT ![p] = Call(call.source, remains)]  BY <3>1, <3>4
      <3> QED  BY <2>1, <3>3, <3>4
    <2>5. latest' \in [Sources -> [Ids -> Snapshots]]  BY <2>1 DEF CTInv
    <2> QED  BY <1>0, <1>3, <2>3, <2>4, <2>5, TypedStep
  <1>5. CASE Write(p)
    <2> DEFINE table == [i \in Ids |-> IF i \in Written(p) THEN call.batch[i] ELSE latest[call.source][i]]
    <2>1. saving' = [saving EXCEPT ![p] = NoCall] /\ latest' = [latest EXCEPT ![call.source] = table]
        BY <1>2, <1>5 DEF Write, CTInv
    <2>2. table \in [Ids -> Snapshots]
      <3>1. \A i \in Ids : latest[call.source][i] \in Snapshots  BY <1>2 DEF CTInv
      <3>2. \A i \in Written(p) : i \in DOMAIN call.batch  BY DEF Written
      <3>3. \A i \in Ids : i \in Written(p) => call.batch[i] \in Snapshots  BY <1>2, <3>2, OfBatches
      <3> QED  BY <3>1, <3>3
    <2> HIDE DEF table
    <2>3. latest' \in [Sources -> [Ids -> Snapshots]]  BY <1>2, <2>1, <2>2 DEF CTInv
    <2>4. CallTyped(saving'[p]) /\ \A q \in Procs \ {p} : saving'[q] = saving[q]
        BY <1>1, <2>1, NoCallTyped
    <2> QED  BY <1>0, <1>3, <2>3, <2>4, TypedStep
  <1> QED  BY <1>4, <1>5 DEF SaveStep, Save

\* A process is killed.
LEMMA KillTyped ==
    ASSUME BInv, CTInv, NEW p \in Procs, Kill(p)
    PROVE  CTInv'
  <1>1. /\ UNCHANGED <<latest, failures, now, official, log, cursor, uses, events, excused>>
        /\ kills < MaxKills /\ kills' = kills + 1
        /\ run'[p] = NoRun /\ saving'[p] = NoCall
        /\ \A q \in Procs \ {p} : saving'[q] = saving[q] /\ run'[q] = run[q]
      BY DEF Kill, Finish, world, BInv
  <1>2. kills' \in 0..MaxKills  BY <1>1, Bounds DEF CTInv
  <1>3. \A q \in Procs : CallTyped(saving'[q]) /\ RunTyped(run'[q], now)
      BY <1>1, NoCallTyped, EndedTyped DEF CTInv
  <1>4. LogTyped' /\ FailuresTyped' /\ CursorTyped(now)'
      BY <1>1 DEF CTInv, LogTyped, FailuresTyped, CursorTyped
  <1> QED  BY <1>1, <1>2, <1>3, <1>4 DEF CTInv

\* The sources move on.
LEMMA WorldTyped ==
    ASSUME BInv, CTInv, World
    PROVE  CTInv'
  <1>1. UNCHANGED <<latest, failures, saving, cursor, run, uses, kills>>
      BY DEF World, Tick, Roll, Modify, Publish, EditPage, RepairFile, Change, storeVars, counts
  <1>2. now \in Nat /\ FirstTime \in Nat /\ Overlap \in Nat /\ MaxTime \in Nat /\ FirstTime > 0
      BY Bounds DEF CTInv, FirstTime
  <1>3. now' \in FirstTime..MaxTime /\ now <= now'
    <2>1. now \in FirstTime..MaxTime  BY DEF CTInv
    <2>2. now' = now \/ (now < MaxTime /\ now' = now + 1)
        BY DEF World, Tick, Roll, Modify, Publish, EditPage, RepairFile, Change
    <2> QED  BY <1>2, <2>1, <2>2
  <1>4. now' \in Int /\ now \in Int  BY <1>2, <1>3
  <1>5. \A x : x \in 1..now => x \in 1..now'  BY <1>3, <1>4
  <1>6. official' \in [Sources -> [Ids -> 1..now']]
    <2>0. official \in [Sources -> [Ids -> 1..now']]
      <3>1. official \in [Sources -> [Ids -> 1..now]]  BY DEF CTInv
      <3> QED  BY <1>5, <3>1
    <2>1. CASE UNCHANGED official  BY <2>0, <2>1
    <2>2. ASSUME NEW s \in Sources, NEW i \in Ids, NEW t \in 1..now', official' = [official EXCEPT ![s][i] = t]
          PROVE official' \in [Sources -> [Ids -> 1..now']]
        BY <2>0, <2>2
    <2>3. now \in 1..now'  BY <1>2, <1>3 DEF CTInv
    <2>4. ASSUME NEW i \in Ids, Modify(i) PROVE official' \in [Sources -> [Ids -> 1..now']]
      <3>1. PICK t \in (now - Overlap)..now :
                t > official["nvd"][i] /\ official' = [official EXCEPT !["nvd"][i] = t]
          BY <2>4 DEF Modify
      <3>2. official["nvd"][i] \in 1..now  BY Bounds DEF CTInv
      <3>3. t \in 1..now  BY <1>2, <3>1, <3>2
      <3> QED  BY <1>5, <2>2, <3>1, <3>3, Bounds
    <2>5. ASSUME NEW i \in Ids, Publish(i) PROVE official' \in [Sources -> [Ids -> 1..now']]
        BY <2>2, <2>3, <2>5, Bounds DEF Publish
    <2>6. ASSUME NEW i \in Ids, EditPage(i) PROVE official' \in [Sources -> [Ids -> 1..now']]
        BY <2>2, <2>3, <2>6, Bounds DEF EditPage
    <2>7. (Tick \/ Roll \/ \E i \in Ids : RepairFile(i)) => UNCHANGED official
        BY DEF Tick, Roll, RepairFile
    <2> QED  BY <2>1, <2>4, <2>5, <2>6, <2>7 DEF World
  <1>7. LogTyped'
    <2>0. IsFiniteSet(log) /\ log # {} /\ log \subseteq Events /\ \A e \in log : e.time \in 1..now' /\ e.id \in Ids
        BY <1>5 DEF CTInv, LogTyped
    <2>1. CASE UNCHANGED log  BY <2>0, <2>1 DEF LogTyped
    <2>2. ASSUME NEW i \in Ids, Publish(i) PROVE LogTyped'
      <3> DEFINE e == [time |-> now, id |-> i]
      <3>1. log' = log \cup {e} /\ now' = now  BY <2>2 DEF Publish, Change
      <3>2. e \in Events /\ e.time \in 1..now' /\ e.id \in Ids  BY <1>2, <1>3, Bounds DEF Events, CTInv
      <3> HIDE DEF e
      <3>3. IsFiniteSet(log')  BY <2>0, <3>1, FS_AddElement
      <3> QED  BY <2>0, <3>1, <3>2, <3>3 DEF LogTyped
    <2>3. CASE Roll
      <3>1. log' \subseteq log /\ log' # {}  BY <2>3 DEF Roll
      <3>2. IsFiniteSet(log')  BY <2>0, <3>1, FS_Subset
      <3> QED  BY <2>0, <3>1, <3>2 DEF LogTyped
    <2>4. Tick \/ (\E i \in Ids : Modify(i) \/ EditPage(i) \/ RepairFile(i)) => UNCHANGED log
        BY DEF Tick, Modify, EditPage, RepairFile
    <2> QED  BY <2>1, <2>2, <2>3, <2>4 DEF World
  <1>8. FailuresTyped'  BY <1>1 DEF CTInv, FailuresTyped
  <1>9. CursorTyped(now)'
      BY <1>1, <1>3, <1>4, LaterTyped DEF CTInv, CursorTyped
  <1>10. \A p \in Procs : CallTyped(saving[p])' /\ RunTyped(run[p], now)'
    <2> TAKE p \in Procs
    <2>1. CallTyped(saving[p]) /\ RunTyped(run[p], now)  BY DEF CTInv
    <2>2. RunTyped(run[p], now')  BY <1>3, <1>4, <2>1, LaterTyped
    <2> QED  BY <1>1, <2>1, <2>2
  <1>11. events' \in 0..uses'.events
    <2>1. uses.events \in Nat /\ events \in 0..uses.events /\ uses' = uses
        BY <1>1, CollectionAssumption DEF CTInv
    <2>2. events' = events \/ (events < uses.events /\ events' = events + 1)
        BY DEF World, Tick, Roll, Modify, Publish, EditPage, RepairFile, Change, counts
    <2> QED  BY <2>1, <2>2
  <1>12. DOMAIN excused' = Sources
    <2>1. DOMAIN excused' = DOMAIN excused
        BY DEF World, Tick, Roll, Modify, Publish, EditPage, RepairFile, Change
    <2> QED  BY <2>1 DEF CTInv
  <1> QED  BY <1>1, <1>3, <1>6, <1>7, <1>8, <1>9, <1>10, <1>11, <1>12 DEF CTInv

LEMMA TypedInit == CollectionInit => CTInv
  <1> SUFFICES ASSUME CollectionInit PROVE CTInv
      OBVIOUS
  <1> USE DEF CollectionInit, StoreInit
  <1>1. NoSnapshot \in Snapshots /\ 0 \in 0..MaxTime  BY Bounds DEF NoSnapshot, Snapshots
  <1>2. now = FirstTime /\ FirstTime \in FirstTime..MaxTime /\ 1 \in 1..FirstTime /\ FirstLogged \in 1..FirstTime
      BY Bounds, CollectionAssumption DEF FirstTime, FirstLogged
  <1>3. official \in [Sources -> [Ids -> 1..now]]  BY <1>2
  <1>4. LogTyped
    <2> DEFINE f == [i \in Ids |-> [time |-> FirstLogged, id |-> i]]
    <2>1. f \in Surjection(Ids, log)  BY DEF Surjection
    <2>2. IsFiniteSet(log)  BY <2>1, Bounds, FS_Surjection
    <2> HIDE DEF f
    <2>3. log # {} /\ \A e \in log : \E i \in Ids : e = [time |-> FirstLogged, id |-> i]
        BY Bounds
    <2>4. \A i \in Ids : [time |-> FirstLogged, id |-> i] \in Events  BY Bounds DEF Events
    <2>5. log \subseteq Events /\ \A e \in log : e.time \in 1..now /\ e.id \in Ids
        BY <1>2, <2>3, <2>4
    <2> QED  BY <2>2, <2>3, <2>5 DEF LogTyped
  <1>5. FailuresTyped  BY FS_EmptySet DEF FailuresTyped
  <1>6. CursorTyped(now)
    <2>1. NoTime \in 0..now /\ NoTime \in Int /\ NoTime \in AheadOf(now)
        BY <1>2, Bounds DEF NoTime, AheadOf
    <2>2. NoEvent \in Events  BY DEF NoEvent, Events, NoTime, NoRecord
    <2> QED  BY <2>1, <2>2 DEF CursorTyped, StreamTyped, DeltaCursorTyped
  <1>7. \A p \in Procs : CallTyped(saving[p]) /\ RunTyped(run[p], now)
      BY NoCallTyped, EndedTyped
  <1>8. uses \in Uses /\ events \in 0..uses.events /\ kills \in 0..MaxKills
      BY CollectionAssumption
  <1> QED  BY <1>1, <1>2, <1>3, <1>4, <1>5, <1>6, <1>7, <1>8 DEF CTInv

LEMMA TypedSteps ==
    ASSUME BInv, CTInv, [Next]_vars
    PROVE  CTInv'
  <1>1. CASE UNCHANGED vars
    <2>1. UNCHANGED <<latest, failures, saving, now, official, log, cursor, run, uses, events, kills, excused>>
        BY <1>1 DEF vars, storeVars, world, counts
    <2>2. LogTyped' /\ FailuresTyped' /\ CursorTyped(now)'
        BY <2>1 DEF CTInv, LogTyped, FailuresTyped, CursorTyped
    <2> QED  BY <2>1, <2>2 DEF CTInv
  <1>2. ASSUME NEW p \in Procs, Work(p) PROVE CTInv'
      BY <1>2, AgainTyped, NvdStepTyped, ItemStepTyped, BaselineStepTyped, SaveStepTyped DEF Work
  <1> QED  BY <1>1, <1>2, WorldTyped, StartTyped, KillTyped DEF Next

\* Types, for any number of processes, records, windows and files.
THEOREM TypedHolds == Spec => []CTInv
  BY TypedInit, TypedSteps, Inductive, PTL DEF Spec

\* The mark of the delta stream never lies in the future, nor that of a stream
\* of NVD further than an --until, and every call, snapshot and version is of
\* the kind it is stored as.
THEOREM TypeCorrect == Spec => []CollectionTypeOK
  <1>1. CTInv => CollectionTypeOK
    <2> SUFFICES ASSUME CTInv PROVE CollectionTypeOK
        OBVIOUS
    <2>1. official \in [Sources -> [Ids -> 0..MaxTime]]
      <3>1. now \in Int /\ now <= MaxTime /\ MaxTime \in Int  BY Bounds DEF CTInv
      <3>2. \A x : x \in 1..now => x \in 0..MaxTime  BY <3>1
      <3>3. official \in [Sources -> [Ids -> 1..now]]  BY DEF CTInv
      <3> QED  BY <3>2, <3>3
    <2>2. cursor.delta.mark \in 0..now
        BY DEF CTInv, CursorTyped, DeltaCursorTyped
    <2>3. ASSUME NEW s \in {"modified", "full"}
          PROVE  cursor[s].mark \in Nat /\ \E d \in {0} \cup Untils : cursor[s].mark <= now + d
      <3>1. cursor[s].mark \in AheadOf(now)  BY DEF CTInv, CursorTyped, StreamTyped
      <3>2. now \in Nat  BY InputsTyped
      <3>3. CASE cursor[s].mark <= now
        <4>1. cursor[s].mark <= now + 0  BY <3>2, <3>3
        <4> QED  BY <3>1, <4>1 DEF AheadOf
      <3>4. CASE \E d \in Untils : cursor[s].mark <= now + d  BY <3>1, <3>4 DEF AheadOf
      <3> QED  BY <3>1, <3>3, <3>4 DEF AheadOf
    <2> QED  BY <2>1, <2>2, <2>3 DEF CTInv, CollectionTypeOK, CallTyped
  <1> QED  BY <1>1, TypedHolds, PTL
-----------------------------------------------------------------------------
(* What the marks promise *)

\* What source s publishes of i is stored or excused.
Got(s, i) == latest[s][i].time >= official[s][i] \/ [id |-> i, time |-> official[s][i]] \in excused[s]

\* The call of p brings record i of s to version t, unless it is there.
Due(p, s, i, t) ==
    \/ latest[s][i].time >= t
    \/ /\ saving[p].source = s /\ i \in DOMAIN saving[p].batch
       /\ saving[p].batch[i].time >= t

Event(i) == [time |-> official["cve"][i], id |-> i]
UpTo(e, f) == e = f \/ Before(e, f)

\* A time that no later event of the log has.
Past(t) == t < now \/ \E e \in log : t <= e.time

\* The log lists what was published since its oldest event.
LogOK ==
    /\ \A e \in log : e.time <= official["cve"][e.id]
    /\ \A i \in Ids, e \in log : e.time <= official["cve"][i] => Event(i) \in log
    /\ \A i \in Ids : \E e \in log : official["cve"][i] <= e.time

GotUpTo(t) == \A i \in Ids : official["cve"][i] <= t => Got("cve", i)
GotToTime(t) == Past(t) /\ GotUpTo(t)
GotToEvent(f) == Past(f.time) /\ \A i \in Ids : UpTo(Event(i), f) => Got("cve", i)

DeltaCursorOK(c) ==
    /\ GotToTime(c.mark)
    /\ c.scan # NoTime => GotUpTo(c.scan)
    /\ c.after # NoEvent => GotToEvent(c.after)

\* What a scan has not failed to do it has done or has still before it.
DeltaOK(p) ==
    LET r == run[p]
    IN /\ Past(r.newest) /\ r.last.time <= r.newest
       /\ GotUpTo(r.checkpoint)
       /\ ~r.failed => \A i \in Ids :
             official["cve"][i] <= r.newest /\ (r.truncated => UpTo(Event(i), r.last)) =>
                 Got("cve", i) \/ Event(i) \in r.items
       /\ r.pc = "resolve" =>
             LET i == Earliest(r.items).id
             IN official["cve"][i] <= r.newest => Due(p, "cve", i, official["cve"][i])

DInv ==
    /\ LogOK /\ DeltaCursorOK(cursor.delta)
    /\ \A p \in Procs : run[p].kind = "delta" => DeltaOK(p)

-----------------------------------------------------------------------------
(* Steps only add: to the store, to what is excused, to the clock *)

Onward ==
    /\ now <= now'
    /\ \A s \in Sources : /\ excused[s] \subseteq excused'[s]
                          /\ \A i \in Ids : latest'[s][i].time >= latest[s][i].time

LEMMA MovesOn ==
    ASSUME OneProcess, BInv, TInv, CTInv, [Next]_vars
    PROVE  Onward
  <1>0. now \in Int /\ DOMAIN excused = Sources  BY Bounds DEF CTInv
  <1>1. \/ UNCHANGED <<now, excused>>
        \/ \E s \in Sources : \E S : excused' = [excused EXCEPT ![s] = @ \cup S] /\ UNCHANGED now
        \/ now' = now + 1 /\ UNCHANGED excused
    <2> USE Bounds
    <2>1. CASE UNCHANGED vars  BY <2>1 DEF vars, world
    <2>2. ASSUME NEW p \in Procs, Work(p) \/ Kill(p) PROVE UNCHANGED <<now, excused>>
        BY <2>2 DEF Work, Kill, RequestAgain, NvdStep, ItemStep, BaselineStep, SaveStep, quiet, world,
           FetchPage, FetchPageFails, ResolvePage, SavePageCursor, CloseWindow, FetchItem, FetchItemFails,
           CollectFails, ResolveItem, EndDelta, EndBatch, ReadFile, Flush, AfterFlush, EndBaseline
    <2>3. CASE World
      <3>1. ASSUME NEW i \in Ids, Modify(i)
            PROVE \E S : excused' = [excused EXCEPT !["nvd"] = @ \cup S] /\ UNCHANGED now
        <4>1. UNCHANGED now  BY <3>1 DEF Modify, Change
        <4>2. PICK t \in (now - Overlap)..now :
                 excused' = [excused EXCEPT !["nvd"] = @ \cup PagedOver(i, t) \cup Overtaken(i, t)]
            BY <3>1 DEF Modify
        <4>3. excused' = [excused EXCEPT !["nvd"] = @ \cup (PagedOver(i, t) \cup Overtaken(i, t))]
            BY <4>2
        <4> QED  BY <4>1, <4>3
      <3>2. ASSUME NEW i \in Ids, EditPage(i) \/ RepairFile(i) PROVE UNCHANGED <<now, excused>>
          BY <3>2 DEF EditPage, RepairFile, Change
      <3>5. ASSUME NEW i \in Ids, Publish(i)
            PROVE \E S : excused' = [excused EXCEPT !["cve"] = @ \cup S] /\ UNCHANGED now
          BY <3>5 DEF Publish, Change
      <3>3. Tick => now' = now + 1 /\ UNCHANGED excused  BY DEF Tick
      <3>4. Roll => UNCHANGED <<now, excused>>  BY DEF Roll
      <3> QED  BY <2>3, <3>1, <3>2, <3>3, <3>4, <3>5 DEF World
    <2>4. ASSUME NEW p \in Procs, Start(p)
          PROVE \/ UNCHANGED <<now, excused>>
                \/ \E s \in Sources : \E S : excused' = [excused EXCEPT ![s] = @ \cup S] /\ UNCHANGED now
      <3>1. ASSUME NEW full, NEW since, NEW end, NEW limit, StartNvd(p, full, since, end, limit)
            PROVE \E S : excused' = [excused EXCEPT !["nvd"] = @ \cup S] /\ UNCHANGED now
          BY <3>1 DEF StartNvd, Give, world
      <3>2. ASSUME NEW since, NEW limit, StartDelta(p, since, limit)
            PROVE \E S : excused' = [excused EXCEPT !["cve"] = @ \cup S] /\ UNCHANGED now
          BY <3>2 DEF StartDelta, Give, world
      <3>3. ASSUME NEW s, NEW i, NEW limit,
                   StartBaseline(p, limit) \/ StartBatch(p, s, i) \/ StartCollect(p, s, i) \/ StartRetry(p)
            PROVE UNCHANGED <<now, excused>>
          BY <3>3 DEF StartBaseline, StartBatch, StartCollect, StartRetry, Give, world
      <3> QED  BY <2>4, <3>1, <3>2, <3>3 DEF Start
    <2> QED  BY <2>1, <2>2, <2>3, <2>4 DEF Next
  <1>2. now <= now'  BY <1>0, <1>1
  <1>3. \A s \in Sources : excused[s] \subseteq excused'[s]
    <2>1. CASE UNCHANGED excused  BY <2>1
    <2>2. ASSUME NEW s \in Sources, NEW S, excused' = [excused EXCEPT ![s] = @ \cup S]
          PROVE \A u \in Sources : excused[u] \subseteq excused'[u]
        BY <1>0, <2>2
    <2> QED  BY <1>1, <2>1, <2>2
  <1> QED  BY <1>2, <1>3, TimesSteps DEF Onward

\* What source s publishes of i is stored, or excused.
LEMMA GotStays ==
    ASSUME CTInv, CTInv', Onward, NEW s \in Sources, NEW i \in Ids, official'[s][i] = official[s][i], Got(s, i)
    PROVE  Got(s, i)'
  <1>1. \A n \in 0..MaxTime : n \in Int  OBVIOUS
  <1>2. latest[s][i].time \in Int /\ latest'[s][i].time \in Int
      BY <1>1 DEF CTInv, Snapshots
  <1>3. official[s][i] \in Int  BY DEF CTInv
  <1> QED  BY <1>2, <1>3 DEF Got, Onward

\* A call brings a record to its version until it is there.
LEMMA DueStays ==
    ASSUME OneProcess, BInv, TInv, CTInv, CTInv', Onward, NEW p \in Procs, SaveStep(p),
           NEW s \in Sources, NEW i \in Ids, NEW t \in Int, Due(p, s, i, t)
    PROVE  Due(p, s, i, t)'
  <1> DEFINE call == saving[p]
  <1>0. latest[s][i].time \in Int /\ latest'[s][i].time \in Int
        /\ latest'[s][i].time >= latest[s][i].time /\ latest[s][i] \in Snapshots
    <2>1. \A n \in 0..MaxTime : n \in Int  OBVIOUS
    <2> QED  BY <2>1 DEF CTInv, Snapshots, Onward
  <1>1. CASE latest[s][i].time >= t
    <2>1. latest'[s][i].time >= t  BY <1>0, <1>1
    <2> QED  BY <2>1 DEF Due
  <1>2. CASE ~(latest[s][i].time >= t)
    <2>1. call.source = s /\ i \in DOMAIN call.batch /\ call.batch[i].time >= t
        BY <1>2 DEF Due
    <2>2. call.batch[i] \in Snapshots /\ call.batch[i].time \in Int
      <3>1. \A n \in 0..MaxTime : n \in Int  OBVIOUS
      <3>2. call.batch \in Batches  BY DEF CTInv, CallTyped
      <3> QED  BY <2>1, <3>1, <3>2, OfBatches DEF Snapshots
    <2>3. Accepts(latest[s][i], call.batch[i])
      <3> DEFINE old == latest[s][i]
                 new == call.batch[i]
      <3>1. new.time > old.time  BY <1>0, <1>2, <2>1, <2>2
      <3>2. old # new  BY <1>0, <2>2, <3>1
      <3>3. ~(new.time < old.time)  BY <1>0, <2>2, <3>1
      <3> QED  BY <3>2, <3>3 DEF Accepts, Stale
    <2>4. DOMAIN call = CallFields /\ p \in DOMAIN saving  BY DEF BInv, ProcessOK, CallOK
    <2>5. CASE Compare(p)
      <3> DEFINE first == Min(DOMAIN call.batch)
                 remains == Restrict(call.batch, DOMAIN call.batch \ {first})
      <3>1. \/ saving' = [saving EXCEPT ![p].chosen = first]
            \/ /\ ~Accepts(latest[call.source][first], call.batch[first])
               /\ saving' = [saving EXCEPT ![p] = Call(call.source, remains)]
          BY <2>5 DEF Compare
      <3> HIDE DEF first
      <3>2. CASE saving' = [saving EXCEPT ![p].chosen = first]
        <4>1. saving'[p].source = s /\ saving'[p].batch = call.batch
            BY <2>1, <2>4, <3>2 DEF CallFields
        <4> QED  BY <2>1, <4>1 DEF Due
      <3>3. CASE /\ ~Accepts(latest[call.source][first], call.batch[first])
                 /\ saving' = [saving EXCEPT ![p] = Call(call.source, remains)]
        <4>1. i # first  BY <2>1, <2>3, <3>3
        <4>2. i \in DOMAIN remains /\ remains[i] = call.batch[i]
            BY <2>1, <4>1 DEF Restrict
        <4> HIDE DEF remains
        <4>3. saving'[p].source = s /\ saving'[p].batch = remains
            BY <2>1, <2>4, <3>3, <4>2 DEF Call
        <4> QED  BY <2>1, <4>2, <4>3 DEF Due
      <3> QED  BY <3>1, <3>2, <3>3
    <2>6. CASE Write(p)
      <3>1. i \in Written(p)  BY <2>1, <2>3 DEF Written
      <3>2. latest'[s][i] = call.batch[i]
          BY <2>1, <2>6, <3>1 DEF Write, CTInv
      <3> QED  BY <2>1, <3>2 DEF Due
    <2> QED  BY <2>5, <2>6 DEF SaveStep, Save
  <1> QED  BY <1>1, <1>2

\* What is due of a call that is over is stored.
LEMMA DueSaved ==
    ASSUME CTInv, NEW p \in Procs, Saved(p), NEW s, NEW i, NEW t, Due(p, s, i, t)
    PROVE  latest[s][i].time >= t
  BY DEF Saved, Due, NoCall, EmptyBatch

\* A step of no saving process, or of one that saves something else, leaves it.
LEMMA DueUnchanged ==
    ASSUME UNCHANGED <<latest, saving>>, NEW p, NEW s, NEW i, NEW t, Due(p, s, i, t)
    PROVE  Due(p, s, i, t)'
  BY DEF Due

-----------------------------------------------------------------------------
(* The rolling log and its scans *)

\* What CVE publishes and its log are as they were.
Still == UNCHANGED log /\ official'["cve"] = official["cve"]

\* Types used below.
LEMMA CveTyped ==
    ASSUME CTInv
    PROVE  /\ now \in Nat \ {0} /\ \A i \in Ids : official["cve"][i] \in 1..now /\ official["cve"][i] \in Nat \ {0}
           /\ \A i \in Ids : Event(i) \in Events /\ Event(i).time = official["cve"][i] /\ Event(i).id = i
           /\ \A e \in log : e \in Events /\ e.time \in Nat /\ e.id \in Ids
           /\ NoEvent \in Events
  <1>1. now \in Nat \ {0} /\ \A i \in Ids : official["cve"][i] \in 1..now
      BY Bounds DEF CTInv, FirstTime
  <1>2. \A n \in 1..now : n \in Nat \ {0}  OBVIOUS
  <1>3. \A i \in Ids : Event(i) \in Events /\ Event(i).time = official["cve"][i] /\ Event(i).id = i
      BY <1>1, <1>2, Bounds DEF Event, Events
  <1>4. NoEvent \in Events  BY DEF NoEvent, Events, NoTime, NoRecord
  <1>5. \A e \in log : e \in Events /\ e.time \in Nat /\ e.id \in Ids
      BY DEF CTInv, LogTyped, Events
  <1> QED  BY <1>1, <1>2, <1>3, <1>4, <1>5

\* The promises about times and events of the log stay while the log does.
LEMMA StillPromises ==
    ASSUME CTInv, CTInv', Onward, Still
    PROVE  /\ LogOK => LogOK'
           /\ \A t \in Int : Past(t) => Past(t)'
           /\ \A i \in Ids : Got("cve", i) => Got("cve", i)'
           /\ \A t \in Int : GotUpTo(t) => GotUpTo(t)'
           /\ \A t \in Int : GotToTime(t) => GotToTime(t)'
           /\ \A f \in Events : GotToEvent(f) => GotToEvent(f)'
           /\ \A c : DeltaCursorTyped(c, now) /\ DeltaCursorOK(c) => DeltaCursorOK(c)'
  <1>1. LogOK => LogOK'  BY DEF Still, LogOK, Event
  <1>2. \A t \in Int : Past(t) => Past(t)'
    <2>1. now \in Int /\ now' \in Int /\ now <= now'  BY Bounds DEF CTInv, Onward
    <2> QED  BY <2>1 DEF Past, Still
  <1>3. \A i \in Ids : Got("cve", i) => Got("cve", i)'
      BY GotStays, Bounds DEF Still
  <1>0. \A t \in Int : GotUpTo(t) => GotUpTo(t)'
      BY <1>3 DEF GotUpTo, Still
  <1>4. \A t \in Int : GotToTime(t) => GotToTime(t)'
      BY <1>0, <1>2 DEF GotToTime
  <1>5. \A f \in Events : GotToEvent(f) => GotToEvent(f)'
    <2>1. \A f \in Events : f.time \in Int  BY DEF Events
    <2> QED  BY <1>2, <1>3, <2>1 DEF GotToEvent, Still, Event
  <1>6. ASSUME NEW c, DeltaCursorTyped(c, now), DeltaCursorOK(c) PROVE DeltaCursorOK(c)'
    <2>1. c.mark \in Int /\ c.scan \in Int /\ c.after \in Events
        BY <1>6 DEF DeltaCursorTyped
    <2> QED  BY <1>0, <1>4, <1>5, <1>6, <2>1 DEF DeltaCursorOK
  <1> QED  BY <1>0, <1>1, <1>2, <1>3, <1>4, <1>5, <1>6

\* A scan that goes on with the same records before it.
LEMMA ScanStays ==
    ASSUME CTInv, CTInv', Onward, Still, NEW p \in Procs, run[p].kind = "delta", DeltaOK(p),
           run'[p].items = run[p].items, run'[p].failed = run[p].failed, run'[p].truncated = run[p].truncated,
           run'[p].last = run[p].last, run'[p].checkpoint = run[p].checkpoint, run'[p].newest = run[p].newest,
           run'[p].pc = "resolve" => \A i :
               i = Earliest(run[p].items).id /\ official["cve"][i] <= run[p].newest =>
                   Due(p, "cve", i, official["cve"][i])'
    PROVE  DeltaOK(p)'
  <1> DEFINE r == run[p]
  <1>1. r.newest \in Int /\ r.checkpoint \in Int
      BY DEF CTInv, RunTyped, DeltaTyped
  <1>2. Past(r.newest)' /\ GotUpTo(r.checkpoint)'
      BY <1>1, StillPromises DEF DeltaOK
  <1>3. r.last.time <= r.newest  BY DEF DeltaOK
  <1>4. ~r.failed => \A i \in Ids :
             official["cve"][i] <= r.newest /\ (r.truncated => UpTo(Event(i), r.last)) =>
                 Got("cve", i)' \/ Event(i) \in r.items
      BY StillPromises DEF DeltaOK
  <1>5. \A i : Event(i)' = Event(i)  BY DEF Event, Still
  <1> QED  BY <1>2, <1>3, <1>4, <1>5 DEF DeltaOK, Still, Due

\* A step of the process that leaves the log and the cursor of the scans.
LEMMA DeltaSuffices ==
    ASSUME OneProcess, CTInv, CTInv', DInv, Onward, Still, NEW p \in Procs, cursor'.delta = cursor.delta,
           run'[p].kind = "delta" => DeltaOK(p)'
    PROVE  DInv'
  <1>1. LogOK'  BY StillPromises DEF DInv
  <1>2. DeltaCursorTyped(cursor.delta, now)  BY DEF CTInv, CursorTyped
  <1>3. DeltaCursorOK(cursor.delta)'  BY <1>2, StillPromises DEF DInv, DeltaCursorOK
  <1>4. \A q \in Procs : q = p  BY DEF OneProcess
  <1> QED  BY <1>1, <1>3, <1>4 DEF DInv

\* The log is read, changed by others, and rolls.
LEMMA RollDelta ==
    ASSUME OneProcess, CTInv, CTInv', DInv, Onward, Roll
    PROVE  DInv'
  <1> DEFINE oldest == Min({e.time : e \in log})
  <1>1. /\ \E e \in log : e.time > oldest
        /\ log' = {e \in log : e.time > oldest} /\ UNCHANGED <<latest, saving, now, official, cursor, run>>
      BY DEF Roll, storeVars
  <1>2. oldest \in Int /\ \A e \in log : oldest <= e.time
    <2>1. \A n \in 1..now : n \in Int  OBVIOUS
    <2> QED  BY <2>1, LogBounds
  <1> HIDE DEF oldest
  <1>3. ASSUME NEW t \in Int, NEW e \in log, t <= e.time PROVE \E f \in log' : t <= f.time
    <2>1. CASE e.time > oldest  BY <1>1, <1>3, <2>1
    <2>2. CASE ~(e.time > oldest)
      <3>1. PICK f \in log : f.time > oldest  BY <1>1
      <3>2. e.time \in Int /\ f.time \in Int  BY CveTyped
      <3>3. t <= f.time  BY <1>2, <1>3, <2>2, <3>1, <3>2
      <3> QED  BY <1>1, <3>1, <3>3
    <2> QED  BY <2>1, <2>2
  <1>4. \A t \in Int : Past(t) => Past(t)'
      BY <1>1, <1>3 DEF Past
  <1>5. LogOK'
    <2>1. \A e \in log' : e \in log /\ e.time > oldest  BY <1>1
    <2>2. \A e \in log' : e.time <= official'["cve"][e.id]  BY <1>1, <2>1 DEF DInv, LogOK
    <2>3. ASSUME NEW i \in Ids, NEW e \in log', e.time <= official'["cve"][i] PROVE Event(i)' \in log'
      <3>1. Event(i) \in log  BY <1>1, <2>1, <2>3 DEF DInv, LogOK
      <3>2. Event(i).time = official["cve"][i] /\ official["cve"][i] \in Int /\ e.time \in Int
          BY <2>1, CveTyped
      <3>3. Event(i).time > oldest  BY <1>1, <1>2, <2>1, <2>3, <3>2
      <3>4. Event(i)' = Event(i)  BY <1>1 DEF Event
      <3> QED  BY <1>1, <3>1, <3>3, <3>4
    <2>4. ASSUME NEW i \in Ids PROVE \E e \in log' : official'["cve"][i] <= e.time
      <3>1. \E e \in log : official["cve"][i] <= e.time  BY DEF DInv, LogOK
      <3>2. official["cve"][i] \in Int  BY CveTyped
      <3> QED  BY <1>1, <1>3, <3>1, <3>2
    <2> QED  BY <2>2, <2>3, <2>4 DEF LogOK
  <1>6. \A i \in Ids : Got("cve", i) => Got("cve", i)'
      BY <1>1, GotStays, Bounds
  <1>0. \A t \in Int : GotUpTo(t) => GotUpTo(t)'
      BY <1>1, <1>6 DEF GotUpTo
  <1>7. \A t \in Int : GotToTime(t) => GotToTime(t)'
      BY <1>0, <1>4 DEF GotToTime
  <1>8. \A f \in Events : GotToEvent(f) => GotToEvent(f)'
    <2>1. \A f \in Events : f.time \in Int  BY DEF Events
    <2> QED  BY <1>1, <1>4, <1>6, <2>1 DEF GotToEvent, Event
  <1>9. DeltaCursorOK(cursor.delta)'
    <2>1. cursor.delta.mark \in Int /\ cursor.delta.scan \in Int /\ cursor.delta.after \in Events
        BY DEF CTInv, CursorTyped, DeltaCursorTyped
    <2> QED  BY <1>0, <1>1, <1>7, <1>8, <2>1 DEF DInv, DeltaCursorOK
  <1>10. ASSUME NEW p \in Procs, run[p].kind = "delta" PROVE DeltaOK(p)'
    <2> DEFINE r == run[p]
    <2>1. DeltaOK(p) /\ r.newest \in Int /\ r.checkpoint \in Int
        BY <1>10 DEF DInv, CTInv, RunTyped, DeltaTyped
    <2>2. Past(r.newest)' /\ GotUpTo(r.checkpoint)'
        BY <1>0, <1>1, <1>4, <2>1 DEF DeltaOK
    <2>3. ~r.failed => \A i \in Ids :
               official["cve"][i] <= r.newest /\ (r.truncated => UpTo(Event(i), r.last)) =>
                   Got("cve", i)' \/ Event(i) \in r.items
        BY <1>6, <2>1 DEF DeltaOK
    <2>4. \A i : Event(i)' = Event(i)  BY <1>1 DEF Event
    <2> QED  BY <1>1, <2>1, <2>2, <2>3, <2>4 DEF DeltaOK, Due
  <1> QED  BY <1>1, <1>5, <1>9, <1>10 DEF DInv

\* An update: its event is later than any mark, and excused where a --since ahead
\* of the clock has put the checkpoint of a scan behind it.
LEMMA PublishDelta ==
    ASSUME OneProcess, CTInv, CTInv', DInv, Onward, NEW i \in Ids, Publish(i)
    PROVE  DInv'
  <1> DEFINE new == [time |-> now, id |-> i]
  <1>1. /\ \A e \in log : e.time < now
        /\ official' = [official EXCEPT !["cve"][i] = now] /\ log' = log \cup {new}
        /\ excused' = [excused EXCEPT !["cve"] = @ \cup BeforeCheckpoint(i)]
        /\ UNCHANGED <<latest, saving, now, cursor, run>>
      BY DEF Publish, Change, storeVars
  <1>2. /\ official'["cve"][i] = now /\ \A j \in Ids \ {i} : official'["cve"][j] = official["cve"][j]
        /\ Event(i)' = new /\ \A j \in Ids \ {i} : Event(j)' = Event(j)
    <2>1. official'["cve"][i] = now /\ \A j \in Ids \ {i} : official'["cve"][j] = official["cve"][j]
        BY <1>1, Bounds DEF CTInv
    <2> QED  BY <2>1 DEF Event
  <1>3. now \in Int /\ new.time = now /\ new.id = i  BY CveTyped
  <1>4. \A e \in log : e.time \in Int /\ e.id \in Ids  BY CveTyped
  <1> HIDE DEF new
  <1>5. ASSUME NEW t \in Int, Past(t) PROVE t < now /\ Past(t)'
    <2>1. t < now  BY <1>1, <1>3, <1>4, <1>5 DEF Past
    <2> QED  BY <1>1, <2>1 DEF Past
  <1>6. LogOK'
    <2>1. ASSUME NEW e \in log' PROVE e.time <= official'["cve"][e.id]
      <3>1. CASE e = new  BY <1>2, <1>3, <3>1
      <3>2. CASE e \in log /\ e.id = i  BY <1>1, <1>2, <1>3, <1>4, <3>2
      <3>3. CASE e \in log /\ e.id # i  BY <1>2, <1>4, <3>3 DEF DInv, LogOK
      <3> QED  BY <1>1, <3>1, <3>2, <3>3
    <2>2. ASSUME NEW j \in Ids, NEW e \in log', e.time <= official'["cve"][j] PROVE Event(j)' \in log'
      <3>1. CASE j = i  BY <1>1, <1>2, <3>1
      <3>2. CASE j # i /\ e \in log  BY <1>1, <1>2, <2>2, <3>2 DEF DInv, LogOK
      <3>3. CASE j # i /\ e = new
        <4>1. PICK f \in log : official["cve"][j] <= f.time  BY DEF DInv, LogOK
        <4>2. official["cve"][j] \in Int /\ f.time < now /\ f.time \in Int  BY <1>1, <1>4, CveTyped
        <4>3. now <= official["cve"][j]  BY <1>2, <1>3, <2>2, <3>3
        <4> QED  BY <1>3, <4>1, <4>2, <4>3
      <3> QED  BY <1>1, <3>1, <3>2, <3>3
    <2>3. ASSUME NEW j \in Ids PROVE \E e \in log' : official'["cve"][j] <= e.time
      <3>1. CASE j = i
        <4>1. official'["cve"][i] <= new.time  BY <1>2, <1>3
        <4> QED  BY <1>1, <3>1, <4>1
      <3>2. CASE j # i  BY <1>1, <1>2, <3>2 DEF DInv, LogOK
      <3> QED  BY <3>1, <3>2
    <2> QED  BY <2>1, <2>2, <2>3 DEF LogOK
  <1>7. \A j \in Ids \ {i} : Got("cve", j) => Got("cve", j)'
      BY <1>2, GotStays, Bounds
  <1>8. ASSUME NEW t \in Int, GotToTime(t) PROVE GotToTime(t)'
    <2>1. t < now /\ Past(t)'  BY <1>5, <1>8 DEF GotToTime
    <2>2. ASSUME NEW j \in Ids, official'["cve"][j] <= t PROVE Got("cve", j)'
      <3>1. j # i  BY <1>2, <1>3, <2>1, <2>2
      <3> QED  BY <1>2, <1>7, <1>8, <2>2, <3>1 DEF GotToTime, GotUpTo
    <2> QED  BY <2>1, <2>2 DEF GotToTime, GotUpTo
  <1>12. ASSUME NEW t \in Int, GotUpTo(t),
                t = cursor.delta.scan \/ \E p \in Procs : run[p].kind = "delta" /\ run[p].checkpoint = t
         PROVE  GotUpTo(t)'
    <2>1. SUFFICES ASSUME NEW j \in Ids, official'["cve"][j] <= t PROVE Got("cve", j)'
        BY DEF GotUpTo
    <2>2. CASE j # i  BY <1>2, <1>7, <1>12, <2>1, <2>2 DEF GotUpTo
    <2>3. CASE j = i
      <3>1. now <= t  BY <1>2, <2>1, <2>3
      <3>2. [id |-> i, time |-> now] \in BeforeCheckpoint(i)  BY <1>12, <3>1 DEF BeforeCheckpoint
      <3>3. [id |-> i, time |-> now] \in excused'["cve"]  BY <1>1, <3>2, Bounds DEF CTInv
      <3> QED  BY <1>2, <2>3, <3>3 DEF Got
    <2> QED  BY <2>2, <2>3
  <1>9. ASSUME NEW f \in Events, GotToEvent(f) PROVE GotToEvent(f)'
    <2>1. f.time \in Int  BY DEF Events
    <2>2. f.time < now /\ Past(f.time)'  BY <1>5, <1>9, <2>1 DEF GotToEvent
    <2>3. ASSUME NEW j \in Ids, UpTo(Event(j)', f) PROVE Got("cve", j)'
      <3>1. j # i
        <4>1. ~UpTo(new, f)  BY <1>3, <2>1, <2>2 DEF UpTo, Before
        <4> QED  BY <1>2, <2>3, <4>1
      <3> QED  BY <1>2, <1>7, <1>9, <2>3, <3>1 DEF GotToEvent
    <2> QED  BY <2>2, <2>3 DEF GotToEvent
  <1>10. DeltaCursorOK(cursor.delta)'
    <2>1. cursor.delta.mark \in Int /\ cursor.delta.scan \in Int /\ cursor.delta.after \in Events
        BY DEF CTInv, CursorTyped, DeltaCursorTyped
    <2> QED  BY <1>1, <1>8, <1>9, <1>12, <2>1 DEF DInv, DeltaCursorOK
  <1>11. ASSUME NEW p \in Procs, run[p].kind = "delta" PROVE DeltaOK(p)'
    <2> DEFINE r == run[p]
    <2>1. DeltaOK(p) /\ r.newest \in Int /\ r.checkpoint \in Int
        BY <1>11 DEF DInv, CTInv, RunTyped, DeltaTyped
    <2>2. r.newest < now /\ Past(r.newest)' /\ GotUpTo(r.checkpoint)' /\ r.last.time <= r.newest
        BY <1>1, <1>5, <1>11, <1>12, <2>1 DEF DeltaOK
    <2>3. \A j \in Ids : official'["cve"][j] <= r.newest => j # i
        BY <1>2, <1>3, <2>1, <2>2
    <2>4. ~r.failed => \A j \in Ids :
               official'["cve"][j] <= r.newest /\ (r.truncated => UpTo(Event(j)', r.last)) =>
                   Got("cve", j)' \/ Event(j)' \in r.items
        BY <1>2, <1>7, <2>1, <2>3 DEF DeltaOK
    <2>5. ASSUME r.pc = "resolve", NEW j, j = Earliest(r.items).id, official'["cve"][j] <= r.newest
          PROVE  Due(p, "cve", j, official["cve"][j])'
      <3>1. DeltaTyped(r, now)  BY <1>11 DEF CTInv, RunTyped
      <3>2. Earliest(r.items) \in r.items  BY <2>5, <3>1, EarliestEvent DEF DeltaTyped
      <3>3. j \in Ids \ {i}  BY <2>3, <2>5, <3>1, <3>2 DEF DeltaTyped
      <3>4. official'["cve"][j] = official["cve"][j]  BY <1>2, <3>3
      <3>5. Due(p, "cve", j, official["cve"][j])  BY <2>1, <2>5, <3>4 DEF DeltaOK
      <3> QED  BY <1>1, <3>4, <3>5 DEF Due
    <2> QED  BY <1>1, <2>2, <2>4, <2>5 DEF DeltaOK, Due
  <1> QED  BY <1>1, <1>6, <1>10, <1>11 DEF DInv

LEMMA WorldDelta ==
    ASSUME OneProcess, CTInv, CTInv', DInv, Onward, World
    PROVE  DInv'
  <1>1. CASE Tick \/ \E i \in Ids : Modify(i) \/ EditPage(i) \/ RepairFile(i)
    <2>1. UNCHANGED <<latest, saving, log, cursor, run>>
        BY <1>1 DEF Tick, Modify, EditPage, RepairFile, Change, storeVars
    <2>2. official'["cve"] = official["cve"]
        BY <1>1, Bounds DEF Tick, Modify, EditPage, RepairFile, CTInv
    <2>3. Still  BY <2>1, <2>2 DEF Still
    <2>4. LogOK' /\ DeltaCursorOK(cursor.delta)'
      <3>1. DeltaCursorTyped(cursor.delta, now)  BY DEF CTInv, CursorTyped
      <3> QED  BY <2>1, <2>3, <3>1, StillPromises DEF DInv, DeltaCursorOK
    <2>5. ASSUME NEW p \in Procs, run[p].kind = "delta" PROVE DeltaOK(p)'
      <3>1. DeltaOK(p)  BY <2>5 DEF DInv
      <3>2. ASSUME run'[p].pc = "resolve", NEW i, i = Earliest(run[p].items).id, official["cve"][i] <= run[p].newest
            PROVE  Due(p, "cve", i, official["cve"][i])'
        <4>1. run[p].pc = "resolve"  BY <2>1, <3>2
        <4>2. Due(p, "cve", i, official["cve"][i])  BY <3>1, <3>2, <4>1 DEF DeltaOK
        <4> QED  BY <2>1, <2>2, <4>2 DEF Due
      <3> QED  BY <2>1, <2>3, <2>5, <3>1, <3>2, ScanStays
    <2> QED  BY <2>1, <2>4, <2>5 DEF DInv
  <1> QED  BY <1>1, RollDelta, PublishDelta DEF World

\* A scan that starts: what it does not ask for is there, or was asked for in vain.
LEMMA StartDeltaScan ==
    ASSUME OneProcess, CTInv, CTInv', DInv, BInv, Onward, NEW p \in Procs,
           NEW since \in Starts, NEW limit \in Limits, StartDelta(p, since, limit)
    PROVE  DInv'
  <1> DEFINE saved == cursor.delta
             asked == CASE since # NoTime -> since
                        [] since = NoTime /\ saved.scan # NoTime -> saved.scan
                        [] OTHER -> saved.mark
             newest == Max({e.time : e \in log})
             oldest == Min({e.time : e \in log})
             checkpoint == IF asked # NoTime THEN asked ELSE newest - Lookback
             after == IF since = NoTime THEN saved.after ELSE NoEvent
             found == {e \in Discovered(checkpoint - Overlap) : after = NoEvent \/ Before(after, e)}
             items == {e \in found : Cardinality({f \in found : Before(f, e)}) < limit}
             last == IF items = {} THEN NoEvent ELSE Last(items)
             command == [kind |-> "delta", pc |-> "item", items |-> items, failed |-> FALSE, attempt |-> 1,
                         truncated |-> items # found, last |-> last,
                         checkpoint |-> checkpoint, newest |-> newest]
             given == since # NoTime \/ asked = NoTime
             before == Skipped("cve", Greater(oldest, checkpoint + 1))
  <1>1. /\ asked # NoTime => oldest <= checkpoint
        /\ Give(p, command) /\ UNCHANGED cursor
        /\ excused' = [excused EXCEPT !["cve"] = @ \cup (IF given THEN before ELSE {})]
      BY DEF StartDelta
  <1>2. Still /\ run'[p] = command /\ UNCHANGED cursor
      BY <1>1 DEF Give, BInv, Still, world
  <1>3. given => before \subseteq excused'["cve"]
      BY <1>1, Bounds DEF CTInv
  <1>4. /\ newest \in Nat /\ oldest \in Nat /\ (\E e \in log : e.time = newest)
        /\ \E e \in log : e.time = oldest
        /\ \A e \in log : oldest <= e.time /\ e.time <= newest
    <2>1. \A n \in 1..now : n \in Nat  OBVIOUS
    <2> QED  BY <2>1, LogBounds
  <1>5. DeltaCursorTyped(saved, now) /\ DeltaCursorOK(saved)  BY DEF CTInv, CursorTyped, DInv
  <1>6. asked \in Int /\ checkpoint \in Int /\ after \in Events /\ since \in Int /\ limit \in Nat
    <2>1. since \in Int /\ limit \in Nat  BY InputsTyped
    <2>2. asked \in Int  BY <1>5, <2>1 DEF DeltaCursorTyped
    <2>3. checkpoint \in Int  BY <1>4, <2>2, Bounds
    <2>4. after \in Events  BY <1>5, CveTyped DEF DeltaCursorTyped
    <2> QED  BY <2>1, <2>2, <2>3, <2>4
  <1>8. ~given => asked # NoTime /\ GotUpTo(asked)
      BY <1>5 DEF DeltaCursorOK, GotToTime
  <1>9. after # NoEvent => GotToEvent(after)
      BY <1>5 DEF DeltaCursorOK
  <1>10. asked = NoTime => checkpoint <= newest
      BY <1>4, Bounds
  <1>11. asked # NoTime => checkpoint = asked  OBVIOUS
  <1> HIDE DEF newest, oldest, saved
  <1>13. command.kind = "delta" /\ command.pc = "item" /\ command.items = items /\ command.failed = FALSE
         /\ command.truncated = (items # found) /\ command.last = last
         /\ command.checkpoint = checkpoint /\ command.newest = newest
      OBVIOUS
  <1> HIDE DEF command
  <1>14. ASSUME NEW i \in Ids, official["cve"][i] <= checkpoint PROVE Got("cve", i)'
    <2>1. CASE given
      <3>1. official["cve"][i] \in Int  BY CveTyped
      <3>2. official["cve"][i] < Greater(oldest, checkpoint + 1)
          BY <1>4, <1>6, <1>14, <3>1 DEF Greater
      <3>3. [id |-> i, time |-> official["cve"][i]] \in before  BY <3>2 DEF Skipped
      <3> QED  BY <1>2, <1>3, <2>1, <3>3 DEF Got, Still
    <2>2. CASE ~given
      <3>1. Got("cve", i)  BY <1>8, <1>11, <1>14, <2>2 DEF GotUpTo
      <3> QED  BY <1>2, <3>1, StillPromises
    <2> QED  BY <2>1, <2>2
  <1>15. PICK t, n, set, end, cut :
            t = checkpoint /\ n = newest /\ set = items /\ end = last /\ cut = (items # found)
      OBVIOUS
  <1>16. /\ run'[p].kind = "delta" /\ run'[p].pc = "item" /\ run'[p].items = set /\ run'[p].failed = FALSE
         /\ run'[p].truncated = cut /\ run'[p].last = end /\ run'[p].checkpoint = t /\ run'[p].newest = n
      BY <1>2, <1>13, <1>15
  <1>17. GotUpTo(t)'
    <2>1. \A i \in Ids : official["cve"][i] <= t => Got("cve", i)'  BY <1>14, <1>15
    <2> QED  BY <1>2, <2>1 DEF GotUpTo, Still
  <1>18. Past(n)'
    <2>1. Past(newest)  BY <1>4 DEF Past
    <2>2. n \in Int /\ Past(n)  BY <1>4, <1>15, <2>1
    <2> QED  BY <1>2, <2>2, StillPromises
  <1>19. items \in SUBSET Discovered(checkpoint - Overlap) /\ found \in SUBSET Discovered(checkpoint - Overlap)
      OBVIOUS
  <1> HIDE DEF checkpoint, after
  <1>20. /\ items \subseteq Events /\ IsFiniteSet(items) /\ found \subseteq Events /\ IsFiniteSet(found)
         /\ items # {} => last \in items /\ \A e \in items \ {last} : Before(e, last)
         /\ items = {} => last = NoEvent
      BY <1>19, ScanTyped
  <1>21. end.time <= n
    <2>1. CASE items = {}
      <3>1. end.time = 0  BY <1>15, <2>1 DEF NoEvent, NoTime
      <3>2. n \in Nat  BY <1>4, <1>15
      <3> HIDE DEF last, items, found
      <3> QED  BY <3>1, <3>2
    <2>2. CASE items # {}
      <3>1. last \in log  BY <1>19, <1>20, <2>2 DEF Discovered
      <3> HIDE DEF last
      <3>2. last.time <= newest  BY <1>4, <3>1
      <3> QED  BY <1>15, <3>2
    <2> QED  BY <2>1, <2>2
  <1>22. ASSUME NEW i \in Ids, official["cve"][i] <= newest, cut => UpTo(Event(i), last), ~Got("cve", i)'
         PROVE  Event(i) \in items
    <2> DEFINE e == Event(i)
    <2>0. e \in Events /\ e.time = official["cve"][i] /\ e.id = i /\ e.time \in Nat \ {0}  BY CveTyped
    <2>1. e.time > checkpoint  BY <1>6, <1>14, <1>22, <2>0
    <2>2. e \in log
      <3>1. oldest <= e.time
        <4>1. CASE asked # NoTime  BY <1>1, <1>4, <1>6, <2>0, <2>1, <4>1
        <4>2. CASE asked = NoTime
          <5>1. SUFFICES ASSUME ~(oldest <= e.time) PROVE FALSE
              OBVIOUS
          <5>2. official["cve"][i] < Greater(oldest, checkpoint + 1)
              BY <1>4, <1>6, <2>0, <5>1 DEF Greater
          <5>3. [id |-> i, time |-> official["cve"][i]] \in excused'["cve"]
              BY <1>3, <4>2, <5>2 DEF Skipped
          <5> QED  BY <1>2, <1>22, <5>3 DEF Got, Still
        <4> QED  BY <4>1, <4>2
      <3>2. \E f \in log : f.time <= official["cve"][i]  BY <1>4, <2>0, <3>1
      <3> QED  BY <3>2 DEF DInv, LogOK
    <2>3. e \in Discovered(checkpoint - Overlap)
      <3>1. e.time > checkpoint - Overlap  BY <1>6, <2>0, <2>1, Bounds
      <3>2. ASSUME NEW f \in log, f.id = e.id PROVE ~Before(e, f)
        <4>1. f.time \in Nat /\ f.time <= official["cve"][f.id]  BY CveTyped DEF DInv, LogOK
        <4>2. e.id = f.id /\ f.time <= e.time /\ e.id \in Nat  BY <2>0, <3>2, <4>1, Bounds
        <4> HIDE DEF e
        <4> QED  BY <2>0, <4>1, <4>2 DEF Before
      <3> QED  BY <2>2, <3>1, <3>2 DEF Discovered
    <2>4. e \in found
      <3>1. SUFFICES ASSUME after # NoEvent, ~Before(after, e) PROVE FALSE
          BY <2>3
      <3>2. UpTo(e, after)  BY <1>6, <2>0, <3>1, EventOrder DEF UpTo
      <3>3. Got("cve", i)  BY <1>9, <3>1, <3>2 DEF GotToEvent
      <3> QED  BY <1>2, <1>22, <3>3, StillPromises
    <2> HIDE DEF e, found
    <2>5. CASE ~cut  BY <1>15, <2>4, <2>5 DEF e
    <2>6. CASE cut
      <3>1. UpTo(e, last)  BY <1>22, <2>6 DEF e
      <3>2. items # {}
        <4>1. ~UpTo(e, NoEvent)  BY <2>0 DEF UpTo, Before, NoEvent, NoTime
        <4> QED  BY <1>20, <3>1, <4>1
      <3>3. last \in items /\ last \in Events  BY <1>20, <3>2
      <3>4. CASE e = last  BY <3>3, <3>4 DEF e
      <3>5. CASE Before(e, last)
        <4> DEFINE A == {f \in found : Before(f, e)}
                   B == {f \in found : Before(f, last)}
        <4>1. Cardinality(B) < limit  BY <3>3
        <4>2. A \subseteq B  BY <1>20, <2>0, <3>3, <3>5, EventOrder
        <4>3. IsFiniteSet(B) /\ Cardinality(B) \in Nat
            BY <1>20, FS_Subset, FS_CardinalityType
        <4>4. Cardinality(A) <= Cardinality(B) /\ Cardinality(A) \in Nat
            BY <4>2, <4>3, FS_Subset, FS_CardinalityType
        <4>5. Cardinality(A) < limit  BY <1>6, <4>1, <4>3, <4>4
        <4> QED  BY <2>4, <4>5 DEF e
      <3> QED  BY <3>1, <3>4, <3>5 DEF UpTo
    <2> QED  BY <2>5, <2>6
  <1> HIDE DEF items, last, found
  <1>23. \A i \in Ids : official["cve"][i] <= n /\ (cut => UpTo(Event(i), end)) =>
               Got("cve", i)' \/ Event(i) \in set
      BY <1>15, <1>22
  <1>24. DeltaOK(p)'
    <2>1. \A i : Event(i)' = Event(i)  BY <1>2 DEF Event, Still
    <2> QED  BY <1>2, <1>16, <1>17, <1>18, <1>21, <1>23, <2>1 DEF DeltaOK, Still
  <1> QED  BY <1>2, <1>24, DeltaSuffices

\* Commands of other kinds start.
LEMMA StartsDelta ==
    ASSUME OneProcess, CTInv, CTInv', DInv, BInv, Onward, NEW p \in Procs, Start(p)
    PROVE  DInv'
  <1>1. ASSUME NEW command, Give(p, command), UNCHANGED cursor, command.kind # "delta" PROVE DInv'
    <2>1. Still /\ run'[p] = command  BY <1>1 DEF Give, Still, world, BInv
    <2> QED  BY <1>1, <2>1, DeltaSuffices
  <1>2. ASSUME NEW full, NEW since, NEW end, NEW limit, StartNvd(p, full, since, end, limit) PROVE DInv'
      BY <1>1, <1>2 DEF StartNvd
  <1>3. ASSUME NEW limit, StartBaseline(p, limit) PROVE DInv'
      BY <1>1, <1>3 DEF StartBaseline
  <1>4. ASSUME NEW s, NEW ids, StartBatch(p, s, ids) PROVE DInv'
      BY <1>1, <1>4 DEF StartBatch
  <1>5. ASSUME NEW s, NEW i, StartCollect(p, s, i) PROVE DInv'
      BY <1>1, <1>5 DEF StartCollect
  <1>6. CASE StartRetry(p)
      BY <1>1, <1>6 DEF StartRetry
  <1> QED  BY <1>2, <1>3, <1>4, <1>5, <1>6, StartDeltaScan DEF Start

\* A record of the scan is fetched, resolved, or fails; the scan ends.
LEMMA ItemsDelta ==
    ASSUME OneProcess, CTInv, CTInv', DInv, BInv, Onward, NEW p \in Procs, ItemStep(p)
    PROVE  DInv'
  <1> DEFINE r == run[p]
  <1>0. quiet' = quiet /\ Still /\ p \in DOMAIN run
      BY DEF ItemStep, FetchItem, FetchItemFails, CollectFails, ResolveItem, EndDelta, EndBatch, quiet, world,
         Still, BInv
  <1>1. r.kind \in {"delta", "batch", "collect"}
      BY DEF ItemStep, FetchItem, FetchItemFails, CollectFails, ResolveItem, EndDelta, EndBatch
  <1>2. CASE r.kind # "delta"
    <2>1. ItemCommand(r)  BY <1>1, ItemShape DEF ItemKinds
    <2>2. run'[p].kind # "delta" /\ cursor'.delta = cursor.delta
      <3> USE <1>0, <1>1, <1>2, <2>1 DEF ItemCommand, Finish, NoRun
      <3>1. CASE FetchItem(p)  BY <3>1 DEF FetchItem
      <3>2. CASE FetchItemFails(p)  BY <3>2 DEF FetchItemFails
      <3>3. CASE CollectFails(p)  BY <3>3 DEF CollectFails
      <3>4. CASE ResolveItem(p)  BY <3>4 DEF ResolveItem
      <3>5. CASE EndDelta(p)  BY <3>5 DEF EndDelta
      <3>6. CASE EndBatch(p)  BY <3>6 DEF EndBatch
      <3> QED  BY <3>1, <3>2, <3>3, <3>4, <3>5, <3>6 DEF ItemStep
    <2> QED  BY <1>0, <2>2, DeltaSuffices
  <1>3. CASE r.kind = "delta"
    <2>1. DeltaTyped(r, now) /\ DeltaOK(p)  BY <1>3 DEF CTInv, RunTyped, DInv
    <2>2. r.items # {} => Earliest(r.items) \in r.items  BY <2>1, EarliestEvent DEF DeltaTyped
    <2>3. CASE FetchItem(p)
      <3> DEFINE i == Earliest(r.items).id
      <3>1. r.items # {} /\ ItemRow(r) = IdRow("cve", i)
          BY <1>3, <2>3 DEF FetchItem, Fetching, ItemRow, Item
      <3>2. run' = [run EXCEPT ![p].pc = "resolve"] /\ UNCHANGED <<latest, cursor>>
          BY <2>3 DEF FetchItem
      <3>3. BeginSave(p, "cve", [j \in {i} |-> Version("cve", i)])
        <4>0. ItemRow(r).source = "cve" /\ ItemRow(r).a = i  BY <3>1 DEF IdRow, Row
        <4>1. PICK record \in Answers("cve", i) : BeginSave(p, "cve", [j \in {i} |-> record])
          <5>1. PICK record \in Answers(ItemRow(r).source, ItemRow(r).a) :
                    BeginSave(p, ItemRow(r).source, [j \in {ItemRow(r).a} |-> record])
              BY <2>3 DEF FetchItem
          <5> HIDE DEF i
          <5> QED  BY <4>0, <5>1
        <4>2. record = Version("cve", i)  BY DEF Answers
        <4> QED  BY <4>1, <4>2
      <3>4. /\ run'[p].items = r.items /\ run'[p].failed = r.failed /\ run'[p].truncated = r.truncated
            /\ run'[p].last = r.last /\ run'[p].checkpoint = r.checkpoint /\ run'[p].newest = r.newest
          BY <1>0, <2>1, <3>2 DEF DeltaTyped, DeltaFields
      <3>5. PICK k : k = i  OBVIOUS
      <3>6. saving'[p] = Call("cve", [j \in {k} |-> Version("cve", k)])
          BY <3>3, <3>5 DEF BeginSave, BInv
      <3>7. Due(p, "cve", k, official["cve"][k])'
        <4>1. k \in Ids  BY <2>1, <2>2, <3>1, <3>5 DEF DeltaTyped
        <4>2. official["cve"][k] \in Nat  BY <4>1, CveTyped
        <4>3. saving'[p].source = "cve" /\ saving'[p].batch = [j \in {k} |-> Version("cve", k)]
            BY <3>6 DEF Call
        <4>4. k \in DOMAIN saving'[p].batch /\ saving'[p].batch[k].time = official["cve"][k]
            BY <4>3 DEF Version
        <4> QED  BY <1>0, <4>2, <4>3, <4>4 DEF Due, Still
      <3> HIDE DEF i
      <3>8. \A j : j = i => Due(p, "cve", j, official["cve"][j])'
          BY <3>5, <3>7
      <3>9. DeltaOK(p)'  BY <1>0, <1>3, <2>1, <3>4, <3>8, ScanStays DEF i
      <3> QED  BY <1>0, <3>2, <3>9, DeltaSuffices
    <2>4. CASE FetchItemFails(p)
      <3>1. run' = [run EXCEPT ![p] = [r EXCEPT !.items = @ \ {Item(r)}, !.failed = TRUE, !.attempt = 1]]
            /\ cursor' = cursor /\ r.pc = "item"
          BY <1>3, <2>4 DEF FetchItemFails, Fetching
      <3>2. /\ run'[p].failed = TRUE /\ run'[p].last = r.last /\ run'[p].checkpoint = r.checkpoint
            /\ run'[p].newest = r.newest /\ run'[p].pc = "item"
          BY <1>0, <2>1, <3>1 DEF DeltaTyped, DeltaFields
      <3>3. r.newest \in Int /\ r.checkpoint \in Int  BY <2>1 DEF DeltaTyped
      <3>4. PICK n, c : n = r.newest /\ c = r.checkpoint  OBVIOUS
      <3>5. Past(n)' /\ GotUpTo(c)' /\ r.last.time <= n
          BY <1>0, <2>1, <3>3, <3>4, StillPromises DEF DeltaOK
      <3>6. DeltaOK(p)'  BY <3>2, <3>4, <3>5 DEF DeltaOK
      <3> QED  BY <1>0, <3>1, <3>6, DeltaSuffices
    <2>5. CASE ResolveItem(p)
      <3> DEFINE e == Earliest(r.items)
      <3>1. /\ run' = [run EXCEPT ![p].pc = "item", ![p].items = @ \ {Item(r)}, ![p].attempt = 1]
            /\ cursor' = cursor /\ r.pc = "resolve" /\ Saved(p) /\ Item(r) = e
          BY <1>3, <2>5 DEF ResolveItem, Item
      <3>2. /\ run'[p].failed = r.failed /\ run'[p].last = r.last /\ run'[p].checkpoint = r.checkpoint
            /\ run'[p].newest = r.newest /\ run'[p].pc = "item" /\ run'[p].truncated = r.truncated
            /\ run'[p].items = r.items \ {e}
          BY <1>0, <2>1, <3>1 DEF DeltaTyped, DeltaFields
      <3>3. r.newest \in Int /\ r.checkpoint \in Int  BY <2>1 DEF DeltaTyped
      <3>4. PICK n, c : n = r.newest /\ c = r.checkpoint  OBVIOUS
      <3>5. Past(n)' /\ GotUpTo(c)' /\ r.last.time <= n
          BY <1>0, <2>1, <3>3, <3>4, StillPromises DEF DeltaOK
      <3>6. official["cve"][e.id] <= n => Got("cve", e.id)
        <4>1. official["cve"][e.id] <= n => Due(p, "cve", e.id, official["cve"][e.id])
            BY <2>1, <3>1, <3>4 DEF DeltaOK
        <4>2. official["cve"][e.id] <= n => latest["cve"][e.id].time >= official["cve"][e.id]
            BY <3>1, <4>1, DueSaved
        <4> QED  BY <4>2 DEF Got
      <3>7. ASSUME ~r.failed, NEW i \in Ids, official["cve"][i] <= n, r.truncated => UpTo(Event(i), r.last)
            PROVE  Got("cve", i)' \/ Event(i) \in r.items \ {e}
        <4>1. Got("cve", i) \/ Event(i) \in r.items  BY <2>1, <3>4, <3>7 DEF DeltaOK
        <4>2. CASE Event(i) = e
          <5>1. e.id = i  BY <4>2 DEF Event
          <5> QED  BY <1>0, <3>6, <3>7, <5>1, StillPromises
        <4>3. CASE Got("cve", i)  BY <1>0, <4>3, StillPromises
        <4> QED  BY <4>1, <4>2, <4>3
      <3> HIDE DEF e
      <3>8. \A i : Event(i)' = Event(i)  BY <1>0 DEF Event, Still
      <3>9. DeltaOK(p)'
          BY <1>0, <3>2, <3>4, <3>5, <3>7, <3>8 DEF DeltaOK, Still
      <3> QED  BY <1>0, <3>1, <3>9, DeltaSuffices
    <2>6. CASE EndDelta(p)
      <3>1. /\ cursor' = [cursor EXCEPT !.delta = DeltaCursor(r)] /\ r.pc = "item" /\ r.items = {}
            /\ run'[p] = NoRun
          BY <1>0, <2>6 DEF EndDelta, Finish
      <3>2. DeltaCursorTyped(cursor.delta, now) /\ DeltaCursorOK(cursor.delta)  BY DEF CTInv, CursorTyped, DInv
      <3>3. ASSUME ~r.failed PROVE DeltaCursorOK(ScanCursor(r))
        <4>1. GotToTime(NoTime)
          <5>1. now \in Nat \ {0} /\ \A i \in Ids : official["cve"][i] \in Nat \ {0}  BY CveTyped
          <5>2. \A i \in Ids : ~(official["cve"][i] <= NoTime)  BY <5>1 DEF NoTime
          <5> QED  BY <5>1, <5>2 DEF GotToTime, GotUpTo, Past, NoTime
        <4>2. CASE r.truncated
          <5>1. ASSUME NEW i \in Ids, UpTo(Event(i), r.last) PROVE Got("cve", i)
            <6>1. official["cve"][i] <= r.last.time
              <7>1. Event(i) = r.last \/ Before(Event(i), r.last)  BY <5>1 DEF UpTo
              <7>2. Event(i).time = official["cve"][i] /\ official["cve"][i] \in Int /\ r.last.time \in Int
                  BY <2>1, CveTyped DEF DeltaTyped, Events
              <7> QED  BY <7>1, <7>2 DEF Before
            <6>2. official["cve"][i] <= r.newest
              <7>1. official["cve"][i] \in Int /\ r.last.time \in Int /\ r.newest \in Int
                  BY <2>1, CveTyped DEF DeltaTyped, Events
              <7>2. r.last.time <= r.newest  BY <2>1 DEF DeltaOK
              <7> QED  BY <6>1, <7>1, <7>2
            <6> QED  BY <2>1, <3>1, <3>3, <5>1, <6>2 DEF DeltaOK
          <5>2. Past(r.last.time)
            <6>1. Past(r.newest) /\ r.last.time <= r.newest  BY <2>1 DEF DeltaOK
            <6>2. r.last.time \in Int /\ r.newest \in Int /\ now \in Int /\ \A e \in log : e.time \in Int
                BY <2>1, CveTyped DEF DeltaTyped, Events
            <6> QED  BY <6>1, <6>2 DEF Past
          <5>3. GotToEvent(r.last)  BY <5>1, <5>2 DEF GotToEvent
          <5>4. GotUpTo(r.checkpoint)  BY <2>1 DEF DeltaOK
          <5> QED  BY <4>1, <4>2, <5>3, <5>4 DEF ScanCursor, DeltaCursorOK
        <4>3. CASE ~r.truncated
          <5>1. GotToTime(r.newest)  BY <2>1, <3>1, <3>3, <4>3 DEF DeltaOK, GotToTime, GotUpTo
          <5> QED  BY <4>3, <5>1 DEF ScanCursor, DeltaCursorOK
        <4> QED  BY <4>2, <4>3
      <3>4. DeltaCursorTyped(DeltaCursor(r), now) /\ DeltaCursorOK(DeltaCursor(r))
        <4>1. CASE r.failed  BY <3>2, <4>1 DEF DeltaCursor
        <4>2. CASE ~r.failed
          <5>1. now \in Nat /\ NoEvent \in Events /\ NoTime \in 0..now  BY CveTyped DEF NoTime
          <5>2. DeltaCursorTyped(ScanCursor(r), now)
              BY <2>1, <5>1 DEF ScanCursor, DeltaCursorTyped, DeltaTyped
          <5> QED  BY <3>3, <4>2, <5>2 DEF DeltaCursor
        <4> QED  BY <4>1, <4>2
      <3>5. PICK c : c = DeltaCursor(r)  OBVIOUS
      <3>6. DeltaCursorOK(c)'  BY <1>0, <3>4, <3>5, StillPromises
      <3>7. cursor'.delta = c  BY <3>1, <3>5 DEF BInv
      <3>8. LogOK'  BY <1>0, StillPromises DEF DInv
      <3>9. DeltaCursorOK(cursor.delta)'  BY <3>6, <3>7 DEF DeltaCursorOK
      <3>10. \A q \in Procs : run'[q].kind # "delta"  BY <3>1 DEF OneProcess, NoRun
      <3> QED  BY <3>8, <3>9, <3>10 DEF DInv
    <2>7. ~CollectFails(p) /\ ~EndBatch(p)  BY <1>3 DEF CollectFails, EndBatch
    <2> QED  BY <2>3, <2>4, <2>5, <2>6, <2>7 DEF ItemStep
  <1> QED  BY <1>2, <1>3

\* Steps that leave the scan where it is.
LEMMA OthersDelta ==
    ASSUME OneProcess, CTInv, CTInv', DInv, BInv, TInv, Onward, NEW p \in Procs,
           RequestAgain(p) \/ NvdStep(p) \/ BaselineStep(p) \/ SaveStep(p) \/ Kill(p)
    PROVE  DInv'
  <1> DEFINE r == run[p]
  <1>1. CASE RequestAgain(p)
    <2>1. Still /\ UNCHANGED <<latest, saving, cursor>> /\ run' = [run EXCEPT ![p].attempt = @ + 1]
        BY <1>1 DEF RequestAgain, quiet, world, storeVars, Still
    <2>2. r.kind = "delta" => DeltaOK(p)'
      <3> SUFFICES ASSUME r.kind = "delta" PROVE DeltaOK(p)'
          OBVIOUS
      <3>1. DeltaTyped(r, now) /\ DeltaOK(p) /\ p \in DOMAIN run  BY DEF CTInv, RunTyped, DInv, BInv
      <3>2. /\ run'[p].items = r.items /\ run'[p].failed = r.failed /\ run'[p].truncated = r.truncated
            /\ run'[p].last = r.last /\ run'[p].checkpoint = r.checkpoint /\ run'[p].newest = r.newest
            /\ run'[p].pc = r.pc
          BY <2>1, <3>1 DEF DeltaTyped, DeltaFields
      <3>3. \A i : i = Earliest(r.items).id /\ official["cve"][i] <= r.newest /\ r.pc = "resolve" =>
                       Due(p, "cve", i, official["cve"][i])'
          BY <2>1, <3>1 DEF DeltaOK, Due, Still
      <3> QED  BY <2>1, <3>1, <3>2, <3>3, ScanStays
    <2>3. run'[p].kind = r.kind
      <3>1. ItemCommand(r) /\ p \in DOMAIN run
          BY <1>1, ItemShape DEF RequestAgain, Fetching, ItemKinds, BInv
      <3> QED  BY <2>1, <3>1 DEF ItemCommand
    <2> QED  BY <2>1, <2>2, <2>3, DeltaSuffices
  <1>2. CASE NvdStep(p)
    <2>1. r.kind = "nvd" /\ quiet' = quiet
        BY <1>2 DEF NvdStep, FetchPage, FetchPageFails, ResolvePage, SavePageCursor, CloseWindow
    <2>2. Still  BY <2>1 DEF quiet, world, Still
    <2>3. ItemCommand(r) /\ p \in DOMAIN run  BY <2>1, ItemShape DEF ItemKinds, BInv
    <2>4. run'[p].kind # "delta"
      <3> USE <2>1, <2>3 DEF ItemCommand, NoRun, Finish
      <3>1. CASE FetchPage(p)  BY <3>1 DEF FetchPage
      <3>2. CASE FetchPageFails(p)  BY <3>2 DEF FetchPageFails
      <3>3. CASE ResolvePage(p)  BY <3>3 DEF ResolvePage
      <3>4. CASE SavePageCursor(p)
        <4> DEFINE left == IF r.left = NoLimit THEN NoLimit ELSE r.left - r.rows
        <4>1. run'[p] \in {[r EXCEPT !.pc = "close", !.left = left], NoRun,
                           [r EXCEPT !.pc = "fetch", !.left = left, !.index = NextIndex(r), !.attempt = 1]}
            BY <3>4 DEF SavePageCursor
        <4>2. run'[p] = NoRun \/ run'[p].kind = "nvd"  BY <4>1
        <4> QED  BY <4>2
      <3>5. CASE CloseWindow(p)
        <4>1. run'[p] \in {NoRun, [r EXCEPT !.pc = "fetch", !.windows = Tail(r.windows), !.index = 0,
                                           !.attempt = 1, !.mark = Reached(r)]}
            BY <3>5 DEF CloseWindow
        <4>2. run'[p] = NoRun \/ run'[p].kind = "nvd"  BY <4>1
        <4> QED  BY <4>2
      <3> QED  BY <1>2, <3>1, <3>2, <3>3, <3>4, <3>5 DEF NvdStep
    <2>5. cursor'.delta = cursor.delta
      <3>1. \/ cursor' = cursor
            \/ \E c : cursor' = [cursor EXCEPT ![r.stream] = c]
          BY <1>2 DEF NvdStep, FetchPage, FetchPageFails, ResolvePage, SavePageCursor, CloseWindow
      <3>2. r.stream # "delta"  BY <2>1, <2>3 DEF ItemCommand
      <3> QED  BY <3>1, <3>2 DEF BInv
    <2> QED  BY <2>2, <2>4, <2>5, DeltaSuffices
  <1>3. CASE BaselineStep(p)
    <2>1. r.kind = "baseline" /\ quiet' = quiet
        BY <1>3 DEF BaselineStep, ReadFile, Flush, AfterFlush, EndBaseline
    <2>2. Still  BY <2>1 DEF quiet, world, Still
    <2>3. DOMAIN r = BaselineFields /\ p \in DOMAIN run  BY <2>1, BaselineRun DEF BInv
    <2>4. run'[p].kind # "delta"
      <3> USE <2>1, <2>3 DEF BaselineFields, NoRun, Finish
      <3>1. CASE ReadFile(p)  BY <3>1 DEF ReadFile
      <3>2. CASE Flush(p)  BY <3>2 DEF Flush
      <3>3. CASE AfterFlush(p)  BY <3>3 DEF AfterFlush
      <3>4. CASE EndBaseline(p)  BY <3>4 DEF EndBaseline
      <3> QED  BY <1>3, <3>1, <3>2, <3>3, <3>4 DEF BaselineStep
    <2>5. cursor'.delta = cursor.delta
        BY <1>3 DEF BaselineStep, ReadFile, Flush, AfterFlush, EndBaseline, BInv
    <2> QED  BY <2>2, <2>4, <2>5, DeltaSuffices
  <1>4. CASE SaveStep(p)
    <2>1. Still /\ UNCHANGED <<cursor, run>>  BY <1>4 DEF SaveStep, world, Still
    <2>2. r.kind = "delta" => DeltaOK(p)'
      <3> SUFFICES ASSUME r.kind = "delta" PROVE DeltaOK(p)'
          OBVIOUS
      <3>1. DeltaTyped(r, now) /\ DeltaOK(p)  BY DEF CTInv, RunTyped, DInv
      <3>2. ASSUME r.pc = "resolve", NEW i, i = Earliest(r.items).id, official["cve"][i] <= r.newest
            PROVE  Due(p, "cve", i, official["cve"][i])'
        <4>1. i \in Ids  BY <3>1, <3>2, EarliestEvent DEF DeltaTyped
        <4>2. PICK t \in Int : t = official["cve"][i]  BY <4>1, CveTyped
        <4>3. Due(p, "cve", i, t)  BY <3>1, <3>2, <4>2 DEF DeltaOK
        <4>4. Due(p, "cve", i, t)'  BY <1>4, <4>1, <4>3, DueStays, Bounds
        <4> QED  BY <2>1, <4>2, <4>4 DEF Due, Still
      <3> QED  BY <2>1, <3>1, <3>2, ScanStays
    <2> QED  BY <2>1, <2>2, DeltaSuffices
  <1>5. CASE Kill(p)
    <2>1. Still /\ UNCHANGED cursor /\ run'[p] = NoRun
        BY <1>5 DEF Kill, Finish, world, Still, BInv
    <2> QED  BY <2>1, DeltaSuffices DEF NoRun
  <1> QED  BY <1>1, <1>2, <1>3, <1>4, <1>5

LEMMA DeltaInit == CollectionInit => DInv
  <1> SUFFICES ASSUME CollectionInit PROVE DInv
      OBVIOUS
  <1>1. /\ official = [s \in Sources |-> [i \in Ids |-> IF s = "cve" THEN FirstLogged ELSE 1]]
        /\ log = {[time |-> FirstLogged, id |-> i] : i \in Ids} /\ now = FirstTime
        /\ cursor.delta = [mark |-> NoTime, scan |-> NoTime, after |-> NoEvent]
        /\ \A p \in Procs : run[p] = NoRun
      BY DEF CollectionInit
  <1>2. \A i \in Ids : official["cve"][i] = FirstLogged  BY <1>1, Bounds
  <1>3. FirstLogged \in Nat /\ FirstLogged > 0 /\ now \in Nat /\ now > 0
      BY <1>1, Bounds, CollectionAssumption DEF FirstTime
  <1>4. LogOK
    <2>1. \A e \in log : e.time = FirstLogged /\ e.id \in Ids /\ e.time <= official["cve"][e.id]
        BY <1>1, <1>2, <1>3
    <2>2. \A i \in Ids : Event(i) \in log  BY <1>1, <1>2 DEF Event
    <2>3. \A i \in Ids : \E e \in log : official["cve"][i] <= e.time
      <3> TAKE i \in Ids
      <3>1. Event(i).time = official["cve"][i] /\ official["cve"][i] <= official["cve"][i]
          BY <1>2, <1>3 DEF Event
      <3> QED  BY <2>2, <3>1
    <2> QED  BY <2>1, <2>2, <2>3 DEF LogOK
  <1>5. GotToTime(NoTime)
      BY <1>2, <1>3 DEF GotToTime, GotUpTo, Past, NoTime
  <1>6. DeltaCursorOK(cursor.delta)  BY <1>1, <1>5 DEF DeltaCursorOK
  <1> QED  BY <1>1, <1>4, <1>6 DEF DInv, NoRun

LEMMA DeltaSteps ==
    ASSUME OneProcess, BInv, TInv, CTInv, CTInv', DInv, [Next]_vars
    PROVE  DInv'
  <1>1. Onward  BY MovesOn
  <1>2. CASE UNCHANGED vars
    <2>1. UNCHANGED <<latest, saving, now, official, log, cursor, run, excused>>
        BY <1>2 DEF vars, storeVars, world
    <2> QED  BY <2>1 DEF DInv, LogOK, DeltaCursorOK, DeltaOK, GotToTime, GotUpTo, GotToEvent, Past, Got, Event, Due
  <1>3. ASSUME NEW p \in Procs, Work(p) PROVE DInv'
      BY <1>1, <1>3, ItemsDelta, OthersDelta DEF Work
  <1>4. ASSUME NEW p \in Procs, Start(p) \/ Kill(p) PROVE DInv'
      BY <1>1, <1>4, StartsDelta, OthersDelta
  <1> QED  BY <1>1, <1>2, <1>3, <1>4, WorldDelta DEF Next

\* What one process that synchronises at a time promises of the rolling log.
THEOREM DeltaInductive ==
    ASSUME OneProcess
    PROVE  Spec => [](TInv /\ DInv)
  <1>1. Spec => []TInv
    <2>1. BInv /\ TInv /\ [Next]_vars => TInv'  BY TimesSteps
    <2> QED  BY <2>1, TimesInit, Inductive, PTL DEF Spec
  <1>2. BInv /\ TInv /\ CTInv /\ CTInv' /\ DInv /\ [Next]_vars => DInv'  BY DeltaSteps
  <1> QED  BY <1>1, <1>2, DeltaInit, Inductive, TypedHolds, PTL DEF Spec

\* The delta stream has stored what CVE published up to its watermark, or it
\* was published before the first scan, one with --since, or the log they read.
THEOREM DeltaHolds ==
    ASSUME OneProcess
    PROVE  Spec => []DeltaCovers
  <1>1. DInv => DeltaCovers
      BY DEF DInv, DeltaCursorOK, GotToTime, GotUpTo, Got, DeltaCovers
  <1> QED  BY <1>1, DeltaInductive, PTL

-----------------------------------------------------------------------------
(* What the watermark of the stream of modified records promises *)

InScope(w) == {i \in Ids : InWindow(w, official["nvd"][i])}
Place(w, i) == Position(i, InScope(w))

\* What NVD changed before a time, but for what it may show late at the end e.
GotBelow(t, e) == \A i \in Ids : official["nvd"][i] < t /\ official["nvd"][i] < e - Overlap => Got("nvd", i)
GotMark(m) == \A i \in Ids : official["nvd"][i] < m - Overlap => Got("nvd", i)
\* The first n rows of a window.
GotRows(w, n) == \A i \in InScope(w) : Place(w, i) < n => Got("nvd", i)
\* The first n rows, all of them when there are no more, or the call of p brings them.
Asked(p, w, n, total) ==
    \A i \in InScope(w) :
        Place(w, i) < n \/ total <= n => Got("nvd", i) \/ Due(p, "nvd", i, official["nvd"][i])

NvdCursorOK(c) ==
    /\ GotMark(c.mark)
    /\ c.window # NoWindow =>
          InOrder(c.window) /\ GotBelow(c.window[1], c.window[2]) /\ GotRows(c.window, c.next)

NvdOK(p) ==
    LET r == run[p]
        w == r.windows[1]
    IN /\ Tiling(r.windows, r.end) /\ GotMark(r.mark) /\ GotBelow(w[1], r.end)
       /\ r.pc = "fetch" => GotRows(w, r.index)
       /\ r.pc # "fetch" => Asked(p, w, r.next, r.total)
       /\ r.pc = "close" => r.total <= r.next

NInv ==
    /\ NvdCursorOK(cursor["modified"])
    /\ \A p \in Procs : run[p].kind = "nvd" /\ run[p].stream = "modified" => NvdOK(p)

\* What NVD publishes is as it was.
Steady == official'["nvd"] = official["nvd"]

LEMMA NvdTimesTyped ==
    ASSUME CTInv
    PROVE  now \in Nat /\ \A i \in Ids : official["nvd"][i] \in Nat \ {0} /\ official["nvd"][i] <= now
  <1>1. \A n \in 1..now : n \in Nat \ {0} /\ n <= now  OBVIOUS
  <1> QED  BY <1>1, Bounds DEF CTInv

LEMMA TypedWindow ==
    ASSUME NEW w \in Windows
    PROVE  w # NoWindow /\ w[1] \in Int /\ w[2] \in Int
  <1>1. w \in Int \X Int  BY DEF Windows
  <1>2. PICK a \in Int, b \in Int : w = <<a, b>>  BY <1>1
  <1>3. w[1] = a /\ w[2] = b  BY <1>2
  <1>4. <<a, b>> # <<>>  OBVIOUS
  <1> QED  BY <1>2, <1>3, <1>4 DEF NoWindow

\* Positions count the records before one.
LEMMA Positions ==
    ASSUME NEW S \in SUBSET Ids, NEW i
    PROVE  /\ Position(i, S) \in Nat
           /\ \A T \in SUBSET S : Position(i, T) <= Position(i, S)
           /\ i \in S => Position(i, S) < Cardinality(S)
           /\ \A j \in Ids : i \in S /\ i \in Ids /\ i < j => Position(i, S) < Position(j, S)
  <1> DEFINE B(k, T) == {j \in T : j < k}
  <1>0. \A k, T : Position(k, T) = Cardinality(B(k, T))  BY DEF Position
  <1>1. Ids \subseteq Nat /\ IsFiniteSet(Ids) /\ IsFiniteSet(S)  BY Bounds, FS_Subset
  <1>2. \A k : B(k, S) \in SUBSET S /\ IsFiniteSet(B(k, S)) /\ Cardinality(B(k, S)) \in Nat
      BY <1>1, FS_Subset, FS_CardinalityType
  <1>3. ASSUME NEW T \in SUBSET S PROVE Cardinality(B(i, T)) <= Cardinality(B(i, S))
    <2>1. B(i, T) \in SUBSET B(i, S)  OBVIOUS
    <2> HIDE DEF B
    <2> QED  BY <1>2, <2>1, FS_Subset
  <1>4. ASSUME NEW A \in SUBSET Ids, NEW C \in SUBSET A, i \in A, i \notin C, IsFiniteSet(A)
        PROVE  Cardinality(C) < Cardinality(A)
    <2>1. Cardinality(C) <= Cardinality(A) /\ Cardinality(A) # Cardinality(C)  BY <1>4, FS_Subset
    <2>2. Cardinality(C) \in Nat /\ Cardinality(A) \in Nat  BY <1>4, FS_Subset, FS_CardinalityType
    <2> QED  BY <2>1, <2>2
  <1>5. ASSUME i \in S PROVE Cardinality(B(i, S)) < Cardinality(S)
    <2>1. i \in Nat  BY <1>1, <1>5
    <2>2. i \notin B(i, S)  BY <2>1
    <2> HIDE DEF B
    <2> QED  BY <1>1, <1>2, <1>4, <1>5, <2>2
  <1>6. ASSUME NEW j \in Ids, i \in S, i \in Ids, i < j PROVE Cardinality(B(i, S)) < Cardinality(B(j, S))
    <2>1. i \in Nat /\ j \in Nat /\ \A k \in S : k \in Nat  BY <1>1, <1>6
    <2>2. /\ i \notin B(i, S) /\ i \in B(j, S)
          /\ B(i, S) \in SUBSET B(j, S) /\ B(j, S) \in SUBSET Ids
      <3>1. ~(i < i) /\ \A k \in S : k < i => k < j  BY <1>6, <2>1
      <3>2. i \notin B(i, S) /\ i \in B(j, S)  BY <1>6, <3>1
      <3>3. B(i, S) \in SUBSET B(j, S) /\ B(j, S) \in SUBSET Ids  BY <3>1
      <3> QED  BY <3>2, <3>3
    <2>3. IsFiniteSet(B(j, S))  BY <1>2
    <2> HIDE DEF B
    <2> QED  BY <1>4, <2>2, <2>3
  <1> QED  BY <1>0, <1>2, <1>3, <1>5, <1>6

\* The page at an index holds the rows from there to the end of the page.
LEMMA PageRows ==
    ASSUME NEW r, r.index \in Nat, r.left \in Int, NEW i \in Matching(r)
    PROVE  LET n == r.index + Cardinality(Page(r))
           IN /\ Position(i, Matching(r)) < n /\ r.index <= Position(i, Matching(r)) => i \in Page(r)
              /\ Cardinality(Matching(r)) <= n => Position(i, Matching(r)) < n
  <1> DEFINE M == Matching(r)
             size == Lesser(PageSize, r.left)
             span == r.index..(r.index + size - 1)
             place == [j \in Page(r) |-> Position(j, M)]
  <1>1. M \in SUBSET Ids /\ Page(r) \in SUBSET M /\ IsFiniteSet(M) /\ IsFiniteSet(Page(r))
    <2>1. M \in SUBSET Ids /\ Page(r) \in SUBSET M  BY DEF Page, Matching
    <2> QED  BY <2>1, Bounds, FS_Subset
  <1>2. size \in Int  BY CollectionAssumption DEF Lesser
  <1>3. Page(r) = {j \in M : r.index <= Position(j, M) /\ Position(j, M) < r.index + size}
      BY DEF Page
  <1>4. \A j : Position(j, M) \in Nat  BY <1>1, Positions
  <1>5. place \in Injection(Page(r), span)
    <2>1. ASSUME NEW j \in Page(r) PROVE place[j] \in span
      <3>1. r.index <= Position(j, M) /\ Position(j, M) < r.index + size  BY <1>3
      <3> HIDE DEF size, M
      <3> QED  BY <1>2, <1>4, <3>1
    <2>2. ASSUME NEW j \in Page(r), NEW k \in Page(r), j # k PROVE place[j] # place[k]
      <3>1. j \in Ids /\ k \in Ids /\ j \in M /\ k \in M /\ j \in Nat /\ k \in Nat  BY <1>1, Bounds
      <3>2. j < k \/ k < j  BY <2>2, <3>1
      <3>3. j < k => Position(j, M) < Position(k, M)  BY <1>1, <3>1, Positions
      <3>4. k < j => Position(k, M) < Position(j, M)  BY <1>1, <3>1, Positions
      <3>5. Position(j, M) \in Nat /\ Position(k, M) \in Nat  BY <1>4
      <3> HIDE DEF M
      <3> QED  BY <3>2, <3>3, <3>4, <3>5
    <2> QED  BY <2>1, <2>2 DEF Injection, IsInjective
  <1>6. Cardinality(Page(r)) \in Nat /\ (Cardinality(Page(r)) <= size \/ Cardinality(Page(r)) = 0)
    <2> HIDE DEF size, place, M
    <2>1. r.index + size - 1 \in Int  BY <1>2
    <2>2. PICK a \in Int, b \in Int : a = r.index /\ b = r.index + size - 1  BY <2>1
    <2>3. IsFiniteSet(span) /\ (Cardinality(span) = 0 \/ Cardinality(span) = size)
      <3>1. IsFiniteSet(a..b) /\ Cardinality(a..b) = IF a > b THEN 0 ELSE b - a + 1  BY FS_Interval
      <3>2. b - a + 1 = size  BY <1>2, <2>2
      <3> QED  BY <2>2, <3>1, <3>2
    <2>4. Cardinality(Page(r)) \in Nat  BY <1>1, FS_CardinalityType
    <2> HIDE DEF span
    <2>5. Cardinality(Page(r)) <= Cardinality(span)  BY <1>5, <2>3, FS_Injection
    <2>6. Cardinality(span) = 0 => Cardinality(Page(r)) = 0  BY <2>4, <2>5
    <2> QED  BY <2>3, <2>4, <2>5, <2>6
  <1>7. Position(i, M) < Cardinality(M) /\ Cardinality(M) \in Nat
      BY <1>1, Positions, FS_CardinalityType
  <1>8. Position(i, M) \in Nat /\ i \in M  BY <1>4
  <1> HIDE DEF M, size
  <1>9. Position(i, M) < r.index + Cardinality(Page(r)) /\ r.index <= Position(i, M) => Position(i, M) < r.index + size
      BY <1>2, <1>6, <1>8
  <1>10. Cardinality(M) <= r.index + Cardinality(Page(r)) => Position(i, M) < r.index + Cardinality(Page(r))
      BY <1>6, <1>7, <1>8
  <1> QED  BY <1>3, <1>8, <1>9, <1>10 DEF M

\* The promises about windows and marks stay while NVD does not change.
LEMMA SteadyPromises ==
    ASSUME CTInv, CTInv', Onward, Steady
    PROVE  /\ \A i \in Ids : Got("nvd", i) => Got("nvd", i)'
           /\ \A m : GotMark(m) => GotMark(m)'
           /\ \A t, e : GotBelow(t, e) => GotBelow(t, e)'
           /\ \A w, n : GotRows(w, n) => GotRows(w, n)'
           /\ \A c : NvdCursorOK(c) => NvdCursorOK(c)'
           /\ \A w : InScope(w)' = InScope(w) /\ \A i : Place(w, i)' = Place(w, i)
  <1>1. \A i \in Ids : Got("nvd", i) => Got("nvd", i)'  BY GotStays, Bounds DEF Steady
  <1>2. \A m : GotMark(m) => GotMark(m)'  BY <1>1 DEF GotMark, Steady
  <1>3. \A t, e : GotBelow(t, e) => GotBelow(t, e)'  BY <1>1 DEF GotBelow, Steady
  <1>4. \A w : InScope(w)' = InScope(w) /\ \A i : Place(w, i)' = Place(w, i)
      BY DEF InScope, Place, Steady
  <1>5. \A w, n : GotRows(w, n) => GotRows(w, n)'
    <2>1. \A w : InScope(w) \subseteq Ids  BY DEF InScope
    <2> QED  BY <1>1, <1>4, <2>1 DEF GotRows
  <1>6. ASSUME NEW c, NvdCursorOK(c) PROVE NvdCursorOK(c)'
      BY <1>2, <1>3, <1>5, <1>6 DEF NvdCursorOK
  <1> QED  BY <1>1, <1>2, <1>3, <1>4, <1>5, <1>6

LEMMA AskedStays ==
    ASSUME CTInv, CTInv', Onward, Steady, NEW p \in Procs, NEW w, NEW n, NEW total, Asked(p, w, n, total),
           \A i \in Ids, t \in Int : Due(p, "nvd", i, t) => Due(p, "nvd", i, t)'
    PROVE  Asked(p, w, n, total)'
  <1>1. \A i \in InScope(w) : i \in Ids /\ official["nvd"][i] \in Int  BY NvdTimesTyped DEF InScope
  <1>2. ASSUME NEW i \in InScope(w), Place(w, i) < n \/ total <= n
        PROVE  Got("nvd", i)' \/ Due(p, "nvd", i, official["nvd"][i])'
    <2>1. PICK t \in Int : t = official["nvd"][i]  BY <1>1
    <2>2. Got("nvd", i) \/ Due(p, "nvd", i, t)  BY <1>2, <2>1 DEF Asked
    <2>3. Got("nvd", i)' \/ Due(p, "nvd", i, t)'  BY <1>1, <2>2, SteadyPromises
    <2> QED  BY <2>1, <2>3 DEF Due, Steady
  <1> QED  BY <1>2, SteadyPromises DEF Asked

\* A step of the process that leaves NVD and the cursor of the stream.
LEMMA NvdSuffices ==
    ASSUME OneProcess, CTInv, CTInv', NInv, Onward, Steady, NEW p \in Procs,
           cursor'["modified"] = cursor["modified"],
           run'[p].kind = "nvd" /\ run'[p].stream = "modified" => NvdOK(p)'
    PROVE  NInv'
  <1>1. PICK c : c = cursor["modified"]  OBVIOUS
  <1>2. NvdCursorOK(c)'  BY <1>1, SteadyPromises DEF NInv
  <1>3. NvdCursorOK(cursor["modified"])'  BY <1>1, <1>2 DEF NvdCursorOK
  <1>4. \A q \in Procs : q = p  BY DEF OneProcess
  <1> QED  BY <1>3, <1>4 DEF NInv

\* A run that goes on at the same window.
LEMMA WindowStays ==
    ASSUME CTInv, CTInv', Onward, Steady, NEW p \in Procs, NvdOK(p),
           run'[p].windows = run[p].windows, run'[p].end = run[p].end, run'[p].mark = run[p].mark,
           run'[p].index = run[p].index, run'[p].next = run[p].next, run'[p].total = run[p].total,
           run'[p].pc = run[p].pc,
           \A i \in Ids, t \in Int : Due(p, "nvd", i, t) => Due(p, "nvd", i, t)'
    PROVE  NvdOK(p)'
  <1> DEFINE r == run[p]
  <1>1. PICK ws, end, mark, index, next, total :
            /\ ws = r.windows /\ end = r.end /\ mark = r.mark
            /\ index = r.index /\ next = r.next /\ total = r.total
      OBVIOUS
  <1>2. /\ Tiling(ws, end) /\ GotMark(mark) /\ GotBelow(ws[1][1], end)
        /\ r.pc = "fetch" => GotRows(ws[1], index)
        /\ r.pc # "fetch" => Asked(p, ws[1], next, total)
        /\ r.pc = "close" => total <= next
      BY <1>1 DEF NvdOK
  <1>3. GotMark(mark)' /\ GotBelow(ws[1][1], end)' /\ (r.pc = "fetch" => GotRows(ws[1], index)')
      BY <1>2, SteadyPromises
  <1>4. r.pc # "fetch" => Asked(p, ws[1], next, total)'
      BY <1>2, AskedStays
  <1> QED  BY <1>1, <1>2, <1>3, <1>4 DEF NvdOK

\* A record changes at NVD: marks do not reach it, or had passed it already, and
\* paging steps over what is excused.
LEMMA ModifyWatermark ==
    ASSUME OneProcess, CTInv, CTInv', NInv, Onward, NEW i \in Ids, Modify(i)
    PROVE  NInv'
  <1>1. PICK t \in (now - Overlap)..now :
            /\ t > official["nvd"][i]
            /\ official' = [official EXCEPT !["nvd"][i] = t]
            /\ excused' = [excused EXCEPT !["nvd"] = @ \cup PagedOver(i, t) \cup Overtaken(i, t)]
            /\ UNCHANGED <<latest, saving, now, cursor, run>>
      BY DEF Modify, Change, storeVars
  <1>2. /\ official'["nvd"][i] = t /\ \A j \in Ids \ {i} : official'["nvd"][j] = official["nvd"][j]
        /\ PagedOver(i, t) \subseteq excused'["nvd"] /\ Overtaken(i, t) \subseteq excused'["nvd"]
      BY <1>1, Bounds DEF CTInv
  <1>3. now \in Int /\ t \in Int /\ Overlap \in Nat /\ now - Overlap <= t
      BY <1>1, NvdTimesTyped, Bounds
  <1>4. \A j \in Ids \ {i} : Got("nvd", j) => Got("nvd", j)'
      BY <1>2, GotStays, Bounds
  <1>5. ASSUME NEW w \in OpenWindows, w # NoWindow, NEW j \in InScope(w)'
        PROVE  Got("nvd", j)' \/ (j # i /\ j \in InScope(w) /\ Place(w, j) <= Place(w, j)')
    <2>1. j \in Ids /\ InWindow(w, official'["nvd"][j])  BY <1>5 DEF InScope
    <2>2. CASE j = i
      <3>1. InWindow(w, t)  BY <1>2, <2>1, <2>2
      <3>2. [id |-> i, time |-> t] \in PagedOver(i, t)  BY <1>5, <3>1 DEF PagedOver
      <3> QED  BY <1>2, <2>2, <3>2 DEF Got
    <2>3. CASE j # i
      <3>1. j \in InScope(w)  BY <1>2, <2>1, <2>3 DEF InScope
      <3>2. InScope(w) \in SUBSET Ids /\ InScope(w)' \in SUBSET Ids  BY DEF InScope
      <3>3. CASE i \in InScope(w) /\ j > i
        <4>1. [id |-> j, time |-> official["nvd"][j]] \in PagedOver(i, t)
          <5>1. InWindow(w, official["nvd"][i]) /\ InWindow(w, official["nvd"][j])
              BY <3>1, <3>3 DEF InScope
          <5> QED  BY <1>5, <2>1, <3>3, <5>1 DEF PagedOver
        <4> QED  BY <1>2, <2>1, <2>3, <4>1 DEF Got
      <3>4. CASE ~(i \in InScope(w) /\ j > i)
        <4> DEFINE A == {k \in InScope(w) : k < j}
                   C == {k \in InScope(w)' : k < j}
        <4>1. A \in SUBSET C
          <5>1. ASSUME NEW k \in InScope(w), k < j PROVE k \in InScope(w)'
            <6>1. k # i  BY <3>4, <5>1, <2>1, Bounds
            <6> QED  BY <1>2, <6>1 DEF InScope
          <5> QED  BY <5>1
        <4>2. C \in SUBSET Ids  BY <3>2
        <4>3. Place(w, j) = Cardinality(A) /\ Place(w, j)' = Cardinality(C)
            BY DEF Place, Position
        <4> HIDE DEF A, C
        <4>4. IsFiniteSet(C)  BY <4>2, Bounds, FS_Subset
        <4>5. Cardinality(A) <= Cardinality(C)  BY <4>1, <4>4, FS_Subset
        <4> QED  BY <2>3, <3>1, <4>3, <4>5
      <3> QED  BY <3>3, <3>4
    <2> QED  BY <2>2, <2>3
  <1>6. \A w, j : Place(w, j) \in Nat /\ Place(w, j)' \in Nat
    <2>1. \A w : InScope(w) \in SUBSET Ids  BY DEF InScope
    <2>2. \A w : InScope(w)' \in SUBSET Ids  BY DEF InScope
    <2>3. \A w, j : Place(w, j) \in Nat  BY <2>1, Positions DEF Place
    <2>4. \A w, j : Place(w, j)' = Position(j, InScope(w)')  BY DEF Place, Position
    <2>5. \A w, j : Place(w, j)' \in Nat
      <3> TAKE w, j
      <3>1. PICK S \in SUBSET Ids : S = InScope(w)'  BY <2>2
      <3>2. Position(j, S) \in Nat  BY Positions
      <3> QED  BY <2>4, <3>1, <3>2
    <2> QED  BY <2>3, <2>5
  <1>0. ASSUME NEW x \in Passed, t < x PROVE Got("nvd", i)'
    <2>1. [id |-> i, time |-> t] \in Overtaken(i, t)  BY <1>0 DEF Overtaken
    <2> QED  BY <1>2, <2>1 DEF Got
  <1>7. ASSUME NEW m, m - Overlap \in Passed, GotMark(m) PROVE GotMark(m)'
    <2>1. ASSUME NEW j \in Ids, official'["nvd"][j] < m - Overlap PROVE Got("nvd", j)'
      <3>1. CASE j = i  BY <1>0, <1>2, <1>7, <2>1, <3>1
      <3>2. CASE j # i  BY <1>2, <1>4, <1>7, <2>1, <3>2 DEF GotMark
      <3> QED  BY <3>1, <3>2
    <2> QED  BY <2>1 DEF GotMark
  <1>8. ASSUME NEW x \in Int, NEW e \in Int, Lesser(x, e - Overlap) \in Passed, GotBelow(x, e)
        PROVE  GotBelow(x, e)'
    <2>1. ASSUME NEW j \in Ids, official'["nvd"][j] < x, official'["nvd"][j] < e - Overlap PROVE Got("nvd", j)'
      <3>1. CASE j = i
        <4>1. t < Lesser(x, e - Overlap)  BY <1>2, <2>1, <3>1 DEF Lesser
        <4> QED  BY <1>0, <1>8, <3>1, <4>1
      <3>2. CASE j # i  BY <1>2, <1>4, <1>8, <2>1, <3>2 DEF GotBelow
      <3> QED  BY <3>1, <3>2
    <2> QED  BY <2>1 DEF GotBelow
  <1>9. ASSUME NEW w \in OpenWindows, w # NoWindow, NEW n \in Nat, GotRows(w, n) PROVE GotRows(w, n)'
    <2>1. ASSUME NEW j \in InScope(w)', Place(w, j)' < n PROVE Got("nvd", j)'
      <3>1. CASE Got("nvd", j)'  BY <3>1
      <3>2. CASE j # i /\ j \in InScope(w) /\ Place(w, j) <= Place(w, j)'
        <4>1. Place(w, j) < n  BY <1>6, <2>1, <3>2
        <4>2. Got("nvd", j)  BY <1>9, <3>2, <4>1 DEF GotRows
        <4> QED  BY <1>4, <3>2, <4>2 DEF InScope
      <3> QED  BY <1>5, <1>9, <3>1, <3>2
    <2> QED  BY <2>1 DEF GotRows
  <1>10. NvdCursorOK(cursor["modified"])'
    <2> DEFINE c == cursor["modified"]
    <2>1. NvdCursorOK(c) /\ StreamTyped(c, now) /\ cursor' = cursor  BY <1>1 DEF NInv, CTInv, CursorTyped
    <2>2. PICK m, w, n : m = c.mark /\ w = c.window /\ n = c.next  OBVIOUS
    <2>3. m - Overlap \in Passed /\ n \in Nat  BY <2>1, <2>2 DEF StreamTyped, Passed
    <2>4. GotMark(m)'  BY <1>7, <2>1, <2>2, <2>3 DEF NvdCursorOK
    <2>5. ASSUME w # NoWindow PROVE InOrder(w) /\ GotBelow(w[1], w[2])' /\ GotRows(w, n)'
      <3>1. InOrder(w) /\ GotBelow(w[1], w[2]) /\ GotRows(w, n)  BY <2>1, <2>2, <2>5 DEF NvdCursorOK
      <3>2. w \in OpenWindows  BY <2>2 DEF OpenWindows
      <3>3. w[1] \in Int /\ w[2] \in Int  BY <2>1, <2>2, <2>5 DEF StreamTyped, Windows
      <3>4. Lesser(w[1], w[2] - Overlap) \in Passed  BY <2>2, <2>5 DEF Passed
      <3> QED  BY <1>8, <1>9, <2>3, <2>5, <3>1, <3>2, <3>3, <3>4
    <2> QED  BY <2>1, <2>2, <2>4, <2>5 DEF NvdCursorOK
  <1>11. ASSUME NEW p \in Procs, run[p].kind = "nvd", run[p].stream = "modified" PROVE NvdOK(p)'
    <2> DEFINE r == run[p]
    <2>1. NvdOK(p) /\ NvdTyped(r, now) /\ run' = run  BY <1>1, <1>11 DEF NInv, CTInv, RunTyped
    <2>2. PICK ws, end, mark, index, next, total :
              /\ ws = r.windows /\ end = r.end /\ mark = r.mark
              /\ index = r.index /\ next = r.next /\ total = r.total
        OBVIOUS
    <2>3. PICK w : w = ws[1]  OBVIOUS
    <2>4. /\ Tiling(ws, end) /\ GotMark(mark) /\ GotBelow(w[1], end)
          /\ r.pc = "fetch" => GotRows(w, index)
          /\ r.pc # "fetch" => Asked(p, w, next, total)
          /\ r.pc = "close" => total <= next
        BY <2>1, <2>2, <2>3 DEF NvdOK
    <2>5. /\ mark - Overlap \in Passed /\ end \in Int /\ Lesser(w[1], end - Overlap) \in Passed
          /\ index \in Nat /\ next \in Nat /\ total \in Nat
          /\ w \in Windows /\ w # NoWindow /\ w[1] \in Int
      <3>1. end \in Nat /\ index \in Nat /\ next \in Nat /\ total \in Nat
          BY <2>1, <2>2 DEF NvdTyped, AheadOf
      <3>4. mark - Overlap \in Passed  BY <1>11, <2>2 DEF Passed
      <3>5. Lesser(w[1], end - Overlap) \in Passed
        <4> DEFINE s == <<r.windows[1][1], r.end>>
        <4>1. Lesser(s[1], s[2] - Overlap) \in Passed  BY <1>11 DEF Passed
        <4> QED  BY <2>2, <2>3, <4>1
      <3>2. w \in Windows  BY <2>1, <2>2, <2>3 DEF NvdTyped
      <3>3. w # NoWindow /\ w[1] \in Int  BY <3>2, TypedWindow
      <3> QED  BY <3>1, <3>2, <3>3, <3>4, <3>5
    <2>6. r.index > 0 \/ r.pc # "fetch" => w \in OpenWindows
        BY <1>11, <2>2, <2>3 DEF OpenWindows
    <2>7. GotMark(mark)' /\ GotBelow(w[1], end)'  BY <1>7, <1>8, <2>4, <2>5
    <2>8. ASSUME r.pc = "fetch" PROVE GotRows(w, index)'
      <3>1. CASE index > 0  BY <1>9, <2>2, <2>4, <2>5, <2>6, <2>8, <3>1
      <3>2. CASE ~(index > 0)
        <4>1. \A j : ~(Place(w, j)' < index)  BY <1>6, <2>5, <3>2
        <4> QED  BY <4>1 DEF GotRows
      <3> QED  BY <3>1, <3>2
    <2>9. ASSUME r.pc # "fetch" PROVE Asked(p, w, next, total)'
      <3>1. w \in OpenWindows  BY <2>6, <2>9
      <3>2. ASSUME NEW j \in InScope(w)', Place(w, j)' < next \/ total <= next
            PROVE  Got("nvd", j)' \/ Due(p, "nvd", j, official["nvd"][j])'
        <4>1. CASE Got("nvd", j)'  BY <4>1
        <4>2. CASE j # i /\ j \in InScope(w) /\ Place(w, j) <= Place(w, j)'
          <5>1. Place(w, j) < next \/ total <= next  BY <1>6, <2>5, <3>2, <4>2
          <5>2. Got("nvd", j) \/ Due(p, "nvd", j, official["nvd"][j])  BY <2>4, <2>9, <4>2, <5>1 DEF Asked
          <5>3. j \in Ids \ {i}  BY <4>2 DEF InScope
          <5> QED  BY <1>1, <1>2, <1>4, <5>2, <5>3 DEF Due
        <4> QED  BY <1>5, <2>5, <3>1, <3>2, <4>1, <4>2
      <3> QED  BY <3>2 DEF Asked
    <2> QED  BY <2>1, <2>2, <2>3, <2>4, <2>7, <2>8, <2>9 DEF NvdOK
  <1> QED  BY <1>1, <1>10, <1>11 DEF NInv

LEMMA WorldWatermark ==
    ASSUME OneProcess, CTInv, CTInv', NInv, Onward, World
    PROVE  NInv'
  <1>1. CASE Tick \/ Roll \/ \E i \in Ids : Publish(i) \/ EditPage(i) \/ RepairFile(i)
    <2>1. UNCHANGED <<latest, saving, cursor, run>>
        BY <1>1 DEF Tick, Roll, Publish, EditPage, RepairFile, Change, storeVars
    <2>2. Steady
        BY <1>1, Bounds DEF Tick, Roll, Publish, EditPage, RepairFile, CTInv, Steady
    <2>3. PICK c : c = cursor["modified"]  OBVIOUS
    <2>4. NvdCursorOK(c)'  BY <2>2, <2>3, SteadyPromises DEF NInv
    <2>5. NvdCursorOK(cursor["modified"])'  BY <2>1, <2>3, <2>4 DEF NvdCursorOK
    <2>6. ASSUME NEW p \in Procs, run[p].kind = "nvd", run[p].stream = "modified" PROVE NvdOK(p)'
      <3>1. NvdOK(p)  BY <2>6 DEF NInv
      <3>2. \A i \in Ids, t \in Int : Due(p, "nvd", i, t) => Due(p, "nvd", i, t)'  BY <2>1 DEF Due
      <3> QED  BY <2>1, <2>2, <3>1, <3>2, WindowStays
    <2> QED  BY <2>1, <2>5, <2>6 DEF NInv
  <1> QED  BY <1>1, ModifyWatermark DEF World

\* A step of the process that finishes, or goes on with another command.
LEMMA OtherWatermark ==
    ASSUME OneProcess, CTInv, CTInv', NInv, Onward, Steady, NEW p \in Procs,
           cursor'["modified"] = cursor["modified"], run'[p].kind # "nvd" \/ run'[p].stream # "modified"
    PROVE  NInv'
  BY NvdSuffices

\* sync_nvd starts where its promises hold, or excuses what lies before.
LEMMA StartWatermark ==
    ASSUME OneProcess, CTInv, CTInv', NInv, BInv, Onward, NEW p \in Procs, NEW since \in Starts,
           NEW end \in Ends, NEW limit \in Limits, StartNvd(p, FALSE, since, end, limit)
    PROVE  NInv'
  <1> DEFINE saved == cursor["modified"]
             resumed == since = NoTime /\ saved.window # NoWindow
             start == IF resumed THEN saved.window[2] ELSE NvdStart(since, saved.mark, end)
             windows == (IF resumed THEN <<saved.window>> ELSE <<>>) \o Split(start, end)
             index == IF saved.window = windows[1] THEN saved.next ELSE 0
             command == [kind |-> "nvd", pc |-> "fetch", stream |-> "modified", windows |-> windows,
                         index |-> index, attempt |-> 1, left |-> limit, mark |-> saved.mark, end |-> end,
                         next |-> 0, total |-> 0, rows |-> 0]
             behind == CASE resumed -> ShownBehind(saved.window)
                         [] ~resumed /\ (since # NoTime \/ saved.mark = NoTime) -> Skipped("nvd", start)
                         [] OTHER -> {}
  <1>1. /\ IF resumed THEN start <= end ELSE start < end
        /\ Give(p, command) /\ UNCHANGED cursor
        /\ excused' = [excused EXCEPT !["nvd"] = @ \cup behind]
      BY DEF StartNvd, NvdStream
  <1>2. Steady /\ run'[p] = command /\ behind \subseteq excused'["nvd"]
      BY <1>1, Bounds DEF Give, Steady, world, BInv, CTInv
  <1>3. end \in Int
      BY InputsTyped DEF AheadOf
  <1>4. StreamTyped(saved, now) /\ NvdCursorOK(saved)
      BY DEF CTInv, CursorTyped, NInv
  <1>5. saved.mark \in Int /\ saved.next \in Nat /\ since \in Int /\ start \in Int
    <2>1. since \in Int  BY InputsTyped
    <2>2. saved.mark \in Int /\ saved.next \in Nat  BY <1>4 DEF StreamTyped, AheadOf
    <2>3. resumed => start \in Int  BY <1>4, TypedWindow DEF StreamTyped
    <2>4. NvdStart(since, saved.mark, end) \in Int
        BY <1>3, <2>1, <2>2, Bounds DEF NvdStart
    <2> QED  BY <2>1, <2>2, <2>3, <2>4
  <1>6. windows \in Seq(Windows) /\ windows # <<>> /\ Tiling(windows, end)
        /\ (resumed => windows[1] = saved.window) /\ (~resumed => windows[1][1] = start)
    <2>1. CASE resumed
      <3>1. windows = <<saved.window>> \o Split(saved.window[2], end)  BY <2>1
      <3>2. saved.window \in Windows /\ saved.window[2] <= end /\ InOrder(saved.window)
          BY <1>1, <1>4, <2>1 DEF StreamTyped, NvdCursorOK
      <3> HIDE DEF windows
      <3> QED  BY <1>3, <2>1, <3>1, <3>2, ResumedWindows
    <2>2. CASE ~resumed
      <3>1. windows = <<>> \o Split(start, end)  BY <2>2
      <3>2. start < end  BY <1>1, <2>2
      <3> HIDE DEF start, windows, resumed
      <3>5. start \in Int /\ end \in Int /\ start <= end  BY <1>3, <1>5, <3>2
      <3>3. Split(start, end) \in Seq(Windows) /\ Tiling(Split(start, end), end) /\ Split(start, end) # <<>>
            /\ Split(start, end)[1][1] = start
          BY <3>2, <3>5, SplitTiles
      <3>4. windows = Split(start, end)  BY <3>1, <3>3
      <3> QED  BY <2>2, <3>3, <3>4
    <2> QED  BY <2>1, <2>2
  <1>7. PICK ws, w, mark, from, n :
            ws = windows /\ w = windows[1] /\ mark = saved.mark /\ from = start /\ n = index
      OBVIOUS
  <1>8. w \in Windows /\ w = ws[1]
    <2> HIDE DEF windows
    <2> QED  BY <1>6, <1>7
  <1>9. /\ run'[p].kind = "nvd" /\ run'[p].stream = "modified" /\ run'[p].pc = "fetch"
        /\ run'[p].windows = ws /\ run'[p].index = n /\ run'[p].mark = mark /\ run'[p].end = end
    <2> HIDE DEF windows, index, saved
    <2> QED  BY <1>2, <1>7
  <1>10. GotMark(mark)'
      BY <1>2, <1>4, <1>7, SteadyPromises DEF NvdCursorOK
  <1>11. GotBelow(w[1], end)'
    <2>1. SUFFICES ASSUME NEW i \in Ids, official["nvd"][i] < w[1], official["nvd"][i] < end - Overlap
                   PROVE  Got("nvd", i)'
        BY <1>2 DEF GotBelow, Steady
    <2>2. official["nvd"][i] \in Int /\ Overlap \in Int  BY NvdTimesTyped, Bounds
    <2>3. [id |-> i, time |-> official["nvd"][i]] \in behind => Got("nvd", i)'
        BY <1>2 DEF Got, Steady
    <2>4. CASE resumed
      <3>1. w = saved.window /\ w # NoWindow  BY <1>6, <1>7, <2>4
      <3>2. GotBelow(w[1], w[2]) /\ w[2] \in Int  BY <1>4, <1>8, <3>1, TypedWindow DEF NvdCursorOK
      <3>3. CASE official["nvd"][i] < w[2] - Overlap
          BY <1>2, <2>1, <3>2, <3>3, SteadyPromises DEF GotBelow
      <3>4. CASE ~(official["nvd"][i] < w[2] - Overlap)
        <4> DEFINE v == [id |-> i, time |-> official["nvd"][i]]
        <4>1. v \in Skipped("nvd", w[1])  BY <2>1 DEF Skipped
        <4>2. v \notin Skipped("nvd", w[2] - Overlap)
          <5>1. SUFFICES ASSUME NEW j \in Ids, official["nvd"][j] < w[2] - Overlap,
                                v = [id |-> j, time |-> official["nvd"][j]]
                         PROVE  FALSE
              BY DEF Skipped
          <5>2. v.id = i /\ v.id = j  BY <5>1
          <5> QED  BY <3>4, <5>1, <5>2
        <4>3. v \in ShownBehind(saved.window)  BY <3>1, <4>1, <4>2 DEF ShownBehind
        <4> QED  BY <2>3, <2>4, <4>3
      <3> QED  BY <3>3, <3>4
    <2>5. CASE ~resumed
      <3>1. w[1] = start  BY <1>6, <1>7, <2>5
      <3>2. CASE since # NoTime \/ saved.mark = NoTime
        <4>1. official["nvd"][i] < start  BY <2>1, <3>1
        <4>2. [id |-> i, time |-> official["nvd"][i]] \in Skipped("nvd", start)  BY <4>1 DEF Skipped
        <4> QED  BY <2>3, <2>5, <3>2, <4>2
      <3>3. CASE ~(since # NoTime \/ saved.mark = NoTime)
        <4>1. start = saved.mark - Overlap  BY <2>5, <3>3 DEF NvdStart
        <4>2. official["nvd"][i] < mark - Overlap  BY <1>7, <2>1, <3>1, <4>1
        <4>3. GotMark(mark)  BY <1>4, <1>7 DEF NvdCursorOK
        <4> QED  BY <1>2, <4>2, <4>3, SteadyPromises DEF GotMark
      <3> QED  BY <3>2, <3>3
    <2> QED  BY <2>4, <2>5
  <1>12. GotRows(w, n)'
    <2>1. CASE saved.window = windows[1]
      <3>1. w = saved.window /\ n = saved.next  BY <1>7, <2>1
      <3>2. w # NoWindow  BY <1>8, TypedWindow
      <3>3. GotRows(w, n)  BY <1>4, <3>1, <3>2 DEF NvdCursorOK
      <3> QED  BY <1>2, <3>3, SteadyPromises
    <2>2. CASE saved.window # windows[1]
      <3>1. n = 0  BY <1>7, <2>2
      <3>2. GotRows(w, n)
        <4>1. InScope(w) \in SUBSET Ids  BY DEF InScope
        <4>2. \A i : Place(w, i) \in Nat  BY <4>1, Positions DEF Place
        <4>3. \A i : ~(Place(w, i) < 0)  BY <4>2
        <4> QED  BY <3>1, <4>3 DEF GotRows
      <3> QED  BY <1>2, <3>2, SteadyPromises
    <2> QED  BY <2>1, <2>2
  <1>13. Tiling(ws, end)
    <2> HIDE DEF windows
    <2> QED  BY <1>6, <1>7
  <1>14. NvdOK(p)'
    <2> HIDE DEF saved, windows, index, start, command, behind, resumed
    <2> QED  BY <1>8, <1>9, <1>10, <1>11, <1>12, <1>13 DEF NvdOK
  <1>15. UNCHANGED cursor  BY <1>1
  <1> QED  BY <1>2, <1>14, <1>15, NvdSuffices

LEMMA StartsWatermark ==
    ASSUME OneProcess, CTInv, CTInv', NInv, BInv, Onward, NEW p \in Procs, Start(p)
    PROVE  NInv'
  <1>1. ASSUME NEW command, Give(p, command), UNCHANGED cursor,
               command.kind # "nvd" \/ command.stream # "modified"
        PROVE NInv'
    <2>1. Steady /\ run'[p] = command  BY <1>1 DEF Give, Steady, world, BInv
    <2> QED  BY <1>1, <2>1, OtherWatermark
  <1>2. ASSUME NEW end, NEW limit, StartNvd(p, TRUE, NoTime, end, limit) PROVE NInv'
    <2>1. PICK command : Give(p, command) /\ UNCHANGED cursor /\ command.stream = "full"
        BY <1>2 DEF StartNvd, NvdStream
    <2> QED  BY <1>1, <2>1
  <1>3. ASSUME NEW since, NEW limit, StartDelta(p, since, limit) PROVE NInv'
      BY <1>1, <1>3 DEF StartDelta
  <1>4. ASSUME NEW limit, StartBaseline(p, limit) PROVE NInv'
      BY <1>1, <1>4 DEF StartBaseline
  <1>5. ASSUME NEW s, NEW ids, StartBatch(p, s, ids) PROVE NInv'
      BY <1>1, <1>5 DEF StartBatch
  <1>6. ASSUME NEW s, NEW i, StartCollect(p, s, i) PROVE NInv'
      BY <1>1, <1>6 DEF StartCollect
  <1>7. CASE StartRetry(p)
      BY <1>1, <1>7 DEF StartRetry
  <1>8. ASSUME NEW since \in Starts, NEW end \in Ends, NEW limit \in Limits,
               StartNvd(p, FALSE, since, end, limit)
        PROVE NInv'
      BY <1>8, StartWatermark
  <1> QED  BY <1>2, <1>3, <1>4, <1>5, <1>6, <1>7, <1>8 DEF Start

\* A page, its row and its cursor; the end of a window.
LEMMA PagesWatermark ==
    ASSUME OneProcess, CTInv, CTInv', NInv, BInv, Onward, NEW p \in Procs, NvdStep(p)
    PROVE  NInv'
  <1> DEFINE r == run[p]
  <1>1. r.kind = "nvd" /\ quiet' = quiet
      BY DEF NvdStep, FetchPage, FetchPageFails, ResolvePage, SavePageCursor, CloseWindow
  <1>2. Steady /\ p \in DOMAIN run /\ DOMAIN cursor = {"modified", "full", "delta", "baseline"}
      BY <1>1 DEF quiet, world, Steady, BInv
  <1>3. NvdTyped(r, now) /\ (r.pc # "resolve" => Saved(p))
      BY <1>1, ItemShape DEF CTInv, RunTyped, ItemKinds, Saved
  <1>4. CASE r.stream # "modified"
    <2>1. run'[p] = NoRun \/ run'[p].stream = r.stream
      <3> USE <1>2, <1>3 DEF NvdTyped, NvdFields, NoRun, Finish
      <3>1. CASE FetchPage(p)  BY <3>1 DEF FetchPage
      <3>2. CASE FetchPageFails(p)  BY <3>2 DEF FetchPageFails
      <3>3. CASE ResolvePage(p)  BY <3>3 DEF ResolvePage
      <3>4. CASE SavePageCursor(p)
        <4> DEFINE left == IF r.left = NoLimit THEN NoLimit ELSE r.left - r.rows
        <4>1. run'[p] \in {[r EXCEPT !.pc = "close", !.left = left], NoRun,
                           [r EXCEPT !.pc = "fetch", !.left = left, !.index = NextIndex(r), !.attempt = 1]}
            BY <3>4 DEF SavePageCursor
        <4> QED  BY <4>1
      <3>5. CASE CloseWindow(p)
        <4>1. run'[p] \in {NoRun, [r EXCEPT !.pc = "fetch", !.windows = Tail(r.windows), !.index = 0,
                                           !.attempt = 1, !.mark = Reached(r)]}
            BY <3>5 DEF CloseWindow
        <4> QED  BY <4>1
      <3> QED  BY <3>1, <3>2, <3>3, <3>4, <3>5 DEF NvdStep
    <2>2. run'[p].kind # "nvd" \/ run'[p].stream # "modified"  BY <1>4, <2>1 DEF NoRun
    <2>3. cursor'["modified"] = cursor["modified"]
      <3>1. \/ cursor' = cursor
            \/ \E c : cursor' = [cursor EXCEPT ![r.stream] = c]
          BY DEF NvdStep, FetchPage, FetchPageFails, ResolvePage, SavePageCursor, CloseWindow
      <3> QED  BY <1>2, <1>4, <3>1
    <2> QED  BY <1>2, <2>2, <2>3, OtherWatermark
  <1>5. CASE r.stream = "modified"
    <2>0. NvdOK(p)  BY <1>1, <1>5 DEF NInv
    <2>1. PICK ws, w, end, mark, index, next, total :
              /\ ws = r.windows /\ w = r.windows[1] /\ end = r.end /\ mark = r.mark
              /\ index = r.index /\ next = r.next /\ total = r.total
        OBVIOUS
    <2>2. /\ Tiling(ws, end) /\ GotMark(mark) /\ GotBelow(w[1], end) /\ w = ws[1]
          /\ r.pc = "fetch" => GotRows(w, index)
          /\ r.pc # "fetch" => Asked(p, w, next, total)
          /\ r.pc = "close" => total <= next
        BY <2>0, <2>1 DEF NvdOK
    <2>3. /\ ws \in Seq(Windows) /\ ws # <<>> /\ 1 \in DOMAIN ws /\ w \in Windows
          /\ InOrder(w) /\ w[1] \in Int /\ w[2] \in Int /\ w[2] <= end
          /\ end \in Int /\ mark \in Int /\ index \in Nat /\ next \in Nat /\ total \in Nat
      <3>1. ws \in Seq(Windows) /\ ws # <<>>  BY <1>3, <2>1 DEF NvdTyped
      <3>2. 1 \in DOMAIN ws /\ w \in Windows  BY <2>2, <3>1
      <3>3. InOrder(w) /\ w[2] <= end  BY <2>2, <3>2 DEF Tiling
      <3>4. end \in Nat /\ mark \in Nat /\ index \in Nat /\ next \in Nat /\ total \in Nat
          BY <1>3, <2>1 DEF NvdTyped, AheadOf
      <3>5. \A x \in Nat : x \in Int  OBVIOUS
      <3> QED  BY <3>1, <3>2, <3>3, <3>4, <3>5, TypedWindow
    <2>4. GotMark(mark)' /\ GotBelow(w[1], end)'  BY <1>2, <2>2, SteadyPromises
    <2>5. InScope(w) = Matching(r) /\ InScope(w) \in SUBSET Ids /\ \A i : Place(w, i) = Position(i, Matching(r))
        BY <2>1 DEF InScope, Matching, Place
    <2>6. \A i \in Ids : official["nvd"][i] \in Int  BY NvdTimesTyped
    <2>7. CASE FetchPage(p)
      <3> DEFINE rows == Page(r)
                 batch == [i \in rows |-> Version("nvd", i)]
      <3>1. /\ r.pc = "fetch" /\ UNCHANGED <<latest, cursor>> /\ BeginSave(p, "nvd", batch)
            /\ run' = [run EXCEPT ![p].pc = "resolve", ![p].next = r.index + Cardinality(rows),
                                  ![p].rows = Cardinality(rows), ![p].total = Cardinality(Matching(r))]
          BY <1>1, <2>7 DEF FetchPage, Fetching
      <3>2. PICK m, t : m = r.index + Cardinality(rows) /\ t = Cardinality(Matching(r))  OBVIOUS
      <3>3. PICK b : b = batch  OBVIOUS
      <3>4. saving'[p] = Call("nvd", b)  BY <3>1, <3>3 DEF BeginSave, BInv
      <3>5. /\ run'[p].windows = ws /\ run'[p].end = end /\ run'[p].mark = mark /\ run'[p].pc = "resolve"
            /\ run'[p].next = m /\ run'[p].total = t
        <4> HIDE DEF rows
        <4> QED  BY <1>2, <1>3, <2>1, <3>1, <3>2 DEF NvdTyped, NvdFields
      <3>6. ASSUME NEW i \in InScope(w), Place(w, i) < m \/ t <= m
            PROVE  Got("nvd", i) \/ (i \in DOMAIN b /\ b[i].time = official["nvd"][i])
        <4>1. i \in Matching(r) /\ Place(w, i) = Position(i, Matching(r)) /\ Place(w, i) \in Nat
            BY <2>5, Positions
        <4>2. r.index \in Nat /\ r.left \in Int  BY <1>3 DEF NvdTyped
        <4>3. Place(w, i) < m
          <5> HIDE DEF rows
          <5>1. Cardinality(Matching(r)) <= r.index + Cardinality(Page(r)) =>
                    Position(i, Matching(r)) < r.index + Cardinality(Page(r))
              BY <4>1, <4>2, PageRows
          <5> QED  BY <3>2, <3>6, <4>1, <5>1 DEF rows
        <4>4. CASE Place(w, i) < index  BY <2>2, <3>1, <4>4 DEF GotRows
        <4>5. CASE ~(Place(w, i) < index)
          <5>1. r.index <= Position(i, Matching(r))  BY <2>1, <4>1, <4>2, <4>5
          <5>2. i \in Page(r)
            <6>1. Position(i, Matching(r)) < r.index + Cardinality(Page(r))  BY <3>2, <4>1, <4>3
            <6> QED  BY <4>1, <4>2, <5>1, <6>1, PageRows
          <5> QED  BY <3>3, <5>2 DEF Version
        <4> QED  BY <4>4, <4>5
      <3> HIDE DEF rows, batch
      <3>7. ASSUME NEW i \in InScope(w), Place(w, i) < m \/ t <= m
            PROVE  Got("nvd", i)' \/ Due(p, "nvd", i, official["nvd"][i])'
        <4>1. CASE Got("nvd", i)  BY <1>2, <2>5, <4>1, SteadyPromises
        <4>2. CASE i \in DOMAIN b /\ b[i].time = official["nvd"][i]
          <5>1. saving'[p].source = "nvd" /\ saving'[p].batch = b  BY <3>4, <4>2 DEF Call
          <5>2. official["nvd"][i] \in Int  BY <2>5, <2>6
          <5> QED  BY <1>2, <4>2, <5>1, <5>2 DEF Due, Steady
        <4> QED  BY <3>6, <3>7, <4>1, <4>2
      <3>8. Asked(p, w, m, t)'
          BY <1>2, <3>7, SteadyPromises DEF Asked
      <3>9. NvdOK(p)'  BY <2>2, <2>4, <3>5, <3>8 DEF NvdOK
      <3> QED  BY <1>2, <3>1, <3>9, NvdSuffices
    <2>8. CASE FetchPageFails(p)
      <3>1. run'[p].kind # "nvd" /\ cursor' = cursor
          BY <1>2, <2>8 DEF FetchPageFails, Finish, NoRun
      <3> QED  BY <1>2, <3>1, OtherWatermark
    <2>9. CASE ResolvePage(p)
      <3>1. run' = [run EXCEPT ![p].pc = "cursor"] /\ UNCHANGED <<latest, saving, cursor>> /\ r.pc = "resolve"
          BY <2>9 DEF ResolvePage
      <3>2. /\ run'[p].windows = ws /\ run'[p].end = end /\ run'[p].mark = mark /\ run'[p].pc = "cursor"
            /\ run'[p].next = next /\ run'[p].total = total
          BY <1>2, <1>3, <2>1, <3>1 DEF NvdTyped, NvdFields
      <3>3. Asked(p, w, next, total)'
          BY <1>2, <2>2, <3>1, AskedStays, DueUnchanged
      <3>4. NvdOK(p)'  BY <2>2, <2>4, <3>2, <3>3 DEF NvdOK
      <3> QED  BY <1>2, <3>1, <3>4, NvdSuffices
    <2>10. ASSUME r.pc # "resolve", r.pc # "fetch", NEW i \in InScope(w), Place(w, i) < next \/ total <= next
           PROVE  Got("nvd", i)
      <3>1. Got("nvd", i) \/ Due(p, "nvd", i, official["nvd"][i])  BY <2>2, <2>10 DEF Asked
      <3>2. Due(p, "nvd", i, official["nvd"][i]) => latest["nvd"][i].time >= official["nvd"][i]
          BY <1>3, <2>10, DueSaved
      <3> QED  BY <3>1, <3>2 DEF Got
    <2>11. CASE SavePageCursor(p)
      <3> DEFINE left == IF r.left = NoLimit THEN NoLimit ELSE r.left - r.rows
                 c == [window |-> w, next |-> next, mark |-> mark]
      <3>1. /\ r.pc = "cursor" /\ cursor' = [cursor EXCEPT !["modified"] = c]
            /\ UNCHANGED <<latest, saving>>
            /\ \/ total <= next /\ run'[p] = [r EXCEPT !.pc = "close", !.left = left]
               \/ run'[p] = NoRun
               \/ run'[p] = [r EXCEPT !.pc = "fetch", !.left = left, !.index = NextIndex(r), !.attempt = 1]
        <4>1. ~(next < total) <=> total <= next  BY <2>3
        <4> HIDE DEF left
        <4>2. /\ r.pc = "cursor"
              /\ cursor' = [cursor EXCEPT !["modified"] = c]
              /\ UNCHANGED <<latest, saving>>
            BY <1>5, <2>1, <2>11 DEF SavePageCursor, storeVars
        <4>3. \/ ~(next < total) /\ run'[p] = [r EXCEPT !.pc = "close", !.left = left]
              \/ run'[p] = NoRun
              \/ run'[p] = [r EXCEPT !.pc = "fetch", !.left = left, !.index = NextIndex(r), !.attempt = 1]
            BY <1>2, <2>1, <2>11 DEF SavePageCursor, left
        <4> QED  BY <4>1, <4>2, <4>3
      <3>2. GotRows(w, next)  BY <2>10, <3>1 DEF GotRows
      <3>3. GotBelow(w[1], w[2])
        <4>1. ASSUME NEW x \in Int, x < w[2] - Overlap PROVE x < end - Overlap
          <5>1. Overlap \in Int /\ w[2] \in Int /\ end \in Int /\ w[2] <= end  BY <2>3, Bounds
          <5> QED  BY <4>1, <5>1
        <4> QED  BY <2>2, <2>6, <4>1 DEF GotBelow
      <3>4. NvdCursorOK(c)  BY <2>2, <2>3, <3>2, <3>3 DEF NvdCursorOK
      <3>5. NvdCursorOK(c)'
        <4>1. PICK d : d = c  OBVIOUS
        <4>2. NvdCursorOK(d)'  BY <1>2, <3>4, <4>1, SteadyPromises
        <4> QED  BY <4>1, <4>2 DEF NvdCursorOK
      <3>6. cursor'["modified"] = c  BY <1>2, <3>1
      <3>7. NvdCursorOK(cursor["modified"])'
        <4> HIDE DEF c
        <4> QED  BY <3>5, <3>6 DEF NvdCursorOK, c
      <3>8. run'[p].kind = "nvd" => NvdOK(p)'
        <4> HIDE DEF left, c
        <4>1. CASE total <= next /\ run'[p] = [r EXCEPT !.pc = "close", !.left = left]
          <5>1. /\ run'[p].windows = ws /\ run'[p].end = end /\ run'[p].mark = mark /\ run'[p].pc = "close"
                /\ run'[p].next = next /\ run'[p].total = total
              BY <1>3, <2>1, <4>1 DEF NvdTyped, NvdFields
          <5>2. Asked(p, w, next, total)'
              BY <1>2, <2>2, <3>1, AskedStays, DueUnchanged
          <5> QED  BY <2>2, <2>4, <4>1, <5>1, <5>2 DEF NvdOK
        <4>2. CASE run'[p] = NoRun  BY <4>2 DEF NoRun
        <4>3. CASE run'[p] = [r EXCEPT !.pc = "fetch", !.left = left, !.index = NextIndex(r), !.attempt = 1]
          <5>1. /\ run'[p].windows = ws /\ run'[p].end = end /\ run'[p].mark = mark /\ run'[p].pc = "fetch"
                /\ run'[p].index = next
              BY <1>3, <2>1, <4>3 DEF NvdTyped, NvdFields, NextIndex
          <5>2. GotRows(w, next)'  BY <1>2, <3>2, SteadyPromises
          <5> QED  BY <2>2, <2>4, <5>1, <5>2 DEF NvdOK
        <4> QED  BY <3>1, <4>1, <4>2, <4>3
      <3>9. \A q \in Procs : q = p  BY DEF OneProcess
      <3> QED  BY <3>7, <3>8, <3>9 DEF NInv
    <2>12. CASE CloseWindow(p)
      <3> DEFINE c == [window |-> NoWindow, next |-> 0, mark |-> Reached(r)]
                 s == [r EXCEPT !.pc = "fetch", !.windows = Tail(r.windows), !.index = 0,
                                !.attempt = 1, !.mark = Reached(r)]
      <3>1. /\ r.pc = "close" /\ cursor' = [cursor EXCEPT !["modified"] = c]
            /\ run'[p] = NoRun \/ (Len(ws) # 1 /\ run'[p] = s)
          BY <1>2, <1>5, <2>1, <2>12 DEF CloseWindow
      <3>2. \A i \in InScope(w) : Got("nvd", i)  BY <2>2, <2>10, <3>1
      <3>3. w # Everything
        <4>1. ~InOrder(Everything)  BY DEF InOrder, Everything, NoTime
        <4> QED  BY <2>3, <4>1
      <3>4. Reached(r) = Greater(w[2], mark)  BY <2>1, <3>3 DEF Reached
      <3>5. ASSUME NEW i \in Ids, official["nvd"][i] <= w[2], official["nvd"][i] < end - Overlap
            PROVE  Got("nvd", i)
        <4>1. CASE official["nvd"][i] < w[1]  BY <2>2, <3>5, <4>1 DEF GotBelow
        <4>2. CASE ~(official["nvd"][i] < w[1])
          <5>1. w[1] <= official["nvd"][i]  BY <2>3, <2>6, <4>2
          <5>2. i \in InScope(w)  BY <3>3, <3>5, <5>1 DEF InScope, InWindow
          <5> QED  BY <3>2, <5>2
        <4> QED  BY <4>1, <4>2
      <3>6. GotMark(Reached(r))
        <4>1. SUFFICES ASSUME NEW i \in Ids, official["nvd"][i] < Reached(r) - Overlap PROVE Got("nvd", i)
            BY DEF GotMark
        <4>2. CASE Reached(r) = mark  BY <2>2, <4>1, <4>2 DEF GotMark
        <4>3. CASE Reached(r) = w[2]
          <5>1. official["nvd"][i] <= w[2] /\ official["nvd"][i] < end - Overlap
            <6>1. official["nvd"][i] \in Int /\ official["nvd"][i] < w[2] - Overlap  BY <2>6, <4>1, <4>3
            <6>2. Overlap \in Nat /\ w[2] \in Int /\ end \in Int /\ w[2] <= end  BY <2>3, Bounds
            <6> HIDE DEF c, s
            <6> QED  BY <6>1, <6>2
          <5> QED  BY <3>5, <5>1
        <4> QED  BY <3>4, <4>2, <4>3 DEF Greater
      <3>7. PICK m : m = Reached(r)  OBVIOUS
      <3>8. GotMark(m)'  BY <1>2, <3>6, <3>7, SteadyPromises
      <3>9. NvdCursorOK(cursor["modified"])'
        <4>1. cursor'["modified"].window = NoWindow /\ cursor'["modified"].mark = m
            BY <1>2, <3>1, <3>7
        <4> QED  BY <3>8, <4>1 DEF NvdCursorOK
      <3>10. run'[p].kind = "nvd" => NvdOK(p)'
        <4>1. SUFFICES ASSUME Len(ws) # 1, run'[p] = s PROVE NvdOK(p)'
            BY <3>1 DEF NoRun
        <4>2. PICK tail : tail = Tail(ws)  OBVIOUS
        <4>3. /\ tail \in Seq(Windows) /\ tail # <<>> /\ tail[1] = ws[2] /\ 2 \in DOMAIN ws
              /\ \A k \in DOMAIN tail : tail[k] = ws[k + 1] /\ k + 1 \in DOMAIN ws
            BY <2>3, <4>1, <4>2, WindowsBehind
        <4>4. /\ run'[p].windows = tail /\ run'[p].end = end /\ run'[p].mark = m /\ run'[p].pc = "fetch"
              /\ run'[p].index = 0
            BY <1>3, <2>1, <3>7, <4>1, <4>2 DEF NvdTyped, NvdFields
        <4>5. tail[1][1] = w[2]
          <5>1. 1 + 1 \in DOMAIN ws => ws[1 + 1][1] = ws[1][2]  BY <2>2, <2>3 DEF Tiling
          <5> QED  BY <2>2, <4>3, <5>1
        <4>6. Tiling(tail, end)
          <5>1. ASSUME NEW k \in DOMAIN tail
                PROVE  /\ InOrder(tail[k]) /\ tail[k][2] <= end
                       /\ k + 1 \in DOMAIN tail => tail[k + 1][1] = tail[k][2]
            <6>1. tail[k] = ws[k + 1] /\ k + 1 \in DOMAIN ws  BY <4>3
            <6>2. /\ InOrder(ws[k + 1]) /\ ws[k + 1][2] <= end
                  /\ (k + 1) + 1 \in DOMAIN ws => ws[(k + 1) + 1][1] = ws[k + 1][2]
                BY <2>2, <6>1 DEF Tiling
            <6>3. k + 1 \in DOMAIN tail => tail[k + 1] = ws[(k + 1) + 1] /\ (k + 1) + 1 \in DOMAIN ws
                BY <4>3
            <6> QED  BY <6>1, <6>2, <6>3
          <5> QED  BY <5>1 DEF Tiling
        <4>7. GotBelow(tail[1][1], end)
          <5>1. SUFFICES ASSUME NEW i \in Ids, official["nvd"][i] < w[2], official["nvd"][i] < end - Overlap
                         PROVE  Got("nvd", i)
              BY <4>5 DEF GotBelow
          <5>2. official["nvd"][i] <= w[2]  BY <2>3, <2>6, <5>1
          <5> QED  BY <3>5, <5>1, <5>2
        <4>8. GotRows(tail[1], 0)
          <5>1. InScope(tail[1]) \in SUBSET Ids  BY DEF InScope
          <5>2. \A i : Place(tail[1], i) \in Nat  BY <5>1, Positions DEF Place
          <5>3. \A i : ~(Place(tail[1], i) < 0)  BY <5>2
          <5> QED  BY <5>3 DEF GotRows
        <4>9. GotBelow(tail[1][1], end)' /\ GotRows(tail[1], 0)'
            BY <1>2, <4>7, <4>8, SteadyPromises
        <4> QED  BY <3>8, <4>4, <4>6, <4>9 DEF NvdOK
      <3>11. \A q \in Procs : q = p  BY DEF OneProcess
      <3> QED  BY <3>9, <3>10, <3>11 DEF NInv
    <2> QED  BY <2>7, <2>8, <2>9, <2>11, <2>12 DEF NvdStep
  <1> QED  BY <1>4, <1>5

\* Steps of other commands, retries, the transactions of a page, and kills.
LEMMA OthersWatermark ==
    ASSUME OneProcess, CTInv, CTInv', NInv, BInv, TInv, Onward, NEW p \in Procs,
           RequestAgain(p) \/ ItemStep(p) \/ BaselineStep(p) \/ SaveStep(p) \/ Kill(p)
    PROVE  NInv'
  <1> DEFINE r == run[p]
  <1>0. p \in DOMAIN run /\ DOMAIN cursor = {"modified", "full", "delta", "baseline"}  BY DEF BInv
  <1>1. CASE RequestAgain(p)
    <2>1. Steady /\ UNCHANGED <<latest, saving, cursor>> /\ run' = [run EXCEPT ![p].attempt = @ + 1]
        BY <1>1 DEF RequestAgain, quiet, world, storeVars, Steady
    <2>2. ItemCommand(r)
        BY <1>1, ItemShape DEF RequestAgain, Fetching, ItemKinds
    <2>3. run'[p].kind = r.kind  BY <1>0, <2>1, <2>2 DEF ItemCommand
    <2>4. r.kind = "nvd" => run'[p].stream = r.stream
      <3> SUFFICES ASSUME r.kind = "nvd" PROVE run'[p].stream = r.stream
          OBVIOUS
      <3>1. NvdTyped(r, now)  BY DEF CTInv, RunTyped
      <3> QED  BY <1>0, <2>1, <3>1 DEF NvdTyped, NvdFields
    <2>5. r.kind = "nvd" /\ r.stream = "modified" => NvdOK(p)'
      <3> SUFFICES ASSUME r.kind = "nvd", r.stream = "modified" PROVE NvdOK(p)'
          OBVIOUS
      <3>1. NvdTyped(r, now) /\ NvdOK(p)  BY DEF CTInv, RunTyped, NInv
      <3>2. /\ run'[p].windows = r.windows /\ run'[p].end = r.end /\ run'[p].mark = r.mark
            /\ run'[p].index = r.index /\ run'[p].next = r.next /\ run'[p].total = r.total
            /\ run'[p].pc = r.pc
          BY <1>0, <2>1, <3>1 DEF NvdTyped, NvdFields
      <3> HIDE DEF r
      <3> QED  BY <2>1, <3>1, <3>2, WindowStays, DueUnchanged DEF r
    <2> QED  BY <2>1, <2>3, <2>4, <2>5, NvdSuffices
  <1>2. CASE ItemStep(p)
    <2>1. r.kind \in {"delta", "batch", "collect"} /\ quiet' = quiet
        BY <1>2 DEF ItemStep, FetchItem, FetchItemFails, CollectFails, ResolveItem, EndDelta, EndBatch
    <2>2. Steady  BY <2>1 DEF quiet, world, Steady
    <2>3. ItemCommand(r)  BY <2>1, ItemShape DEF ItemKinds
    <2>4. run'[p].kind # "nvd" /\ cursor'["modified"] = cursor["modified"]
      <3> USE <1>0, <2>1, <2>3 DEF ItemCommand, Finish, NoRun
      <3>1. CASE FetchItem(p)  BY <3>1 DEF FetchItem
      <3>2. CASE FetchItemFails(p)
        <4>1. cursor' = cursor  BY <3>2 DEF FetchItemFails
        <4>2. \/ run'[p] = [r EXCEPT !.items = @ \ {Item(r)}, !.failed = TRUE, !.attempt = 1]
              \/ run'[p] = [r EXCEPT !.items = @ \ {Item(r)}, !.attempt = 1]
            BY <3>2 DEF FetchItemFails
        <4> QED  BY <4>1, <4>2
      <3>3. CASE CollectFails(p)  BY <3>3 DEF CollectFails
      <3>4. CASE ResolveItem(p)  BY <3>4 DEF ResolveItem
      <3>5. CASE EndDelta(p)  BY <3>5 DEF EndDelta
      <3>6. CASE EndBatch(p)  BY <3>6 DEF EndBatch
      <3> QED  BY <1>2, <3>1, <3>2, <3>3, <3>4, <3>5, <3>6 DEF ItemStep
    <2> QED  BY <2>2, <2>4, OtherWatermark
  <1>3. CASE BaselineStep(p)
    <2>1. r.kind = "baseline" /\ quiet' = quiet
        BY <1>3 DEF BaselineStep, ReadFile, Flush, AfterFlush, EndBaseline
    <2>2. Steady  BY <2>1 DEF quiet, world, Steady
    <2>3. DOMAIN r = BaselineFields  BY <2>1, BaselineRun DEF BInv
    <2>4. run'[p].kind # "nvd"
      <3> USE <1>0, <2>1, <2>3 DEF BaselineFields, NoRun, Finish
      <3>1. CASE ReadFile(p)  BY <3>1 DEF ReadFile
      <3>2. CASE Flush(p)  BY <3>2 DEF Flush
      <3>3. CASE AfterFlush(p)  BY <3>3 DEF AfterFlush
      <3>4. CASE EndBaseline(p)  BY <3>4 DEF EndBaseline
      <3> QED  BY <1>3, <3>1, <3>2, <3>3, <3>4 DEF BaselineStep
    <2>5. cursor'["modified"] = cursor["modified"]
        BY <1>3, <1>0 DEF BaselineStep, ReadFile, Flush, AfterFlush, EndBaseline
    <2> QED  BY <2>2, <2>4, <2>5, OtherWatermark
  <1>4. CASE SaveStep(p)
    <2>1. Steady /\ UNCHANGED <<cursor, run>>  BY <1>4 DEF SaveStep, world, Steady
    <2>2. r.kind = "nvd" /\ r.stream = "modified" => NvdOK(p)'
      <3> SUFFICES ASSUME r.kind = "nvd", r.stream = "modified" PROVE NvdOK(p)'
          OBVIOUS
      <3>1. NvdOK(p)  BY DEF NInv
      <3>2. \A i \in Ids, t \in Int : Due(p, "nvd", i, t) => Due(p, "nvd", i, t)'
          BY <1>4, DueStays, Bounds
      <3> QED  BY <2>1, <3>1, <3>2, WindowStays
    <2> QED  BY <2>1, <2>2, NvdSuffices
  <1>5. CASE Kill(p)
    <2>1. Steady /\ UNCHANGED cursor /\ run'[p] = NoRun
        BY <1>5 DEF Kill, Finish, world, Steady, BInv
    <2> QED  BY <2>1, OtherWatermark DEF NoRun
  <1> QED  BY <1>1, <1>2, <1>3, <1>4, <1>5

LEMMA WatermarkInit == CollectionInit => NInv
  <1> SUFFICES ASSUME CollectionInit PROVE NInv
      OBVIOUS
  <1>1. /\ official = [s \in Sources |-> [i \in Ids |-> IF s = "cve" THEN FirstLogged ELSE 1]]
        /\ cursor["modified"] = [window |-> NoWindow, next |-> 0, mark |-> NoTime]
        /\ \A p \in Procs : run[p] = NoRun
      BY DEF CollectionInit
  <1>2. \A i \in Ids : official["nvd"][i] = 1  BY <1>1, Bounds
  <1>3. ~(1 < NoTime - Overlap)  BY Bounds DEF NoTime
  <1>4. GotMark(NoTime)  BY <1>2, <1>3 DEF GotMark
  <1>5. NvdCursorOK(cursor["modified"])  BY <1>1, <1>4 DEF NvdCursorOK
  <1> QED  BY <1>1, <1>5 DEF NInv, NoRun

LEMMA WatermarkSteps ==
    ASSUME OneProcess, BInv, TInv, CTInv, CTInv', NInv, [Next]_vars
    PROVE  NInv'
  <1>1. Onward  BY MovesOn
  <1>2. CASE UNCHANGED vars
    <2>1. UNCHANGED <<latest, saving, official, cursor, run, excused>>
        BY <1>2 DEF vars, storeVars, world
    <2>2. Steady  BY <2>1 DEF Steady
    <2>3. PICK c : c = cursor["modified"]  OBVIOUS
    <2>4. NvdCursorOK(c)'  BY <1>1, <2>2, <2>3, SteadyPromises DEF NInv
    <2>5. NvdCursorOK(cursor["modified"])'  BY <2>1, <2>3, <2>4 DEF NvdCursorOK
    <2>6. ASSUME NEW p \in Procs, run[p].kind = "nvd", run[p].stream = "modified" PROVE NvdOK(p)'
      <3>1. NvdOK(p)  BY <2>6 DEF NInv
      <3> QED  BY <1>1, <2>1, <2>2, <3>1, WindowStays, DueUnchanged
    <2> QED  BY <2>1, <2>5, <2>6 DEF NInv
  <1>3. ASSUME NEW p \in Procs, Work(p) PROVE NInv'
      BY <1>1, <1>3, PagesWatermark, OthersWatermark DEF Work
  <1>4. ASSUME NEW p \in Procs, Start(p) \/ Kill(p) PROVE NInv'
      BY <1>1, <1>4, StartsWatermark, OthersWatermark
  <1> QED  BY <1>1, <1>2, <1>3, <1>4, WorldWatermark DEF Next

\* What one process that synchronises at a time promises of NVD's windows.
THEOREM WatermarkInductive ==
    ASSUME OneProcess
    PROVE  Spec => []NInv
  <1>1. Spec => []TInv  BY DeltaInductive, PTL
  <1>2. BInv /\ TInv /\ CTInv /\ CTInv' /\ NInv /\ [Next]_vars => NInv'  BY WatermarkSteps
  <1> QED  BY <1>1, <1>2, WatermarkInit, Inductive, TypedHolds, PTL DEF Spec

\* What NVD modified before the overlap of the watermark is stored, or is one of
\* the changes that a start, a resumed window or paging through a moving window
\* steps over, or was made behind a mark or an end that --until had put ahead of
\* the clock: no kill, failed page, limit or resumed window loses anything else.
THEOREM WatermarkHolds ==
    ASSUME OneProcess
    PROVE  Spec => []WatermarkCovers
  <1>1. NInv => WatermarkCovers
      BY DEF NInv, NvdCursorOK, GotMark, Got, WatermarkCovers
  <1> QED  BY <1>1, WatermarkInductive, PTL
=============================================================================
