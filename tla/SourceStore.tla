----------------------------- MODULE SourceStore -----------------------------
(***************************************************************************)
(* The source tables of vulntools/storage.py: source_latest and the open    *)
(* rows of collection_failures, written by the processes of a machine that  *)
(* share one SQLite file.  source_history gets a row in the transaction of  *)
(* each write of source_latest, is never read by the commands, and is left  *)
(* out.                                                                     *)
(*                                                                          *)
(* A snapshot is the source's own revision time, 0 when the source states   *)
(* none, and a body.  save_sources_detailed compares a record with the      *)
(* latest snapshot before it writes; Python's sqlite3 opens a transaction,  *)
(* and so takes the file's write lock, at the first INSERT.  The comparison *)
(* that leads to the first INSERT of a batch is therefore made without the  *)
(* lock, the later ones under it.                                           *)
(***************************************************************************)
EXTENDS Integers, FiniteSets, Functions, FiniteSetsExt

CONSTANTS
    Procs,      \* processes that hold the database open
    Sources,
    Ids,        \* identifiers, ordered as their names are
    MaxTime     \* bound on revision times

ASSUME StoreAssumption ==
    /\ Ids \subseteq Nat \ {0} /\ IsFiniteSet(Ids)
    /\ MaxTime \in Nat

VARIABLES
    latest,     \* source_latest
    failures,   \* unresolved rows of collection_failures
    saving      \* calls of save_sources_detailed

storeVars == <<latest, failures, saving>>

Snapshots == [time : 0..MaxTime, body : 0..MaxTime]
NoSnapshot == [time |-> 0, body |-> 0]
NoRecord == 0

Batches == UNION {[D -> Snapshots] : D \in SUBSET Ids}
EmptyBatch == [i \in {} |-> NoSnapshot]
NoCall == [source |-> CHOOSE s \in Sources : TRUE, batch |-> EmptyBatch, chosen |-> NoRecord]

\* Mutant: a snapshot without a time replaces one that has a time.
StaleUntimed(old, new) == old.time > 0 /\ new.time > 0 /\ new.time < old.time

\* A snapshot older than the one stored, or without a time when that has one.
Stale(old, new) == old.time > 0 /\ new.time < old.time

\* A record that is neither stale nor unchanged is written.
Accepts(old, new) == ~Stale(old, new) /\ old # new

StoreInit ==
    /\ latest = [s \in Sources |-> [i \in Ids |-> NoSnapshot]]
    /\ failures = {}
    /\ saving = [p \in Procs |-> NoCall]

Saved(p) == saving[p] = NoCall

\* A call with the rest of a batch; none when nothing is left.
Call(s, batch) ==
    IF DOMAIN batch = {} THEN NoCall ELSE [source |-> s, batch |-> batch, chosen |-> NoRecord]

BeginSave(p, s, batch) == saving' = [saving EXCEPT ![p] = Call(s, batch)]

\* The batch up to its first record that has to be written: a SELECT each, no
\* transaction open.
Compare(p) ==
    LET call == saving[p]
        first == Min(DOMAIN call.batch)
    IN /\ ~Saved(p) /\ call.chosen = NoRecord
       /\ saving' = IF Accepts(latest[call.source][first], call.batch[first])
                    THEN [saving EXCEPT ![p].chosen = first]
                    ELSE [saving EXCEPT ![p] =
                             Call(call.source, Restrict(call.batch, DOMAIN call.batch \ {first}))]
       /\ UNCHANGED <<latest, failures>>

\* What the transaction writes: the record already chosen, and each later one
\* the table read under the lock accepts.
Written(p) ==
    LET call == saving[p]
    IN {i \in DOMAIN call.batch : i = call.chosen \/ Accepts(latest[call.source][i], call.batch[i])}

\* The INSERTs and the commit.
Write(p) ==
    LET call == saving[p]
    IN /\ ~Saved(p) /\ call.chosen # NoRecord
       /\ latest' = [latest EXCEPT ![call.source] =
                        [i \in Ids |-> IF i \in Written(p) THEN call.batch[i] ELSE @[i]]]
       /\ saving' = [saving EXCEPT ![p] = NoCall]
       /\ UNCHANGED failures

Save(p) == Compare(p) \/ Write(p)

OpenFailure(row) == failures' = failures \cup {row}
CloseFailure(row) == failures' = failures \ {row}
=============================================================================
