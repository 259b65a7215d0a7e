------------------------- MODULE SandboxAgentProofs -------------------------
(***************************************************************************)
(* Proofs about SandboxAgent, for any number of runs, keys, threads,        *)
(* workers and crashes.  IInv is the inductive invariant; it has one lemma  *)
(* per action, and the first safety theorems follow from it.  AgentInv adds *)
(* what replies, downloads, samples, row owners and verdicts rely on; from  *)
(* both the agent implements DisposableRuns, and SandboxNode, the node its  *)
(* coordinators are composed with.                                          *)
(***************************************************************************)
EXTENDS SandboxAgent, TLAPS

\* What an HTTP handler relies on between its steps: the row it checked is still
\* in the state it saw, and the run it stages is nobody else's.
ThreadInv(t) ==
    LET h == thread[t] IN
    /\ h.pc \in {"checked", "stage", "dispatch"} => h.key \in Keys /\ h.digest \in Digests
    /\ h.pc \in {"stage", "dispatch"} =>
         /\ h.run \in Runs /\ status[h.run] = "queued"
         /\ worker[h.run].pc = "none" /\ starts[h.run] = 0
    /\ h.pc \in {"validate", "read"} => h.run \in Runs /\ destroyed[h.run]
    /\ h.pc \in {"destroy", "confirm", "quarantine", "remove"} =>
         h.run \in Runs /\ status[h.run] \in Terminal
    /\ h.pc = "confirm" => vm[h.run] = "none"
    /\ mode # "serving" => h.pc = "idle"

\* A worker's row is queued, then running; a pending worker has executed nothing;
\* a worker about to close its row has destroyed the VM or quarantined the node.
WorkerInv(r) ==
    LET w == worker[r] IN
    /\ w.pc = "pooled" => status[r] = "queued"
    /\ w.pc \notin {"none", "pooled"} => status[r] = "running"
    /\ w.pc \in {"pooled", "started"} => starts[r] = 0
    /\ w.gone => w.pc = "close" /\ vm[r] = "none"
    /\ w.pc = "close" => w.gone \/ quarantined
    /\ mode # "serving" => w.pc = "none"

RowInv(r) ==
    /\ destroyed[r] => vm[r] = "none" /\ status[r] \in Terminal
    /\ status[r] = "absent" => starts[r] = 0
    /\ starts[r] <= 1

PoolInv ==
    /\ \A i \in 1..Len(pool) : worker[pool[i]].pc = "pooled"
    /\ \A i, j \in 1..Len(pool) : pool[i] = pool[j] => i = j
    /\ mode # "serving" => pool = <<>>

\* The rows the reconciliation has still to visit are active, the one in hand too.
RecInv ==
    /\ todo \subseteq ActiveRows
    /\ mode # "starting" => todo = {} /\ rec.step = "idle"
    /\ rec.step # "idle" => rec.run \in Runs
    /\ rec.step \in {"confirmed", "refused"} => rec.run \notin todo
    /\ rec.step = "confirmed" => status[rec.run] \in Active
    /\ rec.step = "refused" => status[rec.run] \in Active \/ (status[rec.run] = "failed" /\ destroyed[rec.run])
    /\ rec.step = "confirmed" => vm[rec.run] = "none"

StagersDistinct ==
    \A t, u \in Threads :
        thread[t].pc \in {"stage", "dispatch"} /\ thread[u].pc \in {"stage", "dispatch"}
        /\ thread[t].run = thread[u].run => t = u

\* The inductive invariant: what each handler, worker, row, the pool and the
\* reconciliation rely on between two steps of _worker, submit, artifacts,
\* delete and _reconcile.
IInv ==
    /\ TypeOK
    /\ \A t \in Threads : ThreadInv(t)
    /\ \A r \in Runs : WorkerInv(r) /\ RowInv(r)
    /\ PoolInv
    /\ RecInv
    /\ StagersDistinct

-----------------------------------------------------------------------------
USE DEF Terminal, Active, ThreadPcs, WorkerPcs, RecSteps, Claims, FaultKinds, Records, Usable,
        row, disk, process, history

\* The idle records are typed.
LEMMA IdleTyped == IdleThread \in ThreadState /\ IdleWorker \in WorkerState
  BY DEF IdleThread, IdleWorker, ThreadState, WorkerState

\* Every update the handlers make of a thread record keeps its type.
LEMMA ThreadMoves ==
  ASSUME NEW h \in ThreadState, NEW p \in ThreadPcs
  PROVE  /\ [h EXCEPT !.pc = p] \in ThreadState
         /\ \A r \in Runs : [h EXCEPT !.pc = p, !.run = r] \in ThreadState
         /\ \A k \in Keys, d \in Digests : [h EXCEPT !.pc = p, !.key = k, !.digest = d] \in ThreadState
         /\ \A n \in SUBSET Files : [h EXCEPT !.pc = p, !.names = n] \in ThreadState
  BY DEF ThreadState

\* Every update _worker makes of its record keeps its type.
LEMMA WorkerMoves ==
  ASSUME NEW w \in WorkerState, NEW p \in WorkerPcs, NEW v \in Terminal, NEW c \in Claims, NEW g \in BOOLEAN
  PROVE  /\ [w EXCEPT !.pc = p] \in WorkerState
         /\ [w EXCEPT !.pc = p, !.verdict = v] \in WorkerState
         /\ [w EXCEPT !.pc = p, !.claim = c, !.verdict = v] \in WorkerState
         /\ [w EXCEPT !.pc = p, !.gone = g] \in WorkerState
  BY DEF WorkerState

\* When a pool thread takes the head of the queue, the rest of the queue is
\* untouched and the head is not queued a second time.
LEMMA PoolHeadLeaves ==
  ASSUME TypeOK, PoolInv, NEW r \in Runs, mode' = mode,
         pool # <<>>, Head(pool) = r, pool' = Tail(pool),
         \A q \in Runs \ {r} : worker'[q] = worker[q]
  PROVE  PoolInv'
<1>1. /\ Len(pool') = Len(pool) - 1
      /\ \A i \in 1..Len(pool') : pool'[i] = pool[i + 1] /\ i + 1 \in 1..Len(pool) /\ pool[i + 1] \in Runs
  BY DEF TypeOK
<1>2. r = pool[1] /\ 1 \in 1..Len(pool)
  BY DEF TypeOK
<1>3. \A i \in 1..Len(pool') : pool'[i] # r
  BY <1>1, <1>2 DEF PoolInv
<1>4. \A i, j \in 1..Len(pool') : pool'[i] = pool'[j] => i = j
  BY <1>1 DEF PoolInv
<1>5. \A i \in 1..Len(pool') : worker'[pool'[i]].pc = "pooled"
  BY <1>1, <1>3 DEF PoolInv
<1>6. mode' # "serving" => pool' = <<>>
  BY DEF PoolInv
<1> QED
  BY <1>4, <1>5, <1>6 DEF PoolInv

\* The initial state satisfies the invariant.
LEMMA InitIInv == Init => IInv
<1> SUFFICES ASSUME Init PROVE IInv
  OBVIOUS
<1> USE DEF Init
<1>1. TypeOK
  <2>1. IdleRec \in [step : RecSteps, run : Runs \cup {NoRun}]
    BY DEF IdleRec
  <2>2. crashes \in 0..MaxCrashes
    BY BoundsAssumption
  <2>3. thread \in [Threads -> ThreadState] /\ worker \in [Runs -> WorkerState]
    BY IdleTyped
  <2>4. /\ status \in [Runs -> Terminal \cup Active \cup {"absent"}]
        /\ pool \in Seq(Runs) /\ starts \in [Runs -> Nat] /\ vm \in [Runs -> {"none", "alive"}]
    OBVIOUS
  <2> QED
    BY <2>1, <2>2, <2>3, <2>4 DEF TypeOK
<1>2. ASSUME NEW t \in Threads PROVE ThreadInv(t)
  BY DEF ThreadInv, IdleThread
<1>3. ASSUME NEW r \in Runs PROVE WorkerInv(r) /\ RowInv(r)
  BY DEF WorkerInv, RowInv, IdleWorker
<1>4. PoolInv /\ RecInv /\ StagersDistinct
  BY DEF PoolInv, RecInv, StagersDistinct, ActiveRows, IdleRec, IdleThread
<1> QED
  BY <1>1, <1>2, <1>3, <1>4 DEF IInv

-----------------------------------------------------------------------------
(* Every action preserves the invariant.                                    *)

\* A request that passes the first checks of submit preserves the invariant.
LEMMA SubmitCheckPreserves ==
  ASSUME IInv, NEW t \in Threads, NEW k \in Keys, NEW d \in Digests, SubmitCheck(t, k, d)
  PROVE  IInv'
<1> USE DEF SubmitCheck
<1>1. TypeOK
  BY DEF IInv
<1>2. TypeOK'
  <2>1. thread' \in [Threads -> ThreadState]
    BY <1>1, IdleTyped, ThreadMoves DEF TypeOK
  <2> QED
    BY <1>1, <2>1 DEF TypeOK
<1>3. ASSUME NEW u \in Threads PROVE ThreadInv(u)'
  BY <1>1 DEF IInv, ThreadInv, TypeOK, StagersDistinct, WorkerInv, RowInv, RecInv, PoolInv,
     IdleThread, IdleWorker, IdleRec, ThreadState, WorkerState
<1>4. /\ \A u \in Runs : WorkerInv(u)' /\ RowInv(u)'
      /\ PoolInv' /\ RecInv' /\ StagersDistinct'
  BY <1>1 DEF IInv, ThreadInv, TypeOK, WorkerInv, RowInv, RecInv, PoolInv, StagersDistinct, ActiveRows,
     IdleThread, IdleWorker, IdleRec, ThreadState, WorkerState
<1> QED
  BY <1>2, <1>3, <1>4 DEF IInv

\* The reply for a known Idempotency-Key preserves the invariant.
LEMMA SubmitKnownKeyPreserves ==
  ASSUME IInv, NEW t \in Threads, SubmitKnownKey(t)
  PROVE  IInv'
<1> USE DEF SubmitKnownKey
<1>1. TypeOK
  BY DEF IInv
<1>2. thread[t].digest \in Digests
  BY <1>1 DEF IInv, ThreadInv
<1>3. TypeOK'
  <2>1. thread' \in [Threads -> ThreadState]
    BY <1>1, <1>2, IdleTyped, ThreadMoves DEF TypeOK
  <2>2. answered' \subseteq Digests \X Runs
    BY <1>1, <1>2 DEF TypeOK
  <2> QED
    BY <1>1, <1>2, <2>1, <2>2 DEF TypeOK
<1>4. ASSUME NEW u \in Threads PROVE ThreadInv(u)'
  BY <1>1, <1>2 DEF IInv, ThreadInv, TypeOK, StagersDistinct, WorkerInv, RowInv, RecInv, PoolInv,
     IdleThread, IdleWorker, IdleRec, ThreadState, WorkerState
<1>5. /\ \A u \in Runs : WorkerInv(u)' /\ RowInv(u)'
      /\ PoolInv' /\ RecInv' /\ StagersDistinct'
  BY <1>1, <1>2 DEF IInv, ThreadInv, TypeOK, WorkerInv, RowInv, RecInv, PoolInv, StagersDistinct, ActiveRows,
     IdleThread, IdleWorker, IdleRec, ThreadState, WorkerState
<1> QED
  BY <1>3, <1>4, <1>5 DEF IInv

\* The row reserve inserts belongs to no other handler, worker or reconciliation.
LEMMA SubmitReservePreserves ==
  ASSUME IInv, NEW t \in Threads, SubmitReserve(t)
  PROVE  IInv'
<1>1. TypeOK
  BY DEF IInv
<1>2. PICK r \in Runs : SubmitReserve(t)!(r)
  BY DEF SubmitReserve
<1>3. thread[t].key \in Keys /\ thread[t].digest \in Digests
  BY <1>1, <1>2 DEF IInv, ThreadInv
<1>4. TypeOK'
  <2>1. thread' \in [Threads -> ThreadState]
    BY <1>1, <1>2, <1>3, IdleTyped, ThreadMoves DEF TypeOK
  <2>2. keyOf' \in [Runs -> Keys \cup {NoKey}] /\ digestOf' \in [Runs -> Digests \cup {NoDigest}]
    BY <1>1, <1>2, <1>3 DEF TypeOK
  <2> QED
    BY <1>1, <1>2, <1>3, <2>1, <2>2 DEF TypeOK
<1>5. status[r] = "absent" /\ starts[r] = 0 /\ worker[r].pc = "none"
  BY <1>1, <1>2 DEF IInv, RowInv, WorkerInv, TypeOK, WorkerState
<1>6. thread'[t].pc = "stage" /\ thread'[t].run = r /\ thread'[t].key = thread[t].key
      /\ thread'[t].digest = thread[t].digest
  <2>1. thread'[t] = [thread[t] EXCEPT !.pc = "stage", !.run = r]
    BY <1>1, <1>2 DEF TypeOK
  <2> QED
    BY <1>1, <2>1 DEF TypeOK, ThreadState
<1>7. \A u \in Threads \ {t} : thread'[u] = thread[u]
  BY <1>1, <1>2 DEF TypeOK
<1>8. ASSUME NEW u \in Threads PROVE ThreadInv(u)'
  <2>1. CASE u = t
    BY <1>1, <1>2, <1>3, <1>5, <1>6, <2>1 DEF IInv, ThreadInv, TypeOK
  <2>2. CASE u # t
    <3>1. thread[u].pc \in {"stage", "dispatch", "validate", "read", "destroy", "confirm", "quarantine", "remove"}
            => thread[u].run # r
      BY <1>1, <1>5 DEF IInv, ThreadInv, RowInv
    <3> QED
      BY <1>1, <1>2, <1>7, <2>2, <3>1 DEF IInv, ThreadInv, TypeOK
  <2> QED
    BY <2>1, <2>2
<1>9. StagersDistinct'
  <2>1. \A u \in Threads : thread[u].pc \in {"stage", "dispatch"} => thread[u].run # r
    BY <1>1, <1>5 DEF IInv, ThreadInv
  <2> QED
    BY <1>6, <1>7, <2>1 DEF IInv, StagersDistinct
<1>10. /\ \A u \in Runs : WorkerInv(u)' /\ RowInv(u)'
       /\ PoolInv' /\ RecInv'
  BY <1>1, <1>2, <1>5 DEF IInv, TypeOK, WorkerInv, RowInv, RecInv, PoolInv, ActiveRows, WorkerState
<1> QED
  BY <1>4, <1>8, <1>9, <1>10 DEF IInv

\* A reserve that raises preserves the invariant.
LEMMA SubmitReserveFailsPreserves ==
  ASSUME IInv, NEW t \in Threads, SubmitReserveFails(t)
  PROVE  IInv'
<1> USE DEF SubmitReserveFails
<1>1. TypeOK
  BY DEF IInv
<1>2. TypeOK'
  <2>1. thread' \in [Threads -> ThreadState]
    BY <1>1, IdleTyped, ThreadMoves DEF TypeOK
  <2> QED
    BY <1>1, <2>1 DEF TypeOK
<1>3. ASSUME NEW u \in Threads PROVE ThreadInv(u)'
  BY <1>1 DEF IInv, ThreadInv, TypeOK, StagersDistinct, WorkerInv, RowInv, RecInv, PoolInv,
     IdleThread, IdleWorker, IdleRec, ThreadState, WorkerState
<1>4. /\ \A u \in Runs : WorkerInv(u)' /\ RowInv(u)'
      /\ PoolInv' /\ RecInv' /\ StagersDistinct'
  BY <1>1 DEF IInv, ThreadInv, TypeOK, WorkerInv, RowInv, RecInv, PoolInv, StagersDistinct, ActiveRows,
     IdleThread, IdleWorker, IdleRec, ThreadState, WorkerState
<1> QED
  BY <1>2, <1>3, <1>4 DEF IInv

\* Staging the sample preserves the invariant.
LEMMA SubmitStagePreserves ==
  ASSUME IInv, NEW t \in Threads, SubmitStage(t)
  PROVE  IInv'
<1> USE DEF SubmitStage
<1>1. TypeOK
  BY DEF IInv
<1>2. thread[t].run \in Runs
  BY <1>1 DEF IInv, ThreadInv
<1>3. TypeOK'
  <2>1. thread' \in [Threads -> ThreadState]
    BY <1>1, <1>2, IdleTyped, ThreadMoves DEF TypeOK
  <2> QED
    BY <1>1, <1>2, <2>1 DEF TypeOK
<1>4. ASSUME NEW u \in Threads PROVE ThreadInv(u)'
  BY <1>1, <1>2 DEF IInv, ThreadInv, TypeOK, StagersDistinct, WorkerInv, RowInv, RecInv, PoolInv,
     IdleThread, IdleWorker, IdleRec, ThreadState, WorkerState
<1>5. /\ \A u \in Runs : WorkerInv(u)' /\ RowInv(u)'
      /\ PoolInv' /\ RecInv' /\ StagersDistinct'
  BY <1>1, <1>2 DEF IInv, ThreadInv, TypeOK, WorkerInv, RowInv, RecInv, PoolInv, StagersDistinct, ActiveRows,
     IdleThread, IdleWorker, IdleRec, ThreadState, WorkerState
<1> QED
  BY <1>3, <1>4, <1>5 DEF IInv

\* A staging failure preserves the invariant.
LEMMA SubmitStageFailsPreserves ==
  ASSUME IInv, NEW t \in Threads, SubmitStageFails(t)
  PROVE  IInv'
<1> USE DEF SubmitStageFails
<1>1. TypeOK
  BY DEF IInv
<1>2. thread[t].run \in Runs
  BY <1>1 DEF IInv, ThreadInv
<1>3. TypeOK'
  <2>1. thread' \in [Threads -> ThreadState]
    BY <1>1, <1>2, IdleTyped, ThreadMoves DEF TypeOK
  <2> QED
    BY <1>1, <1>2, <2>1 DEF TypeOK
<1>4. ASSUME NEW u \in Threads PROVE ThreadInv(u)'
  BY <1>1, <1>2 DEF IInv, ThreadInv, TypeOK, StagersDistinct, WorkerInv, RowInv, RecInv, PoolInv,
     IdleThread, IdleWorker, IdleRec, ThreadState, WorkerState
<1>5. /\ \A u \in Runs : WorkerInv(u)' /\ RowInv(u)'
      /\ PoolInv' /\ RecInv' /\ StagersDistinct'
  BY <1>1, <1>2 DEF IInv, ThreadInv, TypeOK, WorkerInv, RowInv, RecInv, PoolInv, StagersDistinct, ActiveRows,
     IdleThread, IdleWorker, IdleRec, ThreadState, WorkerState
<1> QED
  BY <1>3, <1>4, <1>5 DEF IInv

\* A dispatched run is queued, has no worker yet and is not in the pool yet.
LEMMA SubmitDispatchPreserves ==
  ASSUME IInv, NEW t \in Threads, SubmitDispatch(t)
  PROVE  IInv'
<1> USE DEF SubmitDispatch
<1>1. TypeOK
  BY DEF IInv
<1>2. thread[t].run \in Runs /\ thread[t].digest \in Digests
  BY <1>1 DEF IInv, ThreadInv
<1>3. TypeOK'
  <2>1. thread' \in [Threads -> ThreadState]
    BY <1>1, <1>2, IdleTyped, ThreadMoves DEF TypeOK
  <2>2. worker' \in [Runs -> WorkerState]
    BY <1>1, <1>2, IdleTyped, WorkerMoves DEF TypeOK
  <2>3. answered' \subseteq Digests \X Runs
    BY <1>1, <1>2 DEF TypeOK
  <2>4. pool' \in Seq(Runs)
    BY <1>1, <1>2 DEF TypeOK
  <2> QED
    BY <1>1, <1>2, <2>1, <2>2, <2>3, <2>4 DEF TypeOK
<1>4. ASSUME NEW u \in Threads PROVE ThreadInv(u)'
  BY <1>1, <1>2 DEF IInv, ThreadInv, TypeOK, StagersDistinct, WorkerInv, RowInv, RecInv, PoolInv,
     IdleThread, IdleWorker, IdleRec, ThreadState, WorkerState
<1>5. /\ \A u \in Runs : WorkerInv(u)' /\ RowInv(u)'
      /\ PoolInv' /\ RecInv' /\ StagersDistinct'
  BY <1>1, <1>2 DEF IInv, ThreadInv, TypeOK, WorkerInv, RowInv, RecInv, PoolInv, StagersDistinct, ActiveRows,
     IdleThread, IdleWorker, IdleRec, ThreadState, WorkerState
<1> QED
  BY <1>3, <1>4, <1>5 DEF IInv

\* The check of artifacts establishes what the download relies on.
LEMMA ArtifactsCheckPreserves ==
  ASSUME IInv, NEW t \in Threads, NEW r \in Runs, ArtifactsCheck(t, r)
  PROVE  IInv'
<1> USE DEF ArtifactsCheck, Releasable
<1>1. TypeOK
  BY DEF IInv
<1>2. TypeOK'
  <2>1. thread' \in [Threads -> ThreadState]
    BY <1>1, IdleTyped, ThreadMoves DEF TypeOK
  <2> QED
    BY <1>1, <2>1 DEF TypeOK
<1>3. ASSUME NEW u \in Threads PROVE ThreadInv(u)'
  BY <1>1 DEF IInv, ThreadInv, TypeOK, StagersDistinct, WorkerInv, RowInv, RecInv, PoolInv,
     IdleThread, IdleWorker, IdleRec, ThreadState, WorkerState
<1>4. /\ \A u \in Runs : WorkerInv(u)' /\ RowInv(u)'
      /\ PoolInv' /\ RecInv' /\ StagersDistinct'
  BY <1>1 DEF IInv, ThreadInv, TypeOK, WorkerInv, RowInv, RecInv, PoolInv, StagersDistinct, ActiveRows,
     IdleThread, IdleWorker, IdleRec, ThreadState, WorkerState
<1> QED
  BY <1>2, <1>3, <1>4 DEF IInv

\* Listing the artifacts preserves the invariant.
LEMMA ArtifactsValidatePreserves ==
  ASSUME IInv, NEW t \in Threads, ArtifactsValidate(t)
  PROVE  IInv'
<1> USE DEF ArtifactsValidate
<1>1. TypeOK
  BY DEF IInv
<1>2. thread[t].run \in Runs
  BY <1>1 DEF IInv, ThreadInv
<1>3. TypeOK'
  <2>1. thread' \in [Threads -> ThreadState]
    BY <1>1, <1>2, IdleTyped, ThreadMoves DEF TypeOK
  <2> QED
    BY <1>1, <1>2, <2>1 DEF TypeOK
<1>4. ASSUME NEW u \in Threads PROVE ThreadInv(u)'
  BY <1>1, <1>2 DEF IInv, ThreadInv, TypeOK, StagersDistinct, WorkerInv, RowInv, RecInv, PoolInv,
     IdleThread, IdleWorker, IdleRec, ThreadState, WorkerState
<1>5. /\ \A u \in Runs : WorkerInv(u)' /\ RowInv(u)'
      /\ PoolInv' /\ RecInv' /\ StagersDistinct'
  BY <1>1, <1>2 DEF IInv, ThreadInv, TypeOK, WorkerInv, RowInv, RecInv, PoolInv, StagersDistinct, ActiveRows,
     IdleThread, IdleWorker, IdleRec, ThreadState, WorkerState
<1> QED
  BY <1>3, <1>4, <1>5 DEF IInv

\* Reading the artifacts preserves the invariant.
LEMMA ArtifactsReadPreserves ==
  ASSUME IInv, NEW t \in Threads, ArtifactsRead(t)
  PROVE  IInv'
<1> USE DEF ArtifactsRead
<1>1. TypeOK
  BY DEF IInv
<1>2. thread[t].run \in Runs
  BY <1>1 DEF IInv, ThreadInv
<1>3. TypeOK'
  <2>1. thread' \in [Threads -> ThreadState]
    BY <1>1, <1>2, IdleTyped, ThreadMoves DEF TypeOK
  <2> QED
    BY <1>1, <1>2, <2>1 DEF TypeOK
<1>4. ASSUME NEW u \in Threads PROVE ThreadInv(u)'
  BY <1>1, <1>2 DEF IInv, ThreadInv, TypeOK, StagersDistinct, WorkerInv, RowInv, RecInv, PoolInv,
     IdleThread, IdleWorker, IdleRec, ThreadState, WorkerState
<1>5. /\ \A u \in Runs : WorkerInv(u)' /\ RowInv(u)'
      /\ PoolInv' /\ RecInv' /\ StagersDistinct'
  BY <1>1, <1>2 DEF IInv, ThreadInv, TypeOK, WorkerInv, RowInv, RecInv, PoolInv, StagersDistinct, ActiveRows,
     IdleThread, IdleWorker, IdleRec, ThreadState, WorkerState
<1> QED
  BY <1>3, <1>4, <1>5 DEF IInv

\* The check of delete establishes that the row is terminal.
LEMMA DeleteCheckPreserves ==
  ASSUME IInv, NEW t \in Threads, NEW r \in Runs, DeleteCheck(t, r)
  PROVE  IInv'
<1> USE DEF DeleteCheck, Deletable
<1>1. TypeOK
  BY DEF IInv
<1>2. TypeOK'
  <2>1. thread' \in [Threads -> ThreadState]
    BY <1>1, IdleTyped, ThreadMoves DEF TypeOK
  <2> QED
    BY <1>1, <2>1 DEF TypeOK
<1>3. ASSUME NEW u \in Threads PROVE ThreadInv(u)'
  BY <1>1 DEF IInv, ThreadInv, TypeOK, StagersDistinct, WorkerInv, RowInv, RecInv, PoolInv,
     IdleThread, IdleWorker, IdleRec, ThreadState, WorkerState
<1>4. /\ \A u \in Runs : WorkerInv(u)' /\ RowInv(u)'
      /\ PoolInv' /\ RecInv' /\ StagersDistinct'
  BY <1>1 DEF IInv, ThreadInv, TypeOK, WorkerInv, RowInv, RecInv, PoolInv, StagersDistinct, ActiveRows,
     IdleThread, IdleWorker, IdleRec, ThreadState, WorkerState
<1> QED
  BY <1>2, <1>3, <1>4 DEF IInv

\* The destroy command of delete preserves the invariant.
LEMMA DeleteDestroyPreserves ==
  ASSUME IInv, NEW t \in Threads, DeleteDestroy(t)
  PROVE  IInv'
<1> USE DEF DeleteDestroy, DestroyConfirmed
<1>1. TypeOK
  BY DEF IInv
<1>2. thread[t].run \in Runs
  BY <1>1 DEF IInv, ThreadInv
<1>3. TypeOK'
  <2>1. thread' \in [Threads -> ThreadState]
    BY <1>1, <1>2, IdleTyped, ThreadMoves DEF TypeOK
  <2> QED
    BY <1>1, <1>2, <2>1 DEF TypeOK
<1>4. ASSUME NEW u \in Threads PROVE ThreadInv(u)'
  BY <1>1, <1>2 DEF IInv, ThreadInv, TypeOK, StagersDistinct, WorkerInv, RowInv, RecInv, PoolInv,
     IdleThread, IdleWorker, IdleRec, ThreadState, WorkerState
<1>5. /\ \A u \in Runs : WorkerInv(u)' /\ RowInv(u)'
      /\ PoolInv' /\ RecInv' /\ StagersDistinct'
  BY <1>1, <1>2 DEF IInv, ThreadInv, TypeOK, WorkerInv, RowInv, RecInv, PoolInv, StagersDistinct, ActiveRows,
     IdleThread, IdleWorker, IdleRec, ThreadState, WorkerState
<1> QED
  BY <1>3, <1>4, <1>5 DEF IInv

\* A failed destroy command of delete preserves the invariant.
LEMMA DeleteDestroyFailsPreserves ==
  ASSUME IInv, NEW t \in Threads, DeleteDestroyFails(t)
  PROVE  IInv'
<1> USE DEF DeleteDestroyFails, DestroyFails
<1>1. TypeOK
  BY DEF IInv
<1>2. thread[t].run \in Runs
  BY <1>1 DEF IInv, ThreadInv
<1>3. TypeOK'
  <2>1. thread' \in [Threads -> ThreadState]
    BY <1>1, <1>2, IdleTyped, ThreadMoves DEF TypeOK
  <2> QED
    BY <1>1, <1>2, <2>1 DEF TypeOK
<1>4. ASSUME NEW u \in Threads PROVE ThreadInv(u)'
  BY <1>1, <1>2 DEF IInv, ThreadInv, TypeOK, StagersDistinct, WorkerInv, RowInv, RecInv, PoolInv,
     IdleThread, IdleWorker, IdleRec, ThreadState, WorkerState
<1>5. /\ \A u \in Runs : WorkerInv(u)' /\ RowInv(u)'
      /\ PoolInv' /\ RecInv' /\ StagersDistinct'
  BY <1>1, <1>2 DEF IInv, ThreadInv, TypeOK, WorkerInv, RowInv, RecInv, PoolInv, StagersDistinct, ActiveRows,
     IdleThread, IdleWorker, IdleRec, ThreadState, WorkerState
<1> QED
  BY <1>3, <1>4, <1>5 DEF IInv

\* The destroyed column is set after a confirmed destruction of a terminal run.
LEMMA DeleteConfirmPreserves ==
  ASSUME IInv, NEW t \in Threads, DeleteConfirm(t)
  PROVE  IInv'
<1> USE DEF DeleteConfirm, Update
<1>1. TypeOK
  BY DEF IInv
<1>2. thread[t].run \in Runs
  BY <1>1 DEF IInv, ThreadInv
<1>3. TypeOK'
  <2>1. thread' \in [Threads -> ThreadState]
    BY <1>1, <1>2, IdleTyped, ThreadMoves DEF TypeOK
  <2> QED
    BY <1>1, <1>2, <2>1 DEF TypeOK
<1>4. ASSUME NEW u \in Threads PROVE ThreadInv(u)'
  BY <1>1, <1>2 DEF IInv, ThreadInv, TypeOK, StagersDistinct, WorkerInv, RowInv, RecInv, PoolInv,
     IdleThread, IdleWorker, IdleRec, ThreadState, WorkerState
<1>5. /\ \A u \in Runs : WorkerInv(u)' /\ RowInv(u)'
      /\ PoolInv' /\ RecInv' /\ StagersDistinct'
  BY <1>1, <1>2 DEF IInv, ThreadInv, TypeOK, WorkerInv, RowInv, RecInv, PoolInv, StagersDistinct, ActiveRows,
     IdleThread, IdleWorker, IdleRec, ThreadState, WorkerState
<1> QED
  BY <1>3, <1>4, <1>5 DEF IInv

\* A failed update of delete preserves the invariant.
LEMMA DeleteConfirmFailsPreserves ==
  ASSUME IInv, NEW t \in Threads, DeleteConfirmFails(t)
  PROVE  IInv'
<1> USE DEF DeleteConfirmFails
<1>1. TypeOK
  BY DEF IInv
<1>2. thread[t].run \in Runs
  BY <1>1 DEF IInv, ThreadInv
<1>3. TypeOK'
  <2>1. thread' \in [Threads -> ThreadState]
    BY <1>1, <1>2, IdleTyped, ThreadMoves DEF TypeOK
  <2> QED
    BY <1>1, <1>2, <2>1 DEF TypeOK
<1>4. ASSUME NEW u \in Threads PROVE ThreadInv(u)'
  BY <1>1, <1>2 DEF IInv, ThreadInv, TypeOK, StagersDistinct, WorkerInv, RowInv, RecInv, PoolInv,
     IdleThread, IdleWorker, IdleRec, ThreadState, WorkerState
<1>5. /\ \A u \in Runs : WorkerInv(u)' /\ RowInv(u)'
      /\ PoolInv' /\ RecInv' /\ StagersDistinct'
  BY <1>1, <1>2 DEF IInv, ThreadInv, TypeOK, WorkerInv, RowInv, RecInv, PoolInv, StagersDistinct, ActiveRows,
     IdleThread, IdleWorker, IdleRec, ThreadState, WorkerState
<1> QED
  BY <1>3, <1>4, <1>5 DEF IInv

\* Quarantining by delete preserves the invariant.
LEMMA DeleteQuarantinePreserves ==
  ASSUME IInv, NEW t \in Threads, DeleteQuarantine(t)
  PROVE  IInv'
<1> USE DEF DeleteQuarantine, Quarantine
<1>1. TypeOK
  BY DEF IInv
<1>2. thread[t].run \in Runs
  BY <1>1 DEF IInv, ThreadInv
<1>3. TypeOK'
  <2>1. thread' \in [Threads -> ThreadState]
    BY <1>1, <1>2, IdleTyped, ThreadMoves DEF TypeOK
  <2> QED
    BY <1>1, <1>2, <2>1 DEF TypeOK
<1>4. ASSUME NEW u \in Threads PROVE ThreadInv(u)'
  BY <1>1, <1>2 DEF IInv, ThreadInv, TypeOK, StagersDistinct, WorkerInv, RowInv, RecInv, PoolInv,
     IdleThread, IdleWorker, IdleRec, ThreadState, WorkerState
<1>5. /\ \A u \in Runs : WorkerInv(u)' /\ RowInv(u)'
      /\ PoolInv' /\ RecInv' /\ StagersDistinct'
  BY <1>1, <1>2 DEF IInv, ThreadInv, TypeOK, WorkerInv, RowInv, RecInv, PoolInv, StagersDistinct, ActiveRows,
     IdleThread, IdleWorker, IdleRec, ThreadState, WorkerState
<1> QED
  BY <1>3, <1>4, <1>5 DEF IInv

\* Unlinking an artifact adds none.
LEMMA UnlinkShrinks ==
  ASSUME TypeOK, NEW r \in Runs, Unlink(r)
  PROVE  /\ files' \in [Runs -> SUBSET Files] /\ foreign' \subseteq foreign
         /\ \A q \in Runs : files'[q] \subseteq files[q]
<1>1. CASE \E f \in files[r] : files' = [files EXCEPT ![r] = @ \ {f}] /\ UNCHANGED foreign
  <2>1. PICK f \in files[r] : files' = [files EXCEPT ![r] = files[r] \ {f}]
    BY <1>1
  <2>2. files[r] \ {f} \in SUBSET Files /\ files \in [Runs -> SUBSET Files]
    BY DEF TypeOK
  <2>3. files' \in [Runs -> SUBSET Files] /\ \A q \in Runs : files'[q] \subseteq files[q]
    BY <2>1, <2>2
  <2> QED
    BY <1>1, <2>3
<1>2. CASE r \in foreign /\ foreign' = foreign \ {r} /\ UNCHANGED files
  BY <1>2 DEF TypeOK
<1> QED
  BY <1>1, <1>2 DEF Unlink

\* Unlinking one artifact preserves the invariant.
LEMMA DeleteFilePreserves ==
  ASSUME IInv, NEW t \in Threads, DeleteFile(t)
  PROVE  IInv'
<1> USE DEF DeleteFile
<1>1. TypeOK
  BY DEF IInv
<1>2. thread[t].run \in Runs
  BY <1>1 DEF IInv, ThreadInv
<1>3. TypeOK'
  <2>1. thread' \in [Threads -> ThreadState]
    BY <1>1, <1>2, IdleTyped, ThreadMoves DEF TypeOK
  <2>2. files' \in [Runs -> SUBSET Files] /\ foreign' \subseteq Runs
    BY <1>1, <1>2, UnlinkShrinks DEF TypeOK
  <2> QED
    BY <1>1, <1>2, <2>1, <2>2 DEF TypeOK
<1>4. ASSUME NEW u \in Threads PROVE ThreadInv(u)'
  BY <1>1, <1>2 DEF IInv, ThreadInv, TypeOK, StagersDistinct, WorkerInv, RowInv, RecInv, PoolInv,
     IdleThread, IdleWorker, IdleRec, ThreadState, WorkerState
<1>5. /\ \A u \in Runs : WorkerInv(u)' /\ RowInv(u)'
      /\ PoolInv' /\ RecInv' /\ StagersDistinct'
  BY <1>1, <1>2 DEF IInv, ThreadInv, TypeOK, WorkerInv, RowInv, RecInv, PoolInv, StagersDistinct, ActiveRows,
     IdleThread, IdleWorker, IdleRec, ThreadState, WorkerState
<1> QED
  BY <1>3, <1>4, <1>5 DEF IInv

\* Removing the run directory preserves the invariant.
LEMMA DeleteDirPreserves ==
  ASSUME IInv, NEW t \in Threads, DeleteDir(t)
  PROVE  IInv'
<1> USE DEF DeleteDir
<1>1. TypeOK
  BY DEF IInv
<1>2. thread[t].run \in Runs
  BY <1>1 DEF IInv, ThreadInv
<1>3. TypeOK'
  <2>1. thread' \in [Threads -> ThreadState]
    BY <1>1, <1>2, IdleTyped, ThreadMoves DEF TypeOK
  <2> QED
    BY <1>1, <1>2, <2>1 DEF TypeOK
<1>4. ASSUME NEW u \in Threads PROVE ThreadInv(u)'
  BY <1>1, <1>2 DEF IInv, ThreadInv, TypeOK, StagersDistinct, WorkerInv, RowInv, RecInv, PoolInv,
     IdleThread, IdleWorker, IdleRec, ThreadState, WorkerState
<1>5. /\ \A u \in Runs : WorkerInv(u)' /\ RowInv(u)'
      /\ PoolInv' /\ RecInv' /\ StagersDistinct'
  BY <1>1, <1>2 DEF IInv, ThreadInv, TypeOK, WorkerInv, RowInv, RecInv, PoolInv, StagersDistinct, ActiveRows,
     IdleThread, IdleWorker, IdleRec, ThreadState, WorkerState
<1> QED
  BY <1>3, <1>4, <1>5 DEF IInv

\* A removal that gives up preserves the invariant.
LEMMA DeleteGivesUpPreserves ==
  ASSUME IInv, NEW t \in Threads, DeleteGivesUp(t)
  PROVE  IInv'
<1> USE DEF DeleteGivesUp
<1>1. TypeOK
  BY DEF IInv
<1>2. thread[t].run \in Runs
  BY <1>1 DEF IInv, ThreadInv
<1>3. TypeOK'
  <2>1. thread' \in [Threads -> ThreadState]
    BY <1>1, <1>2, IdleTyped, ThreadMoves DEF TypeOK
  <2> QED
    BY <1>1, <1>2, <2>1 DEF TypeOK
<1>4. ASSUME NEW u \in Threads PROVE ThreadInv(u)'
  BY <1>1, <1>2 DEF IInv, ThreadInv, TypeOK, StagersDistinct, WorkerInv, RowInv, RecInv, PoolInv,
     IdleThread, IdleWorker, IdleRec, ThreadState, WorkerState
<1>5. /\ \A u \in Runs : WorkerInv(u)' /\ RowInv(u)'
      /\ PoolInv' /\ RecInv' /\ StagersDistinct'
  BY <1>1, <1>2 DEF IInv, ThreadInv, TypeOK, WorkerInv, RowInv, RecInv, PoolInv, StagersDistinct, ActiveRows,
     IdleThread, IdleWorker, IdleRec, ThreadState, WorkerState
<1> QED
  BY <1>3, <1>4, <1>5 DEF IInv

\* The head of the pool was queued and never started; it leaves the pool.
LEMMA WorkerStartPreserves ==
  ASSUME IInv, NEW r \in Runs, WorkerStart(r)
  PROVE  IInv'
<1> USE DEF WorkerStart, Update
<1>1. TypeOK
  BY DEF IInv
<1>2. TypeOK'
  <2>1. worker' \in [Runs -> WorkerState]
    BY <1>1, IdleTyped, WorkerMoves DEF TypeOK
  <2> QED
    BY <1>1, <2>1 DEF TypeOK
<1>3. worker[r].pc = "pooled" /\ status[r] = "queued" /\ starts[r] = 0
  <2>1. r = pool[1] /\ 1 \in 1..Len(pool)
    BY <1>1 DEF TypeOK
  <2> QED
    BY <2>1 DEF IInv, PoolInv, WorkerInv
<1>4. PoolInv'
  <2>1. \A q \in Runs \ {r} : worker'[q] = worker[q]
    BY <1>1 DEF TypeOK
  <2>2. mode' = mode /\ pool # <<>> /\ Head(pool) = r /\ pool' = Tail(pool) /\ PoolInv
    BY DEF IInv
  <2> QED
    BY <1>1, <2>1, <2>2, PoolHeadLeaves
<1>5. ASSUME NEW u \in Threads PROVE ThreadInv(u)'
  BY <1>1, <1>3 DEF IInv, ThreadInv, TypeOK, StagersDistinct, WorkerInv, RowInv, RecInv, PoolInv,
     IdleThread, IdleWorker, IdleRec, ThreadState, WorkerState
<1>6. /\ \A u \in Runs : WorkerInv(u)' /\ RowInv(u)'
      /\ RecInv' /\ StagersDistinct'
  BY <1>1, <1>3 DEF IInv, ThreadInv, TypeOK, WorkerInv, RowInv, RecInv, PoolInv, StagersDistinct, ActiveRows,
     IdleThread, IdleWorker, IdleRec, ThreadState, WorkerState
<1> QED
  BY <1>2, <1>4, <1>5, <1>6 DEF IInv

\* A worker that cannot record its start preserves the invariant.
LEMMA WorkerStartFailsPreserves ==
  ASSUME IInv, NEW r \in Runs, WorkerStartFails(r)
  PROVE  IInv'
<1> USE DEF WorkerStartFails, Abandon, Update
<1>1. TypeOK
  BY DEF IInv
<1>2. TypeOK'
  <2>1. worker' \in [Runs -> WorkerState]
    BY <1>1, IdleTyped, WorkerMoves DEF TypeOK
  <2>2. pool' \in Seq(Runs) /\ stranded' \subseteq Runs
    BY <1>1 DEF TypeOK
  <2>3. /\ status' \in [Runs -> Terminal \cup Active \cup {"absent"}] /\ destroyed' \in [Runs -> BOOLEAN]
        /\ old' \subseteq Runs /\ saved' = saved /\ keyOf' = keyOf /\ digestOf' = digestOf
    <3>1. CASE UNCHANGED row
      BY <1>1, <3>1 DEF TypeOK
    <3>2. CASE Update(r, "running", destroyed[r]) /\ UNCHANGED saved
      BY <1>1, <3>2 DEF TypeOK
    <3> QED
      BY <3>1, <3>2
  <2> QED
    BY <1>1, <2>1, <2>2, <2>3 DEF TypeOK
<1>3. worker[r].pc = "pooled" /\ status[r] = "queued" /\ starts[r] = 0
  <2>1. r = pool[1] /\ 1 \in 1..Len(pool)
    BY <1>1 DEF TypeOK
  <2> QED
    BY <2>1 DEF IInv, PoolInv, WorkerInv
<1>4. PoolInv'
  <2>1. \A q \in Runs \ {r} : worker'[q] = worker[q]
    BY <1>1 DEF TypeOK
  <2>2. mode' = mode /\ pool # <<>> /\ Head(pool) = r /\ pool' = Tail(pool) /\ PoolInv
    BY DEF IInv
  <2> QED
    BY <1>1, <2>1, <2>2, PoolHeadLeaves
<1>5. ASSUME NEW u \in Threads PROVE ThreadInv(u)'
  BY <1>1, <1>3 DEF IInv, ThreadInv, TypeOK, StagersDistinct, WorkerInv, RowInv, RecInv, PoolInv,
     IdleThread, IdleWorker, IdleRec, ThreadState, WorkerState
<1>6. /\ \A u \in Runs : WorkerInv(u)' /\ RowInv(u)'
      /\ RecInv' /\ StagersDistinct'
  BY <1>1, <1>3 DEF IInv, ThreadInv, TypeOK, WorkerInv, RowInv, RecInv, PoolInv, StagersDistinct, ActiveRows,
     IdleThread, IdleWorker, IdleRec, ThreadState, WorkerState
<1> QED
  BY <1>2, <1>4, <1>5, <1>6 DEF IInv

\* A started run has never been handed to the supervisor before.
LEMMA WorkerExecutePreserves ==
  ASSUME IInv, NEW r \in Runs, WorkerExecute(r)
  PROVE  IInv'
<1> USE DEF WorkerExecute
<1>1. TypeOK
  BY DEF IInv
<1>2. TypeOK'
  <2>1. worker' \in [Runs -> WorkerState]
    BY <1>1, IdleTyped, WorkerMoves DEF TypeOK
  <2> QED
    BY <1>1, <2>1 DEF TypeOK
<1>3. ASSUME NEW u \in Threads PROVE ThreadInv(u)'
  BY <1>1 DEF IInv, ThreadInv, TypeOK, StagersDistinct, WorkerInv, RowInv, RecInv, PoolInv,
     IdleThread, IdleWorker, IdleRec, ThreadState, WorkerState
<1>4. /\ \A u \in Runs : WorkerInv(u)' /\ RowInv(u)'
      /\ PoolInv' /\ RecInv' /\ StagersDistinct'
  BY <1>1 DEF IInv, ThreadInv, TypeOK, WorkerInv, RowInv, RecInv, PoolInv, StagersDistinct, ActiveRows,
     IdleThread, IdleWorker, IdleRec, ThreadState, WorkerState
<1> QED
  BY <1>2, <1>3, <1>4 DEF IInv

\* A supervisor that is not launched preserves the invariant.
LEMMA WorkerRefusedPreserves ==
  ASSUME IInv, NEW r \in Runs, WorkerRefused(r)
  PROVE  IInv'
<1> USE DEF WorkerRefused
<1>1. TypeOK
  BY DEF IInv
<1>2. TypeOK'
  <2>1. worker' \in [Runs -> WorkerState]
    BY <1>1, IdleTyped, WorkerMoves DEF TypeOK
  <2> QED
    BY <1>1, <2>1 DEF TypeOK
<1>3. ASSUME NEW u \in Threads PROVE ThreadInv(u)'
  BY <1>1 DEF IInv, ThreadInv, TypeOK, StagersDistinct, WorkerInv, RowInv, RecInv, PoolInv,
     IdleThread, IdleWorker, IdleRec, ThreadState, WorkerState
<1>4. /\ \A u \in Runs : WorkerInv(u)' /\ RowInv(u)'
      /\ PoolInv' /\ RecInv' /\ StagersDistinct'
  BY <1>1 DEF IInv, ThreadInv, TypeOK, WorkerInv, RowInv, RecInv, PoolInv, StagersDistinct, ActiveRows,
     IdleThread, IdleWorker, IdleRec, ThreadState, WorkerState
<1> QED
  BY <1>2, <1>3, <1>4 DEF IInv

\* The verdict taken from the supervisor's answer is a terminal status.
LEMMA WorkerReturnsPreserves ==
  ASSUME IInv, NEW r \in Runs, WorkerReturns(r)
  PROVE  IInv'
<1>1. TypeOK
  BY DEF IInv
<1>0. PICK claim \in Claims \ {"none"} : WorkerReturns(r)!(claim)
  BY DEF WorkerReturns
<1>2. PICK verdict \in Verdicts(r, claim) :
        /\ worker[r].pc = "executing"
        /\ worker' = [worker EXCEPT ![r].pc = "cleanup", ![r].claim = claim, ![r].verdict = verdict]
        /\ UNCHANGED <<row, disk, process, thread, pool, vm, history>>
  BY <1>0
<1>3. verdict \in Terminal
  BY DEF Verdicts
<1>4. TypeOK'
  <2>1. worker' = [worker EXCEPT ![r] = [worker[r] EXCEPT !.pc = "cleanup", !.claim = claim,
                            !.verdict = verdict]]
    BY <1>1, <1>2 DEF TypeOK
  <2>2. worker' \in [Runs -> WorkerState]
    BY <1>1, <1>3, <2>1, WorkerMoves DEF TypeOK
  <2> QED
    BY <1>1, <1>2, <1>3, <2>1, <2>2 DEF TypeOK
<1>5. ASSUME NEW u \in Threads PROVE ThreadInv(u)'
  BY <1>1, <1>2, <1>3 DEF IInv, ThreadInv, TypeOK, StagersDistinct, WorkerInv, RowInv, RecInv, PoolInv,
     IdleThread, IdleWorker, IdleRec, ThreadState, WorkerState
<1>6. /\ \A u \in Runs : WorkerInv(u)' /\ RowInv(u)'
      /\ PoolInv' /\ RecInv' /\ StagersDistinct'
  BY <1>1, <1>2, <1>3 DEF IInv, ThreadInv, TypeOK, WorkerInv, RowInv, RecInv, PoolInv, StagersDistinct, ActiveRows,
     IdleThread, IdleWorker, IdleRec, ThreadState, WorkerState
<1> QED
  BY <1>4, <1>5, <1>6 DEF IInv

\* A supervisor failure preserves the invariant.
LEMMA WorkerRaisesPreserves ==
  ASSUME IInv, NEW r \in Runs, WorkerRaises(r)
  PROVE  IInv'
<1> USE DEF WorkerRaises
<1>1. TypeOK
  BY DEF IInv
<1>2. TypeOK'
  <2>1. worker' \in [Runs -> WorkerState]
    BY <1>1, IdleTyped, WorkerMoves DEF TypeOK
  <2> QED
    BY <1>1, <2>1 DEF TypeOK
<1>3. ASSUME NEW u \in Threads PROVE ThreadInv(u)'
  BY <1>1 DEF IInv, ThreadInv, TypeOK, StagersDistinct, WorkerInv, RowInv, RecInv, PoolInv,
     IdleThread, IdleWorker, IdleRec, ThreadState, WorkerState
<1>4. /\ \A u \in Runs : WorkerInv(u)' /\ RowInv(u)'
      /\ PoolInv' /\ RecInv' /\ StagersDistinct'
  BY <1>1 DEF IInv, ThreadInv, TypeOK, WorkerInv, RowInv, RecInv, PoolInv, StagersDistinct, ActiveRows,
     IdleThread, IdleWorker, IdleRec, ThreadState, WorkerState
<1> QED
  BY <1>2, <1>3, <1>4 DEF IInv

\* Unlinking the sample preserves the invariant.
LEMMA WorkerCleanupPreserves ==
  ASSUME IInv, NEW r \in Runs, WorkerCleanup(r)
  PROVE  IInv'
<1> USE DEF WorkerCleanup
<1>1. TypeOK
  BY DEF IInv
<1>2. TypeOK'
  <2>1. worker' \in [Runs -> WorkerState]
    BY <1>1, IdleTyped, WorkerMoves DEF TypeOK
  <2> QED
    BY <1>1, <2>1 DEF TypeOK
<1>3. ASSUME NEW u \in Threads PROVE ThreadInv(u)'
  BY <1>1 DEF IInv, ThreadInv, TypeOK, StagersDistinct, WorkerInv, RowInv, RecInv, PoolInv,
     IdleThread, IdleWorker, IdleRec, ThreadState, WorkerState
<1>4. /\ \A u \in Runs : WorkerInv(u)' /\ RowInv(u)'
      /\ PoolInv' /\ RecInv' /\ StagersDistinct'
  BY <1>1 DEF IInv, ThreadInv, TypeOK, WorkerInv, RowInv, RecInv, PoolInv, StagersDistinct, ActiveRows,
     IdleThread, IdleWorker, IdleRec, ThreadState, WorkerState
<1> QED
  BY <1>2, <1>3, <1>4 DEF IInv

\* A failed unlink preserves the invariant.
LEMMA WorkerCleanupFailsPreserves ==
  ASSUME IInv, NEW r \in Runs, WorkerCleanupFails(r)
  PROVE  IInv'
<1> USE DEF WorkerCleanupFails, Abandon
<1>1. TypeOK
  BY DEF IInv
<1>2. TypeOK'
  <2>1. worker' \in [Runs -> WorkerState]
    BY <1>1, IdleTyped, WorkerMoves DEF TypeOK
  <2> QED
    BY <1>1, <2>1 DEF TypeOK
<1>3. ASSUME NEW u \in Threads PROVE ThreadInv(u)'
  BY <1>1 DEF IInv, ThreadInv, TypeOK, StagersDistinct, WorkerInv, RowInv, RecInv, PoolInv,
     IdleThread, IdleWorker, IdleRec, ThreadState, WorkerState
<1>4. /\ \A u \in Runs : WorkerInv(u)' /\ RowInv(u)'
      /\ PoolInv' /\ RecInv' /\ StagersDistinct'
  BY <1>1 DEF IInv, ThreadInv, TypeOK, WorkerInv, RowInv, RecInv, PoolInv, StagersDistinct, ActiveRows,
     IdleThread, IdleWorker, IdleRec, ThreadState, WorkerState
<1> QED
  BY <1>2, <1>3, <1>4 DEF IInv

\* A confirmed destruction is remembered until the row is closed.
LEMMA WorkerDestroyPreserves ==
  ASSUME IInv, NEW r \in Runs, WorkerDestroy(r)
  PROVE  IInv'
<1> USE DEF WorkerDestroy, DestroyConfirmed
<1>1. TypeOK
  BY DEF IInv
<1>2. TypeOK'
  <2>1. worker' \in [Runs -> WorkerState]
    BY <1>1, IdleTyped, WorkerMoves DEF TypeOK
  <2> QED
    BY <1>1, <2>1 DEF TypeOK
<1>3. worker'[r].pc = "close" /\ worker'[r].gone /\ vm'[r] = "none" /\ \A q \in Runs \ {r} : worker'[q] = worker[q]
  BY <1>1 DEF TypeOK, WorkerState
<1>4. ASSUME NEW u \in Threads PROVE ThreadInv(u)'
  BY <1>1, <1>3 DEF IInv, ThreadInv, TypeOK, StagersDistinct, WorkerInv, RowInv, RecInv, PoolInv,
     IdleThread, IdleWorker, IdleRec, ThreadState, WorkerState
<1>5. /\ \A u \in Runs : WorkerInv(u)' /\ RowInv(u)'
      /\ PoolInv' /\ RecInv' /\ StagersDistinct'
  BY <1>1, <1>3 DEF IInv, ThreadInv, TypeOK, WorkerInv, RowInv, RecInv, PoolInv, StagersDistinct, ActiveRows,
     IdleThread, IdleWorker, IdleRec, ThreadState, WorkerState
<1> QED
  BY <1>2, <1>4, <1>5 DEF IInv

\* A failed destruction preserves the invariant.
LEMMA WorkerDestroyFailsPreserves ==
  ASSUME IInv, NEW r \in Runs, WorkerDestroyFails(r)
  PROVE  IInv'
<1> USE DEF WorkerDestroyFails, DestroyFails
<1>1. TypeOK
  BY DEF IInv
<1>2. TypeOK'
  <2>1. worker' \in [Runs -> WorkerState]
    BY <1>1, IdleTyped, WorkerMoves DEF TypeOK
  <2> QED
    BY <1>1, <2>1 DEF TypeOK
<1>3. ASSUME NEW u \in Threads PROVE ThreadInv(u)'
  BY <1>1 DEF IInv, ThreadInv, TypeOK, StagersDistinct, WorkerInv, RowInv, RecInv, PoolInv,
     IdleThread, IdleWorker, IdleRec, ThreadState, WorkerState
<1>4. /\ \A u \in Runs : WorkerInv(u)' /\ RowInv(u)'
      /\ PoolInv' /\ RecInv' /\ StagersDistinct'
  BY <1>1 DEF IInv, ThreadInv, TypeOK, WorkerInv, RowInv, RecInv, PoolInv, StagersDistinct, ActiveRows,
     IdleThread, IdleWorker, IdleRec, ThreadState, WorkerState
<1> QED
  BY <1>2, <1>3, <1>4 DEF IInv

\* Quarantining by a worker preserves the invariant.
LEMMA WorkerQuarantinePreserves ==
  ASSUME IInv, NEW r \in Runs, WorkerQuarantine(r)
  PROVE  IInv'
<1> USE DEF WorkerQuarantine, Quarantine
<1>1. TypeOK
  BY DEF IInv
<1>2. TypeOK'
  <2>1. worker' \in [Runs -> WorkerState]
    BY <1>1, IdleTyped, WorkerMoves DEF TypeOK
  <2> QED
    BY <1>1, <2>1 DEF TypeOK
<1>3. ASSUME NEW u \in Threads PROVE ThreadInv(u)'
  BY <1>1 DEF IInv, ThreadInv, TypeOK, StagersDistinct, WorkerInv, RowInv, RecInv, PoolInv,
     IdleThread, IdleWorker, IdleRec, ThreadState, WorkerState
<1>4. /\ \A u \in Runs : WorkerInv(u)' /\ RowInv(u)'
      /\ PoolInv' /\ RecInv' /\ StagersDistinct'
  BY <1>1 DEF IInv, ThreadInv, TypeOK, WorkerInv, RowInv, RecInv, PoolInv, StagersDistinct, ActiveRows,
     IdleThread, IdleWorker, IdleRec, ThreadState, WorkerState
<1> QED
  BY <1>2, <1>3, <1>4 DEF IInv

\* The row is closed as destroyed only when its VM is gone.
LEMMA WorkerClosePreserves ==
  ASSUME IInv, NEW r \in Runs, WorkerClose(r)
  PROVE  IInv'
<1> USE DEF WorkerClose, Update
<1>1. TypeOK
  BY DEF IInv
<1>2. worker[r].verdict \in Terminal /\ worker[r].claim \in Claims /\ worker[r].gone \in BOOLEAN
  BY <1>1 DEF TypeOK, WorkerState
<1>3. TypeOK'
  <2>1. worker' \in [Runs -> WorkerState]
    BY <1>1, <1>2, IdleTyped, WorkerMoves DEF TypeOK
  <2> QED
    BY <1>1, <1>2, <2>1 DEF TypeOK
<1>4. ASSUME NEW u \in Threads PROVE ThreadInv(u)'
  BY <1>1, <1>2 DEF IInv, ThreadInv, TypeOK, StagersDistinct, WorkerInv, RowInv, RecInv, PoolInv,
     IdleThread, IdleWorker, IdleRec, ThreadState, WorkerState
<1>5. /\ \A u \in Runs : WorkerInv(u)' /\ RowInv(u)'
      /\ PoolInv' /\ RecInv' /\ StagersDistinct'
  BY <1>1, <1>2 DEF IInv, ThreadInv, TypeOK, WorkerInv, RowInv, RecInv, PoolInv, StagersDistinct, ActiveRows,
     IdleThread, IdleWorker, IdleRec, ThreadState, WorkerState
<1> QED
  BY <1>3, <1>4, <1>5 DEF IInv

\* A failed close preserves the invariant.
LEMMA WorkerCloseFailsPreserves ==
  ASSUME IInv, NEW r \in Runs, WorkerCloseFails(r)
  PROVE  IInv'
<1> USE DEF WorkerCloseFails, Abandon
<1>1. TypeOK
  BY DEF IInv
<1>2. TypeOK'
  <2>1. worker' \in [Runs -> WorkerState]
    BY <1>1, IdleTyped, WorkerMoves DEF TypeOK
  <2> QED
    BY <1>1, <2>1 DEF TypeOK
<1>3. ASSUME NEW u \in Threads PROVE ThreadInv(u)'
  BY <1>1 DEF IInv, ThreadInv, TypeOK, StagersDistinct, WorkerInv, RowInv, RecInv, PoolInv,
     IdleThread, IdleWorker, IdleRec, ThreadState, WorkerState
<1>4. /\ \A u \in Runs : WorkerInv(u)' /\ RowInv(u)'
      /\ PoolInv' /\ RecInv' /\ StagersDistinct'
  BY <1>1 DEF IInv, ThreadInv, TypeOK, WorkerInv, RowInv, RecInv, PoolInv, StagersDistinct, ActiveRows,
     IdleThread, IdleWorker, IdleRec, ThreadState, WorkerState
<1> QED
  BY <1>2, <1>3, <1>4 DEF IInv

\* A restart lists the rows left active; nothing else runs.
LEMMA RestartPreserves ==
  ASSUME IInv, Restart
  PROVE  IInv'
<1> USE DEF Restart
<1>1. TypeOK
  BY DEF IInv
<1>2. TypeOK'
  <2> QED
    BY <1>1 DEF TypeOK, ActiveRows
<1>3. ASSUME NEW u \in Threads PROVE ThreadInv(u)'
  BY <1>1 DEF IInv, ThreadInv, TypeOK, StagersDistinct, WorkerInv, RowInv, RecInv, PoolInv,
     IdleThread, IdleWorker, IdleRec, ThreadState, WorkerState
<1>4. /\ \A u \in Runs : WorkerInv(u)' /\ RowInv(u)'
      /\ PoolInv' /\ RecInv' /\ StagersDistinct'
  BY <1>1 DEF IInv, ThreadInv, TypeOK, WorkerInv, RowInv, RecInv, PoolInv, StagersDistinct, ActiveRows,
     IdleThread, IdleWorker, IdleRec, ThreadState, WorkerState
<1> QED
  BY <1>2, <1>3, <1>4 DEF IInv

\* The row in hand of the reconciliation is still active after its destroy command.
LEMMA ReconcileDestroyPreserves ==
  ASSUME IInv, NEW r \in Runs, ReconcileDestroy(r)
  PROVE  IInv'
<1> USE DEF ReconcileDestroy, DestroyConfirmed
<1>1. TypeOK
  BY DEF IInv
<1>2. TypeOK'
  <2> QED
    BY <1>1 DEF TypeOK, IdleRec
<1>3. ASSUME NEW u \in Threads PROVE ThreadInv(u)'
  BY <1>1 DEF IInv, ThreadInv, TypeOK, StagersDistinct, WorkerInv, RowInv, RecInv, PoolInv,
     IdleThread, IdleWorker, IdleRec, ThreadState, WorkerState
<1>4. /\ \A u \in Runs : WorkerInv(u)' /\ RowInv(u)'
      /\ PoolInv' /\ RecInv' /\ StagersDistinct'
  BY <1>1 DEF IInv, ThreadInv, TypeOK, WorkerInv, RowInv, RecInv, PoolInv, StagersDistinct, ActiveRows,
     IdleThread, IdleWorker, IdleRec, ThreadState, WorkerState
<1> QED
  BY <1>2, <1>3, <1>4 DEF IInv

\* A failed destroy command of the reconciliation preserves the invariant.
LEMMA ReconcileDestroyFailsPreserves ==
  ASSUME IInv, NEW r \in Runs, ReconcileDestroyFails(r)
  PROVE  IInv'
<1> USE DEF ReconcileDestroyFails, DestroyFails
<1>1. TypeOK
  BY DEF IInv
<1>2. TypeOK'
  <2> QED
    BY <1>1 DEF TypeOK, IdleRec
<1>3. ASSUME NEW u \in Threads PROVE ThreadInv(u)'
  BY <1>1 DEF IInv, ThreadInv, TypeOK, StagersDistinct, WorkerInv, RowInv, RecInv, PoolInv,
     IdleThread, IdleWorker, IdleRec, ThreadState, WorkerState
<1>4. /\ \A u \in Runs : WorkerInv(u)' /\ RowInv(u)'
      /\ PoolInv' /\ RecInv' /\ StagersDistinct'
  BY <1>1 DEF IInv, ThreadInv, TypeOK, WorkerInv, RowInv, RecInv, PoolInv, StagersDistinct, ActiveRows,
     IdleThread, IdleWorker, IdleRec, ThreadState, WorkerState
<1> QED
  BY <1>2, <1>3, <1>4 DEF IInv

\* The reconciliation marks a row destroyed only when its VM is gone.
LEMMA ReconcileMarkPreserves ==
  ASSUME IInv, NEW r \in Runs, ReconcileMark(r)
  PROVE  IInv'
<1> USE DEF ReconcileMark, Update
<1>1. TypeOK
  BY DEF IInv
<1>2. TypeOK'
  <2> QED
    BY <1>1 DEF TypeOK, IdleRec
<1>3. ASSUME NEW u \in Threads PROVE ThreadInv(u)'
  BY <1>1 DEF IInv, ThreadInv, TypeOK, StagersDistinct, WorkerInv, RowInv, RecInv, PoolInv,
     IdleThread, IdleWorker, IdleRec, ThreadState, WorkerState
<1>4. /\ \A u \in Runs : WorkerInv(u)' /\ RowInv(u)'
      /\ PoolInv' /\ RecInv' /\ StagersDistinct'
  BY <1>1 DEF IInv, ThreadInv, TypeOK, WorkerInv, RowInv, RecInv, PoolInv, StagersDistinct, ActiveRows,
     IdleThread, IdleWorker, IdleRec, ThreadState, WorkerState
<1> QED
  BY <1>2, <1>3, <1>4 DEF IInv

\* A failed update of the reconciliation preserves the invariant.
LEMMA ReconcileMarkFailsPreserves ==
  ASSUME IInv, NEW r \in Runs, ReconcileMarkFails(r)
  PROVE  IInv'
<1> USE DEF ReconcileMarkFails
<1>1. TypeOK
  BY DEF IInv
<1>2. TypeOK'
  <2> QED
    BY <1>1 DEF TypeOK, IdleRec
<1>3. ASSUME NEW u \in Threads PROVE ThreadInv(u)'
  BY <1>1 DEF IInv, ThreadInv, TypeOK, StagersDistinct, WorkerInv, RowInv, RecInv, PoolInv,
     IdleThread, IdleWorker, IdleRec, ThreadState, WorkerState
<1>4. /\ \A u \in Runs : WorkerInv(u)' /\ RowInv(u)'
      /\ PoolInv' /\ RecInv' /\ StagersDistinct'
  BY <1>1 DEF IInv, ThreadInv, TypeOK, WorkerInv, RowInv, RecInv, PoolInv, StagersDistinct, ActiveRows,
     IdleThread, IdleWorker, IdleRec, ThreadState, WorkerState
<1> QED
  BY <1>2, <1>3, <1>4 DEF IInv

\* Recording a failed reconciliation preserves the invariant.
LEMMA ReconcileRefusePreserves ==
  ASSUME IInv, NEW r \in Runs, ReconcileRefuse(r)
  PROVE  IInv'
<1> USE DEF ReconcileRefuse, Update
<1>1. TypeOK
  BY DEF IInv
<1>2. TypeOK'
  <2> QED
    BY <1>1 DEF TypeOK, IdleRec
<1>3. ASSUME NEW u \in Threads PROVE ThreadInv(u)'
  BY <1>1 DEF IInv, ThreadInv, TypeOK, StagersDistinct, WorkerInv, RowInv, RecInv, PoolInv,
     IdleThread, IdleWorker, IdleRec, ThreadState, WorkerState
<1>4. /\ \A u \in Runs : WorkerInv(u)' /\ RowInv(u)'
      /\ PoolInv' /\ RecInv' /\ StagersDistinct'
  BY <1>1 DEF IInv, ThreadInv, TypeOK, WorkerInv, RowInv, RecInv, PoolInv, StagersDistinct, ActiveRows,
     IdleThread, IdleWorker, IdleRec, ThreadState, WorkerState
<1> QED
  BY <1>2, <1>3, <1>4 DEF IInv

\* Quarantining by the reconciliation preserves the invariant.
LEMMA ReconcileQuarantinePreserves ==
  ASSUME IInv, NEW r \in Runs, ReconcileQuarantine(r)
  PROVE  IInv'
<1> USE DEF ReconcileQuarantine, Quarantine
<1>1. TypeOK
  BY DEF IInv
<1>2. TypeOK'
  <2> QED
    BY <1>1 DEF TypeOK, IdleRec
<1>3. ASSUME NEW u \in Threads PROVE ThreadInv(u)'
  BY <1>1 DEF IInv, ThreadInv, TypeOK, StagersDistinct, WorkerInv, RowInv, RecInv, PoolInv,
     IdleThread, IdleWorker, IdleRec, ThreadState, WorkerState
<1>4. /\ \A u \in Runs : WorkerInv(u)' /\ RowInv(u)'
      /\ PoolInv' /\ RecInv' /\ StagersDistinct'
  BY <1>1 DEF IInv, ThreadInv, TypeOK, WorkerInv, RowInv, RecInv, PoolInv, StagersDistinct, ActiveRows,
     IdleThread, IdleWorker, IdleRec, ThreadState, WorkerState
<1> QED
  BY <1>2, <1>3, <1>4 DEF IInv

\* The removal of an artifact of an expired run preserves the invariant.
LEMMA CleanupFilePreserves ==
  ASSUME IInv, NEW r \in Runs, CleanupFile(r)
  PROVE  IInv'
<1> USE DEF CleanupFile
<1>1. TypeOK
  BY DEF IInv
<1>2. TypeOK'
  <2>1. files' \in [Runs -> SUBSET Files] /\ foreign' \subseteq Runs
    BY <1>1, UnlinkShrinks DEF TypeOK
  <2> QED
    BY <1>1, <2>1 DEF TypeOK
<1>3. ASSUME NEW u \in Threads PROVE ThreadInv(u)'
  BY <1>1 DEF IInv, ThreadInv, TypeOK, StagersDistinct, WorkerInv, RowInv, RecInv, PoolInv,
     IdleThread, IdleWorker, IdleRec, ThreadState, WorkerState
<1>4. /\ \A u \in Runs : WorkerInv(u)' /\ RowInv(u)'
      /\ PoolInv' /\ RecInv' /\ StagersDistinct'
  BY <1>1 DEF IInv, ThreadInv, TypeOK, WorkerInv, RowInv, RecInv, PoolInv, StagersDistinct, ActiveRows,
     IdleThread, IdleWorker, IdleRec, ThreadState, WorkerState
<1> QED
  BY <1>2, <1>3, <1>4 DEF IInv

\* The end of the start, with the removal of expired directories, preserves the invariant.
LEMMA ServePreserves ==
  ASSUME IInv, Serve
  PROVE  IInv'
<1> USE DEF Serve
<1>1. TypeOK
  BY DEF IInv
<1>2. TypeOK'
  <2> QED
    BY <1>1 DEF TypeOK, IdleRec
<1>3. ASSUME NEW u \in Threads PROVE ThreadInv(u)'
  BY <1>1 DEF IInv, ThreadInv, TypeOK, StagersDistinct, WorkerInv, RowInv, RecInv, PoolInv,
     IdleThread, IdleWorker, IdleRec, ThreadState, WorkerState
<1>4. /\ \A u \in Runs : WorkerInv(u)' /\ RowInv(u)'
      /\ PoolInv' /\ RecInv' /\ StagersDistinct'
  BY <1>1 DEF IInv, ThreadInv, TypeOK, WorkerInv, RowInv, RecInv, PoolInv, StagersDistinct, ActiveRows,
     IdleThread, IdleWorker, IdleRec, ThreadState, WorkerState
<1> QED
  BY <1>2, <1>3, <1>4 DEF IInv

\* A crash leaves no handler, worker or queue.
LEMMA CrashPreserves ==
  ASSUME IInv, Crash
  PROVE  IInv'
<1> USE DEF Crash
<1>1. TypeOK
  BY DEF IInv
<1>2. TypeOK'
  <2>1. thread' \in [Threads -> ThreadState]
    BY <1>1, IdleTyped, ThreadMoves DEF TypeOK
  <2>2. worker' \in [Runs -> WorkerState]
    BY <1>1, IdleTyped, WorkerMoves DEF TypeOK
  <2> QED
    BY <1>1, <2>1, <2>2, BoundsAssumption DEF TypeOK, IdleRec
<1>3. ASSUME NEW u \in Threads PROVE ThreadInv(u)'
  BY <1>1 DEF IInv, ThreadInv, TypeOK, StagersDistinct, WorkerInv, RowInv, RecInv, PoolInv,
     IdleThread, IdleWorker, IdleRec, ThreadState, WorkerState
<1>4. /\ \A u \in Runs : WorkerInv(u)' /\ RowInv(u)'
      /\ PoolInv' /\ RecInv' /\ StagersDistinct'
  BY <1>1 DEF IInv, ThreadInv, TypeOK, WorkerInv, RowInv, RecInv, PoolInv, StagersDistinct, ActiveRows,
     IdleThread, IdleWorker, IdleRec, ThreadState, WorkerState
<1> QED
  BY <1>2, <1>3, <1>4 DEF IInv

\* An artifact written by the supervisor preserves the invariant.
LEMMA SupervisorWritesPreserves ==
  ASSUME IInv, NEW r \in Runs, SupervisorWrites(r)
  PROVE  IInv'
<1> USE DEF SupervisorWrites
<1>1. TypeOK
  BY DEF IInv
<1>2. TypeOK'
  <2> QED
    BY <1>1 DEF TypeOK, IdleRec
<1>3. ASSUME NEW u \in Threads PROVE ThreadInv(u)'
  BY <1>1 DEF IInv, ThreadInv, TypeOK, StagersDistinct, WorkerInv, RowInv, RecInv, PoolInv,
     IdleThread, IdleWorker, IdleRec, ThreadState, WorkerState
<1>4. /\ \A u \in Runs : WorkerInv(u)' /\ RowInv(u)'
      /\ PoolInv' /\ RecInv' /\ StagersDistinct'
  BY <1>1 DEF IInv, ThreadInv, TypeOK, WorkerInv, RowInv, RecInv, PoolInv, StagersDistinct, ActiveRows,
     IdleThread, IdleWorker, IdleRec, ThreadState, WorkerState
<1> QED
  BY <1>2, <1>3, <1>4 DEF IInv

\* A VM that stops preserves the invariant: nobody relies on a VM being alive.
LEMMA VMStopsPreserves ==
  ASSUME IInv, NEW r \in Runs, VMStops(r)
  PROVE  IInv'
<1> USE DEF VMStops
<1>1. TypeOK
  BY DEF IInv
<1>2. TypeOK'
  <2> QED
    BY <1>1 DEF TypeOK, IdleRec
<1>3. ASSUME NEW u \in Threads PROVE ThreadInv(u)'
  BY <1>1 DEF IInv, ThreadInv, TypeOK, StagersDistinct, WorkerInv, RowInv, RecInv, PoolInv,
     IdleThread, IdleWorker, IdleRec, ThreadState, WorkerState
<1>4. /\ \A u \in Runs : WorkerInv(u)' /\ RowInv(u)'
      /\ PoolInv' /\ RecInv' /\ StagersDistinct'
  BY <1>1 DEF IInv, ThreadInv, TypeOK, WorkerInv, RowInv, RecInv, PoolInv, StagersDistinct, ActiveRows,
     IdleThread, IdleWorker, IdleRec, ThreadState, WorkerState
<1> QED
  BY <1>2, <1>3, <1>4 DEF IInv

\* Ageing of a run preserves the invariant.
LEMMA AgePreserves ==
  ASSUME IInv, NEW r \in Runs, Age(r)
  PROVE  IInv'
<1> USE DEF Age
<1>1. TypeOK
  BY DEF IInv
<1>2. TypeOK'
  <2> QED
    BY <1>1 DEF TypeOK, IdleRec
<1>3. ASSUME NEW u \in Threads PROVE ThreadInv(u)'
  BY <1>1 DEF IInv, ThreadInv, TypeOK, StagersDistinct, WorkerInv, RowInv, RecInv, PoolInv,
     IdleThread, IdleWorker, IdleRec, ThreadState, WorkerState
<1>4. /\ \A u \in Runs : WorkerInv(u)' /\ RowInv(u)'
      /\ PoolInv' /\ RecInv' /\ StagersDistinct'
  BY <1>1 DEF IInv, ThreadInv, TypeOK, WorkerInv, RowInv, RecInv, PoolInv, StagersDistinct, ActiveRows,
     IdleThread, IdleWorker, IdleRec, ThreadState, WorkerState
<1> QED
  BY <1>2, <1>3, <1>4 DEF IInv

\* The expiry of the acceptance record preserves the invariant.
LEMMA AcceptanceExpiresPreserves ==
  ASSUME IInv, AcceptanceExpires
  PROVE  IInv'
<1> USE DEF AcceptanceExpires
<1>1. TypeOK
  BY DEF IInv
<1>2. TypeOK'
  <2> QED
    BY <1>1 DEF TypeOK, IdleRec
<1>3. ASSUME NEW u \in Threads PROVE ThreadInv(u)'
  BY <1>1 DEF IInv, ThreadInv, TypeOK, StagersDistinct, WorkerInv, RowInv, RecInv, PoolInv,
     IdleThread, IdleWorker, IdleRec, ThreadState, WorkerState
<1>4. /\ \A u \in Runs : WorkerInv(u)' /\ RowInv(u)'
      /\ PoolInv' /\ RecInv' /\ StagersDistinct'
  BY <1>1 DEF IInv, ThreadInv, TypeOK, WorkerInv, RowInv, RecInv, PoolInv, StagersDistinct, ActiveRows,
     IdleThread, IdleWorker, IdleRec, ThreadState, WorkerState
<1> QED
  BY <1>2, <1>3, <1>4 DEF IInv

\* The operator's changes of the acceptance record preserve the invariant.
LEMMA RecordChangePreserves ==
  ASSUME IInv, PinsChange \/ RecordRemoved \/ AcceptanceRuns
  PROVE  IInv'
<1> USE DEF PinsChange, RecordRemoved, AcceptanceRuns, OnlyRecord
<1>1. TypeOK
  BY DEF IInv
<1>2. TypeOK'
  <2> QED
    BY <1>1 DEF TypeOK, IdleRec
<1>3. ASSUME NEW u \in Threads PROVE ThreadInv(u)'
  BY <1>1 DEF IInv, ThreadInv, TypeOK, StagersDistinct, WorkerInv, RowInv, RecInv, PoolInv,
     IdleThread, IdleWorker, IdleRec, ThreadState, WorkerState
<1>4. /\ \A u \in Runs : WorkerInv(u)' /\ RowInv(u)'
      /\ PoolInv' /\ RecInv' /\ StagersDistinct'
  BY <1>1 DEF IInv, ThreadInv, TypeOK, WorkerInv, RowInv, RecInv, PoolInv, StagersDistinct, ActiveRows,
     IdleThread, IdleWorker, IdleRec, ThreadState, WorkerState
<1> QED
  BY <1>2, <1>3, <1>4 DEF IInv

-----------------------------------------------------------------------------
(* Every step preserves the invariant.                                      *)

\* A step of a handler of submit, artifacts or delete preserves the invariant.
LEMMA HandlersPreserve ==
  ASSUME IInv, NEW t \in Threads, Submit(t) \/ Artifacts(t) \/ Delete(t)
  PROVE  IInv'
<1>1. CASE Submit(t)
  BY <1>1, SubmitCheckPreserves, SubmitKnownKeyPreserves, SubmitReservePreserves, SubmitReserveFailsPreserves,
     SubmitStagePreserves, SubmitStageFailsPreserves, SubmitDispatchPreserves DEF Submit
<1>2. CASE Artifacts(t)
  BY <1>2, ArtifactsCheckPreserves, ArtifactsValidatePreserves, ArtifactsReadPreserves DEF Artifacts
<1>3. CASE Delete(t)
  BY <1>3, DeleteCheckPreserves, DeleteDestroyPreserves, DeleteDestroyFailsPreserves, DeleteConfirmPreserves,
     DeleteConfirmFailsPreserves, DeleteQuarantinePreserves, DeleteFilePreserves, DeleteDirPreserves,
     DeleteGivesUpPreserves DEF Delete
<1> QED
  BY <1>1, <1>2, <1>3

\* A step of a worker preserves the invariant.
LEMMA WorkersPreserve ==
  ASSUME IInv, NEW r \in Runs, Worker(r)
  PROVE  IInv'
  BY WorkerStartPreserves, WorkerStartFailsPreserves, WorkerExecutePreserves, WorkerRefusedPreserves,
     WorkerReturnsPreserves, WorkerRaisesPreserves, WorkerCleanupPreserves, WorkerCleanupFailsPreserves,
     WorkerDestroyPreserves, WorkerDestroyFailsPreserves, WorkerQuarantinePreserves, WorkerClosePreserves,
     WorkerCloseFailsPreserves DEF Worker

\* A step of the start of the service preserves the invariant.
LEMMA StartPreserves ==
  ASSUME IInv, Start
  PROVE  IInv'
  BY RestartPreserves, CleanupFilePreserves, ServePreserves, ReconcileDestroyPreserves, ReconcileDestroyFailsPreserves,
     ReconcileMarkPreserves, ReconcileMarkFailsPreserves, ReconcileRefusePreserves,
     ReconcileQuarantinePreserves DEF Start

\* A crash, a step of the supervisor or the passing of time preserves the invariant.
LEMMA EnvironmentPreserves ==
  ASSUME IInv, Environment
  PROVE  IInv'
  BY CrashPreserves, AcceptanceExpiresPreserves, SupervisorWritesPreserves, VMStopsPreserves,
     AgePreserves, RecordChangePreserves DEF Environment

\* A step that changes nothing preserves the invariant.
LEMMA StutterPreserves ==
  ASSUME IInv, UNCHANGED vars
  PROVE  IInv'
<1> USE DEF vars
<1>1. TypeOK' /\ \A t \in Threads : ThreadInv(t)'
  BY DEF IInv, TypeOK, ThreadInv
<1>2. \A r \in Runs : WorkerInv(r)' /\ RowInv(r)'
  BY DEF IInv, WorkerInv, RowInv
<1>3. PoolInv' /\ RecInv' /\ StagersDistinct'
  BY DEF IInv, PoolInv, RecInv, StagersDistinct, ActiveRows
<1> QED
  BY <1>1, <1>2, <1>3 DEF IInv

\* The invariant is inductive.
LEMMA NextIInv == IInv /\ [Next]_vars => IInv'
  BY HandlersPreserve, WorkersPreserve, StartPreserves, EnvironmentPreserves, StutterPreserves DEF Next

\* Every state the agent reaches satisfies the inductive invariant: the relied-on
\* facts of handlers, workers, pool and reconciliation.
THEOREM Inductive == Spec => []IInv
  BY InitIInv, NextIInv, PTL DEF Spec

-----------------------------------------------------------------------------
(* What follows from the invariant.                                         *)

\* The variables of the agent always have their types.
THEOREM TypeCorrect == Spec => []TypeOK
<1>1. IInv => TypeOK
  BY DEF IInv
<1> QED
  BY <1>1, Inductive, PTL

\* GET /v1/runs/<run>/artifacts reads files only while no VM of the run is alive.
THEOREM DownloadsFollowDestruction == Spec => []ArtifactsAfterDestruction
<1>1. IInv => ArtifactsAfterDestruction
  BY DEF IInv, ThreadInv, RowInv, ArtifactsAfterDestruction
<1> QED
  BY <1>1, Inductive, PTL

\* No sample is handed to the supervisor twice, whatever is retried or restarted.
THEOREM ExecutedOnce == Spec => []AtMostOneExecution
<1>1. IInv => AtMostOneExecution
  BY DEF IInv, RowInv, AtMostOneExecution
<1> QED
  BY <1>1, Inductive, PTL

-----------------------------------------------------------------------------
(* The agent's promise: DisposableRuns, and SandboxNode *)

HIDE DEF ThreadPcs, WorkerPcs, RecSteps, Claims, FaultKinds, Records, Usable

\* The steps that leave alone everything the abstract specification sees.
Quiet == UNCHANGED <<status, destroyed, starts, vm, released>>

\* A quiet step is a stuttering step of the abstract specification.
LEMMA QuietStutters == Quiet => UNCHANGED Promise!vars
  BY DEF Quiet, Promise!vars, StageOf

\* The steps of handlers that are quiet.
LEMMA QuietHandlers ==
  ASSUME NEW t \in Threads
  PROVE  /\ \A k \in Keys, d \in Digests : SubmitCheck(t, k, d) => Quiet
         /\ SubmitKnownKey(t) \/ SubmitReserveFails(t) \/ SubmitStage(t) \/ SubmitStageFails(t)
              \/ SubmitDispatch(t) => Quiet
         /\ \A r \in Runs : ArtifactsCheck(t, r) \/ DeleteCheck(t, r) => Quiet
         /\ ArtifactsValidate(t) \/ DeleteDestroyFails(t) \/ DeleteConfirmFails(t) \/ DeleteQuarantine(t)
              \/ DeleteFile(t) \/ DeleteDir(t) \/ DeleteGivesUp(t) => Quiet
  BY DEF Quiet, SubmitCheck, SubmitKnownKey, SubmitReserveFails, SubmitStage, SubmitStageFails, SubmitDispatch,
     ArtifactsCheck, DeleteCheck, ArtifactsValidate, DeleteDestroyFails, DestroyFails, DeleteConfirmFails,
     DeleteQuarantine, DeleteFile, DeleteDir, DeleteGivesUp

\* The steps of workers that are quiet.
LEMMA QuietWorkers ==
  ASSUME NEW r \in Runs
  PROVE  /\ WorkerRefused(r) \/ WorkerReturns(r) \/ WorkerRaises(r) => Quiet
         /\ WorkerCleanup(r) \/ WorkerCleanupFails(r) \/ WorkerDestroyFails(r) \/ WorkerQuarantine(r)
              \/ WorkerCloseFails(r) => Quiet
  BY DEF Quiet, WorkerRefused, WorkerReturns, WorkerRaises, WorkerCleanup, WorkerCleanupFails,
     WorkerDestroyFails, DestroyFails, WorkerQuarantine, WorkerCloseFails, Abandon

\* The steps of the start and of the environment that are quiet.
LEMMA QuietOthers ==
  /\ Restart \/ Serve \/ Crash \/ AcceptanceExpires \/ PinsChange \/ RecordRemoved \/ AcceptanceRuns => Quiet
  /\ \A r \in Runs : ReconcileDestroyFails(r) \/ ReconcileMarkFails(r) \/ ReconcileQuarantine(r) => Quiet
  /\ \A r \in Runs : CleanupFile(r) \/ SupervisorWrites(r) \/ Age(r) => Quiet
  BY DEF Quiet, Restart, CleanupFile, Serve, Crash, AcceptanceExpires, PinsChange, RecordRemoved, AcceptanceRuns, OnlyRecord,
     ReconcileDestroyFails, DestroyFails, ReconcileMarkFails,
     ReconcileQuarantine, SupervisorWrites, Age

\* A step that touches one run moves the abstract stage of that run only.
LEMMA StageMoves ==
  ASSUME NEW r \in Runs,
         \A q \in Runs \ {r} : status'[q] = status[q] /\ starts'[q] = starts[q]
  PROVE  [q \in Runs |-> StageOf(q)]' = [[q \in Runs |-> StageOf(q)] EXCEPT ![r] = StageOf(r)']
<1>1. \A q \in Runs \ {r} : StageOf(q)' = StageOf(q)
  BY DEF StageOf
<1> QED
  BY <1>1

\* A destroy command or a VM that stops is a Stop of the abstract run.
LEMMA StopStep ==
  ASSUME NEW r \in Runs, TypeOK, DestroyConfirmed(r), UNCHANGED <<status, destroyed, starts, released>>
  PROVE  Promise!Stop(r)
<1>1. {q \in Runs : vm[q] = "alive"}' = {q \in Runs : vm[q] = "alive"} \ {r}
  BY DEF DestroyConfirmed, TypeOK
<1>2. [q \in Runs |-> StageOf(q)]' = [q \in Runs |-> StageOf(q)]
  BY DEF StageOf
<1> QED
  BY <1>1, <1>2 DEF Promise!Stop

\* A row that becomes terminal finishes the abstract run; its destroyed column
\* is set only when the VM is gone.
LEMMA FinishStep ==
  ASSUME NEW r \in Runs, NEW v \in Terminal, NEW g \in BOOLEAN, IInv,
         status[r] \in Active, g => vm[r] = "none",
         Update(r, v, g), UNCHANGED <<starts, vm, released>>
  PROVE  Promise!Finish(r)
<1>1. TypeOK /\ destroyed[r] = FALSE
  BY DEF IInv, RowInv, TypeOK
<1>2. StageOf(r) \in {"accepted", "executed"} /\ StageOf(r)' = "finished"
  BY <1>1 DEF StageOf, Update, TypeOK
<1>3. [q \in Runs |-> StageOf(q)]' = [[q \in Runs |-> StageOf(q)] EXCEPT ![r] = "finished"]
  BY <1>1, <1>2, StageMoves DEF Update, TypeOK
<1>4. \/ destroyed' = destroyed
      \/ r \notin {q \in Runs : vm[q] = "alive"} /\ destroyed' = [destroyed EXCEPT ![r] = TRUE]
  BY <1>1 DEF Update, TypeOK
<1> QED
  BY <1>2, <1>3, <1>4 DEF Promise!Finish

\* Inserting a row accepts the run.
LEMMA AcceptStep ==
  ASSUME IInv, NEW t \in Threads, SubmitReserve(t)
  PROVE  \E r \in Runs : Promise!Accept(r)
<1>1. PICK r \in Runs : SubmitReserve(t)!(r)
  BY DEF SubmitReserve
<1>2. TypeOK /\ starts[r] = 0
  BY <1>1 DEF IInv, RowInv
<1>3. StageOf(r) = "unknown" /\ StageOf(r)' = "accepted"
  BY <1>1, <1>2 DEF StageOf, TypeOK
<1>4. [q \in Runs |-> StageOf(q)]' = [[q \in Runs |-> StageOf(q)] EXCEPT ![r] = "accepted"]
  BY <1>1, <1>2, <1>3, StageMoves DEF TypeOK
<1>5. Promise!Accept(r)
  BY <1>1, <1>3, <1>4 DEF Promise!Accept
<1> QED
  BY <1>5

\* Recording "running" is invisible: the run has executed nothing yet.
LEMMA StartStep ==
  ASSUME IInv, NEW r \in Runs, WorkerStart(r) \/ WorkerStartFails(r)
  PROVE  UNCHANGED Promise!vars
<1>1. TypeOK /\ starts[r] = 0 /\ status[r] = "queued"
  <2>1. r = pool[1] /\ 1 \in 1..Len(pool)
    BY DEF IInv, TypeOK, WorkerStart, WorkerStartFails
  <2> QED
    BY <2>1 DEF IInv, PoolInv, WorkerInv
<1>2. /\ UNCHANGED <<destroyed, starts, vm, released>>
      /\ status' = status \/ status' = [status EXCEPT ![r] = "running"]
  BY <1>1 DEF WorkerStart, WorkerStartFails, Abandon, Update, TypeOK
<1>3. StageOf(r)' = StageOf(r)
  BY <1>1, <1>2 DEF StageOf, TypeOK
<1>4. [q \in Runs |-> StageOf(q)]' = [q \in Runs |-> StageOf(q)]
  BY <1>1, <1>2, <1>3, StageMoves DEF TypeOK
<1> QED
  BY <1>2, <1>4 DEF Promise!vars

\* Launching the supervisor executes the run.
LEMMA ExecuteStep ==
  ASSUME IInv, NEW r \in Runs, WorkerExecute(r)
  PROVE  Promise!Execute(r)
<1>1. TypeOK /\ starts[r] = 0 /\ status[r] = "running"
  BY DEF IInv, WorkerInv, WorkerExecute
<1>2. StageOf(r) = "accepted" /\ StageOf(r)' = "executed"
  BY <1>1 DEF StageOf, WorkerExecute, TypeOK
<1>3. [q \in Runs |-> StageOf(q)]' = [[q \in Runs |-> StageOf(q)] EXCEPT ![r] = "executed"]
  BY <1>1, <1>2, StageMoves DEF WorkerExecute, TypeOK
<1>4. {q \in Runs : vm[q] = "alive"}' = {q \in Runs : vm[q] = "alive"} \cup {r}
  BY <1>1 DEF WorkerExecute, TypeOK
<1> QED
  BY <1>2, <1>3, <1>4 DEF Promise!Execute, WorkerExecute

\* The update of delete confirms the destruction of a finished run.
LEMMA ConfirmStep ==
  ASSUME IInv, NEW t \in Threads, DeleteConfirm(t)
  PROVE  \E r \in Runs : Promise!Confirm(r)
<1>0. PICK r \in Runs : r = thread[t].run
  BY DEF IInv, ThreadInv, DeleteConfirm
<1>1. TypeOK /\ status[r] \in Terminal /\ vm[r] = "none"
  BY <1>0 DEF IInv, ThreadInv, DeleteConfirm
<1>2. UNCHANGED <<status, starts, vm, released>> /\ destroyed' = [destroyed EXCEPT ![r] = TRUE]
  BY <1>0, <1>1 DEF DeleteConfirm, Update, TypeOK
<1>3. StageOf(r) = "finished"
  BY <1>1 DEF StageOf
<1>4. [q \in Runs |-> StageOf(q)]' = [q \in Runs |-> StageOf(q)]
  BY <1>2 DEF StageOf
<1>5. Promise!Confirm(r)
  BY <1>1, <1>2, <1>3, <1>4 DEF Promise!Confirm
<1> QED
  BY <1>5

\* A download releases a finished, destroyed run, or fails and releases nothing.
LEMMA ReleaseStep ==
  ASSUME IInv, NEW t \in Threads, ArtifactsRead(t)
  PROVE  (\E r \in Runs : Promise!Release(r)) \/ UNCHANGED Promise!vars
<1>0. PICK r \in Runs : r = thread[t].run
  BY DEF IInv, ThreadInv, ArtifactsRead
<1>1. TypeOK /\ destroyed[r] /\ status[r] \in Terminal
  BY <1>0 DEF IInv, ThreadInv, RowInv, ArtifactsRead
<1>2. UNCHANGED <<status, destroyed, starts, vm>>
  BY DEF ArtifactsRead
<1>3. [q \in Runs |-> StageOf(q)]' = [q \in Runs |-> StageOf(q)] /\ StageOf(r) = "finished"
  BY <1>1, <1>2 DEF StageOf
<1>4. CASE released' = released
  BY <1>2, <1>3, <1>4 DEF Promise!vars
<1>5. CASE released' = released \cup {<<r, thread[t].names>>}
  <2>1. {b[1] : b \in released}' = {b[1] : b \in released} \cup {r}
    <3>1. \A x : x \in {b[1] : b \in released'} <=> x \in {b[1] : b \in released} \/ x = <<r, thread[t].names>>[1]
      BY <1>5
    <3>2. <<r, thread[t].names>>[1] = r
      OBVIOUS
    <3> QED
      BY <3>1, <3>2
  <2>2. Promise!Release(r)
    BY <1>1, <1>2, <1>3, <2>1 DEF Promise!Release
  <2> QED
    BY <2>2
<1> QED
  BY <1>0, <1>4, <1>5 DEF ArtifactsRead

\* Every step of the agent is a step of the abstract specification or none.
LEMMA StepRefines ==
  ASSUME IInv, [Next]_vars
  PROVE  [Promise!Next]_(Promise!vars)
<1>1. ASSUME NEW t \in Threads, Submit(t) PROVE [Promise!Next]_(Promise!vars)
  BY <1>1, QuietHandlers, QuietStutters, AcceptStep DEF Submit, Promise!Next
<1>2. ASSUME NEW t \in Threads, Artifacts(t) PROVE [Promise!Next]_(Promise!vars)
  BY <1>2, QuietHandlers, QuietStutters, ReleaseStep DEF Artifacts, Promise!Next
<1>3. ASSUME NEW t \in Threads, Delete(t) PROVE [Promise!Next]_(Promise!vars)
  <2>1. CASE DeleteDestroy(t)
    <3>1. PICK r \in Runs : r = thread[t].run
      BY <2>1 DEF IInv, ThreadInv, DeleteDestroy
    <3>2. DestroyConfirmed(r)
      BY <2>1, <3>1 DEF DeleteDestroy, DestroyConfirmed
    <3>3. Promise!Stop(r)
      BY <2>1, <3>2, StopStep DEF IInv, DeleteDestroy
    <3> QED
      BY <3>3 DEF Promise!Next
  <2> QED
    BY <1>3, <2>1, QuietHandlers, QuietStutters, ConfirmStep DEF Delete, Promise!Next
<1>4. ASSUME NEW r \in Runs, Worker(r) PROVE [Promise!Next]_(Promise!vars)
  <2>1. CASE WorkerDestroy(r)
    <3>1. Promise!Stop(r)
      BY <2>1, StopStep DEF IInv, WorkerDestroy
    <3> QED
      BY <3>1 DEF Promise!Next
  <2>2. CASE WorkerClose(r)
    <3>1. /\ worker[r].verdict \in Terminal /\ worker[r].gone \in BOOLEAN
          /\ status[r] \in Active /\ (worker[r].gone => vm[r] = "none")
      BY <2>2 DEF IInv, TypeOK, WorkerState, WorkerInv, WorkerClose
    <3>2. Promise!Finish(r)
      BY <2>2, <3>1, FinishStep DEF WorkerClose
    <3> QED
      BY <3>2 DEF Promise!Next
  <2> QED
    BY <1>4, <2>1, <2>2, QuietWorkers, QuietStutters, StartStep, ExecuteStep DEF Worker, Promise!Next
<1>5. ASSUME NEW r \in Runs, ReconcileDestroy(r) \/ ReconcileMark(r) \/ ReconcileRefuse(r)
      PROVE [Promise!Next]_(Promise!vars)
  <2>1. CASE ReconcileDestroy(r)
    <3>1. Promise!Stop(r)
      BY <2>1, StopStep DEF IInv, ReconcileDestroy
    <3> QED
      BY <3>1 DEF Promise!Next
  <2>2. CASE ReconcileMark(r)
    <3>1. status[r] \in Active /\ vm[r] = "none"
      BY <2>2 DEF IInv, RecInv, ReconcileMark
    <3>2. Promise!Finish(r)
      BY <2>2, <3>1, FinishStep DEF ReconcileMark
    <3> QED
      BY <3>2 DEF Promise!Next
  <2>3. CASE ReconcileRefuse(r)
    <3>1. CASE status[r] \in Active
      <4>1. destroyed[r] = FALSE
        BY <3>1 DEF IInv, RowInv, TypeOK
      <4>2. Promise!Finish(r)
        BY <2>3, <3>1, <4>1, FinishStep DEF ReconcileRefuse
      <4> QED
        BY <4>2 DEF Promise!Next
    <3>2. CASE status[r] = "failed" /\ destroyed[r]
      <4>1. Quiet
        BY <2>3, <3>2 DEF Quiet, IInv, TypeOK, ReconcileRefuse, Update
      <4> QED
        BY <4>1, QuietStutters
    <3> QED
      BY <2>3, <3>1, <3>2 DEF IInv, RecInv, ReconcileRefuse
  <2> QED
    BY <1>5, <2>1, <2>2, <2>3
<1>6. ASSUME Start PROVE [Promise!Next]_(Promise!vars)
  BY <1>5, <1>6, QuietOthers, QuietStutters DEF Start
<1>7. ASSUME Environment PROVE [Promise!Next]_(Promise!vars)
  <2>1. ASSUME NEW r \in Runs, VMStops(r) PROVE [Promise!Next]_(Promise!vars)
    <3>1. Promise!Stop(r)
      BY <2>1, StopStep DEF IInv, VMStops, DestroyConfirmed
    <3> QED
      BY <3>1 DEF Promise!Next
  <2> QED
    BY <1>7, <2>1, QuietOthers, QuietStutters DEF Environment
<1>8. CASE UNCHANGED vars
  BY <1>8, QuietStutters DEF vars, Quiet
<1> QED
  BY <1>1, <1>2, <1>3, <1>4, <1>6, <1>7, <1>8 DEF Next

\* The agent starts as the abstract specification does.
LEMMA InitRefines == Init => Promise!Init
  BY DEF Init, Promise!Init, StageOf

\* submit, _worker, artifacts, delete, _reconcile and the crashes between their
\* steps implement the disposable runs of the abstract specification.
THEOREM Refinement == Spec => ImplementsDisposableRuns
  BY InitRefines, StepRefines, Inductive, PTL DEF Spec, Promise!Spec, ImplementsDisposableRuns

-----------------------------------------------------------------------------
\* _worker writes the marker first and the row second: while the
\* service runs, a run is finished without a confirmed destruction only on a node
\* whose QUARANTINED file is already written.
THEOREM QuarantineBeforeRecord == Spec => UnconfirmedFinishIsQuarantined
<1> DEFINE P == \A r \in Runs :
         (mode = "serving" /\ status[r] \in Active /\ status'[r] \in Terminal /\ ~destroyed'[r]) => quarantined
<1>1. ASSUME IInv, [Next]_vars PROVE P
  <2> SUFFICES ASSUME NEW r \in Runs, mode = "serving", status[r] \in Active, status'[r] \in Terminal,
                      ~destroyed'[r]
               PROVE  quarantined
    OBVIOUS
  <2>1. TypeOK /\ status[r] # status'[r] /\ ~Quiet
    BY <1>1 DEF IInv, Quiet
  <2>2. rec.step = "idle"
    BY <1>1 DEF IInv, RecInv
  <2>3. ASSUME NEW t \in Threads, Submit(t) \/ Artifacts(t) \/ Delete(t) PROVE FALSE
    BY <1>1, <2>1, <2>3, QuietHandlers DEF Submit, Artifacts, Delete, SubmitReserve, ArtifactsRead, DeleteDestroy,
       DeleteConfirm, Update, TypeOK, IInv, ThreadInv
  <2>4. ASSUME NEW q \in Runs, Worker(q) PROVE quarantined
    <3>1. CASE WorkerClose(q)
      <4>1. q = r
        BY <2>1, <3>1 DEF WorkerClose, Update, TypeOK
      <4> QED
        BY <1>1, <2>1, <3>1, <4>1 DEF WorkerClose, Update, IInv, WorkerInv, TypeOK
    <3> QED
      BY <2>1, <2>4, <3>1, QuietWorkers DEF Worker, WorkerStart, WorkerStartFails, WorkerExecute, WorkerDestroy, Update, TypeOK
  <2>5. ~Start
    <3>1. \A q \in Runs : ~ReconcileDestroy(q) /\ ~ReconcileMark(q) /\ ~ReconcileRefuse(q)
      <4>1. \A q \in Runs, x \in {"confirmed", "refused"} : rec # [step |-> x, run |-> q]
        BY <2>2
      <4> QED
        BY <4>1 DEF ReconcileDestroy, ReconcileMark, ReconcileRefuse
    <3> QED
      BY <2>1, <3>1, QuietOthers DEF Start
  <2>6. ~Environment
    BY <2>1, QuietOthers DEF Environment, VMStops
  <2>7. ~UNCHANGED vars
    BY <2>1 DEF vars
  <2> QED
    BY <1>1, <2>3, <2>4, <2>5, <2>6, <2>7 DEF Next
<1>2. IInv /\ [Next]_vars => [P]_vars
  BY <1>1
<1> QED
  BY <1>2, Inductive, PTL DEF Spec, UnconfirmedFinishIsQuarantined

-----------------------------------------------------------------------------
(* What the replies, the downloads, the samples, the owners and the verdicts *)
(* rely on beyond IInv.                                                      *)

\* A handler that has reserved a run holds the digest of its row, and every run
\* named in a 202 reply is a row of the digest of the request.
RepliesInv ==
    /\ \A t \in Threads : thread[t].pc \in {"stage", "dispatch"} => digestOf[thread[t].run] = thread[t].digest
    /\ \A a \in answered : status[a[2]] # "absent" /\ digestOf[a[2]] = a[1]

\* The listing a download reads again was validated.
BundlesInv ==
    /\ \A t \in Threads : thread[t].pc = "read" => EventsLog \in thread[t].names
    /\ ReleasedBundlesHaveEvents

\* A row carries a result only once it is finished, and a worker that has passed
\* its finally block has unlinked the sample.
SamplesInv ==
    \A r \in Runs :
        /\ status[r] \notin Terminal => saved[r] = "none"
        /\ r \in sample => status[r] # "succeeded" /\ saved[r] = "none"
        /\ worker[r].pc \in {"destroy", "quarantine", "close"} => r \notin sample

\* A starting service has visited, or will visit, every row that is still active.
OwnersInv ==
    /\ ActiveRowsAreOwned
    /\ mode = "starting" =>
         \A r \in ActiveRows : r \in todo \/ (rec.step \in {"confirmed", "refused"} /\ rec.run = r)

\* What a worker will record: a verdict other than a failure is what the supervisor
\* claimed, and from its return to the last update the artifacts it was taken from
\* stay acceptable.
WorkerVerdict(r) ==
    LET w == worker[r] IN
    /\ w.pc = "executing" \/ w.claim # "none" => starts[r] = 1
    /\ w.pc \in {"none", "pooled", "started", "executing"} => w.claim = "none" /\ w.verdict = "failed"
    /\ w.verdict # "failed" => w.verdict = w.claim /\ ValidArtifacts(r)
    /\ w.pc \in {"quarantine", "close"} /\ ~w.gone => w.verdict = "failed"

\* A handler that removes files has a confirmed destruction, and only a run that
\* was executed has artifacts to remove.
VerdictsInv ==
    /\ \A t \in Threads : thread[t].pc = "remove" => destroyed[thread[t].run]
    /\ \A r \in Runs : WorkerVerdict(r)
    /\ \A r \in Runs : files[r] # {} \/ r \in foreign => starts[r] > 0

\* The agent's whole inductive invariant: IInv, and what its replies, downloads,
\* samples, row owners and verdicts rely on.
AgentInv == IInv /\ RepliesInv /\ BundlesInv /\ SamplesInv /\ OwnersInv /\ VerdictsInv

\* Only handlers move a handler or record a reply or a download; a crash stops
\* every handler.
LEMMA OthersKeepThreads ==
  ASSUME (\E r \in Runs : Worker(r)) \/ Start \/ Environment
  PROVE  /\ UNCHANGED <<answered, released>>
         /\ \A t \in Threads : thread'[t] = thread[t] \/ thread'[t] = IdleThread
         /\ \A t \in Threads : thread'[t] = thread[t] \/ thread'[t].pc = "idle"
<1> USE DEF history
<1>1. ASSUME NEW r \in Runs, Worker(r) PROVE UNCHANGED <<thread, answered, released>>
  BY <1>1 DEF Worker, WorkerStart, WorkerStartFails, WorkerExecute, WorkerRefused,
     WorkerReturns, WorkerRaises, WorkerCleanup, WorkerCleanupFails, WorkerDestroy, WorkerDestroyFails,
     WorkerQuarantine, WorkerClose, WorkerCloseFails, Abandon
<1>2. ASSUME Start PROVE UNCHANGED <<thread, answered, released>>
  BY <1>2 DEF Start, Restart, CleanupFile, Serve, ReconcileDestroy, ReconcileDestroyFails, ReconcileMark,
     ReconcileMarkFails, ReconcileRefuse, ReconcileQuarantine
<1>3. CASE Environment
  <2>1. UNCHANGED <<answered, released>>
    BY <1>3 DEF Environment, Crash, AcceptanceExpires, PinsChange, RecordRemoved, AcceptanceRuns, OnlyRecord,
       SupervisorWrites, VMStops, Age
  <2>2. UNCHANGED thread \/ thread' = [t \in Threads |-> IdleThread]
    BY <1>3 DEF Environment, Crash, AcceptanceExpires, PinsChange, RecordRemoved, AcceptanceRuns, OnlyRecord,
       SupervisorWrites, VMStops, Age
  <2> QED
    BY <2>1, <2>2 DEF IdleThread
<1> QED
  BY <1>1, <1>2, <1>3

\* Where a step of each kind of handler leaves it, and what it does not record.
LEMMA HandlersMove ==
  ASSUME IInv, NEW t \in Threads
  PROVE  /\ Submit(t) => /\ released' = released /\ thread'[t].pc \in {"idle", "checked", "stage", "dispatch"}
                         /\ \A u \in Threads \ {t} : thread'[u] = thread[u]
         /\ Artifacts(t) => /\ answered' = answered /\ thread'[t].pc \in {"idle", "validate", "read"}
                            /\ \A u \in Threads \ {t} : thread'[u] = thread[u]
         /\ Delete(t) => /\ UNCHANGED <<answered, released>>
                         /\ thread'[t].pc \in {"idle", "destroy", "confirm", "quarantine", "remove"}
                         /\ \A u \in Threads \ {t} : thread'[u] = thread[u]
<1> USE DEF history
<1>1. thread \in [Threads -> ThreadState]
  BY DEF IInv, TypeOK
<1>2. ASSUME Submit(t)
      PROVE  /\ released' = released /\ thread'[t].pc \in {"idle", "checked", "stage", "dispatch"}
             /\ \A u \in Threads \ {t} : thread'[u] = thread[u]
  <2>1. CASE \E k \in Keys, d \in Digests : SubmitCheck(t, k, d)
    BY <1>1, <2>1 DEF SubmitCheck, IdleThread
  <2>2. CASE SubmitReserve(t) \/ SubmitStage(t)
    BY <1>1, <2>2 DEF SubmitReserve, SubmitStage, ThreadState
  <2>3. CASE SubmitKnownKey(t) \/ SubmitReserveFails(t) \/ SubmitStageFails(t) \/ SubmitDispatch(t)
    BY <1>1, <2>3 DEF SubmitKnownKey, SubmitReserveFails, SubmitStageFails, SubmitDispatch, IdleThread
  <2> QED
    BY <1>2, <2>1, <2>2, <2>3 DEF Submit
<1>3. ASSUME Artifacts(t)
      PROVE  /\ answered' = answered /\ thread'[t].pc \in {"idle", "validate", "read"}
             /\ \A u \in Threads \ {t} : thread'[u] = thread[u]
  <2>1. CASE \E r \in Runs : ArtifactsCheck(t, r)
    BY <1>1, <2>1 DEF ArtifactsCheck, IdleThread
  <2>2. CASE ArtifactsValidate(t)
    BY <1>1, <2>2 DEF ArtifactsValidate, IdleThread, ThreadState
  <2>3. CASE ArtifactsRead(t)
    BY <1>1, <2>3 DEF ArtifactsRead, IdleThread
  <2> QED
    BY <1>3, <2>1, <2>2, <2>3 DEF Artifacts
<1>4. ASSUME Delete(t)
      PROVE  /\ UNCHANGED <<answered, released>>
             /\ thread'[t].pc \in {"idle", "destroy", "confirm", "quarantine", "remove"}
             /\ \A u \in Threads \ {t} : thread'[u] = thread[u]
  <2>1. CASE \E r \in Runs : DeleteCheck(t, r)
    BY <1>1, <2>1 DEF DeleteCheck, IdleThread
  <2>2. CASE DeleteDestroy(t) \/ DeleteDestroyFails(t)
    BY <1>1, <2>2 DEF DeleteDestroy, DeleteDestroyFails, ThreadState
  <2>3. CASE DeleteConfirm(t) \/ DeleteConfirmFails(t)
    BY <1>1, <2>3 DEF DeleteConfirm, DeleteConfirmFails, ThreadState
  <2>4. CASE DeleteQuarantine(t) \/ DeleteFile(t) \/ DeleteDir(t) \/ DeleteGivesUp(t)
    BY <1>1, <2>4 DEF DeleteQuarantine, DeleteFile, DeleteDir, DeleteGivesUp, IdleThread
  <2> QED
    BY <1>4, <2>1, <2>2, <2>3, <2>4 DEF Delete
<1> QED
  BY <1>2, <1>3, <1>4

\* Rows are never withdrawn: a row keeps its key and digest, and a terminal
\* status is final.
LEMMA RowsStay ==
  ASSUME IInv, [Next]_vars, NEW r \in Runs, status[r] # "absent"
  PROVE  /\ status'[r] # "absent" /\ digestOf'[r] = digestOf[r] /\ keyOf'[r] = keyOf[r]
         /\ status[r] \in Terminal => status'[r] = status[r]
<1>1. TypeOK
  BY DEF IInv
<1>2. ASSUME NEW t \in Threads, Submit(t) PROVE UNCHANGED <<status[r], digestOf[r], keyOf[r]>>
  BY <1>1, <1>2 DEF Submit, SubmitCheck, SubmitKnownKey, SubmitReserve, SubmitReserveFails, SubmitStage,
     SubmitStageFails, SubmitDispatch, TypeOK
<1>3. ASSUME NEW t \in Threads, Artifacts(t) \/ Delete(t) PROVE UNCHANGED <<status, digestOf, keyOf>>
  BY <1>1, <1>3 DEF Artifacts, ArtifactsCheck, ArtifactsValidate, ArtifactsRead, Delete, DeleteCheck,
     DeleteDestroy, DeleteDestroyFails, DeleteConfirm, DeleteConfirmFails, DeleteQuarantine, DeleteFile,
     DeleteDir, DeleteGivesUp, Update, TypeOK
<1>4. ASSUME NEW q \in Runs, Worker(q)
      PROVE  /\ UNCHANGED <<digestOf, keyOf>>
             /\ status' = status \/ \E v \in Active \cup Terminal :
                  status[q] \in Active /\ status' = [status EXCEPT ![q] = v]
  <2>1. ASSUME WorkerStart(q) \/ WorkerStartFails(q)
        PROVE  status[q] \in Active
    <3>1. q = pool[1] /\ 1 \in 1..Len(pool)
      BY <1>1, <2>1 DEF TypeOK, WorkerStart, WorkerStartFails
    <3> QED
      BY <3>1 DEF IInv, PoolInv, WorkerInv
  <2>2. WorkerClose(q) => status[q] \in Active /\ worker[q].verdict \in Terminal
    BY <1>1 DEF IInv, WorkerInv, WorkerClose, TypeOK, WorkerState
  <2> QED
    BY <1>1, <1>4, <2>1, <2>2 DEF Worker, WorkerStart, WorkerStartFails, WorkerExecute, WorkerRefused,
       WorkerReturns, WorkerRaises, WorkerCleanup, WorkerCleanupFails, WorkerDestroy, WorkerDestroyFails,
       WorkerQuarantine, WorkerClose, WorkerCloseFails, Abandon, Update
<1>5. ASSUME Start
      PROVE  /\ UNCHANGED <<digestOf, keyOf>>
             /\ status' = status \/ \E q \in Runs :
                  /\ status[q] \in Active \cup {"failed"}
                  /\ status' = [status EXCEPT ![q] = "failed"]
  <2>1. ASSUME NEW q \in Runs, ReconcileMark(q) \/ ReconcileRefuse(q)
        PROVE  status[q] \in Active \cup {"failed"}
    <3>1. rec = [step |-> "confirmed", run |-> q] \/ rec = [step |-> "refused", run |-> q]
      BY <2>1 DEF ReconcileMark, ReconcileRefuse
    <3>2. rec.run = q /\ rec.step \in {"confirmed", "refused"}
      BY <3>1
    <3> QED
      BY <3>2 DEF IInv, RecInv
  <2> QED
    BY <1>5, <2>1 DEF Start, Restart, CleanupFile, Serve, ReconcileDestroy, ReconcileDestroyFails, ReconcileMark,
       ReconcileMarkFails, ReconcileRefuse, ReconcileQuarantine, Update
<1>6. ASSUME Environment PROVE UNCHANGED <<status, digestOf, keyOf>>
  BY <1>6 DEF Environment, Crash, AcceptanceExpires, PinsChange, RecordRemoved, AcceptanceRuns, OnlyRecord,
     SupervisorWrites, VMStops, Age
<1>7. CASE UNCHANGED vars
  BY <1>7 DEF vars
<1> QED
  BY <1>1, <1>2, <1>3, <1>4, <1>5, <1>6, <1>7 DEF Next, TypeOK

\* Every 202 reply names a row of the digest of its request.
LEMMA RepliesStep ==
  ASSUME IInv, RepliesInv, [Next]_vars
  PROVE  RepliesInv'
<1>1. TypeOK
  BY DEF IInv
<1>2. \A r \in Runs : status[r] # "absent" => status'[r] # "absent" /\ digestOf'[r] = digestOf[r]
  BY RowsStay
<1>3. \A t \in Threads : thread[t].pc \in {"stage", "dispatch"} =>
        thread[t].run \in Runs /\ status[thread[t].run] # "absent"
  BY DEF IInv, ThreadInv
<1>4. \A a \in answered : a[2] \in Runs
  BY <1>1 DEF TypeOK
<1>5. ASSUME answered' = answered,
             \A t \in Threads : thread'[t].pc \in {"stage", "dispatch"} =>
               /\ thread[t].pc \in {"stage", "dispatch"}
               /\ thread'[t].run = thread[t].run /\ thread'[t].digest = thread[t].digest
      PROVE  RepliesInv'
  BY <1>2, <1>3, <1>4, <1>5 DEF RepliesInv
<1>6. ASSUME NEW t \in Threads, Submit(t) PROVE RepliesInv'
  <2>1. ASSUME SubmitKnownKey(t) PROVE RepliesInv'
    <3>1. PICK r \in Runs :
            /\ thread[t].pc = "checked" /\ SameKey(t, r)
            /\ answered' = IF SameRequest(t, r) THEN answered \cup {<<thread[t].digest, r>>} ELSE answered
            /\ thread' = [thread EXCEPT ![t] = IdleThread]
            /\ UNCHANGED row
      BY <2>1 DEF SubmitKnownKey
    <3>2. digestOf' = digestOf /\ status' = status
      BY <3>1
    <3>3. \A a \in answered' : status'[a[2]] # "absent" /\ digestOf'[a[2]] = a[1]
      <4>1. CASE SameRequest(t, r)
        <5>1. \A a \in answered' : a \in answered \/ (a[1] = thread[t].digest /\ a[2] = r)
          BY <3>1, <4>1
        <5> QED
          BY <3>1, <3>2, <4>1, <5>1 DEF RepliesInv, SameKey, SameRequest
      <4>2. CASE ~SameRequest(t, r)
        BY <3>1, <3>2, <4>2 DEF RepliesInv
      <4> QED
        BY <4>1, <4>2
    <3>4. \A u \in Threads : thread'[u].pc \in {"stage", "dispatch"} => thread'[u] = thread[u]
      BY <1>1, <3>1 DEF TypeOK, IdleThread
    <3> QED
      BY <3>2, <3>3, <3>4 DEF RepliesInv
  <2>2. ASSUME SubmitReserve(t) PROVE RepliesInv'
    <3>1. PICK r \in Runs : SubmitReserve(t)!(r)
      BY <2>2 DEF SubmitReserve
    <3>2. thread'[t].run = r /\ thread'[t].digest = thread[t].digest /\ digestOf'[r] = thread[t].digest
      BY <1>1, <3>1 DEF TypeOK, ThreadState
    <3>3. \A u \in Threads \ {t} : thread'[u] = thread[u]
      BY <1>1, <3>1 DEF TypeOK
    <3>4. \A u \in Threads : thread'[u].pc \in {"stage", "dispatch"} => digestOf'[thread'[u].run] = thread'[u].digest
      BY <1>2, <1>3, <3>2, <3>3 DEF RepliesInv
    <3>5. answered' = answered
      BY <3>1 DEF history
    <3> QED
      BY <1>2, <1>4, <3>4, <3>5 DEF RepliesInv
  <2>3. ASSUME SubmitDispatch(t) PROVE RepliesInv'
    <3>1. status' = status /\ digestOf' = digestOf
      BY <2>3 DEF SubmitDispatch
    <3>2. \A a \in answered' : a \in answered \/ (a[1] = thread[t].digest /\ a[2] = thread[t].run)
      BY <2>3 DEF SubmitDispatch
    <3>3. \A a \in answered' : status'[a[2]] # "absent" /\ digestOf'[a[2]] = a[1]
      BY <1>3, <2>3, <3>1, <3>2 DEF RepliesInv, SubmitDispatch
    <3>4. \A u \in Threads : thread'[u].pc \in {"stage", "dispatch"} => thread'[u] = thread[u]
      BY <1>1, <2>3 DEF SubmitDispatch, TypeOK, IdleThread
    <3> QED
      BY <3>1, <3>3, <3>4 DEF RepliesInv
  <2>4. ASSUME SubmitStage(t) PROVE RepliesInv'
    BY <1>1, <1>5, <2>4 DEF SubmitStage, TypeOK, ThreadState
  <2>5. ASSUME SubmitReserveFails(t) \/ SubmitStageFails(t) \/ \E k \in Keys, d \in Digests : SubmitCheck(t, k, d)
        PROVE  RepliesInv'
    <3>1. thread'[t].pc \in {"idle", "checked"} /\ \A u \in Threads \ {t} : thread'[u] = thread[u]
      <4>1. thread \in [Threads -> ThreadState]
        BY <1>1 DEF TypeOK
      <4>2. CASE SubmitReserveFails(t) \/ SubmitStageFails(t)
        BY <4>1, <4>2 DEF SubmitReserveFails, SubmitStageFails, IdleThread
      <4>3. CASE \E k \in Keys, d \in Digests : SubmitCheck(t, k, d)
        BY <4>1, <4>3 DEF SubmitCheck, IdleThread
      <4> QED
        BY <2>5, <4>2, <4>3
    <3>2. answered' = answered
      BY <2>5 DEF SubmitReserveFails, SubmitStageFails, SubmitCheck
    <3> QED
      BY <1>5, <3>1, <3>2
  <2> QED
    BY <1>6, <2>1, <2>2, <2>3, <2>4, <2>5 DEF Submit
<1>7. ASSUME NEW t \in Threads, Artifacts(t) \/ Delete(t) PROVE RepliesInv'
  BY <1>5, <1>7, HandlersMove
<1>8. ASSUME NEW q \in Runs, Worker(q) PROVE RepliesInv'
  BY <1>5, <1>8, OthersKeepThreads DEF TypeOK
<1>9. ASSUME Start PROVE RepliesInv'
  BY <1>5, <1>9, OthersKeepThreads
<1>10. ASSUME Environment PROVE RepliesInv'
  BY <1>5, <1>10, OthersKeepThreads
<1>11. CASE UNCHANGED vars
  BY <1>5, <1>11 DEF vars
<1> QED
  BY <1>6, <1>7, <1>8, <1>9, <1>10, <1>11 DEF Next

\* A handler that reads a bundle has validated its listing, and no other releases one.
LEMMA BundlesStep ==
  ASSUME IInv, BundlesInv, [Next]_vars
  PROVE  BundlesInv'
<1>1. thread \in [Threads -> ThreadState]
  BY DEF IInv, TypeOK
<1>2. ASSUME released' = released,
             \A t \in Threads : thread'[t].pc = "read" => thread'[t] = thread[t]
      PROVE  BundlesInv'
  BY <1>2 DEF BundlesInv, ReleasedBundlesHaveEvents
<1>3. ASSUME NEW t \in Threads, Submit(t) \/ Delete(t) PROVE BundlesInv'
  BY <1>2, <1>3, HandlersMove
<1>4. ASSUME NEW t \in Threads, Artifacts(t) PROVE BundlesInv'
  <2>1. CASE \E r \in Runs : ArtifactsCheck(t, r)
    BY <1>1, <1>2, <2>1 DEF ArtifactsCheck, IdleThread, history
  <2>2. CASE ArtifactsValidate(t)
    <3>1. thread'[t].pc = "read" => EventsLog \in thread'[t].names
      BY <1>1, <2>2 DEF ArtifactsValidate, ValidArtifacts, IdleThread, ThreadState
    <3>2. released' = released
      BY <2>2 DEF ArtifactsValidate, history
    <3> QED
      BY <1>4, <3>1, <3>2, HandlersMove DEF BundlesInv, ReleasedBundlesHaveEvents
  <2>3. CASE ArtifactsRead(t)
    <3>1. \A b \in released' : b \in released \/ b[2] = thread[t].names
      BY <2>3 DEF ArtifactsRead
    <3>2. \A u \in Threads : thread'[u].pc = "read" => thread'[u] = thread[u]
      BY <1>1, <2>3 DEF ArtifactsRead, IdleThread
    <3>3. EventsLog \in thread[t].names
      BY <2>3 DEF BundlesInv, ArtifactsRead
    <3> QED
      BY <3>1, <3>2, <3>3 DEF BundlesInv, ReleasedBundlesHaveEvents
  <2> QED
    BY <1>4, <2>1, <2>2, <2>3 DEF Artifacts
<1>5. ASSUME (\E r \in Runs : Worker(r)) \/ Start \/ Environment PROVE BundlesInv'
  BY <1>2, <1>5, OthersKeepThreads
<1>6. CASE UNCHANGED vars
  BY <1>2, <1>6 DEF vars, history
<1> QED
  BY <1>3, <1>4, <1>5, <1>6 DEF Next

\* No finished row with a result, or a success, has its sample on the host.
LEMMA SamplesStep ==
  ASSUME IInv, SamplesInv, [Next]_vars
  PROVE  SamplesInv'
<1>1. TypeOK
  BY DEF IInv
<1>2. \A r \in Runs : status[r] \in Terminal => status'[r] = status[r]
  BY RowsStay
<1> DEFINE Late == {"destroy", "quarantine", "close"}
<1>3. ASSUME saved' = saved, sample' \subseteq sample,
             \A r \in Runs : /\ status'[r] = "succeeded" => status[r] = "succeeded"
                             /\ worker'[r].pc \in Late => worker[r].pc \in Late
      PROVE  SamplesInv'
  BY <1>2, <1>3 DEF SamplesInv
<1>4. ASSUME NEW t \in Threads, Submit(t) PROVE SamplesInv'
  <2>1. ASSUME SubmitStage(t) \/ SubmitStageFails(t) PROVE SamplesInv'
    <3>1. /\ thread[t].run \in Runs /\ status[thread[t].run] = "queued" /\ worker[thread[t].run].pc = "none"
      BY <2>1 DEF IInv, ThreadInv, SubmitStage, SubmitStageFails
    <3>2. sample' \subseteq sample \cup {thread[t].run} /\ UNCHANGED <<status, saved, worker>>
      BY <2>1 DEF SubmitStage, SubmitStageFails
    <3> QED
      BY <3>1, <3>2 DEF SamplesInv
  <2>2. CASE (\E k \in Keys, d \in Digests : SubmitCheck(t, k, d)) \/ SubmitKnownKey(t) \/ SubmitReserveFails(t)
    BY <1>3, <2>2 DEF SubmitCheck, SubmitKnownKey, SubmitReserveFails
  <2>3. CASE SubmitReserve(t)
    BY <1>1, <1>3, <2>3 DEF SubmitReserve, TypeOK
  <2>4. CASE SubmitDispatch(t)
    BY <1>1, <1>3, <2>4 DEF SubmitDispatch, IdleWorker, TypeOK
  <2> QED
    BY <1>4, <2>1, <2>2, <2>3, <2>4 DEF Submit
<1>5. ASSUME NEW t \in Threads, Artifacts(t) PROVE SamplesInv'
  BY <1>3, <1>5 DEF Artifacts, ArtifactsCheck, ArtifactsValidate, ArtifactsRead
<1>6. ASSUME NEW t \in Threads, Delete(t) PROVE SamplesInv'
  <2>1. UNCHANGED <<saved, worker>> /\ sample' \subseteq sample
    BY <1>6 DEF Delete, DeleteCheck, DeleteDestroy, DeleteDestroyFails, DeleteConfirm, DeleteConfirmFails,
       DeleteQuarantine, DeleteFile, DeleteDir, DeleteGivesUp, Quarantine
  <2>2. status' = status
    BY <1>1, <1>6 DEF Delete, DeleteCheck, DeleteDestroy, DeleteDestroyFails, DeleteConfirm, DeleteConfirmFails,
       DeleteQuarantine, DeleteFile, DeleteDir, DeleteGivesUp, Update, TypeOK
  <2> QED
    BY <1>3, <2>1, <2>2
<1>7. ASSUME NEW r \in Runs, Worker(r) PROVE SamplesInv'
  <2>1. worker \in [Runs -> WorkerState] /\ status \in [Runs -> Terminal \cup Active \cup {"absent"}]
        /\ saved \in [Runs -> Claims]
    BY <1>1 DEF TypeOK
  <2>2. CASE WorkerStart(r) \/ WorkerStartFails(r)
    <3>1. saved' = saved /\ sample' = sample
      BY <2>2 DEF WorkerStart, WorkerStartFails, Abandon, Update
    <3>2. status' = status \/ status' = [status EXCEPT ![r] = "running"]
      BY <2>2 DEF WorkerStart, WorkerStartFails, Update
    <3>3. worker' = [worker EXCEPT ![r] = IdleWorker] \/ worker' = [worker EXCEPT ![r].pc = "started"]
      BY <2>2 DEF WorkerStart, WorkerStartFails, Abandon
    <3>4. \A q \in Runs : worker'[q].pc \in Late => worker[q].pc \in Late
      BY <2>1, <3>3 DEF IdleWorker, WorkerState
    <3> QED
      BY <1>3, <2>1, <3>1, <3>2, <3>4
  <2>3. CASE WorkerExecute(r) \/ WorkerRefused(r) \/ WorkerReturns(r) \/ WorkerRaises(r)
    <3>1. UNCHANGED <<status, saved, sample>>
      BY <2>3 DEF WorkerExecute, WorkerRefused, WorkerReturns, WorkerRaises
    <3>2. worker'[r].pc \in {"executing", "cleanup"} /\ \A q \in Runs \ {r} : worker'[q] = worker[q]
      <4>1. CASE WorkerReturns(r)
        BY <2>1, <4>1 DEF WorkerReturns, WorkerState
      <4>2. CASE ~WorkerReturns(r)
        BY <2>1, <2>3, <4>2 DEF WorkerExecute, WorkerRefused, WorkerRaises, WorkerState
      <4> QED
        BY <4>1, <4>2
    <3> QED
      BY <1>3, <3>1, <3>2
  <2>4. CASE WorkerCleanup(r)
    BY <1>2, <2>1, <2>4 DEF WorkerCleanup, SamplesInv, WorkerState
  <2>5. CASE WorkerCleanupFails(r) \/ WorkerCloseFails(r)
    BY <1>3, <2>1, <2>5 DEF WorkerCleanupFails, WorkerCloseFails, Abandon, IdleWorker
  <2>6. CASE WorkerDestroy(r) \/ WorkerDestroyFails(r) \/ WorkerQuarantine(r)
    BY <1>3, <2>1, <2>6 DEF WorkerDestroy, WorkerDestroyFails, WorkerQuarantine, Quarantine, WorkerState
  <2>7. CASE WorkerClose(r)
    BY <2>1, <2>7 DEF WorkerClose, Update, IdleWorker, SamplesInv, WorkerState
  <2> QED
    BY <1>7, <2>2, <2>3, <2>4, <2>5, <2>6, <2>7 DEF Worker
<1>8. ASSUME Start PROVE SamplesInv'
  <2>1. UNCHANGED <<saved, worker>> /\ sample' \subseteq sample
    BY <1>8 DEF Start, Restart, CleanupFile, Serve, ReconcileDestroy, ReconcileDestroyFails, ReconcileMark,
       ReconcileMarkFails, ReconcileRefuse, ReconcileQuarantine, Quarantine
  <2>2. status' = status \/ \E q \in Runs : status' = [status EXCEPT ![q] = "failed"]
    BY <1>8 DEF Start, Restart, CleanupFile, Serve, ReconcileDestroy, ReconcileDestroyFails, ReconcileMark,
       ReconcileMarkFails, ReconcileRefuse, ReconcileQuarantine, Update
  <2> QED
    BY <1>1, <1>3, <2>1, <2>2 DEF TypeOK
<1>9. ASSUME Environment PROVE SamplesInv'
  <2>1. UNCHANGED <<status, saved, sample>> /\ (worker' = worker \/ worker' = [r \in Runs |-> IdleWorker])
    BY <1>9 DEF Environment, Crash, AcceptanceExpires, PinsChange, RecordRemoved, AcceptanceRuns, OnlyRecord,
       SupervisorWrites, VMStops, Age
  <2> QED
    BY <1>3, <2>1 DEF IdleWorker
<1>10. CASE UNCHANGED vars
  BY <1>3, <1>10 DEF vars
<1> QED
  BY <1>4, <1>5, <1>6, <1>7, <1>8, <1>9, <1>10 DEF Next

\* Every active row has an owner while the service runs, and a starting service
\* has found every active row.
LEMMA OwnersStep ==
  ASSUME IInv, OwnersInv, [Next]_vars
  PROVE  OwnersInv'
<1>1. TypeOK
  BY DEF IInv
<1>2. \A r \in Runs : status[r] \in Terminal => status'[r] = status[r]
  BY RowsStay
<1> DEFINE Staging(t) == thread[t].pc \in {"stage", "dispatch"}
\* Steps that take no owner away and add no active row.
<1>3. ASSUME mode' = mode, todo' = todo, rec' = rec,
             \A r \in Runs : /\ status'[r] \in Active => status[r] \in Active
                             /\ worker[r].pc # "none" => worker'[r].pc # "none" \/ r \in stranded' \/ status'[r] \notin Active
                             /\ r \in stranded => r \in stranded',
             \A t \in Threads : Staging(t) => \/ Staging(t)' /\ thread'[t].run = thread[t].run
                                             \/ thread[t].run \in stranded'
                                             \/ worker'[thread[t].run].pc # "none"
      PROVE  OwnersInv'
  BY <1>3 DEF OwnersInv, ActiveRowsAreOwned, OwnerOf, ActiveRows
<1>4. ASSUME NEW t \in Threads, Submit(t) PROVE OwnersInv'
  <2>1. \A u \in Threads \ {t} : thread'[u] = thread[u]
    BY <1>4, HandlersMove
  <2>2. ASSUME SubmitReserve(t) PROVE OwnersInv'
    <3>1. PICK r \in Runs : SubmitReserve(t)!(r)
      BY <2>2 DEF SubmitReserve
    <3>2. Staging(t)' /\ thread'[t].run = r
      BY <1>1, <3>1 DEF TypeOK, ThreadState
    <3>3. mode = "serving" /\ mode' = mode
      BY <3>1 DEF IInv, ThreadInv
    <3>4. \A q \in Runs \ {r} : status'[q] = status[q]
      BY <1>1, <3>1 DEF TypeOK
    <3>5. UNCHANGED <<worker, stranded>> /\ ~Staging(t)
      BY <3>1
    <3>6. ActiveRowsAreOwned'
      <4> SUFFICES ASSUME NEW q \in Runs, status'[q] \in Active
                   PROVE  OwnerOf(q)' \/ q \in stranded'
        BY DEF ActiveRowsAreOwned
      <4>1. CASE q = r
        BY <3>2, <4>1 DEF OwnerOf
      <4>2. CASE q # r
        <5>1. OwnerOf(q) \/ q \in stranded
          BY <3>3, <3>4, <4>2 DEF OwnersInv, ActiveRowsAreOwned
        <5> QED
          BY <2>1, <3>5, <5>1 DEF OwnerOf
      <4> QED
        BY <4>1, <4>2
    <3> QED
      BY <3>3, <3>6 DEF OwnersInv
  <2>3. CASE (\E k \in Keys, d \in Digests : SubmitCheck(t, k, d)) \/ SubmitKnownKey(t) \/ SubmitReserveFails(t)
    <3>1. ~Staging(t) /\ UNCHANGED <<mode, todo, rec, status, worker, stranded>>
      BY <2>3 DEF SubmitCheck, SubmitKnownKey, SubmitReserveFails
    <3> QED
      BY <1>3, <2>1, <3>1
  <2>4. CASE SubmitStage(t)
    <3>1. Staging(t)' /\ thread'[t].run = thread[t].run
      BY <1>1, <2>4 DEF SubmitStage, TypeOK, ThreadState
    <3>2. UNCHANGED <<mode, todo, rec, status, worker, stranded>>
      BY <2>4 DEF SubmitStage
    <3> QED
      BY <1>3, <2>1, <3>1, <3>2
  <2>5. CASE SubmitStageFails(t)
    <3>1. UNCHANGED <<mode, todo, rec, status, worker>> /\ stranded' = stranded \cup {thread[t].run}
      BY <2>5 DEF SubmitStageFails
    <3> QED
      BY <1>3, <2>1, <3>1
  <2>6. CASE SubmitDispatch(t)
    <3>1. UNCHANGED <<mode, todo, rec, status, stranded>>
      BY <2>6 DEF SubmitDispatch
    <3>2. thread[t].run \in Runs
      BY <2>6 DEF IInv, ThreadInv, SubmitDispatch
    <3>3. worker'[thread[t].run].pc # "none" /\ \A q \in Runs : worker'[q] = worker[q] \/ worker'[q].pc # "none"
      BY <1>1, <2>6, <3>2 DEF SubmitDispatch, IdleWorker, TypeOK
    <3> QED
      BY <1>3, <2>1, <3>1, <3>3
  <2> QED
    BY <1>4, <2>2, <2>3, <2>4, <2>5, <2>6 DEF Submit
<1>5. ASSUME NEW t \in Threads, Artifacts(t) PROVE OwnersInv'
  <2>1. ~Staging(t) /\ UNCHANGED <<mode, todo, rec, status, worker, stranded>>
    BY <1>5 DEF Artifacts, ArtifactsCheck, ArtifactsValidate, ArtifactsRead
  <2> QED
    BY <1>3, <1>5, <2>1, HandlersMove
<1>6. ASSUME NEW t \in Threads, Delete(t) PROVE OwnersInv'
  <2>1. ~Staging(t) /\ UNCHANGED <<mode, todo, rec, worker, stranded>>
    BY <1>6 DEF Delete, DeleteCheck, DeleteDestroy, DeleteDestroyFails, DeleteConfirm, DeleteConfirmFails,
       DeleteQuarantine, DeleteFile, DeleteDir, DeleteGivesUp
  <2>2. status' = status
    BY <1>1, <1>6 DEF Delete, DeleteCheck, DeleteDestroy, DeleteDestroyFails, DeleteConfirm, DeleteConfirmFails,
       DeleteQuarantine, DeleteFile, DeleteDir, DeleteGivesUp, Update, TypeOK
  <2> QED
    BY <1>3, <1>6, <2>1, <2>2, HandlersMove
<1>7. ASSUME NEW r \in Runs, Worker(r) PROVE OwnersInv'
  <2>1. worker \in [Runs -> WorkerState] /\ status \in [Runs -> Terminal \cup Active \cup {"absent"}]
    BY <1>1 DEF TypeOK
  <2>2. UNCHANGED <<mode, todo, rec, thread>>
    BY <1>7 DEF Worker, WorkerStart, WorkerStartFails, WorkerExecute, WorkerRefused,
       WorkerReturns, WorkerRaises, WorkerCleanup, WorkerCleanupFails, WorkerDestroy, WorkerDestroyFails,
       WorkerQuarantine, WorkerClose, WorkerCloseFails, Abandon
  <2>3. status[r] # "absent" /\ \A q \in Runs \ {r} : status'[q] = status[q] /\ worker'[q] = worker[q]
    <3>1. CASE WorkerStart(r) \/ WorkerStartFails(r)
      <4>1. r = pool[1] /\ 1 \in 1..Len(pool)
        BY <1>1, <3>1 DEF TypeOK, WorkerStart, WorkerStartFails
      <4>2. status[r] = "queued"
        BY <4>1 DEF IInv, PoolInv, WorkerInv
      <4> QED
        BY <2>1, <3>1, <4>2 DEF WorkerStart, WorkerStartFails, Abandon, Update
    <3>2. CASE ~(WorkerStart(r) \/ WorkerStartFails(r))
      <4>1. worker[r].pc \notin {"none", "pooled"}
        BY <1>7, <3>2 DEF Worker, WorkerExecute, WorkerRefused, WorkerReturns, WorkerRaises, WorkerCleanup,
           WorkerCleanupFails, WorkerDestroy, WorkerDestroyFails, WorkerQuarantine, WorkerClose, WorkerCloseFails
      <4>2. status[r] # "absent"
        BY <4>1 DEF IInv, WorkerInv
      <4>3. \A q \in Runs \ {r} : status'[q] = status[q] /\ worker'[q] = worker[q]
        BY <1>7, <2>1, <3>2 DEF Worker, WorkerExecute, WorkerRefused, WorkerReturns, WorkerRaises, WorkerCleanup,
           WorkerCleanupFails, WorkerDestroy, WorkerDestroyFails, WorkerQuarantine, WorkerClose, WorkerCloseFails,
           Abandon, Update
      <4> QED
        BY <4>2, <4>3
    <3> QED
      BY <3>1, <3>2
  <2>4. \/ stranded' = stranded /\ (worker'[r].pc # "none" \/ status'[r] \notin Active)
        \/ stranded' = stranded \cup {r}
    <3>1. CASE WorkerStart(r) \/ WorkerExecute(r) \/ WorkerRefused(r) \/ WorkerRaises(r)
      BY <2>1, <3>1 DEF WorkerStart, WorkerExecute, WorkerRefused, WorkerRaises, WorkerState, history
    <3>5. CASE WorkerReturns(r)
      BY <2>1, <3>5 DEF WorkerReturns, WorkerState, history
    <3>2. CASE WorkerCleanup(r) \/ WorkerDestroy(r) \/ WorkerDestroyFails(r) \/ WorkerQuarantine(r)
      BY <2>1, <3>2 DEF WorkerCleanup, WorkerDestroy, WorkerDestroyFails, WorkerQuarantine, WorkerState, history
    <3>3. CASE WorkerStartFails(r) \/ WorkerCleanupFails(r) \/ WorkerCloseFails(r)
      BY <3>3 DEF WorkerStartFails, WorkerCleanupFails, WorkerCloseFails, Abandon
    <3>4. CASE WorkerClose(r)
      BY <2>1, <3>4 DEF WorkerClose, Update, WorkerState, history
    <3> QED
      BY <1>7, <3>1, <3>2, <3>3, <3>4, <3>5 DEF Worker
  <2>5. status'[r] \in Active => status[r] \in Active
    BY <1>2, <2>1, <2>3
  <2> QED
    BY <1>3, <2>2, <2>3, <2>4, <2>5
<1>8. ASSUME Start PROVE OwnersInv'
  <2>1. CASE Restart
    BY <2>1 DEF Restart, OwnersInv, ActiveRowsAreOwned, ActiveRows
  <2>2. CASE Serve
    <3>1. \A r \in Runs : status'[r] \notin Active
      BY <2>2 DEF Serve, OwnersInv, ActiveRows
    <3> QED
      BY <2>2, <3>1 DEF Serve, OwnersInv, ActiveRowsAreOwned
  <2>3. ASSUME NEW r \in Runs, CleanupFile(r) \/ ReconcileDestroy(r) \/ ReconcileDestroyFails(r) PROVE OwnersInv'
    BY <2>3 DEF CleanupFile, ReconcileDestroy, ReconcileDestroyFails, OwnersInv, ActiveRowsAreOwned, ActiveRows
  <2>4. ASSUME NEW r \in Runs,
               ReconcileMark(r) \/ ReconcileMarkFails(r) \/ ReconcileRefuse(r) \/ ReconcileQuarantine(r)
        PROVE  OwnersInv'
    <3>1. rec.step # "idle" /\ rec.run = r
      <4>1. \E x \in {"confirmed", "refused", "quarantine"} : rec = [step |-> x, run |-> r]
        BY <2>4 DEF ReconcileMark, ReconcileMarkFails, ReconcileRefuse, ReconcileQuarantine
      <4> QED
        BY <4>1
    <3>2. mode = "starting" /\ mode' = mode /\ todo' = todo
      BY <2>4, <3>1 DEF IInv, RecInv, ReconcileMark, ReconcileMarkFails, ReconcileRefuse, ReconcileQuarantine
    <3>3. CASE ReconcileMark(r) \/ ReconcileRefuse(r)
      <4>1. \A q \in ActiveRows' : q \in ActiveRows \ {r}
        BY <1>1, <3>3 DEF ReconcileMark, ReconcileRefuse, Update, ActiveRows, TypeOK
      <4> QED
        BY <3>1, <3>2, <4>1 DEF OwnersInv, ActiveRowsAreOwned
    <3>4. CASE ReconcileMarkFails(r)
      BY <3>1, <3>2, <3>4 DEF ReconcileMarkFails, OwnersInv, ActiveRowsAreOwned, ActiveRows
    <3>5. CASE ReconcileQuarantine(r)
      <4>1. rec.step = "quarantine"
        BY <3>5 DEF ReconcileQuarantine
      <4> QED
        BY <3>2, <3>5, <4>1 DEF ReconcileQuarantine, OwnersInv, ActiveRowsAreOwned, ActiveRows
    <3> QED
      BY <2>4, <3>3, <3>4, <3>5
  <2> QED
    BY <1>8, <2>1, <2>2, <2>3, <2>4 DEF Start
<1>9. ASSUME Environment PROVE OwnersInv'
  <2>1. CASE Crash
    BY <2>1 DEF Crash, OwnersInv, ActiveRowsAreOwned
  <2>2. CASE ~Crash
    BY <1>3, <1>9, <2>2 DEF Environment, AcceptanceExpires, PinsChange, RecordRemoved, AcceptanceRuns, OnlyRecord,
       SupervisorWrites, VMStops, Age
  <2> QED
    BY <2>1, <2>2
<1>10. CASE UNCHANGED vars
  BY <1>3, <1>10 DEF vars
<1> QED
  BY <1>4, <1>5, <1>6, <1>7, <1>8, <1>9, <1>10 DEF Next

\* A confirmed destruction is never taken back.
LEMMA DestructionStays ==
  ASSUME IInv, [Next]_vars, NEW r \in Runs, destroyed[r]
  PROVE  destroyed'[r]
<1>1. TypeOK /\ status[r] \in Terminal
  BY DEF IInv, RowInv
<1>2. ASSUME NEW t \in Threads, Submit(t) \/ Artifacts(t) PROVE destroyed' = destroyed
  BY <1>2 DEF Submit, SubmitCheck, SubmitKnownKey, SubmitReserve, SubmitReserveFails, SubmitStage,
     SubmitStageFails, SubmitDispatch, Artifacts, ArtifactsCheck, ArtifactsValidate, ArtifactsRead
<1>3. ASSUME NEW t \in Threads, Delete(t) PROVE destroyed'[r]
  BY <1>1, <1>3 DEF Delete, DeleteCheck, DeleteDestroy, DeleteDestroyFails, DeleteConfirm, DeleteConfirmFails,
     DeleteQuarantine, DeleteFile, DeleteDir, DeleteGivesUp, Update, TypeOK
<1>4. ASSUME NEW q \in Runs, Worker(q) PROVE destroyed'[r]
  <2>1. CASE WorkerClose(q)
    <3>1. q # r
      BY <1>1, <2>1 DEF IInv, WorkerInv, WorkerClose
    <3> QED
      BY <1>1, <2>1, <3>1 DEF WorkerClose, Update, TypeOK
  <2>2. CASE ~WorkerClose(q)
    BY <1>1, <1>4, <2>2 DEF Worker, WorkerStart, WorkerStartFails, WorkerExecute, WorkerRefused,
       WorkerReturns, WorkerRaises, WorkerCleanup, WorkerCleanupFails, WorkerDestroy, WorkerDestroyFails,
       WorkerQuarantine, WorkerCloseFails, Abandon, Update, TypeOK
  <2> QED
    BY <2>1, <2>2
<1>5. ASSUME Start PROVE destroyed'[r]
  <2>1. ASSUME NEW q \in Runs, ReconcileMark(q) \/ ReconcileRefuse(q) PROVE destroyed'[r]
    BY <1>1, <2>1 DEF ReconcileMark, ReconcileRefuse, Update, TypeOK
  <2> QED
    BY <1>5, <2>1 DEF Start, Restart, CleanupFile, Serve, ReconcileDestroy, ReconcileDestroyFails, ReconcileMarkFails,
       ReconcileQuarantine
<1>6. ASSUME Environment PROVE destroyed' = destroyed
  BY <1>6 DEF Environment, Crash, AcceptanceExpires, PinsChange, RecordRemoved, AcceptanceRuns, OnlyRecord,
     SupervisorWrites, VMStops, Age
<1> QED
  BY <1>2, <1>3, <1>4, <1>5, <1>6 DEF Next, vars

\* The artifacts of a row are written by the supervisor its worker waits for, and
\* removed only when the row is finished.
LEMMA ArtifactsStay ==
  ASSUME IInv, [Next]_vars, NEW r \in Runs, status[r] \in Active, worker[r].pc # "executing"
  PROVE  ValidArtifacts(r)' = ValidArtifacts(r)
<1>1. TypeOK
  BY DEF IInv
<1> SUFFICES files'[r] = files[r] /\ (r \in foreign' <=> r \in foreign)
  BY DEF ValidArtifacts
<1>2. ASSUME NEW t \in Threads, Submit(t) \/ Artifacts(t) PROVE UNCHANGED <<files, foreign>>
  BY <1>2 DEF Submit, SubmitCheck, SubmitKnownKey, SubmitReserve, SubmitReserveFails, SubmitStage,
     SubmitStageFails, SubmitDispatch, Artifacts, ArtifactsCheck, ArtifactsValidate, ArtifactsRead
<1>3. ASSUME NEW t \in Threads, Delete(t) PROVE files'[r] = files[r] /\ (r \in foreign' <=> r \in foreign)
  <2>1. thread[t].pc = "remove" => thread[t].run # r
    BY DEF IInv, ThreadInv
  <2> QED
    BY <1>1, <1>3, <2>1 DEF Delete, DeleteCheck, DeleteDestroy, DeleteDestroyFails, DeleteConfirm, DeleteConfirmFails,
       DeleteQuarantine, Quarantine, DeleteFile, Unlink, DeleteDir, DeleteGivesUp, TypeOK
<1>4. ASSUME NEW q \in Runs, Worker(q) PROVE UNCHANGED <<files, foreign>>
  BY <1>4 DEF Worker, WorkerStart, WorkerStartFails, WorkerExecute, WorkerRefused,
     WorkerReturns, WorkerRaises, WorkerCleanup, WorkerCleanupFails, WorkerDestroy, WorkerDestroyFails,
     WorkerQuarantine, Quarantine, WorkerClose, WorkerCloseFails, Abandon
<1>5. ASSUME Start PROVE files'[r] = files[r] /\ (r \in foreign' <=> r \in foreign)
  <2>1. ASSUME NEW q \in Runs, CleanupFile(q) PROVE files'[r] = files[r] /\ (r \in foreign' <=> r \in foreign)
    <3>1. ~destroyed[r]
      BY <1>1 DEF IInv, RowInv
    <3> QED
      BY <1>1, <2>1, <3>1 DEF CleanupFile, Unlink, TypeOK
  <2>2. CASE ~\E q \in Runs : CleanupFile(q)
    BY <1>5, <2>2 DEF Start, Restart, Serve, ReconcileDestroy, ReconcileDestroyFails, ReconcileMark,
       ReconcileMarkFails, ReconcileRefuse, ReconcileQuarantine, Quarantine
  <2> QED
    BY <2>1, <2>2
<1>6. ASSUME Environment PROVE files'[r] = files[r] /\ (r \in foreign' <=> r \in foreign)
  BY <1>1, <1>6 DEF Environment, Crash, AcceptanceExpires, PinsChange, RecordRemoved, AcceptanceRuns, OnlyRecord,
     SupervisorWrites, VMStops, Age, TypeOK
<1> QED
  BY <1>2, <1>3, <1>4, <1>5, <1>6 DEF Next, vars

\* Only the supervisor of an executing worker adds artifacts, and no execution is
\* forgotten.
LEMMA ArtifactsShrink ==
  ASSUME IInv, [Next]_vars, NEW r \in Runs
  PROVE  /\ starts'[r] >= starts[r]
         /\ worker[r].pc # "executing" => files'[r] \subseteq files[r] /\ (r \in foreign' => r \in foreign)
<1>0. TypeOK
  BY DEF IInv
<1>1. ASSUME NEW t \in Threads, Submit(t) \/ Artifacts(t) PROVE UNCHANGED <<files, foreign, starts>>
  BY <1>1 DEF Submit, SubmitCheck, SubmitKnownKey, SubmitReserve, SubmitReserveFails, SubmitStage,
     SubmitStageFails, SubmitDispatch, Artifacts, ArtifactsCheck, ArtifactsValidate, ArtifactsRead
<1>2. ASSUME NEW q \in Runs, Unlink(q)
      PROVE  files'[r] \subseteq files[r] /\ (r \in foreign' => r \in foreign)
  BY <1>0, <1>2, UnlinkShrinks
<1>3. ASSUME NEW t \in Threads, Delete(t)
      PROVE  starts' = starts /\ files'[r] \subseteq files[r] /\ (r \in foreign' => r \in foreign)
  <2>1. CASE DeleteFile(t)
    <3>1. thread[t].run \in Runs
      BY <2>1 DEF DeleteFile, IInv, ThreadInv
    <3> QED
      BY <1>2, <2>1, <3>1 DEF DeleteFile
  <2>2. CASE ~DeleteFile(t)
    BY <1>3, <2>2 DEF Delete, DeleteCheck, DeleteDestroy, DeleteDestroyFails, DeleteConfirm, DeleteConfirmFails,
       DeleteQuarantine, Quarantine, DeleteDir, DeleteGivesUp
  <2> QED
    BY <2>1, <2>2
<1>4. ASSUME NEW q \in Runs, Worker(q)
      PROVE  UNCHANGED <<files, foreign>> /\ (starts' = starts \/ starts' = [starts EXCEPT ![q] = @ + 1])
  BY <1>4 DEF Worker, WorkerStart, WorkerStartFails, WorkerExecute, WorkerRefused,
     WorkerReturns, WorkerRaises, WorkerCleanup, WorkerCleanupFails, WorkerDestroy, WorkerDestroyFails,
     WorkerQuarantine, Quarantine, WorkerClose, WorkerCloseFails, Abandon
<1>5. ASSUME Start
      PROVE  starts' = starts /\ files'[r] \subseteq files[r] /\ (r \in foreign' => r \in foreign)
  <2>1. CASE \E q \in Runs : CleanupFile(q)
    BY <1>2, <2>1 DEF CleanupFile
  <2>2. CASE ~\E q \in Runs : CleanupFile(q)
    BY <1>5, <2>2 DEF Start, Restart, Serve, ReconcileDestroy, ReconcileDestroyFails, ReconcileMark,
       ReconcileMarkFails, ReconcileRefuse, ReconcileQuarantine, Quarantine
  <2> QED
    BY <2>1, <2>2
<1>6. ASSUME Environment
      PROVE  /\ starts' = starts
             /\ worker[r].pc # "executing" => files'[r] \subseteq files[r] /\ (r \in foreign' => r \in foreign)
  BY <1>0, <1>6 DEF Environment, Crash, AcceptanceExpires, PinsChange, RecordRemoved, AcceptanceRuns, OnlyRecord,
     SupervisorWrites, VMStops, Age, TypeOK
<1>7. starts[r] \in Nat
  BY <1>0 DEF TypeOK
<1>8. ASSUME NEW q \in Runs, Worker(q) PROVE starts'[r] >= starts[r]
  <2>1. starts'[r] = starts[r] \/ starts'[r] = starts[r] + 1
    <3>1. starts' = starts \/ starts' = [starts EXCEPT ![q] = @ + 1]
      BY <1>4, <1>8
    <3> QED
      BY <1>0, <3>1 DEF TypeOK
  <2> QED
    BY <1>7, <2>1
<1>9. starts' = starts => starts'[r] >= starts[r]
  BY <1>7
<1>10. CASE UNCHANGED vars
  BY <1>7, <1>10 DEF vars
<1> QED
  BY <1>1, <1>3, <1>4, <1>5, <1>6, <1>8, <1>9, <1>10 DEF Next

\* What a worker will record is what the supervisor claimed, if its artifacts are valid.
LEMMA VerdictsStep ==
  ASSUME IInv, VerdictsInv, [Next]_vars
  PROVE  VerdictsInv'
<1>1. TypeOK /\ worker \in [Runs -> WorkerState] /\ thread \in [Threads -> ThreadState]
  BY DEF IInv, TypeOK
<1>2. ASSUME NEW t \in Threads, thread'[t].pc = "remove" PROVE destroyed'[thread'[t].run]
  <2>1. CASE thread'[t] = thread[t]
    BY <1>2, <2>1, DestructionStays DEF VerdictsInv, IInv, ThreadInv
  <2>2. CASE thread'[t] # thread[t]
    <3>1. ASSUME NEW u \in Threads, Submit(u) \/ Artifacts(u) \/ Delete(u) PROVE u = t /\ Delete(t)
      BY <1>2, <2>2, <3>1, HandlersMove
    <3>2. Delete(t)
      BY <1>2, <2>2, <3>1, OthersKeepThreads DEF Next, vars
    <3>3. CASE \E r \in Runs : DeleteCheck(t, r)
      BY <1>1, <1>2, <3>3 DEF DeleteCheck, IdleThread
    <3>4. CASE DeleteConfirm(t)
      <4>1. thread[t].run \in Runs
        BY <3>4 DEF IInv, ThreadInv, DeleteConfirm
      <4> QED
        BY <1>1, <3>4, <4>1 DEF DeleteConfirm, Update, TypeOK, ThreadState
    <3>5. CASE DeleteDestroy(t) \/ DeleteDestroyFails(t) \/ DeleteConfirmFails(t)
      BY <1>1, <1>2, <3>5 DEF DeleteDestroy, DeleteDestroyFails, DeleteConfirmFails, ThreadState
    <3>6. CASE DeleteQuarantine(t) \/ DeleteFile(t) \/ DeleteDir(t) \/ DeleteGivesUp(t)
      BY <1>1, <1>2, <2>2, <3>6 DEF DeleteQuarantine, DeleteFile, DeleteDir, DeleteGivesUp, IdleThread
    <3> QED
      BY <3>2, <3>3, <3>4, <3>5, <3>6 DEF Delete
  <2> QED
    BY <2>1, <2>2
<1>3. ASSUME NEW r \in Runs PROVE WorkerVerdict(r)'
  <2>1. WorkerVerdict(r) /\ worker[r] \in WorkerState
    BY <1>1 DEF VerdictsInv, WorkerVerdict
  <2>2. worker'[r] = IdleWorker => WorkerVerdict(r)'
    BY DEF WorkerVerdict, IdleWorker
  <2>3. worker[r].pc \notin {"none", "pooled", "executing"} => ValidArtifacts(r)' = ValidArtifacts(r)
    BY ArtifactsStay DEF IInv, WorkerInv
  <2>4. worker[r].gone => worker[r].pc = "close"
    BY DEF IInv, WorkerInv
  <2>5. CASE worker'[r] = worker[r]
    <3>1. starts'[r] = starts[r]
      <4>1. ASSUME NEW q \in Runs, WorkerExecute(q) PROVE q # r
        BY <1>1, <2>5, <4>1 DEF WorkerExecute, WorkerState
      <4>2. ASSUME NEW t \in Threads, Submit(t) \/ Artifacts(t) \/ Delete(t) PROVE starts' = starts
        BY <4>2 DEF Submit, SubmitCheck, SubmitKnownKey, SubmitReserve, SubmitReserveFails, SubmitStage,
           SubmitStageFails, SubmitDispatch, Artifacts, ArtifactsCheck, ArtifactsValidate, ArtifactsRead,
           Delete, DeleteCheck, DeleteDestroy, DeleteDestroyFails, DeleteConfirm, DeleteConfirmFails,
           DeleteQuarantine, DeleteFile, DeleteDir, DeleteGivesUp
      <4>3. ASSUME NEW q \in Runs, Worker(q) PROVE starts'[r] = starts[r]
        BY <1>1, <4>1, <4>3 DEF Worker, WorkerStart, WorkerStartFails, WorkerExecute, WorkerRefused,
           WorkerReturns, WorkerRaises, WorkerCleanup, WorkerCleanupFails, WorkerDestroy, WorkerDestroyFails,
           WorkerQuarantine, WorkerClose, WorkerCloseFails, Abandon, TypeOK
      <4>4. ASSUME Start PROVE starts' = starts
        BY <4>4 DEF Start, Restart, CleanupFile, Serve, ReconcileDestroy, ReconcileDestroyFails, ReconcileMark,
           ReconcileMarkFails, ReconcileRefuse, ReconcileQuarantine
      <4>5. ASSUME Environment PROVE starts' = starts
        BY <4>5 DEF Environment, Crash, AcceptanceExpires, PinsChange, RecordRemoved, AcceptanceRuns, OnlyRecord,
           SupervisorWrites, VMStops, Age
      <4> QED
        BY <4>2, <4>3, <4>4, <4>5 DEF Next, vars
    <3> QED
      BY <2>1, <2>3, <2>4, <2>5, <3>1 DEF WorkerVerdict
  <2>6. CASE worker'[r] # worker[r] /\ worker'[r] # IdleWorker
    <3>1. (\E t \in Threads : SubmitDispatch(t) /\ thread[t].run = r) \/ Worker(r)
      <4>1. ASSUME NEW t \in Threads, Submit(t) \/ Artifacts(t) \/ Delete(t)
            PROVE  SubmitDispatch(t) /\ thread[t].run = r
        BY <1>1, <2>6, <4>1 DEF Submit, SubmitCheck, SubmitKnownKey, SubmitReserve, SubmitReserveFails, SubmitStage,
           SubmitStageFails, SubmitDispatch, Artifacts, ArtifactsCheck, ArtifactsValidate, ArtifactsRead,
           Delete, DeleteCheck, DeleteDestroy, DeleteDestroyFails, DeleteConfirm, DeleteConfirmFails,
           DeleteQuarantine, DeleteFile, DeleteDir, DeleteGivesUp
      <4>2. ASSUME NEW q \in Runs, Worker(q) PROVE q = r
        BY <1>1, <2>6, <4>2 DEF Worker, WorkerStart, WorkerStartFails, WorkerExecute, WorkerRefused,
           WorkerReturns, WorkerRaises, WorkerCleanup, WorkerCleanupFails, WorkerDestroy, WorkerDestroyFails,
           WorkerQuarantine, WorkerClose, WorkerCloseFails, Abandon
      <4>3. ASSUME Start PROVE worker' = worker
        BY <4>3 DEF Start, Restart, CleanupFile, Serve, ReconcileDestroy, ReconcileDestroyFails, ReconcileMark,
           ReconcileMarkFails, ReconcileRefuse, ReconcileQuarantine
      <4>4. ASSUME Environment PROVE worker' = worker \/ worker' = [q \in Runs |-> IdleWorker]
        BY <4>4 DEF Environment, Crash, AcceptanceExpires, PinsChange, RecordRemoved, AcceptanceRuns, OnlyRecord,
           SupervisorWrites, VMStops, Age
      <4> QED
        BY <2>6, <4>1, <4>2, <4>3, <4>4 DEF Next, vars
    <3>2. ASSUME NEW t \in Threads, SubmitDispatch(t), thread[t].run = r PROVE WorkerVerdict(r)'
      BY <1>1, <3>2 DEF SubmitDispatch, WorkerVerdict, IdleWorker
    <3>3. CASE WorkerStart(r)
      <4>1. worker[r].pc = "pooled"
        <5>1. r = pool[1] /\ 1 \in 1..Len(pool)
          BY <1>1, <3>3 DEF TypeOK, WorkerStart
        <5> QED
          BY <5>1 DEF IInv, PoolInv
      <4>2. worker'[r].claim = "none" /\ worker'[r].pc = "started" /\ worker'[r].verdict = "failed" /\ ~worker'[r].gone
        BY <1>1, <2>1, <2>4, <3>3, <4>1 DEF WorkerStart, WorkerVerdict, WorkerState
      <4> QED
        BY <4>2 DEF WorkerVerdict
    <3>4. CASE WorkerExecute(r)
      <4>1. starts[r] = 0
        BY <3>4 DEF WorkerExecute, IInv, WorkerInv
      <4>2. worker'[r].claim = "none" /\ worker'[r].pc = "executing" /\ worker'[r].verdict = "failed" /\ ~worker'[r].gone
        BY <1>1, <2>1, <2>4, <3>4 DEF WorkerExecute, WorkerVerdict, WorkerState
      <4>3. starts'[r] = 1
        BY <1>1, <3>4, <4>1 DEF WorkerExecute, TypeOK
      <4> QED
        BY <4>2, <4>3 DEF WorkerVerdict
    <3>5. CASE WorkerRefused(r) \/ WorkerRaises(r)
      <4>1. worker'[r].claim = "none" /\ worker'[r].pc = "cleanup" /\ worker'[r].verdict = "failed"
        BY <1>1, <2>1, <3>5 DEF WorkerRefused, WorkerRaises, WorkerVerdict, WorkerState
      <4> QED
        BY <4>1 DEF WorkerVerdict
    <3>6. CASE WorkerReturns(r)
      <4>0. PICK claim \in Claims \ {"none"} : WorkerReturns(r)!(claim)
        BY <3>6 DEF WorkerReturns
      <4>1. PICK verdict \in Verdicts(r, claim) :
              /\ worker[r].pc = "executing"
              /\ worker' = [worker EXCEPT ![r].pc = "cleanup", ![r].claim = claim, ![r].verdict = verdict]
              /\ UNCHANGED <<row, disk, process, thread, pool, vm, history>>
        BY <4>0
      <4>2. worker'[r].claim = claim /\ worker'[r].pc = "cleanup" /\ worker'[r].verdict = verdict
        BY <1>1, <4>1 DEF WorkerState
      <4>3. starts'[r] = 1 /\ ValidArtifacts(r)' = ValidArtifacts(r)
        BY <2>1, <4>1 DEF WorkerVerdict, ValidArtifacts
      <4>4. verdict # "failed" => verdict = claim /\ ValidArtifacts(r)
        BY <4>1 DEF Verdicts
      <4> QED
        BY <4>2, <4>3, <4>4 DEF WorkerVerdict
    <3>7. CASE WorkerCleanup(r) \/ WorkerDestroy(r)
      <4>1. /\ worker'[r].claim = worker[r].claim /\ worker'[r].verdict = worker[r].verdict
            /\ worker'[r].pc = "destroy" \/ (worker'[r].pc = "close" /\ worker'[r].gone)
        BY <1>1, <3>7 DEF WorkerCleanup, WorkerDestroy, WorkerState
      <4>2. starts' = starts /\ worker[r].pc \in {"cleanup", "destroy"}
        BY <3>7 DEF WorkerCleanup, WorkerDestroy
      <4> QED
        BY <2>1, <2>3, <4>1, <4>2 DEF WorkerVerdict
    <3>8. CASE WorkerDestroyFails(r) \/ WorkerQuarantine(r)
      <4>1. /\ worker'[r].claim = worker[r].claim /\ worker'[r].verdict = "failed"
            /\ worker'[r].pc \in {"quarantine", "close"} /\ ~worker'[r].gone
        BY <1>1, <2>1, <2>4, <3>8 DEF WorkerDestroyFails, WorkerQuarantine, WorkerVerdict, WorkerState
      <4>2. starts' = starts
        BY <3>8 DEF WorkerDestroyFails, WorkerQuarantine
      <4> QED
        BY <2>1, <4>1, <4>2 DEF WorkerVerdict
    <3>9. ~WorkerStartFails(r) /\ ~WorkerCleanupFails(r) /\ ~WorkerClose(r) /\ ~WorkerCloseFails(r)
      BY <1>1, <2>6 DEF WorkerStartFails, WorkerCleanupFails, WorkerClose, WorkerCloseFails, Abandon
    <3> QED
      BY <3>1, <3>2, <3>3, <3>4, <3>5, <3>6, <3>7, <3>8, <3>9 DEF Worker
  <2> QED
    BY <2>2, <2>5, <2>6
<1>4. ASSUME NEW r \in Runs, files'[r] # {} \/ r \in foreign' PROVE starts'[r] > 0
  <2>1. files[r] # {} \/ r \in foreign \/ worker[r].pc = "executing"
    BY <1>1, <1>4, ArtifactsShrink
  <2>2. starts[r] > 0 /\ starts[r] \in Nat
    BY <1>1, <2>1 DEF VerdictsInv, WorkerVerdict, TypeOK
  <2>3. starts'[r] >= starts[r] /\ starts'[r] \in Nat
    BY <1>1, ArtifactsShrink, NextIInv DEF IInv, TypeOK
  <2> QED
    BY <2>2, <2>3
<1> QED
  BY <1>2, <1>3, <1>4 DEF VerdictsInv, WorkerVerdict

\* The initial state satisfies the invariant.
LEMMA InitAgentInv == Init => AgentInv
<1> SUFFICES ASSUME Init PROVE AgentInv
  OBVIOUS
<1>1. RepliesInv /\ BundlesInv
  BY DEF Init, RepliesInv, BundlesInv, ReleasedBundlesHaveEvents, IdleThread
<1>2. SamplesInv /\ VerdictsInv
  BY DEF Init, SamplesInv, VerdictsInv, WorkerVerdict, IdleThread, IdleWorker
<1>3. OwnersInv
  BY DEF Init, OwnersInv, ActiveRowsAreOwned
<1> QED
  BY <1>1, <1>2, <1>3, InitIInv DEF AgentInv

\* In every state the agent reaches, the replies, downloads, samples, row owners
\* and verdicts rely on facts that hold.
THEOREM InductiveAgent == Spec => []AgentInv
<1>1. AgentInv /\ [Next]_vars => AgentInv'
  BY NextIInv, RepliesStep, BundlesStep, SamplesStep, OwnersStep, VerdictsStep DEF AgentInv
<1> QED
  BY <1>1, InitAgentInv, PTL DEF Spec

\* Every 202 reply names a run that was reserved for the digest of its request,
\* whichever threads raced for the Idempotency-Key.
THEOREM RepliesMatch == Spec => []RepliesMatchRequests
<1>1. AgentInv => RepliesMatchRequests
  BY DEF AgentInv, RepliesInv, RepliesMatchRequests
<1> QED
  BY <1>1, InductiveAgent, PTL

\* A bundle that was downloaded holds events.jsonl, even when the run was deleted
\* while it was listed and read.
THEOREM BundlesHaveEvents == Spec => []ReleasedBundlesHaveEvents
<1>1. AgentInv => ReleasedBundlesHaveEvents
  BY DEF AgentInv, BundlesInv
<1> QED
  BY <1>1, InductiveAgent, PTL

\* A sample that outlives its finished run belongs to one no worker closed.
THEOREM SamplesAreUnlinked == Spec => []SampleOutlivesOnlyLostRuns
<1>1. AgentInv => SampleOutlivesOnlyLostRuns
  BY DEF AgentInv, IInv, TypeOK, SamplesInv, SampleOutlivesOnlyLostRuns
<1> QED
  BY <1>1, InductiveAgent, PTL

\* While the service runs, every queued or running row has a request or a worker
\* that will finish it, unless a local failure stranded it since the last start.
THEOREM ActiveRowsHaveOwners == Spec => []ActiveRowsAreOwned
<1>1. AgentInv => ActiveRowsAreOwned
  BY DEF AgentInv, OwnersInv
<1> QED
  BY <1>1, InductiveAgent, PTL

-----------------------------------------------------------------------------
(* The agent is a SandboxNode.                                              *)

\* What the clients of the node observe besides the rows.
ValidRuns == {r \in Runs : ValidArtifacts(r)}
LiveRuns == {r \in Runs : vm[r] = "alive"}
StartedRuns == {r \in Runs : starts[r] > 0}

\* The steps that leave alone everything the clients of the node observe.
Unseen == UNCHANGED <<status, destroyed, saved, keyOf, files, foreign, quarantined, vm, starts>>

\* An unseen step is a stuttering step of the node.
LEMMA UnseenStutters == Unseen => UNCHANGED Interface!node
  BY DEF Unseen, Interface!node, Interface!rows, ValidArtifacts

\* The unseen steps of handlers.
LEMMA UnseenHandlers ==
  ASSUME NEW t \in Threads
  PROVE  /\ \A k \in Keys, d \in Digests : SubmitCheck(t, k, d) => Unseen
         /\ SubmitKnownKey(t) \/ SubmitReserveFails(t) \/ SubmitStage(t) \/ SubmitStageFails(t)
              \/ SubmitDispatch(t) => Unseen
         /\ \A r \in Runs : ArtifactsCheck(t, r) \/ DeleteCheck(t, r) => Unseen
         /\ ArtifactsValidate(t) \/ ArtifactsRead(t) => Unseen
         /\ DeleteDestroyFails(t) \/ DeleteConfirmFails(t) \/ DeleteDir(t) \/ DeleteGivesUp(t) => Unseen
  BY DEF Unseen, SubmitCheck, SubmitKnownKey, SubmitReserveFails, SubmitStage, SubmitStageFails, SubmitDispatch,
     ArtifactsCheck, DeleteCheck, ArtifactsValidate, ArtifactsRead, DeleteDestroyFails, DestroyFails,
     DeleteConfirmFails, DeleteDir, DeleteGivesUp

\* The unseen steps of workers, of the start and of the environment.
LEMMA UnseenOthers ==
  /\ \A r \in Runs : /\ WorkerRefused(r) \/ WorkerReturns(r) \/ WorkerRaises(r) => Unseen
                     /\ WorkerCleanup(r) \/ WorkerCleanupFails(r) \/ WorkerDestroyFails(r)
                          \/ WorkerCloseFails(r) => Unseen
                     /\ ReconcileDestroyFails(r) \/ ReconcileMarkFails(r) \/ Age(r) => Unseen
  /\ Restart \/ Serve \/ Crash \/ AcceptanceExpires \/ PinsChange \/ RecordRemoved \/ AcceptanceRuns => Unseen
  BY DEF Unseen, WorkerRefused, WorkerReturns, WorkerRaises, WorkerCleanup, WorkerCleanupFails,
     WorkerDestroyFails, DestroyFails, WorkerCloseFails, Abandon, ReconcileDestroyFails, ReconcileMarkFails, Age,
     Restart, Serve, Crash, AcceptanceExpires, PinsChange, RecordRemoved, AcceptanceRuns, OnlyRecord

\* A destroy command or a VM that stops on its own is a Stop of the node.
LEMMA NodeStop ==
  ASSUME TypeOK, NEW r \in Runs, DestroyConfirmed(r),
         UNCHANGED <<status, destroyed, saved, keyOf, files, foreign, quarantined, starts>>
  PROVE  Interface!Stop(r)
<1>1. LiveRuns' = LiveRuns \ {r}
  BY DEF DestroyConfirmed, LiveRuns, TypeOK
<1>2. ValidRuns' = ValidRuns /\ StartedRuns' = StartedRuns
  BY DEF ValidRuns, ValidArtifacts, StartedRuns
<1> QED
  BY <1>1, <1>2 DEF Interface!Stop, Interface!rows, LiveRuns, ValidRuns, StartedRuns

\* Writing the marker file is the Quarantine of the node.
LEMMA NodeQuarantine ==
  ASSUME Quarantine, UNCHANGED <<status, destroyed, saved, keyOf, vm, starts>>
  PROVE  Interface!Quarantine
  BY DEF Quarantine, Interface!Quarantine, Interface!rows, ValidArtifacts

\* Unlinking an artifact of a destroyed run is a Remove of the node.
LEMMA NodeRemove ==
  ASSUME AgentInv, NEW r \in Runs, destroyed[r], Unlink(r),
         UNCHANGED <<status, destroyed, saved, keyOf, quarantined, vm, starts>>
  PROVE  Interface!Remove(r)
<1>1. TypeOK /\ status[r] \in Terminal
  BY DEF AgentInv, IInv, RowInv
<1>2. r \in StartedRuns
  BY DEF AgentInv, VerdictsInv, Unlink, StartedRuns
<1>3. \A q \in Runs \ {r} : files'[q] = files[q] /\ (q \in foreign' <=> q \in foreign)
  BY <1>1 DEF Unlink, TypeOK
<1>4. ValidRuns' = ValidRuns \cup {r} \/ ValidRuns' = ValidRuns \ {r}
  <2>1. \A q \in Runs \ {r} : q \in ValidRuns' <=> q \in ValidRuns
    BY <1>3 DEF ValidRuns, ValidArtifacts
  <2> QED
    BY <2>1 DEF ValidRuns
<1>5. StartedRuns' = StartedRuns /\ LiveRuns' = LiveRuns
  BY DEF StartedRuns, LiveRuns
<1> QED
  BY <1>1, <1>2, <1>4, <1>5 DEF Interface!Remove, Interface!Touch, Interface!rows, Interface!Terminal, ValidRuns, StartedRuns, LiveRuns

\* The steps of handlers that clients observe.
LEMMA NodeHandlers ==
  ASSUME AgentInv, NEW t \in Threads, Submit(t) \/ Artifacts(t) \/ Delete(t)
  PROVE  [Interface!NodeNext]_(Interface!node)
<1>1. TypeOK
  BY DEF AgentInv, IInv
<1>2. CASE SubmitReserve(t)
  <2>1. PICK r \in Runs : SubmitReserve(t)!(r)
    BY <1>2 DEF SubmitReserve
  <2>2. thread[t].key \in Keys
    BY <2>1 DEF AgentInv, IInv, ThreadInv
  <2>3. UNCHANGED <<destroyed, saved, files, foreign, quarantined, vm, starts>>
    BY <2>1
  <2>4. ValidRuns' = ValidRuns /\ StartedRuns' = StartedRuns /\ LiveRuns' = LiveRuns
    BY <2>3 DEF ValidRuns, ValidArtifacts, StartedRuns, LiveRuns
  <2>5. Interface!Reserve(r, thread[t].key)
    BY <2>1, <2>3, <2>4 DEF Interface!Reserve, SameKey, ValidRuns, StartedRuns, LiveRuns
  <2> QED
    BY <2>2, <2>5 DEF Interface!NodeNext
<1>3. CASE DeleteDestroy(t)
  <2>1. PICK r \in Runs : r = thread[t].run
    BY <1>3 DEF AgentInv, IInv, ThreadInv, DeleteDestroy
  <2>2. Interface!Stop(r)
    BY <1>1, <1>3, <2>1, NodeStop DEF DeleteDestroy
  <2> QED
    BY <2>2 DEF Interface!NodeNext, Interface!NodeStep
<1>4. CASE DeleteConfirm(t)
  <2>1. PICK r \in Runs : r = thread[t].run
    BY <1>4 DEF AgentInv, IInv, ThreadInv, DeleteConfirm
  <2>2. status[r] \in Terminal /\ vm[r] = "none"
    BY <1>4, <2>1 DEF AgentInv, IInv, ThreadInv, DeleteConfirm
  <2>3. UNCHANGED <<status, saved, keyOf, files, foreign, quarantined, vm, starts>> /\ destroyed' = [destroyed EXCEPT ![r] = TRUE]
    BY <1>1, <1>4, <2>1 DEF DeleteConfirm, Update, TypeOK
  <2>4. ValidRuns' = ValidRuns /\ StartedRuns' = StartedRuns /\ LiveRuns' = LiveRuns
    BY <2>3 DEF ValidRuns, ValidArtifacts, StartedRuns, LiveRuns
  <2>5. Interface!Confirm(r)
    BY <2>2, <2>3, <2>4 DEF Interface!Confirm, Interface!Terminal, ValidRuns, StartedRuns, LiveRuns
  <2> QED
    BY <2>5 DEF Interface!NodeNext
<1>5. CASE DeleteQuarantine(t)
  <2>1. Interface!Quarantine
    BY <1>5, NodeQuarantine DEF DeleteQuarantine
  <2> QED
    BY <2>1 DEF Interface!NodeNext, Interface!NodeStep
<1>6. CASE DeleteFile(t)
  <2>1. PICK r \in Runs : r = thread[t].run
    BY <1>6 DEF AgentInv, IInv, ThreadInv, DeleteFile
  <2>2. destroyed[r]
    BY <1>6, <2>1 DEF AgentInv, VerdictsInv, DeleteFile
  <2>3. UNCHANGED <<status, destroyed, saved, keyOf, quarantined, vm, starts>> /\ Unlink(r)
    BY <1>6, <2>1 DEF DeleteFile
  <2>4. Interface!Remove(r)
    BY <2>2, <2>3, NodeRemove
  <2> QED
    BY <2>4 DEF Interface!NodeNext, Interface!NodeStep
<1> QED
  BY <1>2, <1>3, <1>4, <1>5, <1>6, UnseenHandlers, UnseenStutters DEF Submit, Artifacts, Delete

\* The steps of workers that clients observe.
LEMMA NodeWorkers ==
  ASSUME AgentInv, NEW r \in Runs, Worker(r)
  PROVE  [Interface!NodeNext]_(Interface!node)
<1>1. TypeOK
  BY DEF AgentInv, IInv
<1>2. ASSUME Update(r, "running", destroyed[r]), status[r] = "queued",
             UNCHANGED <<saved, files, foreign, quarantined, vm, starts>>
      PROVE  Interface!NodeNext
  <2>1. destroyed' = destroyed /\ keyOf' = keyOf /\ status' = [status EXCEPT ![r] = "running"]
    BY <1>1, <1>2 DEF Update, TypeOK
  <2>2. ValidRuns' = ValidRuns /\ StartedRuns' = StartedRuns /\ LiveRuns' = LiveRuns
    BY <1>2 DEF ValidRuns, ValidArtifacts, StartedRuns, LiveRuns
  <2>3. Interface!Begin(r)
    BY <1>2, <2>1, <2>2 DEF Interface!Begin, ValidRuns, StartedRuns, LiveRuns
  <2> QED
    BY <2>3 DEF Interface!NodeNext, Interface!NodeStep
<1>3. CASE WorkerStart(r) \/ WorkerStartFails(r)
  <2>1. r = pool[1] /\ 1 \in 1..Len(pool)
    BY <1>1, <1>3 DEF TypeOK, WorkerStart, WorkerStartFails
  <2>2. status[r] = "queued"
    BY <2>1 DEF AgentInv, IInv, PoolInv, WorkerInv
  <2>3. UNCHANGED <<files, foreign, quarantined, vm, starts>>
    BY <1>3 DEF WorkerStart, WorkerStartFails, Abandon
  <2>4. (Update(r, "running", destroyed[r]) /\ saved' = saved) \/ UNCHANGED <<status, destroyed, saved, keyOf>>
    BY <1>3 DEF WorkerStart, WorkerStartFails
  <2> QED
    BY <1>2, <2>2, <2>3, <2>4, UnseenStutters DEF Unseen
<1>4. CASE WorkerExecute(r)
  <2>1. starts[r] = 0 /\ status[r] = "running"
    BY <1>4 DEF AgentInv, IInv, WorkerInv, WorkerExecute
  <2>2. LiveRuns' = LiveRuns \cup {r}
    BY <1>1, <1>4 DEF WorkerExecute, LiveRuns, TypeOK
  <2>3. StartedRuns' = StartedRuns \cup {r}
    BY <1>1, <1>4 DEF WorkerExecute, StartedRuns, TypeOK
  <2>4. UNCHANGED <<status, destroyed, saved, keyOf, quarantined>> /\ ValidRuns' = ValidRuns
    BY <1>4 DEF WorkerExecute, ValidRuns, ValidArtifacts
  <2>5. Interface!Execute(r)
    BY <2>1, <2>2, <2>3, <2>4 DEF Interface!Execute, Interface!rows, ValidRuns, StartedRuns, LiveRuns
  <2> QED
    BY <2>5 DEF Interface!NodeNext, Interface!NodeStep
<1>5. CASE WorkerDestroy(r)
  <2>1. Interface!Stop(r)
    BY <1>1, <1>5, NodeStop DEF WorkerDestroy
  <2> QED
    BY <2>1 DEF Interface!NodeNext, Interface!NodeStep
<1>6. CASE WorkerQuarantine(r)
  <2>1. Interface!Quarantine
    BY <1>6, NodeQuarantine DEF WorkerQuarantine
  <2> QED
    BY <2>1 DEF Interface!NodeNext, Interface!NodeStep
<1>7. CASE WorkerClose(r)
  <2> DEFINE w == worker[r]
  <2>1. w.verdict \in Terminal /\ w.claim \in Claims /\ w.gone \in BOOLEAN
    BY <1>1 DEF TypeOK, WorkerState
  <2>2. w.pc = "close" /\ status[r] = "running" /\ saved[r] = "none"
    BY <1>7 DEF WorkerClose, AgentInv, IInv, WorkerInv, SamplesInv
  <2>3. w.claim # "none" => r \in StartedRuns
    BY DEF AgentInv, VerdictsInv, WorkerVerdict, StartedRuns
  <2>4. IF w.gone THEN r \notin LiveRuns ELSE quarantined
    BY <2>1, <2>2 DEF AgentInv, IInv, WorkerInv, LiveRuns
  <2>5. w.verdict # "failed" => w.claim = w.verdict /\ r \in ValidRuns /\ w.gone
    BY <2>1, <2>2 DEF AgentInv, VerdictsInv, WorkerVerdict, ValidRuns
  <2>6. /\ status' = [status EXCEPT ![r] = w.verdict] /\ destroyed' = [destroyed EXCEPT ![r] = w.gone]
        /\ saved' = [saved EXCEPT ![r] = w.claim] /\ keyOf' = keyOf
    BY <1>1, <1>7, <2>2 DEF WorkerClose, Update, TypeOK
  <2>7. quarantined' = quarantined /\ ValidRuns' = ValidRuns /\ StartedRuns' = StartedRuns /\ LiveRuns' = LiveRuns
    BY <1>7 DEF WorkerClose, ValidRuns, ValidArtifacts, StartedRuns, LiveRuns
  <2>8. Interface!Close(r)
    BY <2>1, <2>2, <2>3, <2>4, <2>5, <2>6, <2>7
       DEF Interface!Close, Interface!Terminal, Interface!Claims, Claims, ValidRuns, StartedRuns, LiveRuns
  <2> QED
    BY <2>8 DEF Interface!NodeNext, Interface!NodeStep
<1> QED
  BY <1>3, <1>4, <1>5, <1>6, <1>7, UnseenOthers, UnseenStutters DEF Worker

\* The steps of the start and of the environment that clients observe.
LEMMA NodeOthers ==
  ASSUME AgentInv, Start \/ Environment
  PROVE  [Interface!NodeNext]_(Interface!node)
<1>1. TypeOK
  BY DEF AgentInv, IInv
<1>2. ASSUME NEW r \in Runs, ReconcileDestroy(r) \/ VMStops(r) PROVE Interface!NodeNext
  <2>1. Interface!Stop(r)
    BY <1>1, <1>2, NodeStop DEF ReconcileDestroy, VMStops, DestroyConfirmed
  <2> QED
    BY <2>1 DEF Interface!NodeNext, Interface!NodeStep
<1>3. ASSUME NEW r \in Runs, ReconcileMark(r) \/ ReconcileRefuse(r)
      PROVE  Interface!NodeNext \/ Unseen
  <2>1. UNCHANGED <<saved, keyOf, files, foreign, quarantined, vm, starts>>
    BY <1>3 DEF ReconcileMark, ReconcileRefuse, Update
  <2>2. ValidRuns' = ValidRuns /\ StartedRuns' = StartedRuns /\ LiveRuns' = LiveRuns
    BY <2>1 DEF ValidRuns, ValidArtifacts, StartedRuns, LiveRuns
  <2>3. status' = [status EXCEPT ![r] = "failed"]
    BY <1>3 DEF ReconcileMark, ReconcileRefuse, Update
  <2>4. CASE ReconcileMark(r)
    <3>1. rec.step = "confirmed" /\ rec.run = r
      BY <2>4 DEF ReconcileMark
    <3>2. status[r] \in Active /\ r \notin LiveRuns
      BY <3>1 DEF AgentInv, IInv, RecInv, LiveRuns
    <3>3. destroyed' = [destroyed EXCEPT ![r] = TRUE]
      BY <2>4 DEF ReconcileMark, Update
    <3>4. Interface!Recover(r)
      BY <2>1, <2>2, <2>3, <3>2, <3>3 DEF Interface!Recover, Interface!Active, ValidRuns, StartedRuns, LiveRuns
    <3> QED
      BY <3>4 DEF Interface!NodeNext, Interface!NodeStep
  <2>5. CASE ReconcileRefuse(r)
    <3>1. rec.step = "refused" /\ rec.run = r
      BY <2>5 DEF ReconcileRefuse
    <3>2. destroyed' = destroyed
      BY <1>1, <2>5 DEF ReconcileRefuse, Update, TypeOK
    <3>3. CASE status[r] \in Active
      <4>1. Interface!Recover(r)
        BY <2>1, <2>2, <2>3, <3>2, <3>3 DEF Interface!Recover, Interface!Active, ValidRuns, StartedRuns, LiveRuns
      <4> QED
        BY <4>1 DEF Interface!NodeNext, Interface!NodeStep
    <3>4. CASE status[r] = "failed"
      BY <1>1, <2>1, <2>3, <3>2, <3>4 DEF Unseen, TypeOK
    <3> QED
      BY <3>1, <3>3, <3>4 DEF AgentInv, IInv, RecInv
  <2> QED
    BY <1>3, <2>4, <2>5
<1>4. ASSUME NEW r \in Runs, ReconcileQuarantine(r) PROVE Interface!NodeNext
  <2>1. Interface!Quarantine
    BY <1>4, NodeQuarantine DEF ReconcileQuarantine
  <2> QED
    BY <2>1 DEF Interface!NodeNext, Interface!NodeStep
<1>5. ASSUME NEW r \in Runs, CleanupFile(r) PROVE Interface!NodeNext
  <2>1. Interface!Remove(r)
    BY <1>5, NodeRemove DEF CleanupFile
  <2> QED
    BY <2>1 DEF Interface!NodeNext, Interface!NodeStep
<1>6. ASSUME NEW r \in Runs, SupervisorWrites(r) PROVE Interface!NodeNext
  <2>1. status[r] = "running" /\ r \in StartedRuns
    BY <1>6 DEF SupervisorWrites, AgentInv, IInv, WorkerInv, VerdictsInv, WorkerVerdict, StartedRuns
  <2>2. UNCHANGED <<status, destroyed, saved, keyOf, quarantined, vm, starts>>
    BY <1>6 DEF SupervisorWrites
  <2>3. \A q \in Runs \ {r} : files'[q] = files[q] /\ (q \in foreign' <=> q \in foreign)
    BY <1>1, <1>6 DEF SupervisorWrites, TypeOK
  <2>4. ValidRuns' = ValidRuns \cup {r} \/ ValidRuns' = ValidRuns \ {r}
    <3>1. \A q \in Runs \ {r} : q \in ValidRuns' <=> q \in ValidRuns
      BY <2>3 DEF ValidRuns, ValidArtifacts
    <3> QED
      BY <3>1 DEF ValidRuns
  <2>5. StartedRuns' = StartedRuns /\ LiveRuns' = LiveRuns
    BY <2>2 DEF StartedRuns, LiveRuns
  <2>6. Interface!Write(r)
    BY <2>1, <2>2, <2>4, <2>5 DEF Interface!Write, Interface!Touch, Interface!rows, ValidRuns, StartedRuns, LiveRuns
  <2> QED
    BY <2>6 DEF Interface!NodeNext, Interface!NodeStep
<1> QED
  BY <1>2, <1>3, <1>4, <1>5, <1>6, UnseenOthers, UnseenStutters DEF Start, Environment

\* The threads, the pool, the crashes and the failures of the agent implement the
\* node its clients and coordinators reason about: one change of a row, of a VM, of
\* the artifacts or of the marker at a time.
THEOREM NodeRefinement == Spec => ImplementsSandboxNode
<1>1. Init => Interface!NodeInit
  BY DEF Init, Interface!NodeInit, ValidArtifacts
<1>2. UNCHANGED vars => UNCHANGED Interface!node
  BY DEF vars, Interface!node, Interface!rows, ValidArtifacts
<1>3. AgentInv /\ [Next]_vars => [Interface!NodeNext]_(Interface!node)
  BY <1>2, NodeHandlers, NodeWorkers, NodeOthers DEF Next
<1> QED
  BY <1>1, <1>3, InductiveAgent, PTL DEF Spec, Interface!NodeSpec, ImplementsSandboxNode

=============================================================================
