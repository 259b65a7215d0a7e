---------------------------- MODULE SandboxAgent ----------------------------
(***************************************************************************)
(* The control service of a sandbox node, vulntools/sandbox_agent.py: an    *)
(* SQLite table of runs, HTTP handler threads that submit, download and     *)
(* delete runs, a thread pool with one worker per run, the QUARANTINED      *)
(* marker file and the reconciliation made when the service starts.  The    *)
(* privileged VM supervisor is not in the repository: its VMs are the       *)
(* variable vm, and its calls end in every way the agent's code handles.    *)
(*                                                                          *)
(* A handler, a worker and the reconciliation take one step per statement   *)
(* that reads or writes shared state; each AgentStore method is one step    *)
(* because it runs under the store's lock in one transaction.  A crash      *)
(* (Crash) may fall between any two steps.                                  *)
(***************************************************************************)
EXTENDS Naturals, Sequences, FiniteSets

CONSTANTS
    Runs,        \* run identifiers the store may hand out
    Keys,        \* Idempotency-Key values clients send
    Digests,     \* request digests (name, sample sha256, policy)
    Threads,     \* HTTP handler threads
    Files,       \* artifact names a run may leave, EventsLog among them
    EventsLog,   \* events.jsonl
    Workers,     \* size of the worker pool
    MaxCrashes,  \* bound: how often the service is killed
    Faults,      \* the local failures and operator interventions that may happen
    NoRun, NoKey, NoDigest

\* "failed" stands for every member of TERMINAL_STATUSES but "succeeded".
Terminal == {"succeeded", "failed"}
Active == {"queued", "running"}
\* What the supervisor's JSON claims: a terminal status for this run, or something
\* else ("other": a status outside TERMINAL_STATUSES, or another run's run_id);
\* "none" when no JSON object was returned.
Claims == Terminal \cup {"other", "none"}
FaultKinds == {"stage", "store", "unlink", "read", "record"}
\* The acceptance record load_agent_config finds: its nine tests passed or some
\* failed; or it is stale, or bound to other pinned digests; or no file.
Records == {"passing", "failing", "unusable", "missing"}
Usable == {"passing", "failing"}

ASSUME RunsAssumption == NoRun \notin Runs /\ NoKey \notin Keys /\ NoDigest \notin Digests
ASSUME FilesAssumption == EventsLog \in Files
ASSUME BoundsAssumption == Workers \in Nat \ {0} /\ MaxCrashes \in Nat /\ Faults \subseteq FaultKinds

VARIABLES
    \* agent.sqlite, one row per run
    status,      \* "absent" before the row is inserted
    destroyed,   \* the row's destroyed column
    saved,       \* the status claimed inside result_json
    keyOf, digestOf,
    old,         \* rows whose updated_at is past the retention interval
    \* state_dir
    quarantined, \* the QUARANTINED file exists
    dirs,        \* runs whose directory exists
    sample,      \* runs whose sample.bin exists
    files,       \* artifact files present in runs/<run>/artifacts
    foreign,     \* runs holding what the agent must refuse: an unlisted or oversized
                 \* file, or an events.jsonl with another run's event (then EventsLog,
                 \* an events.jsonl of this run, is not among the files)
    record,      \* the acceptance record
    \* the process
    mode,        \* "down", "starting" (in __init__) or "serving"
    accepted,    \* the record this process loaded passes and has not expired
    todo, rec,   \* reconciliation: rows still to visit, the row in hand
    thread,      \* HTTP handlers
    pool,        \* ThreadPoolExecutor queue
    worker,      \* one _worker call per run
    crashes,
    \* external: VMs alive on the host
    vm,
    \* history: what happened, never read by an action
    starts, stranded, answered, released

row == <<status, destroyed, saved, keyOf, digestOf, old>>
disk == <<quarantined, dirs, sample, files, foreign, record>>
process == <<mode, accepted, todo, rec, crashes>>
history == <<starts, stranded, answered, released>>
vars == <<row, disk, process, thread, pool, worker, vm, history>>

IdleThread == [pc |-> "idle", run |-> NoRun, key |-> NoKey, digest |-> NoDigest, names |-> {}]
IdleWorker == [pc |-> "none", verdict |-> "failed", claim |-> "none", gone |-> FALSE]
IdleRec == [step |-> "idle", run |-> NoRun]

ThreadPcs == {"idle", "checked", "stage", "dispatch", "validate", "read",
              "destroy", "confirm", "quarantine", "remove"}
WorkerPcs == {"none", "pooled", "started", "executing", "cleanup", "destroy", "quarantine", "close"}
RecSteps == {"idle", "confirmed", "refused", "quarantine"}

ThreadState == [pc : ThreadPcs, run : Runs \cup {NoRun}, key : Keys \cup {NoKey},
                digest : Digests \cup {NoDigest}, names : SUBSET Files]
WorkerState == [pc : WorkerPcs, verdict : Terminal, claim : Claims, gone : BOOLEAN]

TypeOK ==
    /\ status \in [Runs -> Terminal \cup Active \cup {"absent"}]
    /\ destroyed \in [Runs -> BOOLEAN]
    /\ saved \in [Runs -> Claims]
    /\ keyOf \in [Runs -> Keys \cup {NoKey}]
    /\ digestOf \in [Runs -> Digests \cup {NoDigest}]
    /\ old \subseteq Runs
    /\ quarantined \in BOOLEAN
    /\ dirs \subseteq Runs /\ sample \subseteq Runs /\ foreign \subseteq Runs
    /\ files \in [Runs -> SUBSET Files]
    /\ record \in Records
    /\ mode \in {"down", "starting", "serving"}
    /\ accepted \in BOOLEAN
    /\ todo \subseteq Runs
    /\ rec \in [step : RecSteps, run : Runs \cup {NoRun}]
    /\ thread \in [Threads -> ThreadState]
    /\ pool \in Seq(Runs)
    /\ worker \in [Runs -> WorkerState]
    /\ crashes \in 0..MaxCrashes
    /\ vm \in [Runs -> {"none", "alive"}]
    /\ starts \in [Runs -> Nat]
    /\ stranded \subseteq Runs
    /\ answered \subseteq Digests \X Runs
    /\ released \subseteq Runs \X SUBSET Files

(***************************************************************************)
(* The first start of the service finds an empty state directory: _reconcile*)
(* and cleanup_expired have nothing to do.                                  *)
(***************************************************************************)
Init ==
    /\ status = [r \in Runs |-> "absent"]
    /\ destroyed = [r \in Runs |-> FALSE]
    /\ saved = [r \in Runs |-> "none"]
    /\ keyOf = [r \in Runs |-> NoKey]
    /\ digestOf = [r \in Runs |-> NoDigest]
    /\ old = {}
    /\ quarantined = FALSE
    /\ dirs = {} /\ sample = {} /\ foreign = {}
    /\ files = [r \in Runs |-> {}]
    /\ record = "passing"
    /\ mode = "serving" /\ accepted = TRUE
    /\ todo = {} /\ rec = IdleRec
    /\ thread = [t \in Threads |-> IdleThread]
    /\ pool = <<>>
    /\ worker = [r \in Runs |-> IdleWorker]
    /\ crashes = 0
    /\ vm = [r \in Runs |-> "none"]
    /\ starts = [r \in Runs |-> 0]
    /\ stranded = {} /\ answered = {} /\ released = {}

-----------------------------------------------------------------------------
(* AgentStore.update: status and updated_at always, destroyed when given.   *)
Update(r, newStatus, newDestroyed) ==
    /\ status' = [status EXCEPT ![r] = newStatus]
    /\ destroyed' = [destroyed EXCEPT ![r] = newDestroyed]
    /\ old' = old \ {r}
    /\ UNCHANGED <<keyOf, digestOf>>

(* The supervisor's destroy command: on success the VM is gone, on failure  *)
(* (nonzero exit, timeout, no confirmation) nothing is known.               *)
DestroyConfirmed(r) == vm' = [vm EXCEPT ![r] = "none"]
DestroyFails == UNCHANGED vm

Quarantine == quarantined' = TRUE /\ UNCHANGED <<dirs, sample, files, foreign, record>>

-----------------------------------------------------------------------------
(* POST /v1/runs: submit, one handler thread per request.                   *)

\* The quarantine and acceptance checks; a request that fails them or the
\* validation of its body is answered with an error and changes nothing.
SubmitCheck(t, k, d) ==
    /\ mode = "serving"
    /\ thread[t].pc = "idle"
    /\ ~quarantined
    /\ accepted
    /\ thread' = [thread EXCEPT ![t] = [IdleThread EXCEPT !.pc = "checked", !.key = k, !.digest = d]]
    /\ UNCHANGED <<row, disk, process, pool, worker, vm, history>>

SameKey(t, r) == status[r] # "absent" /\ keyOf[r] = thread[t].key

\* Mutant: the stored digest is not compared.
AnyRequest(t, r) == TRUE
SameRequest(t, r) == digestOf[r] = thread[t].digest

\* Mutant: the created flag is ignored and the known run is staged again.
SubmitKnownKeyAgain(t) ==
    \E r \in Runs :
        /\ thread[t].pc = "checked" /\ SameKey(t, r)
        /\ thread' = [thread EXCEPT ![t].pc = "stage", ![t].run = r]
        /\ UNCHANGED <<row, disk, process, pool, worker, vm, history>>

\* AgentStore.reserve finds the key: the old run is the answer when the digest
\* agrees, ValueError (422) when it does not.
SubmitKnownKey(t) ==
    \E r \in Runs :
        /\ thread[t].pc = "checked"
        /\ SameKey(t, r)
        /\ answered' = IF SameRequest(t, r) THEN answered \cup {<<thread[t].digest, r>>} ELSE answered
        /\ thread' = [thread EXCEPT ![t] = IdleThread]
        /\ UNCHANGED <<row, disk, process, pool, worker, vm, starts, stranded, released>>

\* AgentStore.reserve inserts a queued row under a fresh run_id.
SubmitReserve(t) ==
    \E r \in Runs :
        /\ thread[t].pc = "checked"
        /\ \A q \in Runs : ~SameKey(t, q)
        /\ status[r] = "absent"
        /\ status' = [status EXCEPT ![r] = "queued"]
        /\ keyOf' = [keyOf EXCEPT ![r] = thread[t].key]
        /\ digestOf' = [digestOf EXCEPT ![r] = thread[t].digest]
        /\ thread' = [thread EXCEPT ![t].pc = "stage", ![t].run = r]
        /\ UNCHANGED <<destroyed, saved, old, disk, process, pool, worker, vm, history>>

\* reserve raises (database locked): the request fails and leaves no row.
SubmitReserveFails(t) ==
    /\ "store" \in Faults
    /\ thread[t].pc = "checked"
    /\ thread' = [thread EXCEPT ![t] = IdleThread]
    /\ UNCHANGED <<row, disk, process, pool, worker, vm, history>>

\* mkdir of runs/<run>/artifacts and sample.bin.
SubmitStage(t) ==
    /\ thread[t].pc = "stage"
    /\ dirs' = dirs \cup {thread[t].run}
    /\ sample' = sample \cup {thread[t].run}
    /\ thread' = [thread EXCEPT ![t].pc = "dispatch"]
    /\ UNCHANGED <<row, quarantined, files, foreign, record, process, pool, worker, vm, history>>

\* An OSError while staging (disk full), which may leave a directory and a part
\* of the sample, or a failed audit insert: the request fails after its row was
\* inserted, and nothing will ever run it.
SubmitStageFails(t) ==
    /\ "stage" \in Faults
    /\ thread[t].pc \in {"stage", "dispatch"}
    /\ \E made \in SUBSET {thread[t].run} : \E written \in SUBSET made :
         dirs' = dirs \cup made /\ sample' = sample \cup written
    /\ stranded' = stranded \cup {thread[t].run}
    /\ thread' = [thread EXCEPT ![t] = IdleThread]
    /\ UNCHANGED <<row, quarantined, files, foreign, record, process, pool, worker, vm, starts, answered, released>>

\* pool.submit and the 202 reply.
SubmitDispatch(t) ==
    /\ thread[t].pc = "dispatch"
    /\ pool' = Append(pool, thread[t].run)
    /\ worker' = [worker EXCEPT ![thread[t].run] = [IdleWorker EXCEPT !.pc = "pooled"]]
    /\ answered' = answered \cup {<<thread[t].digest, thread[t].run>>}
    /\ thread' = [thread EXCEPT ![t] = IdleThread]
    /\ UNCHANGED <<row, disk, process, vm, starts, stranded, released>>

Submit(t) ==
    \/ \E k \in Keys, d \in Digests : SubmitCheck(t, k, d)
    \/ SubmitKnownKey(t) \/ SubmitReserve(t) \/ SubmitReserveFails(t)
    \/ SubmitStage(t) \/ SubmitStageFails(t) \/ SubmitDispatch(t)

-----------------------------------------------------------------------------
(* _worker, in the pool: one call per dispatched run.                       *)

Busy == {r \in Runs : worker[r].pc \notin {"none", "pooled"}}

\* The worker's future is never read: an exception that leaves _worker only
\* strands the run.
Abandon(r) ==
    /\ worker' = [worker EXCEPT ![r] = IdleWorker]
    /\ stranded' = stranded \cup {r}
    /\ UNCHANGED <<disk, process, thread, vm, starts, answered, released>>

\* A pool thread takes the head of the queue and records "running".
WorkerStart(r) ==
    /\ pool # <<>> /\ Head(pool) = r
    /\ Cardinality(Busy) < Workers
    /\ pool' = Tail(pool)
    /\ worker' = [worker EXCEPT ![r].pc = "started"]
    /\ Update(r, "running", destroyed[r])
    /\ UNCHANGED <<saved, disk, process, thread, vm, history>>

\* The update or the audit insert raises (database locked) outside the try block.
WorkerStartFails(r) ==
    /\ "store" \in Faults
    /\ pool # <<>> /\ Head(pool) = r
    /\ Cardinality(Busy) < Workers
    /\ pool' = Tail(pool)
    /\ \/ UNCHANGED row
       \/ Update(r, "running", destroyed[r]) /\ UNCHANGED saved
    /\ Abandon(r)

\* executor.run launches the supervisor, which creates the VM.
WorkerExecute(r) ==
    /\ worker[r].pc = "started"
    /\ vm' = [vm EXCEPT ![r] = "alive"]
    /\ starts' = [starts EXCEPT ![r] = @ + 1]
    /\ worker' = [worker EXCEPT ![r].pc = "executing"]
    /\ UNCHANGED <<row, disk, process, thread, pool, stranded, answered, released>>

\* A pinned file changed, or run-spec.json cannot be written: executor.run
\* raises before any VM exists.
WorkerRefused(r) ==
    /\ worker[r].pc = "started"
    /\ worker' = [worker EXCEPT ![r].pc = "cleanup"]
    /\ UNCHANGED <<row, disk, process, thread, pool, vm, history>>

\* Mutant: events.jsonl is not required.
ListedArtifacts(r) == r \notin foreign
ValidArtifacts(r) == EventsLog \in files[r] /\ r \notin foreign

\* The verdicts a returned claim may lead to.  An artifact that cannot be read
\* just then fails the run as one that must be refused does.
Verdicts(r, claim) ==
    {"failed" : fault \in Faults \cap {"read"}}
      \cup {IF claim \in Terminal /\ ValidArtifacts(r) THEN claim ELSE "failed"}

\* executor.run returns a JSON object.  The verdict is its status only when the
\* status is terminal, the run_id agrees and the artifacts validate; the object
\* itself is kept either way.
WorkerReturns(r) ==
    \E claim \in Claims \ {"none"} : \E verdict \in Verdicts(r, claim) :
        /\ worker[r].pc = "executing"
        /\ worker' = [worker EXCEPT ![r].pc = "cleanup", ![r].claim = claim, ![r].verdict = verdict]
        /\ UNCHANGED <<row, disk, process, thread, pool, vm, history>>

\* executor.run raises: nonzero exit, subprocess timeout, output not JSON.  An
\* object without a status is refused too, and hides nothing of the row.
WorkerRaises(r) ==
    /\ worker[r].pc = "executing"
    /\ worker' = [worker EXCEPT ![r].pc = "cleanup"]
    /\ UNCHANGED <<row, disk, process, thread, pool, vm, history>>

\* Mutant: the sample is left in place.
WorkerCleanupKeeps(r) ==
    /\ worker[r].pc = "cleanup"
    /\ worker' = [worker EXCEPT ![r].pc = "destroy"]
    /\ UNCHANGED <<row, disk, process, thread, pool, vm, history>>

\* finally: sample.bin and run-spec.json are unlinked.
WorkerCleanup(r) ==
    /\ worker[r].pc = "cleanup"
    /\ sample' = sample \ {r}
    /\ worker' = [worker EXCEPT ![r].pc = "destroy"]
    /\ UNCHANGED <<row, quarantined, dirs, files, foreign, record, process, thread, pool, vm, history>>

\* An unlink error other than FileNotFoundError leaves the finally block.
WorkerCleanupFails(r) ==
    /\ "unlink" \in Faults
    /\ worker[r].pc = "cleanup"
    /\ UNCHANGED <<row, pool>>
    /\ Abandon(r)

WorkerDestroy(r) ==
    /\ worker[r].pc = "destroy"
    /\ DestroyConfirmed(r)
    /\ worker' = [worker EXCEPT ![r].pc = "close", ![r].gone = TRUE]
    /\ UNCHANGED <<row, disk, process, thread, pool, history>>

\* Mutant: the failure is recorded in the row only.
WorkerDestroyFailsQuietly(r) ==
    /\ worker[r].pc = "destroy"
    /\ DestroyFails
    /\ worker' = [worker EXCEPT ![r].pc = "close", ![r].verdict = "failed"]
    /\ UNCHANGED <<row, disk, process, thread, pool, history>>

WorkerDestroyFails(r) ==
    /\ worker[r].pc = "destroy"
    /\ DestroyFails
    /\ worker' = [worker EXCEPT ![r].pc = "quarantine", ![r].verdict = "failed"]
    /\ UNCHANGED <<row, disk, process, thread, pool, history>>

WorkerQuarantine(r) ==
    /\ worker[r].pc = "quarantine"
    /\ Quarantine
    /\ worker' = [worker EXCEPT ![r].pc = "close"]
    /\ UNCHANGED <<row, process, thread, pool, vm, history>>

\* The final update; result_json is written only when a result was returned.
WorkerClose(r) ==
    /\ worker[r].pc = "close"
    /\ Update(r, worker[r].verdict, worker[r].gone)
    /\ saved' = [saved EXCEPT ![r] = IF worker[r].claim = "none" THEN @ ELSE worker[r].claim]
    /\ worker' = [worker EXCEPT ![r] = IdleWorker]
    /\ UNCHANGED <<disk, process, thread, pool, vm, history>>

\* The marker file or the final update cannot be written.
WorkerCloseFails(r) ==
    /\ "store" \in Faults
    /\ worker[r].pc \in {"quarantine", "close"}
    /\ UNCHANGED <<row, pool>>
    /\ Abandon(r)

Worker(r) ==
    \/ WorkerStart(r) \/ WorkerStartFails(r)
    \/ WorkerExecute(r) \/ WorkerRefused(r) \/ WorkerReturns(r) \/ WorkerRaises(r)
    \/ WorkerCleanup(r) \/ WorkerCleanupFails(r)
    \/ WorkerDestroy(r) \/ WorkerDestroyFails(r) \/ WorkerQuarantine(r)
    \/ WorkerClose(r) \/ WorkerCloseFails(r)

-----------------------------------------------------------------------------
(* GET /v1/runs/<run>/artifacts.                                            *)

\* Mutant: a terminal status is taken for a confirmed destruction.
ReleasableWhenTerminal(r) == status[r] \in Terminal /\ r \in dirs
Releasable(r) == status[r] \in Terminal /\ destroyed[r] /\ r \in dirs

\* The row must be terminal and destroyed and the directory present; a request
\* that fails the check is answered 404 or 409.
ArtifactsCheck(t, r) ==
    /\ mode = "serving" /\ thread[t].pc = "idle"
    /\ Releasable(r)
    /\ thread' = [thread EXCEPT ![t] = [IdleThread EXCEPT !.pc = "validate", !.run = r]]
    /\ UNCHANGED <<row, disk, process, pool, worker, vm, history>>

\* _validate_artifacts lists the directory and checks what it lists.
ArtifactsValidate(t) ==
    /\ thread[t].pc = "validate"
    /\ thread' = [thread EXCEPT ![t] = IF ValidArtifacts(thread[t].run)
                                       THEN [@ EXCEPT !.pc = "read", !.names = files[thread[t].run]]
                                       ELSE IdleThread]
    /\ UNCHANGED <<row, disk, process, pool, worker, vm, history>>

\* Every listed file is read again; one that is gone fails the request.
ArtifactsRead(t) ==
    LET r == thread[t].run
        names == thread[t].names IN
    /\ thread[t].pc = "read"
    /\ released' = IF names \subseteq files[r] THEN released \cup {<<r, names>>} ELSE released
    /\ thread' = [thread EXCEPT ![t] = IdleThread]
    /\ UNCHANGED <<row, disk, process, pool, worker, vm, starts, stranded, answered>>

Artifacts(t) ==
    \/ \E r \in Runs : ArtifactsCheck(t, r)
    \/ ArtifactsValidate(t) \/ ArtifactsRead(t)

-----------------------------------------------------------------------------
(* DELETE /v1/runs/<run>.                                                   *)

\* Mutant: only a missing row is refused.
DeletableWhenPresent(r) == status[r] # "absent"
Deletable(r) == status[r] \in Terminal

\* A queued or running row is refused (503).
DeleteCheck(t, r) ==
    /\ mode = "serving" /\ thread[t].pc = "idle"
    /\ Deletable(r)
    /\ thread' = [thread EXCEPT ![t] = [IdleThread EXCEPT
                      !.pc = IF destroyed[r] THEN "remove" ELSE "destroy", !.run = r]]
    /\ UNCHANGED <<row, disk, process, pool, worker, vm, history>>

DeleteDestroy(t) ==
    /\ thread[t].pc = "destroy"
    /\ DestroyConfirmed(thread[t].run)
    /\ thread' = [thread EXCEPT ![t].pc = "confirm"]
    /\ UNCHANGED <<row, disk, process, pool, worker, history>>

DeleteDestroyFails(t) ==
    /\ thread[t].pc = "destroy"
    /\ DestroyFails
    /\ thread' = [thread EXCEPT ![t].pc = "quarantine"]
    /\ UNCHANGED <<row, disk, process, pool, worker, history>>

\* The row's status is the one read by DeleteCheck; terminal statuses are final.
DeleteConfirm(t) ==
    /\ thread[t].pc = "confirm"
    /\ Update(thread[t].run, status[thread[t].run], TRUE)
    /\ thread' = [thread EXCEPT ![t].pc = "remove"]
    /\ UNCHANGED <<saved, disk, process, pool, worker, vm, history>>

DeleteConfirmFails(t) ==
    /\ "store" \in Faults
    /\ thread[t].pc = "confirm"
    /\ thread' = [thread EXCEPT ![t].pc = "quarantine"]
    /\ UNCHANGED <<row, disk, process, pool, worker, vm, history>>

DeleteQuarantine(t) ==
    /\ thread[t].pc = "quarantine"
    /\ Quarantine
    /\ thread' = [thread EXCEPT ![t] = IdleThread]
    /\ UNCHANGED <<row, process, pool, worker, vm, history>>

\* rmtree unlinks the artifacts one at a time, in the order the directory lists
\* them: what the agent had to refuse may go before the rest does.
Unlink(r) ==
    \/ \E f \in files[r] : files' = [files EXCEPT ![r] = @ \ {f}] /\ UNCHANGED foreign
    \/ r \in foreign /\ foreign' = foreign \ {r} /\ UNCHANGED files

DeleteFile(t) ==
    /\ thread[t].pc = "remove"
    /\ Unlink(thread[t].run)
    /\ UNCHANGED <<row, quarantined, dirs, sample, record, process, thread, pool, worker, vm, history>>

\* The directory goes last, and with it sample.bin if a worker has left it (nobody
\* reads it any more: when exactly rmtree meets it makes no difference).
DeleteDir(t) ==
    LET r == thread[t].run IN
    /\ thread[t].pc = "remove"
    /\ files[r] = {} /\ r \notin foreign
    /\ dirs' = dirs \ {r} /\ sample' = sample \ {r}
    /\ thread' = [thread EXCEPT ![t] = IdleThread]
    /\ UNCHANGED <<row, quarantined, files, foreign, record, process, pool, worker, vm, history>>

\* rmtree ignores errors: what cannot be unlinked stays, and so does the directory.
DeleteGivesUp(t) ==
    /\ "unlink" \in Faults
    /\ thread[t].pc = "remove"
    /\ thread' = [thread EXCEPT ![t] = IdleThread]
    /\ UNCHANGED <<row, disk, process, pool, worker, vm, history>>

Delete(t) ==
    \/ \E r \in Runs : DeleteCheck(t, r)
    \/ DeleteDestroy(t) \/ DeleteDestroyFails(t)
    \/ DeleteConfirm(t) \/ DeleteConfirmFails(t) \/ DeleteQuarantine(t)
    \/ DeleteFile(t) \/ DeleteDir(t) \/ DeleteGivesUp(t)

-----------------------------------------------------------------------------
(* SandboxAgent.__init__: _reconcile, then cleanup_expired.                 *)

\* Mutant: rows that were still queued are forgotten.
RunningRows == {r \in Runs : status[r] = "running"}
\* AgentStore.active.
ActiveRows == {r \in Runs : status[r] \in Active}

\* systemd restarts the service: load_agent_config loads the acceptance record,
\* and raises before anything is reconciled when there is none, or it is stale
\* or bound to other digests.
Restart ==
    /\ mode = "down"
    /\ record \in Usable
    /\ mode' = "starting"
    /\ accepted' = (record = "passing")
    /\ todo' = ActiveRows
    /\ UNCHANGED <<row, disk, rec, crashes, thread, pool, worker, vm, history>>

ReconcileDestroy(r) ==
    /\ mode = "starting" /\ rec.step = "idle" /\ r \in todo
    /\ todo' = todo \ {r}
    /\ DestroyConfirmed(r)
    /\ rec' = [step |-> "confirmed", run |-> r]
    /\ UNCHANGED <<row, disk, mode, accepted, crashes, thread, pool, worker, history>>

ReconcileDestroyFails(r) ==
    /\ mode = "starting" /\ rec.step = "idle" /\ r \in todo
    /\ todo' = todo \ {r}
    /\ DestroyFails
    /\ rec' = [step |-> "refused", run |-> r]
    /\ UNCHANGED <<row, disk, mode, accepted, crashes, thread, pool, worker, history>>

\* The row is recorded; when the audit insert after it raises, the except branch
\* runs as well.
ReconcileMark(r) ==
    /\ rec = [step |-> "confirmed", run |-> r]
    /\ Update(r, "failed", TRUE)
    /\ \/ rec' = IdleRec
       \/ "store" \in Faults /\ rec' = [step |-> "refused", run |-> r]
    /\ UNCHANGED <<saved, disk, mode, accepted, todo, crashes, thread, pool, worker, vm, history>>

ReconcileMarkFails(r) ==
    /\ "store" \in Faults
    /\ rec = [step |-> "confirmed", run |-> r]
    /\ rec' = [step |-> "refused", run |-> r]
    /\ UNCHANGED <<row, disk, mode, accepted, todo, crashes, thread, pool, worker, vm, history>>

\* Mutant: the except branch also records the destruction.
ReconcileRefuseConfirms(r) ==
    /\ rec = [step |-> "refused", run |-> r]
    /\ Update(r, "failed", TRUE)
    /\ rec' = [step |-> "quarantine", run |-> r]
    /\ UNCHANGED <<saved, disk, mode, accepted, todo, crashes, thread, pool, worker, vm, history>>

\* Mutant: the except branch only quarantines the node.
ReconcileRefuseSkips(r) ==
    /\ rec = [step |-> "refused", run |-> r]
    /\ rec' = [step |-> "quarantine", run |-> r]
    /\ UNCHANGED <<row, disk, mode, accepted, todo, crashes, thread, pool, worker, vm, history>>

\* The except branch: first the row, then the marker file.
ReconcileRefuse(r) ==
    /\ rec = [step |-> "refused", run |-> r]
    /\ Update(r, "failed", destroyed[r])
    /\ rec' = [step |-> "quarantine", run |-> r]
    /\ UNCHANGED <<saved, disk, mode, accepted, todo, crashes, thread, pool, worker, vm, history>>

ReconcileQuarantine(r) ==
    /\ rec = [step |-> "quarantine", run |-> r]
    /\ Quarantine
    /\ rec' = IdleRec
    /\ UNCHANGED <<row, mode, accepted, todo, crashes, thread, pool, worker, vm, history>>

\* cleanup_expired removes the files of every expired, destroyed run ...
CleanupFile(r) ==
    /\ mode = "starting" /\ todo = {} /\ rec.step = "idle"
    /\ r \in old /\ destroyed[r]
    /\ Unlink(r)
    /\ UNCHANGED <<row, quarantined, dirs, sample, record, process, thread, pool, worker, vm, history>>

\* ... and its directory (all but the ones whose rmtree meets an ignored error),
\* and the HTTP server starts.
Serve ==
    \E kept \in IF "unlink" \in Faults THEN SUBSET old ELSE {{}} :
        LET expired == {r \in old : destroyed[r]} \ kept IN
        /\ mode = "starting" /\ todo = {} /\ rec.step = "idle"
        /\ \A r \in expired : files[r] = {} /\ r \notin foreign
        /\ mode' = "serving"
        /\ dirs' = dirs \ expired /\ sample' = sample \ expired
        /\ UNCHANGED <<row, quarantined, files, foreign, record, accepted, todo, rec, crashes, thread, pool, worker, vm, history>>

Start ==
    \/ Restart \/ Serve
    \/ \E r \in Runs : \/ CleanupFile(r)
                       \/ ReconcileDestroy(r) \/ ReconcileDestroyFails(r)
                       \/ ReconcileMark(r) \/ ReconcileMarkFails(r)
                       \/ ReconcileRefuse(r) \/ ReconcileQuarantine(r)

-----------------------------------------------------------------------------
(* The environment.                                                         *)

\* SIGKILL, OOM or power loss: the threads and the pool are lost, the store and
\* the files stay, and a VM may outlive the service.
Crash ==
    /\ mode # "down" /\ crashes < MaxCrashes
    /\ mode' = "down"
    /\ crashes' = crashes + 1
    /\ todo' = {} /\ rec' = IdleRec
    /\ thread' = [t \in Threads |-> IdleThread]
    /\ pool' = <<>>
    /\ worker' = [r \in Runs |-> IdleWorker]
    /\ stranded' = {}
    /\ UNCHANGED <<row, disk, accepted, vm, starts, answered, released>>

\* The supervisor writes and rewrites artifacts; what the agent must refuse may
\* be among them.
SupervisorWrites(r) ==
    \E written \in SUBSET Files, refused \in SUBSET {r} :
        /\ worker[r].pc = "executing"
        /\ files' = [files EXCEPT ![r] = written]
        /\ foreign' = (foreign \ {r}) \cup refused
        /\ UNCHANGED <<row, quarantined, dirs, sample, record, process, thread, pool, worker, vm, history>>

\* The guest stops, or the host watchdog stops it.
VMStops(r) ==
    /\ vm[r] = "alive"
    /\ vm' = [vm EXCEPT ![r] = "none"]
    /\ UNCHANGED <<row, disk, process, thread, pool, worker, history>>

\* The retention interval of a run passes (only runs that keep files matter).
Age(r) ==
    /\ status[r] \in Terminal /\ r \in dirs \ old
    /\ old' = old \cup {r}
    /\ UNCHANGED <<status, destroyed, saved, keyOf, digestOf, disk, process, thread, pool, worker, vm, history>>

\* Thirty days pass: the loaded record expires, and so does the record on disk
\* unless it was renewed meanwhile.
AcceptanceExpires ==
    /\ "record" \in Faults
    /\ record \in Usable
    /\ record' \in {record, "unusable"}
    /\ accepted' = FALSE
    /\ UNCHANGED <<row, quarantined, dirs, sample, files, foreign, mode, todo, rec, crashes, thread, pool, worker, vm, history>>

\* Operator interventions that leave everything but the record alone.
OnlyRecord ==
    /\ "record" \in Faults
    /\ UNCHANGED <<row, quarantined, dirs, sample, files, foreign, process, thread, pool, worker, vm, history>>

\* The operator installs another supervisor, guest image or kernel and pins it.
PinsChange == OnlyRecord /\ record \in Usable /\ record' = "unusable"

\* The operator deletes the record.
RecordRemoved == OnlyRecord /\ record' = "missing"

\* `vulntools sandbox-acceptance` with the node's configuration: it loads the old
\* record first, in the same way, and only then runs the tests and signs a new one.
AcceptanceRuns == OnlyRecord /\ record # "unusable" /\ record' \in Usable

Environment ==
    \/ Crash \/ AcceptanceExpires \/ PinsChange \/ RecordRemoved \/ AcceptanceRuns
    \/ \E r \in Runs : SupervisorWrites(r) \/ VMStops(r) \/ Age(r)

Next ==
    \/ \E t \in Threads : Submit(t) \/ Artifacts(t) \/ Delete(t)
    \/ \E r \in Runs : Worker(r)
    \/ Start
    \/ Environment

Spec == Init /\ [][Next]_vars

-----------------------------------------------------------------------------
(* Safety.                                                                  *)

\* Artifacts are read for a client only when no VM of the run is alive: the
\* check of the destroyed column at the start of the request still holds when
\* the files are read, whatever workers, deletions, crashes and reconciliation
\* do in between.
ArtifactsAfterDestruction ==
    \A t \in Threads : thread[t].pc \in {"validate", "read"} => vm[thread[t].run] = "none"

\* A run is handed to the supervisor at most once: retries of the same
\* Idempotency-Key, pool scheduling and restarts never execute a sample twice.
AtMostOneExecution == \A r \in Runs : starts[r] <= 1

\* While the service accepts requests, every queued or running row has somebody
\* who will finish it: the request staging it, or its worker.  The exceptions
\* are the runs whose owner died of a local I/O failure since the last start.
OwnerOf(r) ==
    \/ worker[r].pc # "none"
    \/ \E t \in Threads : thread[t].pc \in {"stage", "dispatch"} /\ thread[t].run = r
ActiveRowsAreOwned ==
    mode = "serving" => \A r \in Runs : status[r] \in Active => OwnerOf(r) \/ r \in stranded

\* A download that succeeds contains events.jsonl, even when another client
\* deletes the run while its files are being listed and read.
ReleasedBundlesHaveEvents == \A b \in released : EventsLog \in b[2]

\* Every 202 reply names a run that was reserved for the same request digest,
\* whichever threads race for the key.
RepliesMatchRequests == \A a \in answered : digestOf[a[2]] = a[1]

\* The submitted file stays on the host after its run is finished only when no
\* worker closed the run (README.md:24 lists the deletion of samples): a row
\* that carries a result, or a success, has no sample.bin left.
SampleOutlivesOnlyLostRuns ==
    \A r \in sample : status[r] \in Terminal => status[r] = "failed" /\ saved[r] = "none"

\* While the service runs, a row is recorded as finished without a confirmed
\* destruction only on a node that is already quarantined (the worker writes
\* the marker before the row).
UnconfirmedFinishIsQuarantined ==
    [][\A r \in Runs :
         (mode = "serving" /\ status[r] \in Active /\ status'[r] \in Terminal /\ ~destroyed'[r])
         => quarantined]_vars

\* docs/sandbox-supervisor-contract.md:40, of a destruction that cannot be
\* verified: "The agent then writes `QUARANTINED` and rejects new submissions."
\* A VM that is alive while its row is finished is one such destruction; a node
\* that serves requests with it must be quarantined.
LeakedVMQuarantinesNode ==
    \A r \in Runs :
        (mode = "serving" /\ vm[r] = "alive" /\ status[r] \in Terminal) => quarantined

-----------------------------------------------------------------------------
(* Liveness.                                                                *)

\* The threads of a live process run; subprocess timeouts bound every call of
\* the supervisor; systemd restarts the service.  Clients, failures and the
\* environment get no fairness.
HandlerStep(t) ==
    \/ SubmitKnownKey(t) \/ SubmitReserve(t) \/ SubmitReserveFails(t)
    \/ SubmitStage(t) \/ SubmitStageFails(t) \/ SubmitDispatch(t)
    \/ ArtifactsValidate(t) \/ ArtifactsRead(t)
    \/ DeleteDestroy(t) \/ DeleteDestroyFails(t)
    \/ DeleteConfirm(t) \/ DeleteConfirmFails(t) \/ DeleteQuarantine(t)
    \/ DeleteFile(t) \/ DeleteDir(t) \/ DeleteGivesUp(t)

Fairness ==
    /\ \A t \in Threads : WF_vars(HandlerStep(t))
    /\ \A r \in Runs : WF_vars(Worker(r))
    /\ WF_vars(Start)

FairSpec == Spec /\ Fairness

\* Every reserved run reaches a terminal status, through crashes and whatever
\* the supervisor answers, unless a local failure strands it or the service
\* cannot start again for want of a usable acceptance record.
Unstartable == mode = "down" /\ record \notin Usable
RunsSettle ==
    \A r \in Runs : status[r] \in Active ~> (status[r] \in Terminal \/ r \in stranded \/ Unstartable)

\* A restart settles every run the previous process left queued or running, the
\* stranded ones included, even when the service is killed again meanwhile.
RestartSettles ==
    \A r \in Runs : (mode = "down" /\ status[r] \in Active) ~> (status[r] \in Terminal \/ Unstartable)

-----------------------------------------------------------------------------
(* The abstract specification the agent implements.                         *)

StageOf(r) ==
    CASE status[r] = "absent" -> "unknown"
      [] status[r] \in Terminal -> "finished"
      [] status[r] \in Active /\ starts[r] = 0 -> "accepted"
      [] status[r] \in Active /\ starts[r] > 0 -> "executed"

Promise == INSTANCE DisposableRuns WITH
    stage <- [r \in Runs |-> StageOf(r)],
    gone <- destroyed,
    live <- {r \in Runs : vm[r] = "alive"},
    released <- {b[1] : b \in released}

\* The agent implements DisposableRuns: every step of a handler, a worker, the
\* reconciliation or the environment is a step of a disposable run or none.
ImplementsDisposableRuns == Promise!Spec

Interface == INSTANCE SandboxNode WITH
    claim <- saved,
    valid <- {r \in Runs : ValidArtifacts(r)},
    live <- {r \in Runs : vm[r] = "alive"},
    started <- {r \in Runs : starts[r] > 0}

\* The agent is a SandboxNode: what clients and coordinators may conclude from
\* its replies holds of the threads, the pool, the crashes and the failures here.
ImplementsSandboxNode == Interface!NodeSpec

=============================================================================
