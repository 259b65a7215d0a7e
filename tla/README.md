# A formal model of VulnToolSuite

VulnToolSuite (`src/vulntools`) collects vulnerability records from official
sources, merges and indexes them, and runs samples in disposable virtual
machines on a separate sandbox node. This directory holds TLA+ models of the
parts whose correctness depends on the order in which things happen or on an
algorithm that is easy to get wrong, the TLC instances that check them and
proofs that TLAPS checks.

There are two halves. The *sandbox*: the agent on the node, the coordinator that
drives it over HTTPS, the commissioning workflow on top of both and the monitor
inside the guest. Threads, retries, crashes and an unreliable supervisor meet
there. The *data pipeline*: resumable copies of sources that move while they are
read, and a dozen commands that share one SQLite file and several output
directories. Between them, the pure algorithms that decide which versions an
advisory covers, which assertions name one product, and which rows of a dataset
may see each other.

## 1. Inventory

| Component | State | Operations | Interacts with | What makes it correct |
|---|---|---|---|---|
| **Sandbox agent** `sandbox_agent.py` | table `runs` and `audit` in `agent.sqlite`; `runs/<run>/` (sample, spec, artifacts); `QUARANTINED`; thread pool | `submit`, `status`, `artifacts`, `delete`, `_worker`, `_reconcile`, `cleanup_expired` | supervisor (subprocess), HTTP clients, systemd | a sample is executed at most once; artifacts leave only after the VM is gone; an unconfirmed destruction quarantines the node; every accepted run is settled |
| **Supervisor adapter** `SupervisorExecutor` | pinned digests | `run`, `destroy`, `acceptance` | external VM supervisor | every outcome of a call is handled |
| **Agent configuration** `load_agent_config`, `write_acceptance_record` | acceptance record, 30 days, bound to digests | start, renew | operator, `cli.py` | a node with a stale record refuses work, and can be renewed |
| **Coordinator** `sandbox.py` | one local command, its `run_id` and report | preflight, submit, wait, artifacts, destroy, publish | agent over mTLS | nothing is published before destruction is confirmed; the report is about the sample submitted; the command ends |
| **Smoke workflow** `reproduction.py` | plan, report, last run and flag of `_PinnedBackend` | plan, fixture, vm | coordinator | the report says of executions and destructions what is true |
| **Guest channel, guest monitor** `guest_channel.py`, `guest_monitor.py` | one connection, one canary and its process group, two reading threads | accept, receive, poll, judge, kill, join, certify, reply | supervisor over vsock | the verdict is true of the canary; the service ends |
| **Deployment checks** `sandbox_deployment.py`, `deployment/` | none | read-only checks, file copies | operator | - |
| **Source synchronisation** `collection.py` | cursors, failure table | `sync_nvd`, `sync_cve_delta`, `sync_cve_directory`, `collect`, `collect_batch`, retry | HTTP sources, store | no change of a source is skipped by a watermark; commands end |
| **Collectors, parsers** | none | parse, fetch one | synchronisation | - |
| **Store** `storage.py` | latest snapshots and history, canonical records, vectors, cursors, jobs, trajectories | save, replace, index, list | every command; several processes share the file | an older snapshot never replaces a newer one; derived data belong to current records |
| **Processing** `processing.py`, `models.py` | none (pure) | grouping by identity, component disambiguation, merge | store | the result does not depend on the order of the sources; a conflict is reported |
| **Enrichment** `enrichment.py` | gaps | targeted fetches, reprocessing, attached text and vectors | synchronisation, store | derived rows follow what was fetched |
| **Embedding, index** | vectors per model and revision | `index_records` | store | every active record is indexed at its revision, resumably |
| **Search** `search.py` | none | ranges, CPE applicability, ranking | store | results belong to one state of the store; an undecidable range is not decided |
| **API, dashboard, analytics** | none | read-only queries | store | - |
| **Training set** `training.py` | output files and manifest | families, splits, corpus, publication | store | no text in two splits; a manifest never ahead of its files |
| **Trajectories** `trajectories.py`, `docker_trajectories.py` | trajectory table, output files, databases per category | import, container batch, export, split | store, Docker | only accepted trajectories of a whole category are published |
| **PoC import, vision, closure** | PoC tables, vectors | import a directory, encode | store | - |
| **Command line** | job rows | dispatch | everything | a job's row tells how it ended |

The hard behaviours: handler threads, workers and restarts of the agent
interleave over one table and one directory tree; the supervisor may fail or
time out at any call; the service may be killed between any two statements;
requests are lost, late or repeated; two coordinators that submit the same
sample share one run; a canary leaves a process behind that keeps its pipes
open. In the data pipeline several processes share one SQLite file whose lock a
transaction takes at its first write, not at its first read; synchronisation
stops and resumes anywhere over pages that shift; files are replaced one by one.

`PROJECT.json` lists the components with what is modelled of each, and every
hazard with its line and the properties that cover it.

## 2. Modules

    DisposableRuns            what is promised of a run, in seven actions
       ^            ^
       | implements | implements
    SandboxAgent    SandboxCoordinator --EXTENDS--> SandboxNode
       |                 ^                             ^
       |                 | EXTENDS                     |
       |            SmokeWorkflow                      |
       +---------------- implements -------------------+

    GuestMonitor              inside the VM; the supervisor between is external

    CollectionSync --EXTENDS--> SourceStore          up to source_latest
    Pipeline                                         from source_latest on
    Versions <-- Applicability    Merge    TrainingRows    pure operators

`SandboxNode` lies between: the agent's 50 actions implement its dozen, and the
coordinators are composed with those, so that the runs with several clients do
not carry the threads and files of the node. `CollectionSync` and `Pipeline`
meet at one table: the action `Import` of `Pipeline` is any of the writes
`CollectionSync` describes in detail.

### The sandbox

* **DisposableRuns**: a run is unknown, accepted, executed, finished; its VM is
  alive or not; its destruction is confirmed or not; its artifacts are released
  or not. It is executed once, and released only after confirmation.
* **SandboxAgent**: the agent. `status`, `destroyed`, `saved` (the status inside
  `result_json`), `keyOf`, `digestOf`, `old` are columns of `runs`; `dirs`,
  `sample`, `files`, `foreign`, `quarantined`, `record` are the state directory;
  `thread`, `pool`, `worker`, `todo`, `rec`, `mode` the process; `vm` the host.
  A handler, a worker and `_reconcile` take one step per statement that touches
  shared state. A method of `AgentStore` is one step, because it runs under the
  store's lock in one transaction. `Faults` names the local failures an instance
  allows: staging, store writes, unlinking, operator interventions.
  rmtree unlinks the files of a run in any order (`Unlink`), the one the worker
  had to refuse among them, and a validation may fail because a file could not
  be read just then (`Verdicts`).
* **SandboxNode**: the node as API clients see it: rows, claims, quarantine,
  VMs, and which runs have artifacts that validate. While artifacts are removed
  they may stop being acceptable, or become so (`Touch`).
* **SandboxCoordinator**: any number of `run_in_vm` commands on a node. `pc`
  follows the calls of `run_in_vm`; submissions and deletions are messages that
  may be lost, handled late, or answered to nobody. The idempotency key is the
  digest of the request, so a key stands for a sample with its name and policy.
* **SmokeWorkflow**: `smoke_workflow` in vm mode: two commands of one client,
  with the memory of `_PinnedBackend` and the report's fields.
* **GuestMonitor**: `serve_channel`, `run_monitor` and `_monitor_execution`.
  `pc` is the main thread; `canary` the child with its exit code and whether a
  descendant left its process group; `wrote`/`got`/`kept` the blocks written to,
  read from and kept of each pipe; `reader` the two threads; `joined` what the
  joins returned. Each timeout (poll deadline, joins, listener, connection, host)
  is a step that may come whether or not the awaited event has. What the frame,
  request and trace parsers accept is a choice.

### The data pipeline

* **SourceStore**: `source_latest` and the open rows of `collection_failures`.
  One call of `save_sources_detailed` is a comparison without the lock (`Compare`),
  then the writes, comparisons under the lock and the commit (`Write`): Python's
  sqlite3 opens a transaction at the first INSERT.
* **CollectionSync**: every command of `collection.py` that moves a cursor, over
  `SourceStore`. `official` and `now` are the sources and the clock, `log` the
  rolling delta log, `readable` which baseline files parse. `run[p]` is the
  command of a process; a page fetched, a batch saved, a failure resolved and a
  cursor written are separate steps, and `Kill` may come between any two.
  `--since` and `--until` lie where an operator puts them (`Starts`, `Ends`):
  nothing compares them with the clock.
* **Pipeline**: the commands after collection. `cmd[p]` is a command with what
  it has read; `lock` is the file's write lock; `jobs` the job rows. A write is
  one step when the code makes it in one transaction; an index run holds the
  lock from its first statement to its commit. `import` and the attachment of
  picture text compare before they have the lock and write after (`Compare`,
  `Insert`), as in `SourceStore`. A file of an export is truncated (`OpenDump`)
  and then written in place, so a kill may leave it cut short (`Partial`). `dataset`, `databases`, `exports`
  and `batch` are output directories, as the build each file is of.

### The algorithms

* **Versions**: `numeric_version`, `_semver`, `_pep440`, `_maven`,
  `compare_versions`, ranges with changes, `version_match` over
  components. A version string is a record of numbers and a tail; each
  ecosystem reads it as a key.
* **Applicability**: `_cpe_match`, `_cpe_node`, `cpe_applicability`, in three
  values. A name is a part, vendor and product, each of which a criterion may
  leave open (`AnyName`, the code's `*` and `-`).
* **Merge**: `_component_candidate`, `disambiguate_components`, grouping by
  identity and the merge of fields.
* **TrainingRows**: families, splits, chunks, corpus documents, hard negatives
  and rejected candidates.

### Instances and proofs

* **MCSandboxAgent**, **MCSandboxCoordinator**, **MCSmokeWorkflow**,
  **MCCollectionSync**, **MCPipeline**, **MCGuestMonitor**, **MCAlgorithms**:
  sets for TLC. The first two extend the proof modules, so TLC checks those
  inductive invariants as well. `MCAlgorithms` also holds the inputs of the pure
  modules, which grow by one piece at a step, and the reference definitions.
* **SandboxAgentProofs**, **SandboxCoordinatorProofs**, **SmokeWorkflowProofs**,
  **GuestMonitorProofs**, **CollectionSyncProofs**, **PipelineProofs**: theorems
  and proofs of the components they are named for. **SearchProofs** is about
  `Versions` and `Applicability`, **AlgorithmsProofs** about `Merge`,
  `TrainingRows` and the instance `MCAlgorithms`.

Conventions: an operator whose comment begins with `Mutant:` is the definition
below it with a plausible bug; no specification uses it. A definition has the
name of the code's function where there is one. History variables (`starts`,
`answered`, `released`, `accepted`, `asked`, `published`, `stranded`, `late`,
`excused`, `builds`, `replaced`, `back`) are written, never read, by what decides a step.

Abstractions of data: `failed` stands for every terminal status but
`succeeded`; the claim `other` for a status outside `TERMINAL_STATUSES` or a
result about another run; contents of artifacts are "listed and bound to the
run" or not; attestations and preflight are accepted or refused. A version of a
source record is named by the time it was published; a canonical revision by the
source version, the attached text and the second source that made it. A text,
chunk or identifier is a number that stands for its hash or its order.

## 3. What the runs check

| Run | Instance | Question |
|---|---|---|
| `agent_lifecycle` | 1 run, 2 digests, 2 handler threads, 2 files, 1 crash, staging/store/unlink failures | downloads, deletions and retries race the worker: are artifacts read only after destruction, with their event log, replies about the right request, samples removed, quarantine written first? |
| `agent_two_runs` | 2 runs and keys, 1 handler, 1 worker thread, 1 crash | queueing and reconciliation of several rows: executed once, every active row owned; `AgentInv`; refinement of `DisposableRuns` and `SandboxNode` |
| `agent_live` | 1 run, 2 crashes, all faults, fairness | every accepted run is settled; a restart settles what it finds |
| `agent_leak` | 1 run, 2 crashes | violated: finding 1 |
| `coordinators_shared` | 2 clients, 2 samples, 2 runs | commands that share a run or not: nothing published before destruction, a report is of its own sample, a sample executed once, all reports about a run agree; `CInv`; refinement |
| `coordinator_lost` | 1 client, 1 run | violated: finding 2 |
| `smoke` | the canary's 2 commands, 2 runs, fairness of the workflow | what the report says is true, the confirmation is of the last run, and the report is always written |
| `collection` | 1 process, 2 records, times to 5, pages and batches of 1, windows of 2, 1 kill, 2 attempts per request, `--since` and `--until` up to 2 behind and 2 ahead of the clock, 8 installations | no cursor passes what was not stored; every command ends |
| `stale_snapshot` | 2 processes, 1 record | violated: finding 3 |
| `pipeline` | 2 processes, 2 records, 2 versions (one withdraws), 2 output files, 3 commands, 1 kill, 2 installations | do derived rows, answers and published files belong together, whatever overlaps, fails or is killed? |
| `guest` | 2 streams, 1 block kept of at most 2 written | is a certified verdict true; does the service end? |
| `algorithms` | rules, trees, components, sources, artifacts and texts (of 7 characters, any of them blank) | version ranges, CPE applicability, disambiguation, merge order, dataset leaks and chunks against their reference definitions |

**Why the bounds are enough.** The properties of the agent relate one run to
the threads that work on it. Two handler threads are the least that race; a
third behaves as one of two. Two runs are needed for the pool's queue and for a
reconciliation that is interrupted between rows. One crash gives every point of
interruption, two a crash of the recovery. Two files are needed to tell
`events.jsonl` from an artifact that does not matter. Two coordinators on two
samples give the shared run and the separate runs.

`collection`: a page or batch of one with two records has a first, a next and a
last page; a span of 2 within times 1..5 gives two windows; the overlap of 1 is
smaller than a window and larger than nothing; one kill at every step, and a
resumption after it. `Uses` splits the instance by installation (the commands an
operator gives and how many events of operator and sources there are), since the
cursors of the streams do not touch; a command that shares state with another
(retry with a page failure) is in one installation with it. The explicit starts
and ends have installations of their own: a start one behind the clock with
four events, an end two behind it with two, both ahead of it with three (to set
the mark, to change a record, to synchronise again).

`pipeline`: two processes, each with one command, and a third after either of
them, are what it takes to read, be overtaken and write. The two groups of
commands share only the job table and the index. The processes are symmetric;
no liveness is checked there. Two writers of one output directory are not run
side by side: they share temporary names, and nothing in the code keeps them
apart.

`guest`: one block kept of two written tells a whole stream from a truncated one
and an overflow before the verdict from one after it.

`algorithms`: each state is an input; the trees have up to three nodes, so an
operator under an operator; three component assertions can be a chain whose ends
disagree; two artifacts and three vulnerabilities can link a family
transitively; texts of 7 exceed two chunks of the sizes 2 to 4.

The theorems below hold without any of these bounds.

**Fairness.** Assumed: weak fairness of each agent handler that has taken a
request, of each worker, and of `Start`. The threads of a live process run; each
supervisor call has a subprocess timeout (`sandbox_agent.py:125`); systemd
restarts the service (`Restart=on-failure`). For the coordinator and the smoke
workflow, weak fairness of its thread: every request has a 20 s timeout and
polling a deadline. For the collection commands, weak fairness of a process that
has been started (`Work`): a request has a timeout and a bounded number of
attempts. For the guest, weak fairness of the main thread, whose waits all have a
timeout; nothing of the readers, the canary or the host. Not assumed: that
clients send requests, that the network, a source or the node answers, that VMs
stop by themselves, that failures, kills or changes happen or stop, that an
operator gives another command.

**Deadlock checking** is off in every configuration: a node that has run its
samples may stay idle, and a command that has ended does nothing more. That a
command in progress cannot get stuck is what the liveness properties say.

Each property has a mutant of the mapped code under which its run finds it
violated (`PROJECT.json`, "mutants").

### What the properties leave open on purpose

* `WatermarkCovers` excuses five ways past a change: an explicit `--since`, the
  first start, a window narrower than the overlap that is resumed (see section
  5), paging by offset through a window whose records move away
  while it is paged (the API shifts the later ones by one), and a change made
  behind a watermark, or behind the end of a run, that an `--until` had put ahead
  of the clock. They are recorded in
  `excused` at the step where they happen; nothing else is lost.
* `DeltaCovers` excuses what was published up to the checkpoint of the first scan
  or of one with `--since` (it may lie ahead of the clock), or had rolled out of
  the log it read. The overlap
  before a checkpoint is a margin the code does not keep (section 5).
* `PublishedFiles` claims one split per text only for a build that no
  replacement of the canonical rows overlapped: the builder reads them twice.
* `OnlyAnOverlapGoesBack` is what remains of "data only move forward", which is
  false when two commands overlap: sources go back at an INSERT whose comparison
  another process has overtaken, canonical records when two replacements overlap
  or when their source went back (`back`).
* `AnswersOfOneRevision` allows a hit without its views, ranked by the aggregate
  vector the first statement found, when the canonical records were replaced in
  between.
* `ReportsAgree` allows a report that differs from the row: a run the worker
  recorded as failed may be reported as what the supervisor claimed (section 5).
* `RangesDecide` names the two guesses the code makes: a rule of one version that
  does not compare is passed over, and a change that does not compare is ignored
  (section 5).
* That a command which fails while it writes its output directory leaves a whole
  one is not claimed, nor that a killed export leaves no file cut short.
* Whether a killed command's job row is ever closed is not claimed: it stays
  `running`, also after a second lock-out while the failure is being recorded.

## 4. What is proved

For any sets of runs, keys, digests, handler threads, files, processes and
records, any number of workers, crashes, coordinators, commands and kills.

*The agent* (`SandboxAgentProofs`). No safety property is inductive alone:
that a download reads files only after destruction depends on `destroyed`
implying that no VM is alive, and that on what each worker, handler and the
reconciliation has established when it writes the column. `IInv` states it:
`ThreadInv` (what a handler checked still holds at its later steps), `WorkerInv`
(row, VM and quarantine at each point of `_worker`), `RowInv`, `PoolInv` (the
queue holds pending workers, each once), `RecInv` (rows in hand and to visit are
active), `StagersDistinct` (two requests never stage the same run). One lemma
per action; `Inductive` combines them. From it: `TypeCorrect`,
`DownloadsFollowDestruction`, `ExecutedOnce`.

*The agent's promise* (`SandboxAgentProofs`, second part). `AgentInv` adds to `IInv` what the
remaining properties rest on: the digest a handler has in hand is that of its
request, and what it found in the table it still finds there; a bundle recorded
by a worker that destroyed its VM has the event log the supervisor wrote; a
sample that is still linked belongs to a row whose owner will unlink it, or to a
run that a crash or a failed unlink left behind; every active row is in the
pool, with a worker, or before the reconciliation. `InductiveAgent` proves it,
and from it follow `RepliesMatch`, `BundlesHaveEvents`, `SamplesAreUnlinked` and
`ActiveRowsHaveOwners`. `Refinement`: the agent implements `DisposableRuns`;
`NodeRefinement`: it implements `SandboxNode`, which the coordinators are
composed with, so what is proved of them holds of the agent. Most steps are
quiet; the others finish, stop, confirm, accept, execute or release one run.
`QuarantineBeforeRecord`: a serving agent records an unconfirmed finish only on a
quarantined node, an action property.

*The coordinators* (`SandboxCoordinatorProofs`). The facts about runs that
coordinators rely on never become false again (`Lasting`): a row's key,
terminal status and claim, a confirmed destruction, an execution. That a run's
artifacts validate is not among them: it may turn either way while they are
removed. `CInv` says which of them each coordinator has learned at each point of `run_in_vm`,
that a submission in flight is the client's current command's or an older one,
and what holds of a published report. `NodeKeeps` shows that each step of the
node preserves what it owes, `ClientKeeps` that what was learned survives, and
one lemma per step of `run_in_vm` that it learns what it says. From
`Inductive`: `PublishesAfterDestruction`, `PublishesOwnExecution`,
`ReportsHold`, `ExecutesOnce`; and
`ImplementsDisposable`: with its coordinators the
node releases what `DisposableRuns` allows.

*The smoke workflow* (`SmokeWorkflowProofs`). The report is written from
variables set several steps before: the invariant says of each point of the
workflow which submission the last returned run, its outcome and its
confirmation come from. `PassedRanBoth` and `ConfirmsLastRun` follow.

*The guest monitor* (`GuestMonitorProofs`). `GInv` has three parts beside types:
`CanaryFollows` (what `pc` implies of the canary: it has started, ended or been
killed), `StreamsAreKept` (a reader that ended without overflow kept what was
written, unless bytes came after it), `Judged` (a verdict and the answer agree with
what was judged). `VerdictHolds` follows for every bound on blocks.

*The baseline import* (`CollectionSyncProofs`). A cursor names the last file of a
saved batch, so the invariant `BInv` must say where a file is before the cursor
is written: a run in which no file has failed has each file it passed in the store,
in its batch or in the call that saves the batch (`BaselinePassed`); one in which
a file failed leaves the cursor where it was, or returns it to its own start; and
a process in the middle of a call is at a step that waits for it (`Waits`). A
write by any process keeps what is stored (`Keeps`). `BaselineHolds` is for any
number of processes, since a snapshot
may be replaced but not removed. `OneProcessNeverGoesBack` proves `NeverGoBack`
under `OneProcess`: `TInv` says that a comparison already made is still true
when the lock is taken (`CallTimed`), which is what a second process breaks
(finding 3), so the assumption is as weak as it can be.

*The cursors* (`CollectionSyncProofs`, second part). `CTInv` types everything a
synchronisation keeps, for any number of processes: the windows a run has cut
its interval into, the scan of the log, the failure rows that retry reads back,
the batches in memory (`TypedHolds`, `TypeCorrect`). What the marks promise needs
`OneProcess` again: a second one may put an older version back after the mark
has passed the newer (finding 3). The argument of both streams is that of the
baseline: what lies before a mark is stored, excused, in the call under way
(`Due`), or still before the run.
`DInv`, for the rolling log: `LogOK` (the log lists everything since its oldest
event, so a start it still reaches misses nothing), `DeltaCursorOK` (everything
up to the mark, to the start of a truncated scan and to its last record is
stored or excused) and `DeltaOK` (a scan in which nothing failed has each event
it discovered behind it or in `items`). A publication is later than every mark
(`Past`; one before a checkpoint ahead of the clock is excused when it is made), a record published again during a scan is no longer what the scan
promised. `DeltaHolds` follows.
`NInv`, for NVD: the windows of a run tile its interval (`Tiling`, by the
division in `Split`), what changed before the current window is stored or
excused (`GotBelow`), the rows paged so far too (`GotRows`), and those of the
page in hand are in the call that saves it (`Asked`). Paging is by offset,
so a change that moves rows must be answered for at every point: `ModifyWatermark`
shows that a row which moves before the offset is in `excused` and that every
other keeps its place or moves on, `PageRows` that a page has the rows from its
index to the next. A mark or an end may lie ahead of the clock, no further than
an `--until` (`AheadOf`); a change behind it is excused as it is made.
`WatermarkHolds` follows.

*The pipeline* (`PipelineProofs`). `PInv`: an index run that has
read a canonical row holds the write lock until it writes its vectors, so the
row is unchanged (`EncodesLocked`); the trigger drops derived rows whenever a
canonical row changes. `VectorsHold` follows. `OInv`: but for the
identifiers whose source has gone back (`back`), what a process has read, and the
canonical rows, are behind the sources, and a set of sources read since the last
replacement is not behind the canonical rows; a record about to be inserted is
no older than the one it was compared with (`ReadIsOrdered`).
`GoesBackOnOverlap` follows.
`FInv` is about the output directories: jobs and builds are numbered, so the
files of a directory are of numbers between its manifest's and that of the command at
work (`Numbered`); a command that writes a directory is the only one of its kind
(`CommandsOK`); and it has replaced exactly the files it no longer has to do
(`Replaced`), so when it writes the manifest none is left. `FilesHold` follows.
`Typed` and `TypeCorrect` are for any number of commands; `AnswersHold`: an
answer joins rows of one canonical revision. A search reads each row with its
vector in one statement, where the trigger keeps them together, and asks for the
views in another, by revision; `SInv` (`SearchesKnow`) says that as long as nothing
was replaced in between, the views are those that belong to the vectors.

*The algorithms* (`SearchProofs`, `AlgorithmsProofs`). The prover has no
induction over data, so these proofs descend to a counterexample of least rank,
which is a statement about sets: a set of naturals has a least member
(`LeastNatural`); if every element is good once all of lower rank are, all are
(`Descent`, over the *set* of good elements); and a definition whose value at an
element depends only on those of lower rank has a solution (`Recursion`). With
these a recursive function of the model, which is a CHOOSE, is shown to exist
and then reasoned about by its equation. The theorems are about every input,
not about those TLC enumerates:

* *Chunks.* `ChunksAlwaysCover`, by descent from the end of the text: a piece
  ends behind its start (`PieceEndBounds`) and the next starts behind the start
  and not behind the end (`NextStartBounds`), for every size and overlap; a piece that is left out holds
  only blanks, so every position that is not blank is in a chunk.
* *Families.* The parents form a forest in which a parent is smaller
  (`Forest`), so the walk to the root ends (`UpHolds`); compressing a path
  changes no root (`CompressedRoots`); a union joins two families and separates
  none (`UniteJoins`), so after any set of unions, in any order, both ends of
  each are akin (`FoldJoins`). `NothingIsShared` follows for any records,
  artifacts, limit, chunks and splits.
* *Components.* A cluster is sound when it is reported, or for each kind of
  identifier the candidates that give one cannot be divided into two parts
  that share none (`Connected`). A candidate that joins keeps it so, because it
  is compatible or the cluster is reported (`JoinSound`, `PlaceSound`), and what cannot be divided is
  one chain (`ConnectedIsJoined`). `CollapsesAreReported`.
* *Merging.* Keys are distinct, so the number of records before a record is its
  position whatever order they were read in (`Ranked`, `MembersByKey`):
  `ProcessIgnoresOrder`.
* *Versions.* Keys are compared at their first difference, so `Compare` is a
  total order of them (`CompareOpposes`, `LessThanTransitive`); each kind reads a
  version as a key, so `compare_versions` is a total preorder of what it reads
  (`VersionsCompare`). A rule that is not uncertain has compared everything it
  read (`RuleTells`), hence `DecidedByRules` for any number of rules; what a
  rule without changes covers is an interval (`CoveredAreConvex`), and the
  pre-releases of the fixed version of the instance are in it.
* *Applicability.* Unknown is below the two other values, and every operator of
  `_cpe_node` is monotone in that order (`OperatorsRefine`); by descent from the
  leaves so is a tree of any size (`NodeStays`, `OutcomeStays`).

`InputsAreTyped` is the invariant that carries these to `MCAlgorithms`: what a
state holds is an input of the right kind, and sources come in the order of
their keys. The six properties of the run `algorithms` follow from it without
the bounds on the number of rules, nodes, candidates, sources, artifacts or the
length of a text. What an element can be (the rules over seven literals, say)
stays as `MCAlgorithms` defines it where the property names those sets.

Assumptions: the placeholders `NoRun`, `NoKey`, `NoDigest` are not members of
the sets they extend, `EventsLog` is an artifact name, bounds are naturals,
identifiers are finitely many and there is one (a log without events is
refused, `collection.py:278`), commands are among those the program has, and the
vulnerabilities of a dataset build are finitely many numbers (the order of their
ids), among them the two the instance has records of.
`OneProcess` is a hypothesis of the theorems that name it, not of the models.

*Only model-checked*: every liveness property (`RunsSettle`, `RestartSettles`,
`SmokeReports`, `CommandsEnd`, `GuestEnds`), because fairness and ENABLED are
beyond the prover. Every other property of a passing run is a theorem.

## 5. Where code and documents disagree

1. `agent_leak`: `_reconcile` records the row as failed before it writes the
   marker. Killed in between, the service starts again without an active row and
   without a marker, and serves with the VM alive
   (`docs/sandbox-supervisor-contract.md:40`).
2. `coordinator_lost`: when the reply to the submission is lost, the finally
   block has no `run_id` and requests nothing (`sandbox.py:278`,
   `docs/sandbox.md:57`). The agent destroys the VM when the run ends; the
   coordinator is only late to ask.
3. `stale_snapshot`: `save_sources_detailed` compares with the latest snapshot
   before its first INSERT takes the lock (`storage.py:143`). Another process may
   store a newer one in between, and the older then replaces it
   (`docs/collection.md:22`, `README.md:98`).

Met while modelling, described here without a run of their own:

* Two limits of the overlaps, found because the invariants above were not
  inductive. A resumed NVD window is paged from its own start, without the
  overlap (`collection.py:197-204`): when the window is narrower than the
  overlap, a change NVD shows late, before the window, is passed by
  the watermark. A truncated delta scan is continued from its own start, which
  is compared with the oldest event of the log without the overlap
  (`collection.py:286`): the log may have rolled past the overlap, but not
  past the checkpoint itself, so only the margin is lost. Both need an overlap
  larger than the steps of `collection`; TLC shows them with `Overlap` 2 and 3.
* Expired artifacts are removed only when the service starts
  (`docs/sandbox-deployment.md:65`), and the acceptance command first loads the
  record it is to renew, and refuses a stale one (`docs/sandbox-deployment.md:61`).
  After a lost first submission the smoke report says `sample_executed=false`
  where `docs/reproduction-smoke.md:45` promises `null`.
* `docs/embedding.md:61` says finished index batches survive an interruption;
  the whole index run is one transaction.
* `status()` lets the keys of the stored supervisor result hide the row's own
  status, so a coordinator may publish `succeeded` for a run the agent recorded
  as `failed`. When the destruction failed, the node is quarantined and nothing
  is released before a DELETE has confirmed it. But the worker may also have refused the artifacts, and they are
  validated again at each download: after the DELETE of another client has
  unlinked what was refused (rmtree keeps no order), or when the worker's own
  read had failed only once, they are released and published under the claim, on a
  node that serves. `canary_passed` may rest on such a run; `ReportsAgree` and
  `PassedMeansBothRan` say what holds all the same.
* `docs/retrieval.md:24` says that a vendor's own rule that cannot be explained
  answers unknown and is never an affected hit. A rule that names one version and has no
  bounds is passed over when that version does not compare (`search.py:143-147`),
  so the default status may answer `affected` (line 187); a change that does not
  compare is ignored once the rule has accepted the version (lines 171-182).
* `--until` is compared with nothing (`collection.py:192`). One that lies in the
  future sets the watermark there (`collection.py:258-262`): what NVD changes until
  then is behind it, and later runs, which start at the watermark less the
  overlap, never ask for it. A run without `--until` is refused until the
  clock has passed that start. No document promises anything else.
  A `--since` of the delta stream ahead of the clock steps over publications in the
  same way when its scan is cut short; that takes an overlap longer than the
  `--since` is ahead, so it is covered by `DeltaHolds` and not reached by the run.
* What finding 3 says of `collect` is true of `import` and of `attach-ocr` and
  `attach-vision` too, which save through the same function: the stored source
  may go back, and the canonical record with it, without two replacements that
  overlap.
* `trajectory-export` writes its files in place (`trajectories.py:204,221`): a kill
  leaves the one being written cut short, next to the manifest of the last export.
* A retry of a submission whose run was deleted is answered with the deleted run.
* `retry-collection` hands the item ids of every open failure to `collect_batch`;
  the `PAGE:` rows of `sync_nvd` are not identifiers, fail again, and are
  resolved only by another `sync`.
* `attach-ocr` keeps the source's update time, so fetching the same revision
  again overwrites the attached text.
* `enrich` saves its candidates and the canonical rows in two transactions.
* A docker batch that runs again into the same directory leaves the old manifest
  beside new inputs until it ends.
* Import of trajectories saves item by item; an export that fails half-way leaves
  new files beside old ones, with the old manifest; one unaccepted trajectory
  blocks both categories of the split.
* Maven order: `1.0-alpha` is above `1.0` (compare `docs/retrieval.md:24`);
  `_pep440` reads at most four numbers.
* Two clusters of components can end with one `entity_id`; a component joined by
  name whose identifiers contradict a later one's is reported with the later one.
* An overflow after the verdict gives `succeeded` with a truncated stream; a
  canary that ends between the deadline and the kill is `timed_out`.

## 6. Assumptions of the models

* The supervisor does not create a VM after its `run` process was killed with
  the service (`KillMode=control-group` in the unit), and a confirmed
  destruction is real.
* One agent process at a time uses a state directory.
* An AgentStore call either commits or leaves the row as it was; a disk that
  loses committed transactions is outside the model.
* Polls and downloads are one step of the composed model: the status, claim and
  key they read are final when they matter (`Lasting`); their own interleaving
  is in `SandboxAgent`.
* A reply reaches only the request it answers, as in TCP.
* A SQLite transaction is atomic, a reader sees committed rows only, and a writer
  that cannot have the lock in five seconds fails. Each statement of a command
  outside a transaction sees the rows committed when it runs.
* NVD shows a change within `Overlap` of its time; the clock does not go back.
* Records of equal version have equal description (`Pipeline`).
* `os.replace` is atomic; what a killed process left under a temporary name is
  not read by anyone.
* In the guest, a killed process group is dead once it was waited for; only a
  process that made its own session survives.

## 7. Not modelled, and why

* Collectors and parsers, formatting, HTML, dashboard and analytics, the read-only
  API: sequential computation on one read of the data, without order of events.
* Ranking, encoders, training of adapters, vision: numeric.
* HMAC, mTLS, bearer tokens and the content of attestations: a check that
  accepts or refuses, in the models a choice.
* The supervisor, guest kernel and Firecracker: not in the repository.
* `plan` and `fixture` modes of the smoke workflow: they submit nothing.
* Deployment scripts: file copies and read-only checks.
* PoC import and closure: one directory read into one transaction; a script that
  calls the other commands in order.
* The pages of `trajectory-export`, read without one snapshot; the wording of
  trajectory steps; quality scores and the alignment report of processing.
* Pacing and `Retry-After`: delays, not state.

## 8. Plan

Done: 1 `SandboxAgent`, 2 `SandboxNode` and `SandboxCoordinator`, 3
`SmokeWorkflow`, 4 `SourceStore` and `CollectionSync`, 5 `Pipeline`, 6 the
algorithms, 7 `GuestMonitor`, 8 publication of datasets and trajectories (in
`Pipeline`).

To come, most important first:

1. An abstract specification of a source copy (each change fetched or excused)
   and its refinement by the three streams of `CollectionSync`.
2. Ranges with changes: that the status after the latest change depends on the
   order in which a rule lists them only where two are at equal versions.
3. The pages of `trajectory-export` over a store that is written meanwhile.
