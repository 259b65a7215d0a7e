---------------------------- MODULE SandboxNode ----------------------------
(***************************************************************************)
(* The sandbox node as the clients of its HTTP API can observe it: one row  *)
(* per run, what a download would deliver, the quarantine, and the VMs.     *)
(* Threads, the pool, restarts and local failures are hidden: a step here   *)
(* is one change of a row, of a VM, of the artifacts or of the marker.      *)
(* SandboxAgent implements it; SandboxCoordinator is composed with it.      *)
(***************************************************************************)
EXTENDS FiniteSets

CONSTANTS Runs, Keys, NoKey

Terminal == {"succeeded", "failed"}
Active == {"queued", "running"}
Claims == Terminal \cup {"other", "none"}

VARIABLES
    status, destroyed, claim, keyOf,   \* the rows
    valid,                             \* runs whose artifacts pass _validate_artifacts
    quarantined,
    live,                              \* runs whose VM is alive
    started                            \* runs whose VM was started

rows == <<status, destroyed, claim, keyOf>>
node == <<rows, valid, quarantined, live, started>>

NodeTypeOK ==
    /\ status \in [Runs -> Terminal \cup Active \cup {"absent"}]
    /\ destroyed \in [Runs -> BOOLEAN]
    /\ claim \in [Runs -> Claims]
    /\ keyOf \in [Runs -> Keys \cup {NoKey}]
    /\ valid \subseteq Runs /\ live \subseteq Runs /\ started \subseteq Runs
    /\ quarantined \in BOOLEAN

NodeInit ==
    /\ status = [r \in Runs |-> "absent"]
    /\ destroyed = [r \in Runs |-> FALSE]
    /\ claim = [r \in Runs |-> "none"]
    /\ keyOf = [r \in Runs |-> NoKey]
    /\ valid = {} /\ live = {} /\ started = {}
    /\ quarantined = FALSE

\* Mutant: the key is not looked up before the row is inserted.
ReserveAlways(r, k) ==
    /\ status[r] = "absent"
    /\ status' = [status EXCEPT ![r] = "queued"]
    /\ keyOf' = [keyOf EXCEPT ![r] = k]
    /\ UNCHANGED <<destroyed, claim, valid, quarantined, live, started>>

\* A row is inserted for a key no row has.
Reserve(r, k) ==
    /\ status[r] = "absent"
    /\ \A q \in Runs : status[q] # "absent" => keyOf[q] # k
    /\ status' = [status EXCEPT ![r] = "queued"]
    /\ keyOf' = [keyOf EXCEPT ![r] = k]
    /\ UNCHANGED <<destroyed, claim, valid, quarantined, live, started>>

Begin(r) ==
    /\ status[r] = "queued"
    /\ status' = [status EXCEPT ![r] = "running"]
    /\ UNCHANGED <<destroyed, claim, keyOf, valid, quarantined, live, started>>

\* Mutant: a run whose VM was lost is executed again.
ExecuteAgain(r) ==
    /\ status[r] = "running"
    /\ started' = started \cup {r}
    /\ live' = live \cup {r}
    /\ UNCHANGED <<rows, valid, quarantined>>

\* A run is handed to the supervisor once.
Execute(r) ==
    /\ status[r] = "running" /\ r \notin started
    /\ started' = started \cup {r}
    /\ live' = live \cup {r}
    /\ UNCHANGED <<rows, valid, quarantined>>

\* Whether the artifacts of a run are acceptable depends on which are there.
Touch(r) == valid' \in {valid \cup {r}, valid \ {r}}

\* The supervisor writes artifacts.
Write(r) ==
    /\ status[r] = "running" /\ r \in started
    /\ Touch(r)
    /\ UNCHANGED <<rows, quarantined, live, started>>

Stop(r) ==
    /\ live' = live \ {r}
    /\ UNCHANGED <<rows, valid, quarantined, started>>

\* Mutant: the worker keeps the verdict of artifacts it refused.
CloseUnvalidated(r) ==
    \E verdict \in Terminal, said \in Claims, gone \in BOOLEAN :
        /\ status[r] = "running"
        /\ said # "none" => r \in started
        /\ verdict # "failed" => gone
        /\ IF gone THEN r \notin live ELSE quarantined
        /\ status' = [status EXCEPT ![r] = verdict]
        /\ claim' = [claim EXCEPT ![r] = said]
        /\ destroyed' = [destroyed EXCEPT ![r] = gone]
        /\ UNCHANGED <<keyOf, valid, quarantined, live, started>>

\* The worker closes its row.  An unconfirmed destruction is recorded as a
\* failure, and only on a quarantined node; artifacts it refuses, or cannot read,
\* make a failure of a claimed success; the claim is kept either way.
Close(r) ==
    \E verdict \in Terminal, said \in Claims, gone \in BOOLEAN :
        /\ status[r] = "running"
        /\ said # "none" => r \in started
        /\ verdict # "failed" => said = verdict /\ r \in valid /\ gone
        /\ IF gone THEN r \notin live ELSE quarantined
        /\ status' = [status EXCEPT ![r] = verdict]
        /\ claim' = [claim EXCEPT ![r] = said]
        /\ destroyed' = [destroyed EXCEPT ![r] = gone]
        /\ UNCHANGED <<keyOf, valid, quarantined, live, started>>

\* The reconciliation of a restart fails the row.
Recover(r) ==
    /\ status[r] \in Active
    /\ status' = [status EXCEPT ![r] = "failed"]
    /\ \/ UNCHANGED destroyed
       \/ r \notin live /\ destroyed' = [destroyed EXCEPT ![r] = TRUE]
    /\ UNCHANGED <<claim, keyOf, valid, quarantined, live, started>>

\* Mutant: the answer of the supervisor's destroy command is not checked.
ConfirmAssumed(r) ==
    /\ status[r] \in Terminal
    /\ destroyed' = [destroyed EXCEPT ![r] = TRUE]
    /\ UNCHANGED <<status, claim, keyOf, valid, quarantined, live, started>>

\* DELETE confirms the destruction of a finished run.
Confirm(r) ==
    /\ status[r] \in Terminal /\ r \notin live
    /\ destroyed' = [destroyed EXCEPT ![r] = TRUE]
    /\ UNCHANGED <<status, claim, keyOf, valid, quarantined, live, started>>

\* DELETE or the retention interval remove an artifact of a finished run: what is
\* left may be incomplete, or be acceptable now that what was refused is gone.
Remove(r) ==
    /\ status[r] \in Terminal /\ destroyed[r] /\ r \in started
    /\ Touch(r)
    /\ UNCHANGED <<rows, quarantined, live, started>>

Quarantine ==
    /\ quarantined' = TRUE
    /\ UNCHANGED <<rows, valid, live, started>>

\* The steps no client causes.
NodeStep ==
    \/ \E r \in Runs : \/ Begin(r) \/ Execute(r) \/ Write(r) \/ Stop(r)
                       \/ Close(r) \/ Recover(r) \/ Remove(r)
    \/ Quarantine

NodeNext ==
    \/ NodeStep
    \/ \E r \in Runs : (\E k \in Keys : Reserve(r, k)) \/ Confirm(r)

NodeSpec == NodeInit /\ [][NodeNext]_node

=============================================================================
