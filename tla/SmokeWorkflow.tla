---------------------------- MODULE SmokeWorkflow ----------------------------
(***************************************************************************)
(* The commissioning canary of vulntools/reproduction.py in its vm mode:    *)
(* smoke_workflow runs two harmless samples, one after the other, through   *)
(* run_in_vm, and writes a report of what was executed, destroyed and       *)
(* confirmed.  It sees the node only through _PinnedBackend, which remembers *)
(* the last run submitted and whether its destruction was confirmed.        *)
(*                                                                          *)
(* A nonce makes the two samples, and so their keys, unlike every other     *)
(* sample.  The steps of run_in_vm are those of SandboxCoordinator.         *)
(***************************************************************************)
EXTENDS SandboxCoordinator

CONSTANTS
    Canary,           \* the client that runs the workflow
    FirstKey, SecondKey

ASSUME SmokeAssumption ==
    Clients = {Canary} /\ MaxCommands = 2 /\ {FirstKey, SecondKey} \subseteq Keys /\ FirstKey # SecondKey

\* The report: its status ("none" until it is written), sample_executed
\* ("null" when unknown), the runs judged by check_canary and those it passed,
\* last_submission as _PinnedBackend knows it, and destruction_confirmed.
VARIABLE smoke

smokeVars == <<vars, smoke>>

Me == client[Canary]

SmokeInit ==
    /\ Init
    /\ smoke = [status |-> "none", executed |-> "false", passed |-> {}, judged |-> {},
                lastRun |-> NoRun, confirmed |-> FALSE]

Running == smoke.status = "none"

\* The except branch: what may have run is unknown once a submission returned.
Raise ==
    smoke' = [smoke EXCEPT !.status = "blocked_or_failed",
                           !.executed = IF smoke.lastRun = NoRun THEN @ ELSE "null"]

\* Capabilities, pins and preflight fail before any sample is submitted, or a
\* sample file changed on disk since the plan was written.
SmokeBlocked ==
    /\ Running
    /\ Me.pc = "idle" \/ (Me.pc = "published" /\ Me.command = 1 /\ smoke.judged # {})
    /\ Raise
    /\ UNCHANGED vars

SmokeStart(k) ==
    /\ Running
    /\ \/ k = FirstKey /\ Me.pc = "idle"
       \/ k = SecondKey /\ Me.pc = "published" /\ Me.command = 1 /\ smoke.judged # {}
    /\ Start(Canary, k)
    /\ UNCHANGED smoke

\* Mutant: the flag of the previous run is kept.
SmokeSubmitsKeeping ==
    /\ SubmitReturns(Canary)
    /\ smoke' = [smoke EXCEPT !.lastRun = Me.answer]

\* _PinnedBackend.submit.
SmokeSubmits ==
    /\ SubmitReturns(Canary)
    /\ smoke' = [smoke EXCEPT !.lastRun = Me.answer, !.confirmed = FALSE]

\* _PinnedBackend.destroy.
SmokeDestroys ==
    /\ DeleteReturns(Canary)
    /\ smoke' = [smoke EXCEPT !.confirmed = TRUE]

\* The steps of run_in_vm the pinned backend takes no note of.
SmokeRuns ==
    /\ \/ Preflight(Canary) \/ PreflightFails(Canary) \/ SubmitRaises(Canary)
       \/ WaitReturns(Canary) \/ WaitRaises(Canary) \/ Fetch(Canary) \/ FetchRaises(Canary)
       \/ DeleteRaises(Canary)
    /\ UNCHANGED smoke

\* Mutant: check_canary does not require the status succeeded.
MayPassAlways == TRUE
\* check_canary passes a run only when its status is succeeded; whether the
\* evidence shows the expected effect is decided by the guest.
MayPass == Me.seen = "succeeded"

\* run_in_vm returned: the run is judged.  Saving its report may raise.
SmokeJudges ==
    /\ Running /\ Me.pc = "published" /\ Me.run \notin smoke.judged
    /\ \/ \E pass \in {{}} \cup (IF MayPass THEN {{Me.run}} ELSE {}) :
             smoke' = [smoke EXCEPT !.executed = "true", !.judged = @ \cup {Me.run},
                                    !.passed = @ \cup pass]
       \/ Raise
    /\ UNCHANGED vars

\* run_in_vm raised.
SmokeFails ==
    /\ Running /\ Me.pc = "failed"
    /\ Raise
    /\ UNCHANGED vars

AllPassed == smoke.passed = smoke.judged /\ Cardinality(smoke.judged) = 2

\* Both samples were run: the verdict of the workflow.
SmokeConcludes ==
    /\ Running /\ Me.pc = "published" /\ Me.command = 2 /\ Me.run \in smoke.judged
    /\ smoke' = [smoke EXCEPT !.status = IF AllPassed THEN "canary_passed" ELSE "not_confirmed"]
    /\ UNCHANGED vars

SmokeStep ==
    \/ SmokeBlocked \/ SmokeStart(FirstKey) \/ SmokeStart(SecondKey)
    \/ Running /\ (SmokeSubmits \/ SmokeDestroys \/ SmokeRuns)
    \/ SmokeJudges \/ SmokeFails \/ SmokeConcludes

SmokeNext ==
    \/ SmokeStep
    \/ (NodeMoves \/ \E m \in requests : Serve(m)) /\ UNCHANGED smoke

SmokeSpec == SmokeInit /\ [][SmokeNext]_smokeVars

-----------------------------------------------------------------------------
(* Properties.                                                              *)

\* canary_passed (docs/reproduction-smoke.md) means two executions, one of each
\* sample, that the supervisor itself claimed to have succeeded and whose VMs are
\* gone.  The row of one may be a failure all the same: when the worker could not
\* read its artifacts, the claim in result_json hides that.
PassedMeansBothRan ==
    smoke.status = "canary_passed" =>
        \E first, second \in started :
            /\ keyOf[first] = FirstKey /\ keyOf[second] = SecondKey
            /\ \A r \in {first, second} :
                 claim[r] = "succeeded" /\ destroyed[r] /\ r \notin live

\* destruction_confirmed in the report of a failed workflow is true of the run
\* it names, and not of the run before it.
ConfirmationIsOfLastRun ==
    smoke.confirmed => destroyed[smoke.lastRun] /\ smoke.lastRun \notin live

\* The workflow is one thread over calls with timeouts and deadlines.
SmokeFairSpec == SmokeSpec /\ WF_smokeVars(SmokeStep)

\* The workflow always writes its report.
SmokeReports == <>(smoke.status # "none")

=============================================================================
