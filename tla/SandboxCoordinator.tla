------------------------- MODULE SandboxCoordinator -------------------------
(***************************************************************************)
(* Coordinators that run samples on a sandbox node: run_in_vm and           *)
(* HttpsVMBackend of vulntools/sandbox.py, composed with SandboxNode.  The  *)
(* Idempotency-Key of a submission is the digest of the request, so a key   *)
(* stands for a sample with its name and policy, and two commands for the   *)
(* same sample meet in the same run.                                        *)
(*                                                                          *)
(* Submissions and deletions travel as messages: one may be lost, its reply *)
(* may be lost, or it may be handled after the coordinator gave up waiting  *)
(* (20 s in _request).  Polls and downloads change nothing on the node and  *)
(* are one step.                                                            *)
(***************************************************************************)
EXTENDS SandboxNode, Naturals

CONSTANTS
    Clients,      \* coordinator processes
    MaxCommands,  \* bound: commands each of them is used for
    NoRun

ASSUME CoordinatorAssumption ==
    NoRun \notin Runs /\ NoKey \notin Keys /\ MaxCommands \in Nat

VARIABLES
    client,     \* one run_in_vm per client
    requests,   \* submissions and deletions not yet handled
    \* history: what happened, never read by an action
    accepted,   \* runs a command's submission led to while the command waited for it
    asked,      \* runs a command requested the destruction of
    published   \* reports returned

journal == <<accepted, asked, published>>
vars == <<node, client, requests, journal>>

Ended == {"published", "failed"}
Pcs == {"idle", "capabilities", "submitting", "waiting", "fetching", "deleting"} \cup Ended

IdleClient == [pc |-> "idle", command |-> 0, key |-> NoKey, run |-> NoRun,
               seen |-> "none", report |-> FALSE, reply |-> "none", answer |-> NoRun]

ClientState ==
    [pc : Pcs, command : 0..MaxCommands, key : Keys \cup {NoKey}, run : Runs \cup {NoRun},
     seen : Terminal \cup {"none"}, report : BOOLEAN,
     reply : {"none", "ok", "error"}, answer : Runs \cup {NoRun}]

Command == [from : Clients, command : 1..MaxCommands]
Submission == [kind : {"submit"}, from : Clients, command : 1..MaxCommands, key : Keys]
Deletion == [kind : {"delete"}, from : Clients, command : 1..MaxCommands, run : Runs]

TypeOK ==
    /\ NodeTypeOK
    /\ client \in [Clients -> ClientState]
    /\ requests \subseteq Submission \cup Deletion
    /\ accepted \subseteq Command \X Runs
    /\ asked \subseteq Command \X Runs
    /\ published \subseteq [from : Clients, command : 1..MaxCommands, key : Keys, run : Runs, status : Terminal]

Init ==
    /\ NodeInit
    /\ client = [c \in Clients |-> IdleClient]
    /\ requests = {}
    /\ accepted = {} /\ asked = {} /\ published = {}

Current(c) == [from |-> c, command |-> client[c].command]

-----------------------------------------------------------------------------
(* The node's HTTP handlers.                                                *)

\* The connection of a command that no longer waits is closed: its reply is lost.
Awaits(c, m) ==
    /\ client[c].command = m.command
    /\ client[c].pc = IF m.kind = "submit" THEN "submitting" ELSE "deleting"

Accept(m, r) ==
    accepted' = IF Awaits(m.from, m)
                THEN accepted \cup {<<[from |-> m.from, command |-> m.command], r>>}
                ELSE accepted

Reply(m, reply, answer) ==
    /\ requests' = requests \ {m}
    /\ client' = IF Awaits(m.from, m)
                 THEN [client EXCEPT ![m.from].reply = reply, ![m.from].answer = answer]
                 ELSE client

\* POST answered with an error before a row is touched: quarantine, acceptance
\* record, validation, digest conflict.  The agent checks these before it
\* reserves, in a step of its own, so they are a choice here.
SubmitRefused(m) ==
    /\ Reply(m, "error", NoRun)
    /\ UNCHANGED <<node, journal>>

\* Mutant: the row is not looked up by the key of the request.
SubmitKnownAny(m) ==
    \E r \in Runs :
        /\ status[r] # "absent"
        /\ Reply(m, "ok", r)
        /\ Accept(m, r)
        /\ UNCHANGED <<node, asked, published>>

\* POST for a known key is answered with its run.
SubmitKnown(m) ==
    \E r \in Runs :
        /\ status[r] # "absent" /\ keyOf[r] = m.key
        /\ Reply(m, "ok", r)
        /\ Accept(m, r)
        /\ UNCHANGED <<node, asked, published>>

\* POST for a new key; staging the sample may fail after the row is inserted.
SubmitReserved(m) ==
    \E r \in Runs, reply \in {"ok", "error"} :
        /\ Reserve(r, m.key)
        /\ Reply(m, reply, r)
        /\ Accept(m, r)
        /\ UNCHANGED <<asked, published>>

\* DELETE of a queued or running run is answered 503.
DeleteRefused(m) ==
    /\ status[m.run] \in Active
    /\ Reply(m, "error", NoRun)
    /\ UNCHANGED <<node, journal>>

\* The supervisor confirms, and the row is updated ...
DeleteConfirms(m) ==
    /\ ~destroyed[m.run]
    /\ Confirm(m.run)
    /\ UNCHANGED <<client, requests, journal>>

\* ... or it does not: the node is quarantined and the answer is 503.
DeleteFails(m) ==
    /\ status[m.run] \in Terminal /\ ~destroyed[m.run]
    /\ Quarantine
    /\ Reply(m, "error", NoRun)
    /\ UNCHANGED journal

\* The artifacts have been removed (Remove, one after the other), as far as they
\* can be, and the answer is destroyed: true; the audit insert before it may fail
\* (500).
DeleteRemoves(m) ==
    \E reply \in {"ok", "error"} :
        /\ status[m.run] \in Terminal /\ destroyed[m.run]
        /\ Reply(m, reply, NoRun)
        /\ UNCHANGED <<node, journal>>

\* The request never reaches the node.
RequestLost(m) ==
    /\ requests' = requests \ {m}
    /\ UNCHANGED <<node, client, journal>>

Serve(m) ==
    \/ RequestLost(m)
    \/ m.kind = "submit" /\ (SubmitRefused(m) \/ SubmitKnown(m) \/ SubmitReserved(m))
    \/ m.kind = "delete" /\ (DeleteRefused(m) \/ DeleteConfirms(m) \/ DeleteFails(m) \/ DeleteRemoves(m))

-----------------------------------------------------------------------------
(* run_in_vm.                                                               *)

\* A command starts; its sample is read and hashed.
Start(c, k) ==
    /\ client[c].pc \in {"idle"} \cup Ended
    /\ client[c].command < MaxCommands
    /\ client' = [client EXCEPT ![c] = [IdleClient EXCEPT
                      !.pc = "capabilities", !.command = client[c].command + 1, !.key = k]]
    /\ UNCHANGED <<node, requests, journal>>

\* GET /v1/capabilities, attestation and preflight; the submission is sent.
Preflight(c) ==
    /\ client[c].pc = "capabilities"
    /\ ~quarantined
    /\ client' = [client EXCEPT ![c].pc = "submitting"]
    /\ requests' = requests \cup {[kind |-> "submit", from |-> c, command |-> client[c].command,
                                   key |-> client[c].key]}
    /\ UNCHANGED <<node, journal>>

\* No answer, an attestation that is not valid, or a node that is not ready.
PreflightFails(c) ==
    /\ client[c].pc = "capabilities"
    /\ client' = [client EXCEPT ![c].pc = "failed"]
    /\ UNCHANGED <<node, requests, journal>>

SubmitReturns(c) ==
    /\ client[c].pc = "submitting" /\ client[c].reply = "ok"
    /\ client' = [client EXCEPT ![c].pc = "waiting", ![c].run = client[c].answer,
                      ![c].reply = "none", ![c].answer = NoRun]
    /\ UNCHANGED <<node, requests, journal>>

\* An error status, a lost reply or the 20 s timeout: submit raises before
\* run_id is assigned, so the finally block has nothing to destroy.
SubmitRaises(c) ==
    /\ client[c].pc = "submitting"
    /\ client' = [client EXCEPT ![c].pc = "failed", ![c].reply = "none", ![c].answer = NoRun]
    /\ UNCHANGED <<node, requests, journal>>

\* The finally block, with or without a report: DELETE is sent.
Cleanup(c, state) ==
    /\ client' = [client EXCEPT ![c] = [state EXCEPT !.pc = "deleting"]]
    /\ requests' = requests \cup {[kind |-> "delete", from |-> c, command |-> state.command, run |-> state.run]}
    /\ asked' = asked \cup {<<Current(c), state.run>>}
    /\ UNCHANGED <<node, accepted, published>>

\* The JSON of GET /v1/runs/<run>: the keys of result_json replace the row's.
View(r) == IF claim[r] = "none" THEN status[r] ELSE claim[r]

\* A poll that finds a terminal status.
WaitReturns(c) ==
    /\ client[c].pc = "waiting"
    /\ View(client[c].run) \in Terminal
    /\ client' = [client EXCEPT ![c].pc = "fetching", ![c].seen = View(client[c].run)]
    /\ UNCHANGED <<node, requests, journal>>

\* Mutant: a poll is repeated without a deadline while the run is active.
WaitRaisesOnlyWhenInvalid(c) ==
    /\ client[c].pc = "waiting"
    /\ View(client[c].run) \notin Active
    /\ Cleanup(c, client[c])

\* A failed request, an answer about another run, a status that is neither
\* active nor terminal, or the deadline.
WaitRaises(c) ==
    /\ client[c].pc = "waiting"
    /\ Cleanup(c, client[c])

\* Mutant: the agent serves artifacts it did not validate.
DownloadableUnchecked(r) == status[r] \in Terminal /\ destroyed[r]
\* What GET /v1/runs/<run>/artifacts requires.
Downloadable(r) == status[r] \in Terminal /\ destroyed[r] /\ r \in valid

\* The artifacts are downloaded and analysed, the report is built.
Fetch(c) ==
    /\ client[c].pc = "fetching"
    /\ Downloadable(client[c].run)
    /\ Cleanup(c, [client[c] EXCEPT !.report = TRUE])

\* The request fails, or artifacts, events or sizes are refused.
FetchRaises(c) ==
    /\ client[c].pc = "fetching"
    /\ Cleanup(c, client[c])

\* DELETE is confirmed: with a report, the artifacts are written to the output
\* directory and the report is returned; writing may fail half-way.
DeleteReturns(c) ==
    LET s == client[c]
        report == [from |-> c, command |-> s.command, key |-> s.key, run |-> s.run, status |-> s.seen] IN
    /\ s.pc = "deleting" /\ s.reply = "ok"
    /\ published' = IF s.report THEN published \cup {report} ELSE published
    /\ client' \in {[client EXCEPT ![c].pc = end, ![c].reply = "none"] :
                        end \in IF s.report THEN Ended ELSE {"failed"}}
    /\ UNCHANGED <<node, requests, accepted, asked>>

\* No confirmation: the command fails and publishes nothing.
DeleteRaises(c) ==
    /\ client[c].pc = "deleting"
    /\ client' = [client EXCEPT ![c].pc = "failed", ![c].reply = "none"]
    /\ UNCHANGED <<node, requests, journal>>

Coordinator(c) ==
    \/ Preflight(c) \/ PreflightFails(c) \/ SubmitReturns(c) \/ SubmitRaises(c)
    \/ WaitReturns(c) \/ WaitRaises(c) \/ Fetch(c) \/ FetchRaises(c)
    \/ DeleteReturns(c) \/ DeleteRaises(c)

NodeMoves == NodeStep /\ UNCHANGED <<client, requests, journal>>

Next ==
    \/ \E c \in Clients : (\E k \in Keys : Start(c, k)) \/ Coordinator(c)
    \/ \E m \in requests : Serve(m)
    \/ NodeMoves

Spec == Init /\ [][Next]_vars

-----------------------------------------------------------------------------
(* Safety.                                                                  *)

\* A report, and with it the artifacts, is published only when the VM of its run
\* is destroyed and known to be, whatever other commands, late deletions and
\* restarts of the node do to the run (sandbox.py:315-329).
PublishedAfterDestruction ==
    \A p \in published : destroyed[p.run] /\ p.run \notin live

\* A published report is about an execution of the sample that was submitted,
\* even when the replies of the client's earlier commands arrive late.
PublishedOwnExecution ==
    \A p \in published : keyOf[p.run] = p.key /\ p.run \in started

\* Commands that are repeated because a reply was lost, and commands that run
\* the same sample at the same time, share one execution.
OneExecutionPerSample ==
    \A k \in Keys : Cardinality({r \in started : keyOf[r] = k}) <= 1

\* All reports about a run agree, whichever commands share it and whenever they
\* polled, downloaded and deleted it.  A run the worker recorded as a success is
\* reported as one; only a failure may be reported as what the supervisor claimed
\* (status() lets result_json hide the row's status, sandbox_agent.py:475-482).
ReportsAgree ==
    /\ \A p, q \in published : p.run = q.run => p.status = q.status
    /\ \A p \in published :
         p.status = status[p.run] \/ (status[p.run] = "failed" /\ p.status = claim[p.run])

\* sandbox.py:278 "always request VM destruction", docs/sandbox.md: the
\* coordinator requests the destruction of the VM on every path, of success and
\* of failure.  A command that has ended has asked it for the run it caused.
AlwaysRequestsDestruction ==
    \A e \in accepted :
        (client[e[1].from].pc \in Ended /\ Current(e[1].from) = e[1]) => e \in asked

\* Of a run, a coordinator never publishes more than the abstract specification
\* of a disposable run releases.
StageOf(r) ==
    CASE status[r] = "absent" -> "unknown"
      [] status[r] \in Terminal -> "finished"
      [] status[r] \in Active /\ r \notin started -> "accepted"
      [] status[r] \in Active /\ r \in started -> "executed"

Promise == INSTANCE DisposableRuns WITH
    stage <- [r \in Runs |-> StageOf(r)],
    gone <- destroyed,
    released <- {p.run : p \in published}

\* The node and its coordinators together implement DisposableRuns.
ImplementsDisposableRuns == Promise!Spec

=============================================================================
