------------------------- MODULE SmokeWorkflowProofs -------------------------
(***************************************************************************)
(* Proofs about SmokeWorkflow.  The workflow is a client of the node, so    *)
(* CInv holds of it; SmokeInv adds what the report may say: which of the    *)
(* two commands is in progress, which deletions were asked for, and what is *)
(* known of a run that was judged.  A success that check_canary reads is    *)
(* the supervisor's claim, whatever the row says.                           *)
(***************************************************************************)
EXTENDS SmokeWorkflow, SandboxCoordinatorProofs

SmokeTypeOK ==
    smoke \in [status : {"none", "blocked_or_failed", "canary_passed", "not_confirmed"},
               executed : {"false", "true", "null"},
               passed : SUBSET Runs, judged : SUBSET Runs,
               lastRun : Runs \cup {NoRun}, confirmed : BOOLEAN]

KeyOfCommand(n) == IF n = 1 THEN FirstKey ELSE SecondKey

\* The first command runs the first sample, the second the second.
CommandInv ==
    /\ Me.pc = "idle" => Me.command = 0
    /\ Me.pc # "idle" => Me.command \in {1, 2} /\ Me.key = KeyOfCommand(Me.command)

\* The destructions asked for are of runs of this or the previous command, and a
\* deletion in flight is one of them.
AskedInv ==
    /\ \A e \in asked :
         /\ e[1].from = Canary /\ e[1].command \in 1..Me.command
         /\ status[e[2]] # "absent" /\ keyOf[e[2]] = KeyOfCommand(e[1].command)
         /\ e[1].command = Me.command => Me.pc \in {"deleting"} \cup Ended /\ e[2] = Me.run
    /\ \A m \in requests : m.kind = "delete" => <<[from |-> m.from, command |-> m.command], m.run>> \in asked

\* What run_in_vm has established of a run it reports.
Reported(r, key) == r \in started /\ destroyed[r] /\ keyOf[r] = key

EvidenceInv ==
    Me.pc = "published" \/ (Me.pc = "deleting" /\ Me.report) =>
        /\ Me.run \in Runs /\ Reported(Me.run, Me.key)
        /\ Me.seen = "succeeded" => claim[Me.run] = "succeeded"

JudgedInv ==
    /\ smoke.passed \subseteq smoke.judged
    /\ \A r \in smoke.judged : Reported(r, FirstKey) \/ Reported(r, SecondKey)
    /\ \A r \in smoke.passed : claim[r] = "succeeded"
    /\ smoke.status = "canary_passed" => AllPassed

\* _PinnedBackend's last submission is the run in progress, and what it says of its
\* destruction is true.
LastInv ==
    /\ Running /\ Me.pc \in {"waiting", "fetching", "deleting"} => smoke.lastRun = Me.run
    /\ Me.pc = "deleting" /\ Me.reply = "ok" => destroyed[Me.run]
    /\ smoke.confirmed => smoke.lastRun \in Runs /\ destroyed[smoke.lastRun]

\* The inductive invariant of the workflow and the node it runs on.
SmokeInv ==
    /\ CInv
    /\ SmokeTypeOK /\ CommandInv /\ AskedInv
    /\ EvidenceInv /\ JudgedInv /\ LastInv

-----------------------------------------------------------------------------
USE DEF Terminal, Active, Claims, Ended, Pcs, rows, node, journal

\* The canary is a coordinator like any other: each step of the workflow is a step
\* of the coordinators and the node, or changes nothing of them.
LEMMA SmokeIsACoordinator == SmokeNext => [Next]_vars
<1>1. Canary \in Clients /\ FirstKey \in Keys /\ SecondKey \in Keys
  BY SmokeAssumption
<1>2. \A k \in Keys : SmokeStart(k) => Next
  BY <1>1 DEF SmokeStart, Next
<1>3. SmokeSubmits \/ SmokeDestroys \/ SmokeRuns => Coordinator(Canary)
  BY DEF SmokeSubmits, SmokeDestroys, SmokeRuns, Coordinator
<1>4. SmokeBlocked \/ SmokeJudges \/ SmokeFails \/ SmokeConcludes => UNCHANGED vars
  BY DEF SmokeBlocked, SmokeJudges, SmokeFails, SmokeConcludes
<1> QED
  BY <1>1, <1>2, <1>3, <1>4 DEF SmokeNext, SmokeStep, Next

\* What CInv says of the canary.
LEMMA CanaryFacts ==
  ASSUME CInv
  PROVE  /\ TypeOK /\ Canary \in Clients /\ Me \in ClientState /\ ClientInv(Canary)
         /\ \A r \in Runs : RunInv(r)
  BY SmokeAssumption DEF CInv, TypeOK, Me

\* A run the workflow reports stays what it is.
LEMMA ReportedLasts ==
  ASSUME CInv, Lasting, NEW r \in Runs, NEW k, Reported(r, k)
  PROVE  Reported(r, k)' /\ (claim[r] = "succeeded" => claim'[r] = "succeeded")
  BY CanaryFacts DEF Reported, RunInv, Lasting

-----------------------------------------------------------------------------
(* The steps of the node.                                                   *)

\* A step of the node tells the canary at most that the destruction it asked for is
\* confirmed, and what the workflow knows of its runs lasts.
LEMMA NodeSide ==
  ASSUME SmokeInv, Lasting, smoke' = smoke, asked' = asked, requests' \subseteq requests,
         Me'.pc = Me.pc, Me'.command = Me.command, Me'.key = Me.key, Me'.run = Me.run,
         Me'.seen = Me.seen, Me'.report = Me.report,
         Me.pc = "deleting" /\ Me'.reply = "ok" => Me.reply = "ok" \/ destroyed[Me.run],
         CInv'
  PROVE  SmokeInv'
<1>1. /\ CInv /\ SmokeTypeOK /\ CommandInv /\ AskedInv /\ EvidenceInv /\ JudgedInv /\ LastInv
      /\ Me \in ClientState /\ ClientInv(Canary) /\ \A r \in Runs : RunInv(r)
  BY CanaryFacts DEF SmokeInv
<1>2. SmokeTypeOK' /\ CommandInv'
  BY <1>1 DEF SmokeTypeOK, CommandInv
<1>3. AskedInv'
  <2>1. \A e \in asked : e[2] \in Runs
    BY <1>1 DEF CInv, TypeOK
  <2>2. \A e \in asked : status'[e[2]] # "absent" /\ keyOf'[e[2]] = keyOf[e[2]]
    BY <1>1, <2>1 DEF AskedInv, Lasting
  <2> QED
    BY <1>1, <2>2 DEF AskedInv
<1>4. EvidenceInv'
  <2>1. CASE Me.pc = "published" \/ (Me.pc = "deleting" /\ Me.report)
    BY <1>1, <2>1, ReportedLasts DEF EvidenceInv
  <2>2. CASE ~(Me.pc = "published" \/ (Me.pc = "deleting" /\ Me.report))
    BY <2>2 DEF EvidenceInv
  <2> QED
    BY <2>1, <2>2
<1>5. JudgedInv'
  <2>1. smoke.judged \subseteq Runs
    BY <1>1 DEF SmokeTypeOK
  <2>2. \A r \in smoke.judged : (Reported(r, FirstKey) \/ Reported(r, SecondKey))'
    BY <1>1, <2>1, ReportedLasts DEF JudgedInv
  <2>3. \A r \in smoke.passed : claim'[r] = "succeeded"
    BY <1>1, <2>1, ReportedLasts DEF JudgedInv
  <2> QED
    BY <1>1, <2>2, <2>3 DEF JudgedInv, AllPassed
<1>6. LastInv'
  <2>1. Me.pc = "deleting" => Me.run \in Runs
    BY <1>1 DEF ClientInv, Me
  <2>2. \A r \in Runs : destroyed[r] => destroyed'[r]
    BY DEF Lasting
  <2> QED
    BY <1>1, <2>1, <2>2 DEF LastInv, Running
<1> QED
  BY <1>2, <1>3, <1>4, <1>5, <1>6 DEF SmokeInv

\* An answer reaches the canary only when it waits for it.
LEMMA AnswerSeen ==
  ASSUME SmokeInv, NEW m \in requests, NEW reply \in {"ok", "error"}, NEW r \in Runs \cup {NoRun},
         Reply(m, reply, r)
  PROVE  /\ requests' \subseteq requests
         /\ Me'.pc = Me.pc /\ Me'.command = Me.command /\ Me'.key = Me.key /\ Me'.run = Me.run
         /\ Me'.seen = Me.seen /\ Me'.report = Me.report
         /\ Me.pc = "deleting" /\ Me'.reply = "ok" =>
              Me.reply = "ok" \/ (reply = "ok" /\ m.kind # "submit" /\ m.command = Me.command)
<1>1. TypeOK /\ Me \in ClientState /\ m.from = Canary
  BY CanaryFacts, MessagesTyped, SmokeAssumption DEF SmokeInv, TypeOK
<1>2. \/ client'[Canary] = client[Canary]
      \/ /\ Awaits(Canary, m)
         /\ client'[Canary] = [client[Canary] EXCEPT !.reply = reply, !.answer = r]
  BY <1>1, CanaryFacts DEF SmokeInv, Reply, TypeOK
<1>3. requests' \subseteq requests
  BY DEF Reply
<1> QED
  BY <1>1, <1>2, <1>3 DEF Me, Awaits, ClientState

\* A deletion in flight is of a run that was asked for, and of the canary's run when
\* it is of the canary's command.
LEMMA DeletionsAsked ==
  ASSUME SmokeInv, NEW m \in requests, m.kind = "delete"
  PROVE  /\ m.run \in Runs /\ \E e \in asked : e[2] = m.run
         /\ m.command = Me.command => m.run = Me.run
<1>1. AskedInv /\ m.run \in Runs
  BY CanaryFacts, MessagesTyped DEF SmokeInv, CInv, TypeOK
<1> DEFINE e == <<[from |-> m.from, command |-> m.command], m.run>>
<1>2. e \in asked
  BY <1>1 DEF AskedInv
<1>3. e[2] = m.run /\ e[1].command = m.command
  OBVIOUS
<1>. HIDE DEF e
<1> QED
  BY <1>1, <1>2, <1>3 DEF AskedInv

\* The steps of the node on its own, and every handler of it.
LEMMA NodePreservesSmoke ==
  ASSUME SmokeInv, CInv', smoke' = smoke, NodeMoves \/ \E m \in requests : Serve(m)
  PROVE  SmokeInv'
<1>1. CInv /\ TypeOK /\ NodeTypeOK /\ KeysUnique /\ (\A r \in Runs : RunInv(r))
  BY CanaryFacts DEF SmokeInv, CInv, TypeOK
<1>2. CASE NodeMoves
  <2>1. NodeStep /\ client' = client /\ requests' = requests /\ asked' = asked
    BY <1>2 DEF NodeMoves
  <2>2. Lasting
    BY <1>1, <2>1, NodeKeeps
  <2> QED
    BY <2>1, <2>2, NodeSide DEF Me
<1>3. ASSUME NEW m \in requests, UNCHANGED node \/ Quarantine, asked' = asked,
             NEW r \in Runs \cup {NoRun}, NEW reply \in {"ok", "error"}, Reply(m, reply, r),
             m.kind = "submit" \/ reply = "error"
      PROVE  SmokeInv'
  <2>1. NodeStep \/ UNCHANGED node
    BY <1>3 DEF NodeStep
  <2>2. Lasting
    BY <1>1, <2>1, NodeKeeps
  <2> QED
    BY <1>3, <2>2, AnswerSeen, NodeSide
<1>4. ASSUME NEW m \in requests, Serve(m) PROVE SmokeInv'
  <2>0. (m.kind = "submit" => m.key \in Keys) /\ (m.kind = "delete" => m.run \in Runs)
    BY <1>1, MessagesTyped DEF TypeOK
  <2>1. CASE RequestLost(m)
    <3>1. UNCHANGED node /\ client' = client /\ requests' \subseteq requests /\ asked' = asked
      BY <2>1 DEF RequestLost
    <3>2. Lasting
      BY <1>1, <3>1, NodeKeeps
    <3> QED
      BY <3>1, <3>2, NodeSide DEF Me
  <2>2. CASE m.kind = "submit" /\ SubmitRefused(m)
    BY <1>3, <2>2 DEF SubmitRefused
  <2>3. CASE m.kind = "submit" /\ SubmitKnown(m)
    BY <1>3, <2>3 DEF SubmitKnown
  <2>4. CASE m.kind = "submit" /\ SubmitReserved(m)
    <3>1. PICK r \in Runs, reply \in {"ok", "error"} :
            Reserve(r, m.key) /\ Reply(m, reply, r) /\ asked' = asked
      BY <2>4 DEF SubmitReserved
    <3>2. \E q \in Runs, k \in Keys : Reserve(q, k)
      BY <2>0, <2>4, <3>1
    <3>3. Lasting
      BY <1>1, <3>2, NodeKeeps
    <3> QED
      BY <2>4, <3>1, <3>3, AnswerSeen, NodeSide
  <2>5. CASE m.kind = "delete" /\ DeleteRefused(m)
    BY <1>3, <2>5 DEF DeleteRefused
  <2>6. CASE m.kind = "delete" /\ DeleteConfirms(m)
    <3>1. Confirm(m.run) /\ client' = client /\ requests' = requests /\ asked' = asked
      BY <2>6 DEF DeleteConfirms
    <3>2. Lasting
      BY <1>1, <2>0, <2>6, <3>1, NodeKeeps
    <3> QED
      BY <3>1, <3>2, NodeSide DEF Me
  <2>7. CASE m.kind = "delete" /\ DeleteFails(m)
    BY <1>3, <2>7 DEF DeleteFails
  <2>8. CASE m.kind = "delete" /\ DeleteRemoves(m)
    <3>1. PICK reply \in {"ok", "error"} : Reply(m, reply, NoRun) /\ asked' = asked /\ UNCHANGED node
      BY <2>8 DEF DeleteRemoves
    <3>2. destroyed[m.run] /\ Lasting
      BY <1>1, <2>8, <3>1, NodeKeeps DEF DeleteRemoves
    <3> QED
      BY <2>8, <3>1, <3>2, AnswerSeen, DeletionsAsked, NodeSide
  <2> QED
    BY <1>4, <2>1, <2>2, <2>3, <2>4, <2>5, <2>6, <2>7, <2>8 DEF Serve
<1> QED
  BY <1>2, <1>4

-----------------------------------------------------------------------------
(* The steps of the canary.                                                 *)

\* The canary's record after a step that only moves it.
LEMMA CanaryMoves ==
  ASSUME CInv, NEW s \in ClientState, client' = [client EXCEPT ![Canary] = s]
  PROVE  Me' = s
  BY CanaryFacts DEF TypeOK, Me

\* A step of the canary that asks for no destruction keeps what is known of those
\* asked for, and what the workflow knows of its runs.
LEMMA QuietStep ==
  ASSUME SmokeInv, CInv', UNCHANGED <<node, asked>>, NEW s \in ClientState, Me' = s,
         \A m \in requests' : m \in requests \/ m.kind = "submit",
         smoke'.judged = smoke.judged, smoke'.passed = smoke.passed, smoke'.status = smoke.status,
         SmokeTypeOK', LastInv', EvidenceInv', s.pc # "idle",
         \/ /\ Me.pc # "idle" /\ s.command = Me.command /\ s.key = Me.key /\ s.run = Me.run
            /\ Me.pc \in {"deleting"} \cup Ended => s.pc \in {"deleting"} \cup Ended
         \/ /\ Me.pc \in {"capabilities", "submitting", "waiting"}
            /\ s.command = Me.command /\ s.key = Me.key
         \/ /\ s.command = Me.command + 1 /\ s.command \in {1, 2} /\ s.key = KeyOfCommand(s.command)
  PROVE  SmokeInv'
<1>1. /\ CInv /\ CommandInv /\ AskedInv /\ JudgedInv
      /\ Me \in ClientState /\ ClientInv(Canary)
  BY CanaryFacts DEF SmokeInv
<1>2. CommandInv'
  BY <1>1 DEF CommandInv
<1>3. AskedInv'
  <2>1. Me.command \in Nat /\ s.command \in Nat /\ Me.command <= s.command
    BY <1>1, CoordinatorAssumption DEF ClientState
  <2>2. ASSUME NEW e \in asked
        PROVE  /\ e[1].from = Canary /\ e[1].command \in 1..s.command
               /\ status'[e[2]] # "absent" /\ keyOf'[e[2]] = KeyOfCommand(e[1].command)
               /\ e[1].command = s.command => s.pc \in {"deleting"} \cup Ended /\ e[2] = s.run
    <3>1. /\ e[1].from = Canary /\ e[1].command \in 1..Me.command
          /\ status[e[2]] # "absent" /\ keyOf[e[2]] = KeyOfCommand(e[1].command)
          /\ e[1].command = Me.command => Me.pc \in {"deleting"} \cup Ended /\ e[2] = Me.run
      BY <1>1 DEF AskedInv
    <3>2. e[1].command \in 1..s.command
      BY <2>1, <3>1
    <3>3. e[1].command = s.command => s.pc \in {"deleting"} \cup Ended /\ e[2] = s.run
      BY <2>1, <3>1
    <3> QED
      BY <3>1, <3>2, <3>3
  <2>3. \A m \in requests' : m.kind = "delete" => m \in requests
    OBVIOUS
  <2> QED
    BY <1>1, <2>2, <2>3 DEF AskedInv
<1>4. JudgedInv'
  BY <1>1 DEF JudgedInv, Reported, AllPassed
<1> QED
  BY <1>2, <1>3, <1>4 DEF SmokeInv

\* A command begins: the canary knows nothing of its run yet.
LEMMA StartPreservesSmoke ==
  ASSUME SmokeInv, CInv', NEW k \in {FirstKey, SecondKey}, SmokeStart(k)
  PROVE  SmokeInv'
<1> DEFINE s == [IdleClient EXCEPT !.pc = "capabilities", !.command = Me.command + 1, !.key = k]
<1>1. CInv /\ CommandInv /\ SmokeTypeOK /\ LastInv /\ Me \in ClientState
  BY CanaryFacts DEF SmokeInv
<1>2. /\ Me.command + 1 \in {1, 2} /\ k = KeyOfCommand(Me.command + 1) /\ smoke' = smoke
  BY <1>1, SmokeAssumption DEF SmokeStart, CommandInv, KeyOfCommand
<1>3. UNCHANGED <<node, requests, journal>> /\ client' = [client EXCEPT ![Canary] = s]
  BY DEF SmokeStart, Start, Me
<1>4. s \in ClientState
  <2> DEFINE n == Me.command + 1
  <2>1. n \in 0..MaxCommands /\ k \in Keys /\ "capabilities" \in Pcs
    BY <1>2, SmokeAssumption
  <2>. HIDE DEF n
  <2>2. [IdleClient EXCEPT !.pc = "capabilities", !.command = n, !.key = k] \in ClientState
    BY <2>1, StartTyped
  <2> QED
    BY <2>2 DEF n
<1>5. Me' = s
  BY <1>1, <1>3, <1>4, CanaryMoves
<1>6. s.pc = "capabilities" /\ s.command = Me.command + 1 /\ s.key = k
  BY DEF IdleClient
<1>. HIDE DEF s
<1>7. EvidenceInv' /\ LastInv' /\ SmokeTypeOK'
  BY <1>1, <1>2, <1>3, <1>5, <1>6 DEF EvidenceInv, LastInv, SmokeTypeOK
<1> QED
  BY <1>2, <1>3, <1>4, <1>5, <1>6, <1>7, QuietStep

\* The steps of run_in_vm before a run is known, and the failures of a command.
LEMMA MovePreservesSmoke ==
  ASSUME SmokeInv, CInv', smoke' = smoke,
         \/ Preflight(Canary) \/ PreflightFails(Canary) \/ SubmitRaises(Canary)
         \/ WaitReturns(Canary) \/ DeleteRaises(Canary)
  PROVE  SmokeInv'
<1>1. /\ CInv /\ SmokeTypeOK /\ LastInv /\ Me \in ClientState /\ ClientInv(Canary)
      /\ Me = client[Canary]
  BY CanaryFacts DEF SmokeInv, Me
<1>2. UNCHANGED <<node, asked>> /\ \A m \in requests' : m \in requests \/ m.kind = "submit"
  BY DEF Preflight, PreflightFails, SubmitRaises, WaitReturns, DeleteRaises
<1>3. ASSUME NEW s \in ClientState, client' = [client EXCEPT ![Canary] = s],
             s.command = Me.command, s.key = Me.key, s.run = Me.run,
             Me.pc \notin {"idle"} \cup Ended,
             \/ s.pc = "failed"
             \/ s.pc \in {"submitting", "fetching"} /\ Me.pc \in {"capabilities", "waiting"},
             s.pc = "fetching" => Me.pc = "waiting"
      PROVE  SmokeInv'
  <2>1. Me' = s
    BY <1>1, <1>3, CanaryMoves
  <2>2. EvidenceInv' /\ LastInv' /\ SmokeTypeOK'
    BY <1>1, <1>2, <1>3, <2>1 DEF EvidenceInv, LastInv, SmokeTypeOK, Running
  <2> QED
    BY <1>2, <1>3, <2>1, <2>2, QuietStep
<1>4. CASE Preflight(Canary)
  <2>1. [Me EXCEPT !.pc = "submitting"] \in ClientState
    BY <1>1, ClientMoves
  <2> QED
    BY <1>1, <1>3, <1>4, <2>1 DEF Preflight, ClientState
<1>5. CASE PreflightFails(Canary)
  <2>1. [Me EXCEPT !.pc = "failed"] \in ClientState
    BY <1>1, ClientMoves
  <2> QED
    BY <1>1, <1>3, <1>5, <2>1 DEF PreflightFails, ClientState
<1>6. CASE SubmitRaises(Canary)
  <2> DEFINE s == [Me EXCEPT !.pc = "failed", !.reply = "none", !.answer = NoRun]
  <2>1. s \in ClientState
    BY <1>1, ClientMoves
  <2>2. client' = [client EXCEPT ![Canary] = s] /\ Me.pc = "submitting"
    BY <1>1, <1>6, CanaryFacts DEF SubmitRaises, TypeOK
  <2> QED
    BY <1>1, <1>3, <2>1, <2>2 DEF ClientState
<1>7. CASE WaitReturns(Canary)
  <2> DEFINE s == [Me EXCEPT !.pc = "fetching", !.seen = View(Me.run)]
  <2>1. s \in ClientState
    BY <1>1, <1>7, ClientMoves DEF WaitReturns
  <2>2. client' = [client EXCEPT ![Canary] = s] /\ Me.pc = "waiting"
    BY <1>1, <1>7, CanaryFacts DEF WaitReturns, TypeOK
  <2> QED
    BY <1>1, <1>3, <2>1, <2>2 DEF ClientState
<1>8. CASE DeleteRaises(Canary)
  <2> DEFINE s == [Me EXCEPT !.pc = "failed", !.reply = "none"]
  <2>1. s \in ClientState
    BY <1>1, ClientMoves
  <2>2. client' = [client EXCEPT ![Canary] = s] /\ Me.pc = "deleting"
    BY <1>1, <1>8, CanaryFacts DEF DeleteRaises, TypeOK
  <2> QED
    BY <1>1, <1>3, <2>1, <2>2 DEF ClientState
<1> QED
  BY <1>4, <1>5, <1>6, <1>7, <1>8

\* _PinnedBackend.submit: the run is remembered, and nothing is confirmed of it yet.
LEMMA SubmitsPreservesSmoke ==
  ASSUME SmokeInv, CInv', SmokeSubmits
  PROVE  SmokeInv'
<1> DEFINE s == [Me EXCEPT !.pc = "waiting", !.run = Me.answer, !.reply = "none", !.answer = NoRun]
<1>1. /\ CInv /\ SmokeTypeOK /\ LastInv /\ Me \in ClientState /\ ClientInv(Canary)
      /\ Me = client[Canary]
  BY CanaryFacts DEF SmokeInv, Me
<1>2. /\ UNCHANGED <<node, requests, asked>> /\ Me.pc = "submitting"
      /\ client' = [client EXCEPT ![Canary] = s]
  BY <1>1, CanaryFacts DEF SmokeSubmits, SubmitReturns, TypeOK
<1>3. s \in ClientState
  BY <1>1, ClientMoves
<1>4. Me' = s
  BY <1>1, <1>2, <1>3, CanaryMoves
<1>5. s.pc = "waiting" /\ s.command = Me.command /\ s.key = Me.key /\ s.run = Me.answer
  BY <1>1 DEF ClientState
<1>6. /\ smoke' = [smoke EXCEPT !.lastRun = Me.answer, !.confirmed = FALSE]
      /\ Me.answer \in Runs \cup {NoRun}
  BY <1>1 DEF SmokeSubmits, ClientState
<1>7. /\ smoke'.judged = smoke.judged /\ smoke'.passed = smoke.passed /\ smoke'.status = smoke.status
      /\ smoke'.lastRun = s.run /\ smoke'.confirmed = FALSE /\ SmokeTypeOK'
  BY <1>1, <1>5, <1>6 DEF SmokeTypeOK
<1>. HIDE DEF s
<1>8. EvidenceInv' /\ LastInv'
  BY <1>4, <1>5, <1>7 DEF EvidenceInv, LastInv
<1> QED
  BY <1>2, <1>3, <1>4, <1>5, <1>7, <1>8, QuietStep

\* _PinnedBackend.destroy: the confirmation is of the run in progress.
LEMMA DestroysPreservesSmoke ==
  ASSUME SmokeInv, CInv', Running, SmokeDestroys
  PROVE  SmokeInv'
<1>1. /\ CInv /\ SmokeTypeOK /\ LastInv /\ EvidenceInv /\ Me \in ClientState /\ ClientInv(Canary)
      /\ Me = client[Canary]
  BY CanaryFacts DEF SmokeInv, Me
<1>2. UNCHANGED <<node, requests, asked>> /\ Me.pc = "deleting" /\ Me.reply = "ok"
  BY <1>1 DEF SmokeDestroys, DeleteReturns
<1>3. PICK end \in IF Me.report THEN Ended ELSE {"failed"} :
        client' = [client EXCEPT ![Canary].pc = end, ![Canary].reply = "none"]
  BY <1>1 DEF SmokeDestroys, DeleteReturns
<1> DEFINE s == [Me EXCEPT !.pc = end, !.reply = "none"]
<1>4. s \in ClientState
  BY <1>1, ClientMoves
<1>5. client' = [client EXCEPT ![Canary] = s]
  BY <1>1, <1>3, CanaryFacts DEF TypeOK
<1>6. Me' = s
  BY <1>1, <1>4, <1>5, CanaryMoves
<1>7. /\ s.pc = end /\ s.command = Me.command /\ s.key = Me.key /\ s.run = Me.run
      /\ s.seen = Me.seen /\ end \in Ended /\ (end = "published" => Me.report)
  BY <1>1, <1>3 DEF ClientState
<1>. HIDE DEF s
<1>8. Me.run \in Runs /\ destroyed[Me.run] /\ smoke.lastRun = Me.run
  BY <1>1, <1>2 DEF ClientInv, LastInv
<1>9. smoke' = [smoke EXCEPT !.confirmed = TRUE]
  BY DEF SmokeDestroys
<1>10. /\ smoke'.judged = smoke.judged /\ smoke'.passed = smoke.passed /\ smoke'.status = smoke.status
       /\ smoke'.lastRun = smoke.lastRun /\ SmokeTypeOK'
  BY <1>1, <1>9 DEF SmokeTypeOK
<1>11. LastInv'
  BY <1>2, <1>6, <1>7, <1>8, <1>10 DEF LastInv
<1>12. EvidenceInv'
  BY <1>1, <1>2, <1>6, <1>7 DEF EvidenceInv, Reported
<1> QED
  BY <1>2, <1>4, <1>6, <1>7, <1>10, <1>11, <1>12, QuietStep

\* A run the canary can download was executed and destroyed, and a success it saw
\* is the supervisor's claim.
LEMMA DownloadIsEvidence ==
  ASSUME SmokeInv, Fetch(Canary)
  PROVE  Me.run \in Runs /\ Reported(Me.run, Me.key) /\ (Me.seen = "succeeded" => claim[Me.run] = "succeeded")
<1>1. ClientInv(Canary) /\ Me = client[Canary] /\ \A r \in Runs : RunInv(r)
  BY CanaryFacts DEF SmokeInv, Me
<1>2. Me.pc = "fetching" /\ Downloadable(Me.run)
  BY <1>1 DEF Fetch
<1>3. Me.run \in Runs /\ keyOf[Me.run] = Me.key /\ Me.seen = View(Me.run)
  BY <1>1, <1>2 DEF ClientInv
<1>4. Reported(Me.run, Me.key)
  BY <1>1, <1>2, <1>3 DEF Reported, Downloadable, RunInv
<1>5. Me.seen = "succeeded" => claim[Me.run] = "succeeded"
  BY <1>1, <1>3 DEF RunInv, View
<1> QED
  BY <1>3, <1>4, <1>5

\* The finally block asks for the destruction of the command's own run.
LEMMA CleanupPreservesSmoke ==
  ASSUME SmokeInv, CInv', smoke' = smoke, Me.pc \in {"waiting", "fetching"}, NEW t \in ClientState,
         t.command = Me.command, t.key = Me.key, t.run = Me.run, t.seen = Me.seen, t.reply = Me.reply,
         t.report => Reported(Me.run, Me.key) /\ (Me.seen = "succeeded" => claim[Me.run] = "succeeded"),
         Cleanup(Canary, t)
  PROVE  SmokeInv'
<1>1. /\ CInv /\ SmokeTypeOK /\ CommandInv /\ AskedInv /\ JudgedInv /\ LastInv
      /\ Me \in ClientState /\ ClientInv(Canary)
      /\ Me = client[Canary]
  BY CanaryFacts DEF SmokeInv, Me
<1> DEFINE s == [t EXCEPT !.pc = "deleting"]
           e == <<Current(Canary), Me.run>>
           m == [kind |-> "delete", from |-> Canary, command |-> Me.command, run |-> Me.run]
<1>3. s \in ClientState
  BY ClientMoves
<1>4. /\ s.pc = "deleting" /\ s.command = Me.command /\ s.key = Me.key /\ s.run = Me.run
      /\ s.seen = Me.seen /\ s.report = t.report /\ s.reply = Me.reply
  BY <1>1 DEF ClientState
<1>5. /\ client' = [client EXCEPT ![Canary] = s] /\ requests' = requests \cup {m}
      /\ asked' = asked \cup {e} /\ UNCHANGED node
  BY DEF Cleanup
<1>6. Me' = s
  BY <1>1, <1>3, <1>5, CanaryMoves
<1>7. /\ Me.pc \in {"waiting", "fetching"} /\ Me.reply = "none" /\ Me.run \in Runs
      /\ status[Me.run] # "absent" /\ keyOf[Me.run] = Me.key
  BY <1>1 DEF ClientInv, ClientState
<1>8. /\ e[1].from = Canary /\ e[1].command = Me.command /\ e[2] = Me.run
      /\ m.kind = "delete" /\ <<[from |-> m.from, command |-> m.command], m.run>> = e
  BY <1>1 DEF Current
<1>9. Me.command \in {1, 2} /\ Me.key = KeyOfCommand(Me.command)
  BY <1>1, <1>7 DEF CommandInv
<1>. HIDE DEF s, e, m
<1>10. CommandInv' /\ SmokeTypeOK' /\ LastInv'
  BY <1>1, <1>4, <1>5, <1>6, <1>7, <1>9 DEF CommandInv, SmokeTypeOK, LastInv, Running
<1>11. AskedInv'
  <2>1. ASSUME NEW x \in asked'
        PROVE  /\ x[1].from = Canary /\ x[1].command \in 1..s.command
               /\ status'[x[2]] # "absent" /\ keyOf'[x[2]] = KeyOfCommand(x[1].command)
               /\ x[1].command = s.command => s.pc \in {"deleting"} \cup Ended /\ x[2] = s.run
    <3>1. CASE x = e
      BY <1>4, <1>5, <1>7, <1>8, <1>9, <3>1
    <3>2. CASE x \in asked
      BY <1>1, <1>4, <1>5, <1>7, <3>2 DEF AskedInv
    <3> QED
      BY <1>5, <3>1, <3>2
  <2>2. \A n \in requests' : n.kind = "delete" => <<[from |-> n.from, command |-> n.command], n.run>> \in asked'
    BY <1>1, <1>5, <1>8 DEF AskedInv
  <2> QED
    BY <1>6, <2>1, <2>2 DEF AskedInv
<1>12. EvidenceInv'
  BY <1>4, <1>5, <1>6, <1>7 DEF EvidenceInv, Reported
<1>13. JudgedInv'
  BY <1>1, <1>5 DEF JudgedInv, Reported, AllPassed
<1> QED
  BY <1>10, <1>11, <1>12, <1>13 DEF SmokeInv

\* run_in_vm leaves its try block: only after a download there is a report.
LEMMA FinallyPreservesSmoke ==
  ASSUME SmokeInv, CInv', smoke' = smoke, WaitRaises(Canary) \/ Fetch(Canary) \/ FetchRaises(Canary)
  PROVE  SmokeInv'
<1>1. Me \in ClientState /\ ClientInv(Canary) /\ Me = client[Canary]
  BY CanaryFacts DEF SmokeInv, Me
<1>2. CASE Fetch(Canary)
  <2> DEFINE t == [Me EXCEPT !.report = TRUE]
  <2>1. /\ t \in ClientState /\ t.command = Me.command /\ t.key = Me.key /\ t.run = Me.run
        /\ t.seen = Me.seen /\ t.reply = Me.reply
    BY <1>1 DEF ClientState
  <2>2. Me.pc = "fetching" /\ Cleanup(Canary, t)
    BY <1>1, <1>2 DEF Fetch
  <2>3. Reported(Me.run, Me.key) /\ (Me.seen = "succeeded" => claim[Me.run] = "succeeded")
    BY <1>2, DownloadIsEvidence
  <2>. HIDE DEF t
  <2> QED
    BY <2>1, <2>2, <2>3, CleanupPreservesSmoke
<1>3. CASE WaitRaises(Canary) \/ FetchRaises(Canary)
  <2>1. Me.pc \in {"waiting", "fetching"} /\ Cleanup(Canary, Me)
    BY <1>1, <1>3 DEF WaitRaises, FetchRaises
  <2>2. ~Me.report
    BY <1>1, <2>1 DEF ClientInv
  <2> QED
    BY <1>1, <2>1, <2>2, CleanupPreservesSmoke
<1> QED
  BY <1>2, <1>3

-----------------------------------------------------------------------------
(* The steps of the workflow.                                               *)

\* Judging a run, and writing the report.
LEMMA WorkflowPreserves ==
  ASSUME SmokeInv, CInv', SmokeBlocked \/ SmokeJudges \/ SmokeFails \/ SmokeConcludes
  PROVE  SmokeInv'
<1>1. /\ CInv /\ SmokeTypeOK /\ CommandInv /\ AskedInv /\ EvidenceInv /\ JudgedInv /\ LastInv
  BY DEF SmokeInv
<1>2. UNCHANGED vars /\ Running
  BY DEF SmokeBlocked, SmokeJudges, SmokeFails, SmokeConcludes
<1>3. CommandInv' /\ AskedInv' /\ EvidenceInv'
  BY <1>1, <1>2 DEF vars, CommandInv, AskedInv, EvidenceInv, Reported, Me
<1>4. ASSUME SmokeTypeOK', JudgedInv', smoke'.lastRun = smoke.lastRun, smoke'.confirmed = smoke.confirmed
      PROVE  SmokeInv'
  <2>1. LastInv'
    BY <1>1, <1>2, <1>4 DEF LastInv, vars, Running, Me
  <2> QED
    BY <1>3, <1>4, <2>1 DEF SmokeInv
<1>5. CASE Raise
  BY <1>1, <1>2, <1>4, <1>5 DEF Raise, SmokeTypeOK, JudgedInv, Reported, vars
<1>6. ASSUME SmokeJudges, ~Raise PROVE SmokeInv'
  <2>1. PICK pass \in {{}} \cup (IF MayPass THEN {{Me.run}} ELSE {}) :
          smoke' = [smoke EXCEPT !.executed = "true", !.judged = @ \cup {Me.run}, !.passed = @ \cup pass]
    BY <1>6 DEF SmokeJudges
  <2>2. Me.pc = "published"
    BY <1>6 DEF SmokeJudges
  <2>3. /\ Me.run \in Runs /\ Reported(Me.run, Me.key) /\ Me.key \in {FirstKey, SecondKey}
        /\ Me.seen = "succeeded" => claim[Me.run] = "succeeded"
    BY <1>1, <2>2 DEF EvidenceInv, CommandInv, KeyOfCommand
  <2>4. pass \subseteq {Me.run} /\ \A r \in pass : claim[r] = "succeeded"
    BY <2>1, <2>3 DEF MayPass
  <2>5. /\ smoke'.judged = smoke.judged \cup {Me.run} /\ smoke'.passed = smoke.passed \cup pass
        /\ smoke'.status = smoke.status /\ smoke'.lastRun = smoke.lastRun
        /\ smoke'.confirmed = smoke.confirmed /\ SmokeTypeOK'
    BY <1>1, <2>1, <2>3, <2>4 DEF SmokeTypeOK
  <2>6. JudgedInv'
    BY <1>1, <1>2, <2>3, <2>4, <2>5 DEF JudgedInv, Reported, vars, Running
  <2> QED
    BY <1>4, <2>5, <2>6
<1>7. CASE SmokeConcludes
  <2>1. smoke' = [smoke EXCEPT !.status = IF AllPassed THEN "canary_passed" ELSE "not_confirmed"]
    BY <1>7 DEF SmokeConcludes
  <2>2. /\ smoke'.judged = smoke.judged /\ smoke'.passed = smoke.passed
        /\ smoke'.lastRun = smoke.lastRun /\ smoke'.confirmed = smoke.confirmed
        /\ (smoke'.status = "canary_passed" => AllPassed) /\ SmokeTypeOK'
    BY <1>1, <2>1 DEF SmokeTypeOK
  <2>3. JudgedInv'
    BY <1>1, <1>2, <2>2 DEF JudgedInv, Reported, vars, AllPassed
  <2> QED
    BY <1>4, <2>2, <2>3
<1> QED
  BY <1>5, <1>6, <1>7 DEF SmokeBlocked, SmokeFails

\* SmokeInv is preserved by every step.
LEMMA SmokeNextPreserves == SmokeInv /\ [SmokeNext]_smokeVars => SmokeInv'
<1> SUFFICES ASSUME SmokeInv, [SmokeNext]_smokeVars PROVE SmokeInv'
  OBVIOUS
<1>1. CInv'
  BY SmokeIsACoordinator, NextPreserves DEF SmokeInv, smokeVars
<1>2. CASE SmokeStart(FirstKey) \/ SmokeStart(SecondKey)
  BY <1>1, <1>2, StartPreservesSmoke
<1>3. CASE Running /\ SmokeSubmits
  BY <1>1, <1>3, SubmitsPreservesSmoke
<1>4. CASE Running /\ SmokeDestroys
  BY <1>1, <1>4, DestroysPreservesSmoke
<1>5. CASE Running /\ SmokeRuns
  BY <1>1, <1>5, MovePreservesSmoke, FinallyPreservesSmoke DEF SmokeRuns
<1>6. CASE SmokeBlocked \/ SmokeJudges \/ SmokeFails \/ SmokeConcludes
  BY <1>1, <1>6, WorkflowPreserves
<1>7. CASE (NodeMoves \/ \E m \in requests : Serve(m)) /\ smoke' = smoke
  BY <1>1, <1>7, NodePreservesSmoke
<1>8. CASE UNCHANGED smokeVars
  BY <1>1, <1>8 DEF SmokeInv, SmokeTypeOK, CommandInv, AskedInv, EvidenceInv, JudgedInv, LastInv,
       Reported, AllPassed, Running, Me, smokeVars, vars
<1> QED
  BY <1>2, <1>3, <1>4, <1>5, <1>6, <1>7, <1>8 DEF SmokeNext, SmokeStep

\* The invariant holds at the start.
LEMMA SmokeInitInv == SmokeInit => SmokeInv
<1> SUFFICES ASSUME SmokeInit PROVE SmokeInv
  OBVIOUS
<1>1. CInv
  BY InitCInv DEF SmokeInit
<1>2. Me = IdleClient /\ asked = {} /\ requests = {} /\ \A r \in Runs : ~destroyed[r]
  BY SmokeAssumption DEF SmokeInit, Init, NodeInit, Me
<1>3. SmokeTypeOK /\ JudgedInv
  BY DEF SmokeInit, SmokeTypeOK, JudgedInv
<1>4. CommandInv /\ AskedInv /\ EvidenceInv
  BY <1>2 DEF CommandInv, AskedInv, EvidenceInv, IdleClient
<1>5. LastInv
  BY <1>2 DEF LastInv, IdleClient, SmokeInit
<1> QED
  BY <1>1, <1>3, <1>4, <1>5 DEF SmokeInv

-----------------------------------------------------------------------------
(* The theorems.                                                            *)

\* SmokeInv is an invariant of the workflow on its node: whatever is lost or late
\* between them, what the report says of a run rests on the row of that run.
THEOREM InductiveSmoke == SmokeSpec => []SmokeInv
  BY SmokeInitInv, SmokeNextPreserves, PTL DEF SmokeSpec

\* A workflow that passes has executed each of its two samples, and of both runs
\* the supervisor claimed a success and the VMs are gone.
THEOREM PassedRanBoth == SmokeSpec => []PassedMeansBothRan
<1>1. SmokeInv => PassedMeansBothRan
  <2> SUFFICES ASSUME SmokeInv, smoke.status = "canary_passed"
               PROVE  \E first, second \in started :
                        /\ keyOf[first] = FirstKey /\ keyOf[second] = SecondKey
                        /\ \A r \in {first, second} :
                             claim[r] = "succeeded" /\ destroyed[r] /\ r \notin live
    BY DEF PassedMeansBothRan
  <2>1. /\ CInv /\ KeysUnique /\ (\A r \in Runs : RunInv(r)) /\ NodeTypeOK
        /\ JudgedInv /\ AllPassed /\ smoke.judged \subseteq Runs
    BY DEF SmokeInv, CInv, TypeOK, JudgedInv, SmokeTypeOK
  <2>2. \A r \in smoke.judged :
          /\ r \in started /\ keyOf[r] \in {FirstKey, SecondKey}
          /\ claim[r] = "succeeded" /\ destroyed[r] /\ r \notin live
          /\ status[r] # "absent"
    BY <2>1 DEF JudgedInv, AllPassed, Reported, RunInv
  <2>3. \E q, r \in smoke.judged : q # r
    <3> SUFFICES ASSUME \A q, r \in smoke.judged : q = r PROVE FALSE
      OBVIOUS
    <3>1. CASE smoke.judged = {}
      BY <2>1, <3>1, FS_EmptySet DEF AllPassed
    <3>2. CASE smoke.judged # {}
      <4>1. PICK r : smoke.judged = {r}
        BY <3>2
      <4> QED
        <5>1. Cardinality({r}) = 1
          BY FS_Singleton
        <5>2. Cardinality(smoke.judged) = 2
          BY <2>1 DEF AllPassed
        <5> QED
          BY <4>1, <5>1, <5>2
    <3> QED
      BY <3>1, <3>2
  <2>4. PICK q \in smoke.judged, r \in smoke.judged : q # r
    BY <2>3
  <2>5. keyOf[q] # keyOf[r]
    BY <2>1, <2>2, <2>4 DEF KeysUnique
  <2>6. CASE keyOf[q] = FirstKey
    BY <2>2, <2>5, <2>6
  <2>7. CASE keyOf[q] = SecondKey
    BY <2>2, <2>5, <2>7
  <2> QED
    BY <2>2, <2>6, <2>7
<1> QED
  BY <1>1, InductiveSmoke, PTL

\* A confirmed destruction is of the run that the report names.
THEOREM ConfirmsLastRun == SmokeSpec => []ConfirmationIsOfLastRun
<1>1. SmokeInv => ConfirmationIsOfLastRun
  BY CanaryFacts DEF SmokeInv, LastInv, RunInv, ConfirmationIsOfLastRun
<1> QED
  BY <1>1, InductiveSmoke, PTL

=============================================================================
