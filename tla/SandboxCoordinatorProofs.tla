---------------------- MODULE SandboxCoordinatorProofs ----------------------
(***************************************************************************)
(* Proofs about SandboxCoordinator, for any number of coordinators,         *)
(* commands, samples and runs.  The facts about runs that coordinators rely *)
(* on never become false again (Lasting); the inductive invariant CInv says *)
(* which of them each coordinator has learned by each point of run_in_vm,   *)
(* and the refinement of DisposableRuns rests on it.                        *)
(***************************************************************************)
EXTENDS SandboxCoordinator, FiniteSetTheorems, TLAPS

\* What the rows, the VMs and the artifacts of a run have to do with each other.
RunInv(r) ==
    /\ destroyed[r] => status[r] \in Terminal /\ r \notin live
    /\ status[r] \in {"absent", "queued"} => r \notin started
    /\ r \in valid => r \in started
    /\ claim[r] # "none" => status[r] \in Terminal
    /\ status[r] = "succeeded" => claim[r] = "succeeded"

\* The UNIQUE constraint of the idempotency key.
KeysUnique ==
    \A q, r \in Runs :
        status[q] # "absent" /\ status[r] # "absent" /\ keyOf[q] = keyOf[r] => q = r

\* What a coordinator knows of its run at each point of run_in_vm.
ClientInv(c) ==
    LET s == client[c] IN
    /\ s.pc # "idle" => s.key \in Keys /\ s.command \in 1..MaxCommands
    /\ s.reply # "none" => s.pc \in {"submitting", "deleting"}
    /\ s.pc = "submitting" /\ s.reply = "ok" =>
         s.answer \in Runs /\ status[s.answer] # "absent" /\ keyOf[s.answer] = s.key
    /\ s.pc \in {"waiting", "fetching", "deleting"} =>
         s.run \in Runs /\ status[s.run] # "absent" /\ keyOf[s.run] = s.key
    /\ s.pc = "fetching" => s.seen \in Terminal /\ s.seen = View(s.run)
    /\ s.pc = "deleting" /\ s.report =>
         /\ destroyed[s.run] /\ s.run \in started
         /\ s.seen \in Terminal /\ s.seen = View(s.run)
    /\ s.report => s.pc \in {"deleting"} \cup Ended

\* A submission in flight is of the client's command, or of an earlier one.
RequestInv(m) ==
    /\ m.command <= client[m.from].command
    /\ m.kind = "submit" /\ m.command = client[m.from].command => m.key = client[m.from].key

\* What holds of a published report.
ReportInv(p) ==
    /\ destroyed[p.run] /\ p.run \in started /\ status[p.run] # "absent"
    /\ keyOf[p.run] = p.key
    /\ p.status = View(p.run)

\* The inductive invariant: what the steps of run_in_vm rely on between two
\* answers of the node (sandbox.py:293-321).
CInv ==
    /\ TypeOK
    /\ \A r \in Runs : RunInv(r)
    /\ KeysUnique
    /\ \A c \in Clients : ClientInv(c)
    /\ \A m \in requests : RequestInv(m)
    /\ \A p \in published : ReportInv(p)

\* What no step of the node takes back.
Lasting ==
    /\ \A r \in Runs :
         /\ status[r] # "absent" => status'[r] # "absent" /\ keyOf'[r] = keyOf[r]
         /\ status[r] \in Terminal => status'[r] = status[r] /\ claim'[r] = claim[r]
         /\ destroyed[r] => destroyed'[r]
         /\ claim[r] # "none" => claim'[r] = claim[r]
    /\ started \subseteq started'

-----------------------------------------------------------------------------
USE DEF Terminal, Active, Claims, Ended, Pcs, View, rows, node, journal

\* The records of the protocol are typed.
LEMMA MessagesTyped ==
  /\ \A m \in Submission : m.kind = "submit" /\ m.from \in Clients /\ m.command \in 1..MaxCommands /\ m.key \in Keys
  /\ \A m \in Deletion : m.kind = "delete" /\ m.from \in Clients /\ m.command \in 1..MaxCommands /\ m.run \in Runs
  BY DEF Submission, Deletion

\* Every update of a coordinator's record keeps its type.
LEMMA ClientMoves ==
  ASSUME NEW s \in ClientState, NEW p \in Pcs
  PROVE  /\ [s EXCEPT !.pc = p] \in ClientState
         /\ [s EXCEPT !.pc = p, !.reply = "none"] \in ClientState
         /\ [s EXCEPT !.pc = p, !.reply = "none", !.answer = NoRun] \in ClientState
         /\ [s EXCEPT !.pc = p, !.run = s.answer, !.reply = "none", !.answer = NoRun] \in ClientState
         /\ \A v \in Terminal : [s EXCEPT !.pc = p, !.seen = v] \in ClientState
         /\ [s EXCEPT !.report = TRUE] \in ClientState
         /\ \A a \in {"none", "ok", "error"}, r \in Runs \cup {NoRun} :
              [s EXCEPT !.reply = a, !.answer = r] \in ClientState
<1>. HIDE DEF Terminal, Pcs
<1>1. ASSUME NEW a \in {"none", "ok", "error"}, NEW r \in Runs \cup {NoRun}
      PROVE  [s EXCEPT !.reply = a, !.answer = r] \in ClientState
  BY DEF ClientState
<1>2. ASSUME NEW v \in Terminal PROVE [s EXCEPT !.pc = p, !.seen = v] \in ClientState
  BY DEF ClientState
<1>3. [s EXCEPT !.pc = p] \in ClientState /\ [s EXCEPT !.report = TRUE] \in ClientState
  BY DEF ClientState
<1>4. [s EXCEPT !.pc = p, !.reply = "none"] \in ClientState
  BY DEF ClientState
<1>5. [s EXCEPT !.pc = p, !.reply = "none", !.answer = NoRun] \in ClientState
  BY DEF ClientState
<1>6. [s EXCEPT !.pc = p, !.run = s.answer, !.reply = "none", !.answer = NoRun] \in ClientState
  BY DEF ClientState
<1> QED
  BY <1>1, <1>2, <1>3, <1>4, <1>5, <1>6

\* A fresh record of a command is typed.
LEMMA StartTyped ==
  ASSUME NEW n \in 0..MaxCommands, NEW k \in Keys, NEW p \in Pcs
  PROVE  [IdleClient EXCEPT !.pc = p, !.command = n, !.key = k] \in ClientState
  BY DEF IdleClient, ClientState

-----------------------------------------------------------------------------
(* The node's steps.                                                        *)

\* Each step of a row, of a VM, of the artifacts or of the marker keeps the
\* invariants of runs and takes nothing back.
LEMMA NodeKeeps ==
  ASSUME NodeTypeOK, \A r \in Runs : RunInv(r), KeysUnique,
         NodeStep \/ (\E r \in Runs, k \in Keys : Reserve(r, k)) \/ (\E r \in Runs : Confirm(r))
           \/ UNCHANGED node
  PROVE  NodeTypeOK' /\ (\A r \in Runs : RunInv(r)') /\ KeysUnique' /\ Lasting
<1> USE DEF NodeTypeOK, RunInv, KeysUnique, Lasting
<1>1. CASE \E r \in Runs, k \in Keys : Reserve(r, k)
  BY <1>1 DEF Reserve
<1>2. CASE \E r \in Runs : Begin(r)
  BY <1>2 DEF Begin
<1>3. CASE \E r \in Runs : Execute(r)
  BY <1>3 DEF Execute
<1>4. CASE \E r \in Runs : Write(r)
  BY <1>4 DEF Write, Touch
<1>5. CASE \E r \in Runs : Stop(r)
  BY <1>5 DEF Stop
<1>6. CASE \E r \in Runs : Close(r)
  BY <1>6 DEF Close
<1>7. CASE \E r \in Runs : Recover(r)
  <2>1. PICK r \in Runs :
          /\ status[r] \in Active /\ status' = [status EXCEPT ![r] = "failed"]
          /\ destroyed' = destroyed \/ (r \notin live /\ destroyed' = [destroyed EXCEPT ![r] = TRUE])
          /\ UNCHANGED <<claim, keyOf, valid, quarantined, live, started>>
    BY <1>7 DEF Recover
  <2>2. NodeTypeOK'
    BY <2>1
  <2>3. status'[r] = "failed" /\ \A q \in Runs \ {r} : status'[q] = status[q] /\ destroyed'[q] = destroyed[q]
    BY <2>1
  <2>4. destroyed'[r] \in {destroyed[r], TRUE} /\ (destroyed'[r] => r \notin live)
    BY <2>1
  <2>5. \A q \in Runs : RunInv(q)'
    BY <2>1, <2>3, <2>4
  <2>6. KeysUnique'
    BY <2>1, <2>3
  <2>7. Lasting
    BY <2>1, <2>3, <2>4
  <2> QED
    BY <2>2, <2>5, <2>6, <2>7
<1>8. CASE \E r \in Runs : Confirm(r)
  BY <1>8 DEF Confirm
<1>9. CASE \E r \in Runs : Remove(r)
  BY <1>9 DEF Remove, Touch
<1>10. CASE Quarantine
  BY <1>10 DEF Quarantine
<1>11. CASE UNCHANGED node
  BY <1>11
<1> QED
  BY <1>1, <1>2, <1>3, <1>4, <1>5, <1>6, <1>7, <1>8, <1>9, <1>10, <1>11 DEF NodeStep

\* What a coordinator has learned survives every step of the node.
LEMMA ClientKeeps ==
  ASSUME TypeOK, NEW c \in Clients, ClientInv(c), Lasting, client'[c] = client[c]
  PROVE  ClientInv(c)'
<1>1. client[c] \in ClientState
  BY DEF TypeOK
<1> QED
  BY <1>1 DEF ClientInv, Lasting, View, ClientState

\* So does what is known of a published report.
LEMMA ReportKeeps ==
  ASSUME TypeOK, NEW p \in published, ReportInv(p), \A r \in Runs : RunInv(r), Lasting
  PROVE  ReportInv(p)'
<1>1. p.run \in Runs
  BY DEF TypeOK
<1> QED
  BY <1>1 DEF ReportInv, Lasting, RunInv

\* A step of the node alone preserves the invariant.
LEMMA NodePreserves ==
  ASSUME CInv, NodeMoves \/ UNCHANGED vars
  PROVE  CInv'
<1>1. NodeTypeOK' /\ (\A r \in Runs : RunInv(r)') /\ KeysUnique' /\ Lasting
  BY NodeKeeps DEF CInv, TypeOK, NodeMoves, vars
<1>2. client' = client /\ requests' = requests /\ UNCHANGED journal
  BY DEF NodeMoves, vars
<1>3. TypeOK'
  BY <1>1, <1>2 DEF CInv, TypeOK
<1>4. \A c \in Clients : ClientInv(c)'
  BY <1>1, <1>2, ClientKeeps DEF CInv
<1>5. \A m \in requests' : RequestInv(m)'
  BY <1>2 DEF CInv, RequestInv
<1>6. \A p \in published' : ReportInv(p)'
  BY <1>1, <1>2, ReportKeeps DEF CInv
<1> QED
  BY <1>1, <1>3, <1>4, <1>5, <1>6 DEF CInv

-----------------------------------------------------------------------------
(* The node's answers.                                                      *)

\* An answer changes the record of the client that waits for it, and nothing
\* that run_in_vm has learned before.
LEMMA AnswerPreserves ==
  ASSUME CInv, NEW m \in requests, NEW reply \in {"ok", "error"}, NEW r \in Runs \cup {NoRun},
         Reply(m, reply, r),
         NodeTypeOK', \A q \in Runs : RunInv(q)', KeysUnique', Lasting,
         m.kind = "submit" /\ reply = "ok" => r \in Runs /\ status'[r] # "absent" /\ keyOf'[r] = m.key,
         accepted' \subseteq Command \X Runs, asked' = asked, published' = published
  PROVE  CInv'
<1> USE DEF Reply
<1>1. TypeOK /\ m.from \in Clients /\ client[m.from] \in ClientState /\ RequestInv(m)
  BY MessagesTyped DEF CInv, TypeOK
<1>2. \A c \in Clients : \/ client'[c] = client[c]
                         \/ /\ c = m.from /\ Awaits(c, m)
                            /\ client'[c] = [client[c] EXCEPT !.reply = reply, !.answer = r]
  BY <1>1 DEF TypeOK
<1>3. client' \in [Clients -> ClientState]
  <2>1. [client[m.from] EXCEPT !.reply = reply, !.answer = r] \in ClientState
    BY <1>1 DEF ClientState
  <2> QED
    BY <1>1, <2>1 DEF TypeOK
<1>4. TypeOK'
  BY <1>1, <1>3 DEF TypeOK
<1>5. ASSUME NEW c \in Clients PROVE ClientInv(c)'
  <2>1. CASE client'[c] = client[c]
    BY <1>1, <2>1, ClientKeeps DEF CInv
  <2>2. CASE client'[c] # client[c]
    <3> DEFINE s == client[c]
               t == [s EXCEPT !.reply = reply, !.answer = r]
    <3>0. c = m.from /\ Awaits(c, m) /\ client'[c] = t /\ s \in ClientState
      BY <1>1, <1>2, <2>2
    <3>. HIDE DEF s
    <3>1. /\ t.pc = s.pc /\ t.key = s.key /\ t.command = s.command /\ t.run = s.run
          /\ t.seen = s.seen /\ t.report = s.report /\ t.reply = reply /\ t.answer = r
      BY <3>0 DEF ClientState
    <3>. HIDE DEF t
    <3>2. ClientInv(c)
      BY DEF CInv
    <3>3. m.kind = "submit" \/ client[c].pc = "deleting"
      BY <3>0 DEF Awaits
    <3>4. m.kind = "submit" => client[c].pc = "submitting" /\ m.key = client[c].key
      BY <1>1, <3>0 DEF Awaits, RequestInv
    <3>5. /\ t.pc # "idle" => t.key \in Keys /\ t.command \in 1..MaxCommands
          /\ t.reply # "none" => t.pc \in {"submitting", "deleting"}
          /\ t.report => t.pc \in {"deleting"} \cup Ended
      BY <3>1, <3>2, <3>3, <3>4 DEF ClientInv, s
    <3>6. t.pc = "submitting" /\ t.reply = "ok" =>
            t.answer \in Runs /\ status'[t.answer] # "absent" /\ keyOf'[t.answer] = t.key
      BY <3>1, <3>3, <3>4 DEF s
    <3>7. t.pc \in {"waiting", "fetching", "deleting"} =>
            t.run \in Runs /\ status'[t.run] # "absent" /\ keyOf'[t.run] = t.key
      BY <3>1, <3>2 DEF ClientInv, Lasting, s
    <3>8. t.pc # "fetching"
      BY <3>1, <3>3, <3>4 DEF s
    <3>9. t.pc = "deleting" /\ t.report =>
            /\ destroyed'[t.run] /\ t.run \in started'
            /\ t.seen \in Terminal
            /\ t.seen = IF claim'[t.run] = "none" THEN status'[t.run] ELSE claim'[t.run]
      <4>1. SUFFICES ASSUME s.pc = "deleting", s.report
                     PROVE  /\ destroyed'[s.run] /\ s.run \in started'
                            /\ s.seen \in Terminal
                            /\ s.seen = IF claim'[s.run] = "none" THEN status'[s.run] ELSE claim'[s.run]
        BY <3>1
      <4>2. s.run \in Runs /\ destroyed[s.run] /\ s.run \in started
            /\ s.seen \in Terminal /\ s.seen = View(s.run)
        BY <3>2, <4>1 DEF ClientInv, s
      <4>3. status[s.run] \in Terminal
        BY <4>2 DEF CInv, RunInv
      <4> QED
        BY <4>2, <4>3 DEF Lasting
    <3> QED
      BY <3>0, <3>5, <3>6, <3>7, <3>8, <3>9 DEF ClientInv
  <2> QED
    BY <2>1, <2>2
<1>6. \A n \in requests' : RequestInv(n)'
  <2>1. \A c \in Clients : client'[c].command = client[c].command /\ client'[c].key = client[c].key
    BY <1>1, <1>2 DEF TypeOK, ClientState
  <2>2. \A n \in requests : n.from \in Clients
    BY MessagesTyped DEF CInv, TypeOK
  <2>3. requests' \subseteq requests /\ \A n \in requests : RequestInv(n)
    BY DEF CInv
  <2>. HIDE DEF Reply
  <2> QED
    BY <2>1, <2>2, <2>3 DEF RequestInv
<1>7. \A p \in published' : ReportInv(p)'
  BY <1>1, ReportKeeps DEF CInv
<1> QED
  BY <1>4, <1>5, <1>6, <1>7 DEF CInv

\* Every outcome of a handler preserves the invariant.
LEMMA ServePreserves ==
  ASSUME CInv, NEW m \in requests, Serve(m)
  PROVE  CInv'
<1>1. TypeOK /\ m.from \in Clients /\ m.command \in 1..MaxCommands
      /\ (m.kind = "submit" => m.key \in Keys) /\ (m.kind = "delete" => m.run \in Runs)
  BY MessagesTyped DEF CInv, TypeOK
<1>2. UNCHANGED node => NodeTypeOK' /\ (\A r \in Runs : RunInv(r)') /\ KeysUnique' /\ Lasting
  BY NodeKeeps DEF CInv, TypeOK
<1>3. \A r \in Runs : Accept(m, r) => accepted' \subseteq Command \X Runs
  <2>1. [from |-> m.from, command |-> m.command] \in Command
    BY <1>1 DEF Command
  <2> QED
    BY <1>1, <2>1 DEF Accept, TypeOK
<1>4. CASE RequestLost(m)
  <2>1. requests' \subseteq requests /\ client' = client /\ UNCHANGED journal /\ UNCHANGED node
    BY <1>4 DEF RequestLost
  <2>2. TypeOK'
    BY <1>1, <1>2, <2>1 DEF TypeOK
  <2>3. \A c \in Clients : ClientInv(c)'
    BY <1>1, <1>2, <2>1, ClientKeeps DEF CInv
  <2>4. (\A n \in requests' : RequestInv(n)') /\ \A p \in published' : ReportInv(p)'
    BY <2>1 DEF CInv, RequestInv, ReportInv
  <2> QED
    BY <1>2, <2>1, <2>2, <2>3, <2>4 DEF CInv
<1>5. CASE m.kind = "submit" /\ SubmitRefused(m)
  BY <1>1, <1>2, <1>5, AnswerPreserves DEF SubmitRefused, TypeOK
<1>6. CASE m.kind = "submit" /\ SubmitKnown(m)
  <2>1. PICK r \in Runs : /\ status[r] # "absent" /\ keyOf[r] = m.key /\ Reply(m, "ok", r)
                          /\ Accept(m, r) /\ UNCHANGED <<node, asked, published>>
    BY <1>6 DEF SubmitKnown
  <2>2. /\ NodeTypeOK' /\ (\A q \in Runs : RunInv(q)') /\ KeysUnique' /\ Lasting
        /\ status'[r] # "absent" /\ keyOf'[r] = m.key /\ accepted' \subseteq Command \X Runs
    BY <1>2, <1>3, <2>1
  <2> QED
    BY <2>1, <2>2, AnswerPreserves
<1>7. CASE m.kind = "submit" /\ SubmitReserved(m)
  <2>1. PICK r \in Runs, reply \in {"ok", "error"} :
          Reserve(r, m.key) /\ Reply(m, reply, r) /\ Accept(m, r) /\ UNCHANGED <<asked, published>>
    BY <1>7 DEF SubmitReserved
  <2>2. /\ NodeTypeOK' /\ (\A q \in Runs : RunInv(q)') /\ KeysUnique' /\ Lasting
    BY <1>1, <1>7, <2>1, NodeKeeps DEF CInv, TypeOK
  <2>3. status'[r] # "absent" /\ keyOf'[r] = m.key /\ accepted' \subseteq Command \X Runs
    BY <1>1, <1>3, <2>1 DEF Reserve, TypeOK, NodeTypeOK
  <2> QED
    BY <2>1, <2>2, <2>3, AnswerPreserves
<1>8. CASE m.kind = "delete" /\ DeleteRefused(m)
  BY <1>1, <1>2, <1>8, AnswerPreserves DEF DeleteRefused, TypeOK
<1>9. CASE m.kind = "delete" /\ DeleteConfirms(m)
  <2>1. NodeTypeOK' /\ (\A r \in Runs : RunInv(r)') /\ KeysUnique' /\ Lasting
    BY <1>1, <1>9, NodeKeeps DEF DeleteConfirms, CInv, TypeOK
  <2>2. client' = client /\ requests' = requests /\ UNCHANGED journal
    BY <1>9 DEF DeleteConfirms
  <2>3. TypeOK'
    BY <1>1, <2>1, <2>2 DEF TypeOK
  <2>4. \A c \in Clients : ClientInv(c)'
    BY <1>1, <2>1, <2>2, ClientKeeps DEF CInv
  <2>5. \A p \in published' : ReportInv(p)'
    BY <1>1, <2>1, <2>2, ReportKeeps DEF CInv
  <2> QED
    BY <2>1, <2>2, <2>3, <2>4, <2>5 DEF CInv, RequestInv
<1>10. CASE m.kind = "delete" /\ DeleteFails(m)
  <2>1. Quarantine /\ Reply(m, "error", NoRun) /\ UNCHANGED journal
    BY <1>10 DEF DeleteFails
  <2>2. NodeTypeOK' /\ (\A r \in Runs : RunInv(r)') /\ KeysUnique' /\ Lasting
    BY <1>1, <2>1, NodeKeeps DEF CInv, TypeOK, NodeStep
  <2> QED
    BY <1>1, <1>10, <2>1, <2>2, AnswerPreserves DEF TypeOK
<1>11. CASE m.kind = "delete" /\ DeleteRemoves(m)
  <2>1. PICK reply \in {"ok", "error"} : Reply(m, reply, NoRun) /\ UNCHANGED <<node, journal>>
    BY <1>11 DEF DeleteRemoves
  <2> QED
    BY <1>1, <1>2, <1>11, <2>1, AnswerPreserves DEF TypeOK
<1> QED
  BY <1>4, <1>5, <1>6, <1>7, <1>8, <1>9, <1>10, <1>11 DEF Serve

-----------------------------------------------------------------------------
(* The steps of run_in_vm.                                                  *)

\* The invariant holds at the start.
LEMMA InitCInv == Init => CInv
<1> SUFFICES ASSUME Init PROVE CInv
  OBVIOUS
<1>1. IdleClient \in ClientState
  BY CoordinatorAssumption DEF IdleClient, ClientState
<1>2. TypeOK
  BY <1>1, CoordinatorAssumption DEF Init, NodeInit, TypeOK, NodeTypeOK
<1>3. \A c \in Clients : ClientInv(c)
  BY DEF Init, ClientInv, IdleClient
<1> QED
  BY <1>2, <1>3 DEF Init, NodeInit, CInv, RunInv, KeysUnique

\* A step of one coordinator preserves the invariant when the record it leaves
\* behind is justified, and so are the requests it sends and the report it returns.
LEMMA OneCoordinator ==
  ASSUME CInv, UNCHANGED <<node, accepted>>,
         NEW c \in Clients, NEW s \in ClientState,
         client' = [client EXCEPT ![c] = s], ClientInv(c)',
         s.command >= client[c].command,
         s.command = client[c].command => s.key = client[c].key,
         requests' \subseteq Submission \cup Deletion,
         \A m \in requests' : \/ m \in requests
                              \/ m.from = c /\ m.command = s.command /\ (m.kind = "submit" => m.key = s.key),
         asked' \subseteq Command \X Runs,
         published' \subseteq [from : Clients, command : 1..MaxCommands, key : Keys, run : Runs, status : Terminal],
         \A p \in published' : p \in published \/ ReportInv(p)
  PROVE  CInv'
<1>1. TypeOK
  BY DEF CInv
<1>2. NodeTypeOK' /\ (\A r \in Runs : RunInv(r)') /\ KeysUnique' /\ Lasting
  BY <1>1, NodeKeeps DEF CInv, TypeOK
<1>3. TypeOK'
  BY <1>1, <1>2 DEF TypeOK
<1>4. client'[c] = s /\ \A d \in Clients \ {c} : client'[d] = client[d]
  BY <1>1 DEF TypeOK
<1>5. \A d \in Clients : ClientInv(d)'
  BY <1>1, <1>2, <1>4, ClientKeeps DEF CInv
<1>6. ASSUME NEW m \in requests' PROVE RequestInv(m)'
  <2>1. m.from \in Clients /\ m.command \in 1..MaxCommands
    BY MessagesTyped
  <2>2. client[c].command \in 0..MaxCommands /\ s.command \in 0..MaxCommands
    BY <1>1 DEF TypeOK, ClientState
  <2>3. CASE m \in requests
    <3>1. RequestInv(m)
      BY <2>3 DEF CInv
    <3> QED
      BY <1>4, <2>1, <2>2, <3>1, CoordinatorAssumption DEF RequestInv
  <2>4. CASE m \notin requests
    BY <1>4, <2>1, <2>2, <2>4 DEF RequestInv
  <2> QED
    BY <2>3, <2>4
<1>7. \A p \in published' : ReportInv(p)'
  <2>1. \A p \in published' : ReportInv(p)
    BY DEF CInv
  <2> QED
    BY <2>1 DEF ReportInv
<1> QED
  BY <1>2, <1>3, <1>5, <1>6, <1>7 DEF CInv

\* A new command forgets the previous one.
LEMMA StartPreserves ==
  ASSUME CInv, NEW c \in Clients, NEW k \in Keys, Start(c, k)
  PROVE  CInv'
<1> DEFINE n == client[c].command + 1
           s == [IdleClient EXCEPT !.pc = "capabilities", !.command = n, !.key = k]
<1>1. TypeOK /\ client[c] \in ClientState
  BY DEF CInv, TypeOK
<1>2. client[c].command \in 0..MaxCommands /\ n \in 1..MaxCommands /\ n \in 0..MaxCommands /\ n > client[c].command
  BY <1>1, CoordinatorAssumption DEF Start, ClientState
<1>3. client' = [client EXCEPT ![c] = s] /\ UNCHANGED <<node, requests, journal>>
  BY DEF Start
<1>. HIDE DEF n
<1>4. s \in ClientState
  BY <1>2, StartTyped
<1>5. s.pc = "capabilities" /\ s.key = k /\ s.command = n /\ s.reply = "none" /\ s.report = FALSE
  BY DEF IdleClient
<1>6. client'[c] = s
  BY <1>1, <1>3 DEF TypeOK
<1>. HIDE DEF s
<1>7. ClientInv(c)'
  BY <1>2, <1>5, <1>6 DEF ClientInv
<1>8. s.command >= client[c].command /\ s.command # client[c].command
  BY <1>2, <1>5
<1> QED
  BY <1>1, <1>3, <1>4, <1>7, <1>8, OneCoordinator DEF TypeOK

\* The submission carries the command's own key.
LEMMA PreflightPreserves ==
  ASSUME CInv, NEW c \in Clients, Preflight(c)
  PROVE  CInv'
<1> DEFINE s == [client[c] EXCEPT !.pc = "submitting"]
           m == [kind |-> "submit", from |-> c, command |-> client[c].command, key |-> client[c].key]
<1>1. TypeOK /\ client[c] \in ClientState /\ ClientInv(c)
  BY DEF CInv, TypeOK
<1>2. s \in ClientState
  BY <1>1, ClientMoves
<1>3. client' = [client EXCEPT ![c] = s] /\ requests' = requests \cup {m} /\ UNCHANGED <<node, journal>>
  BY DEF Preflight
<1>4. client'[c] = s
  BY <1>1, <1>3 DEF TypeOK
<1>5. s.pc = "submitting" /\ s.key = client[c].key /\ s.command = client[c].command
      /\ s.reply = client[c].reply /\ s.report = client[c].report
  BY <1>1 DEF ClientState
<1>6. /\ client[c].key \in Keys /\ client[c].command \in 1..MaxCommands
      /\ client[c].reply = "none" /\ ~client[c].report
  BY <1>1 DEF Preflight, ClientInv
<1>7. m \in Submission /\ m.from = c /\ m.command = s.command /\ m.key = s.key
  BY <1>5, <1>6 DEF Submission
<1>. HIDE DEF s, m
<1>8. ClientInv(c)'
  BY <1>4, <1>5, <1>6 DEF ClientInv
<1>9. s.command >= client[c].command
  BY <1>5, <1>6
<1>10. /\ requests' \subseteq Submission \cup Deletion
       /\ \A n \in requests' : \/ n \in requests
                               \/ n.from = c /\ n.command = s.command /\ (n.kind = "submit" => n.key = s.key)
  BY <1>1, <1>3, <1>7 DEF TypeOK
<1>11. /\ asked' \subseteq Command \X Runs /\ UNCHANGED <<node, accepted>>
       /\ published' \subseteq [from : Clients, command : 1..MaxCommands, key : Keys, run : Runs, status : Terminal]
       /\ \A p \in published' : p \in published \/ ReportInv(p)
  BY <1>1, <1>3 DEF TypeOK
<1> QED
  BY <1>2, <1>3, <1>5, <1>8, <1>9, <1>10, <1>11, OneCoordinator

\* A step that only moves the coordinator, learning at most the run that the
\* reply named.
LEMMA MovePreserves ==
  ASSUME CInv, NEW c \in Clients,
         PreflightFails(c) \/ SubmitReturns(c) \/ SubmitRaises(c) \/ WaitReturns(c) \/ DeleteRaises(c)
  PROVE  CInv'
<1>1. TypeOK /\ client[c] \in ClientState /\ ClientInv(c)
  BY DEF CInv, TypeOK
<1>2. UNCHANGED <<node, requests, journal>>
  BY DEF PreflightFails, SubmitReturns, SubmitRaises, WaitReturns, DeleteRaises
<1>3. SUFFICES ASSUME NEW s \in ClientState, client' = [client EXCEPT ![c] = s]
               PROVE  ClientInv(c)' /\ s.command = client[c].command /\ s.key = client[c].key
  <2>1. \E s \in ClientState : client' = [client EXCEPT ![c] = s]
    <3>1. CASE PreflightFails(c)
      BY <1>1, <3>1, ClientMoves DEF PreflightFails
    <3>2. CASE SubmitReturns(c)
      <4>1. client' = [client EXCEPT ![c] = [client[c] EXCEPT !.pc = "waiting", !.run = client[c].answer,
                                                 !.reply = "none", !.answer = NoRun]]
        BY <1>1, <3>2 DEF SubmitReturns, TypeOK
      <4> QED
        BY <1>1, <4>1, ClientMoves
    <3>3. CASE SubmitRaises(c)
      <4>1. client' = [client EXCEPT ![c] = [client[c] EXCEPT !.pc = "failed", !.reply = "none", !.answer = NoRun]]
        BY <1>1, <3>3 DEF SubmitRaises, TypeOK
      <4> QED
        BY <1>1, <4>1, ClientMoves
    <3>4. CASE WaitReturns(c)
      <4>1. client' = [client EXCEPT ![c] = [client[c] EXCEPT !.pc = "fetching", !.seen = View(client[c].run)]]
            /\ View(client[c].run) \in Terminal
        BY <1>1, <3>4 DEF WaitReturns, TypeOK
      <4> QED
        BY <1>1, <4>1, ClientMoves
    <3>5. CASE DeleteRaises(c)
      <4>1. client' = [client EXCEPT ![c] = [client[c] EXCEPT !.pc = "failed", !.reply = "none"]]
        BY <1>1, <3>5 DEF DeleteRaises, TypeOK
      <4> QED
        BY <1>1, <4>1, ClientMoves
    <3> QED
      BY <3>1, <3>2, <3>3, <3>4, <3>5
  <2>2. PICK s \in ClientState : client' = [client EXCEPT ![c] = s]
    BY <2>1
  <2>3. ClientInv(c)' /\ s.command = client[c].command /\ s.key = client[c].key
    BY <1>3, <2>2
  <2>4. s.command >= client[c].command
    BY <1>1, <2>3, CoordinatorAssumption DEF ClientState
  <2> QED
    BY <1>1, <1>2, <2>2, <2>3, <2>4, OneCoordinator DEF TypeOK
<1>4. client'[c] = s
  BY <1>1, <1>3 DEF TypeOK
<1>5. CASE PreflightFails(c)
  <2>1. s = [client[c] EXCEPT !.pc = "failed"] /\ client[c].pc = "capabilities"
    BY <1>1, <1>3, <1>4, <1>5 DEF PreflightFails, TypeOK
  <2>2. /\ s.command = client[c].command /\ s.key = client[c].key /\ s.report = client[c].report
        /\ s.pc = "failed" /\ s.reply = client[c].reply
    BY <1>1, <2>1 DEF ClientState
  <2> QED
    BY <1>1, <1>2, <1>4, <2>1, <2>2 DEF ClientInv, ClientState, View
<1>6. CASE SubmitReturns(c)
  <2>1. s = [client[c] EXCEPT !.pc = "waiting", !.run = client[c].answer, !.reply = "none", !.answer = NoRun]
       /\ client[c].pc = "submitting" /\ client[c].reply = "ok"
    BY <1>1, <1>3, <1>4, <1>6 DEF SubmitReturns, TypeOK
  <2>2. /\ s.command = client[c].command /\ s.key = client[c].key /\ s.report = client[c].report
        /\ s.pc = "waiting" /\ s.reply = "none" /\ s.run = client[c].answer
    BY <1>1, <2>1 DEF ClientState
  <2> QED
    BY <1>1, <1>2, <1>4, <2>1, <2>2 DEF ClientInv, ClientState, View
<1>7. CASE SubmitRaises(c)
  <2>1. s = [client[c] EXCEPT !.pc = "failed", !.reply = "none", !.answer = NoRun] /\ client[c].pc = "submitting"
    BY <1>1, <1>3, <1>4, <1>7 DEF SubmitRaises, TypeOK
  <2>2. /\ s.command = client[c].command /\ s.key = client[c].key /\ s.report = client[c].report
        /\ s.pc = "failed" /\ s.reply = "none"
    BY <1>1, <2>1 DEF ClientState
  <2> QED
    BY <1>1, <1>2, <1>4, <2>1, <2>2 DEF ClientInv, ClientState, View
<1>8. CASE WaitReturns(c)
  <2>1. s = [client[c] EXCEPT !.pc = "fetching", !.seen = View(client[c].run)]
       /\ client[c].pc = "waiting" /\ View(client[c].run) \in Terminal
    BY <1>1, <1>3, <1>4, <1>8 DEF WaitReturns, TypeOK
  <2>2. /\ s.command = client[c].command /\ s.key = client[c].key /\ s.report = client[c].report
        /\ s.pc = "fetching" /\ s.reply = client[c].reply /\ s.run = client[c].run
        /\ s.seen = View(s.run) /\ s.seen \in Terminal
    BY <1>1, <2>1 DEF ClientState
  <2> QED
    BY <1>1, <1>2, <1>4, <2>1, <2>2 DEF ClientInv, ClientState, View
<1>9. CASE DeleteRaises(c)
  <2>1. s = [client[c] EXCEPT !.pc = "failed", !.reply = "none"] /\ client[c].pc = "deleting"
    BY <1>1, <1>3, <1>4, <1>9 DEF DeleteRaises, TypeOK
  <2>2. /\ s.command = client[c].command /\ s.key = client[c].key /\ s.report = client[c].report
        /\ s.pc = "failed" /\ s.reply = "none"
    BY <1>1, <2>1 DEF ClientState
  <2> QED
    BY <1>1, <1>2, <1>4, <2>1, <2>2 DEF ClientInv, ClientState, View
<1> QED
  BY <1>5, <1>6, <1>7, <1>8, <1>9

\* Entering the finally block preserves the invariant when the report that is
\* kept is justified.
LEMMA CleanupPreserves ==
  ASSUME CInv, NEW c \in Clients, client[c].pc \in {"waiting", "fetching"}, NEW s \in ClientState,
         s.command = client[c].command, s.key = client[c].key, s.run = client[c].run,
         s.reply = client[c].reply, s.seen = client[c].seen,
         s.report => /\ destroyed[s.run] /\ s.run \in started
                     /\ s.seen \in Terminal /\ s.seen = View(s.run),
         Cleanup(c, s)
  PROVE  CInv'
<1> DEFINE t == [s EXCEPT !.pc = "deleting"]
           m == [kind |-> "delete", from |-> c, command |-> s.command, run |-> s.run]
<1>1. TypeOK /\ client[c] \in ClientState /\ ClientInv(c)
  BY DEF CInv, TypeOK
<1>2. t \in ClientState
  BY ClientMoves
<1>3. /\ client' = [client EXCEPT ![c] = t] /\ requests' = requests \cup {m}
      /\ asked' = asked \cup {<<Current(c), s.run>>}
      /\ UNCHANGED <<node, accepted, published>>
  BY DEF Cleanup
<1>4. client'[c] = t
  BY <1>1, <1>3 DEF TypeOK
<1>5. /\ t.pc = "deleting" /\ t.key = s.key /\ t.command = s.command /\ t.run = s.run
      /\ t.report = s.report /\ t.seen = s.seen /\ t.reply = s.reply
  BY DEF ClientState
<1>6. s.key \in Keys /\ s.command \in 1..MaxCommands /\ s.run \in Runs
      /\ status[s.run] # "absent" /\ keyOf[s.run] = s.key
  BY <1>1 DEF ClientInv
<1>7. m \in Deletion /\ m.kind = "delete" /\ m.from = c /\ m.command = s.command
  BY <1>6 DEF Deletion
<1>8. <<Current(c), s.run>> \in Command \X Runs
  BY <1>6 DEF Current, Command
<1>. HIDE DEF t, m
<1>9. ClientInv(c)'
  BY <1>1, <1>3, <1>4, <1>5, <1>6 DEF ClientInv
<1>10. t.command >= client[c].command /\ t.key = client[c].key
  BY <1>5, <1>6
<1>11. /\ requests' \subseteq Submission \cup Deletion
       /\ \A n \in requests' : \/ n \in requests
                               \/ n.from = c /\ n.command = t.command /\ (n.kind = "submit" => n.key = t.key)
  BY <1>1, <1>3, <1>5, <1>7 DEF TypeOK
<1>12. /\ asked' \subseteq Command \X Runs /\ UNCHANGED <<node, accepted>>
       /\ published' \subseteq [from : Clients, command : 1..MaxCommands, key : Keys, run : Runs, status : Terminal]
       /\ \A p \in published' : p \in published \/ ReportInv(p)
  BY <1>1, <1>3, <1>8 DEF TypeOK
<1> QED
  BY <1>2, <1>3, <1>9, <1>10, <1>11, <1>12, OneCoordinator

\* An idle coordinator has no report to lose: only Fetch builds one.  A run whose
\* artifacts can be downloaded is destroyed and was executed, and its row, which is
\* terminal, is the one the poll saw.
LEMMA FinallyPreserves ==
  ASSUME CInv, NEW c \in Clients, WaitRaises(c) \/ Fetch(c) \/ FetchRaises(c)
  PROVE  CInv'
<1>1. TypeOK /\ client[c] \in ClientState /\ ClientInv(c)
  BY DEF CInv, TypeOK
<1>2. CASE Fetch(c)
  <2> DEFINE s == [client[c] EXCEPT !.report = TRUE]
  <2>1. s \in ClientState
    BY <1>1, ClientMoves
  <2>2. /\ s.command = client[c].command /\ s.key = client[c].key /\ s.run = client[c].run
        /\ s.reply = client[c].reply /\ s.seen = client[c].seen
    BY <1>1 DEF ClientState
  <2>3. client[c].pc = "fetching" /\ Downloadable(client[c].run) /\ Cleanup(c, s)
    BY <1>2 DEF Fetch
  <2>. HIDE DEF s
  <2>4. s.run \in Runs /\ s.seen \in Terminal /\ s.seen = View(s.run)
    BY <1>1, <2>2, <2>3 DEF ClientInv
  <2>5. RunInv(s.run)
    BY <2>4 DEF CInv
  <2>6. destroyed[s.run] /\ s.run \in started
    BY <2>2, <2>3, <2>4, <2>5 DEF Downloadable, RunInv
  <2> QED
    BY <2>1, <2>2, <2>3, <2>4, <2>6, CleanupPreserves
<1>3. CASE WaitRaises(c) \/ FetchRaises(c)
  <2>1. client[c].pc \in {"waiting", "fetching"} /\ Cleanup(c, client[c])
    BY <1>3 DEF WaitRaises, FetchRaises
  <2>2. client[c].report = FALSE
    BY <1>1, <2>1 DEF ClientInv, ClientState
  <2> QED
    BY <1>1, <2>1, <2>2, CleanupPreserves
<1> QED
  BY <1>2, <1>3

\* The report that is returned is justified.
LEMMA DeleteReturnsPreserves ==
  ASSUME CInv, NEW c \in Clients, DeleteReturns(c)
  PROVE  CInv'
<1> DEFINE report == [from |-> c, command |-> client[c].command, key |-> client[c].key,
                      run |-> client[c].run, status |-> client[c].seen]
<1>1. TypeOK /\ client[c] \in ClientState /\ ClientInv(c)
  BY DEF CInv, TypeOK
<1>2. /\ client[c].pc = "deleting" /\ UNCHANGED <<node, requests, accepted, asked>>
      /\ published' = IF client[c].report THEN published \cup {report} ELSE published
  BY DEF DeleteReturns
<1>3. PICK end \in Ended : client' = [client EXCEPT ![c].pc = end, ![c].reply = "none"]
  BY DEF DeleteReturns
<1> DEFINE s == [client[c] EXCEPT !.pc = end, !.reply = "none"]
<1>4. client' = [client EXCEPT ![c] = s]
  BY <1>1, <1>3 DEF TypeOK
<1>5. s \in ClientState
  BY <1>1, ClientMoves
<1>6. client'[c] = s
  BY <1>1, <1>4 DEF TypeOK
<1>7. s.pc = end /\ s.reply = "none" /\ s.key = client[c].key /\ s.command = client[c].command
  BY <1>1 DEF ClientState
<1>8. client[c].key \in Keys /\ client[c].command \in 1..MaxCommands
  BY <1>1, <1>2 DEF ClientInv
<1>. HIDE DEF s
<1>9. ClientInv(c)'
  BY <1>3, <1>6, <1>7, <1>8 DEF ClientInv
<1>10. client[c].report =>
         /\ report \in [from : Clients, command : 1..MaxCommands, key : Keys, run : Runs, status : Terminal]
         /\ ReportInv(report)
  BY <1>1, <1>2, <1>8 DEF ClientInv, ReportInv
<1>. HIDE DEF report
<1>11. /\ published' \subseteq [from : Clients, command : 1..MaxCommands, key : Keys, run : Runs, status : Terminal]
       /\ \A p \in published' : p \in published \/ ReportInv(p)
  BY <1>1, <1>2, <1>10 DEF TypeOK
<1>12. s.command >= client[c].command
  BY <1>7, <1>8
<1> QED
  BY <1>1, <1>2, <1>4, <1>5, <1>7, <1>9, <1>11, <1>12, OneCoordinator DEF TypeOK

-----------------------------------------------------------------------------
(* The theorems.                                                            *)

\* CInv is preserved by every step.
LEMMA NextPreserves == CInv /\ [Next]_vars => CInv'
<1> SUFFICES ASSUME CInv, [Next]_vars PROVE CInv'
  OBVIOUS
<1>1. ASSUME NEW c \in Clients, NEW k \in Keys, Start(c, k) PROVE CInv'
  BY <1>1, StartPreserves
<1>2. ASSUME NEW c \in Clients, Coordinator(c) PROVE CInv'
  BY <1>2, PreflightPreserves, MovePreserves, FinallyPreserves, DeleteReturnsPreserves DEF Coordinator
<1>3. ASSUME NEW m \in requests, Serve(m) PROVE CInv'
  BY <1>3, ServePreserves
<1>4. CASE NodeMoves \/ UNCHANGED vars
  BY <1>4, NodePreserves
<1> QED
  BY <1>1, <1>2, <1>3, <1>4 DEF Next

\* CInv is an invariant of the node with its coordinators: after any exchange of
\* lost and late messages run_in_vm may rely on it.
THEOREM Inductive == Spec => []CInv
  BY InitCInv, NextPreserves, PTL DEF Spec

\* Every variable keeps its type.
THEOREM TypeCorrect == Spec => []TypeOK
<1>1. CInv => TypeOK
  BY DEF CInv
<1> QED
  BY <1>1, Inductive, PTL

\* A report is published only when the VM of its run is destroyed and known to be.
THEOREM PublishesAfterDestruction == Spec => []PublishedAfterDestruction
<1>1. CInv => PublishedAfterDestruction
  BY DEF CInv, TypeOK, ReportInv, RunInv, PublishedAfterDestruction
<1> QED
  BY <1>1, Inductive, PTL

\* A report is about an execution of the sample that was submitted.
THEOREM PublishesOwnExecution == Spec => []PublishedOwnExecution
<1>1. CInv => PublishedOwnExecution
  BY DEF CInv, ReportInv, PublishedOwnExecution
<1> QED
  BY <1>1, Inductive, PTL

\* All reports about a run agree, a recorded success is reported as one, and only
\* a recorded failure may be reported as the supervisor's claim instead.
THEOREM ReportsHold == Spec => []ReportsAgree
<1>1. ASSUME CInv PROVE ReportsAgree
  <2>1. \A p \in published : p.status = View(p.run)
    BY <1>1 DEF CInv, ReportInv
  <2>2. ASSUME NEW p \in published, p.status # status[p.run]
        PROVE  status[p.run] = "failed" /\ p.status = claim[p.run]
    <3>1. p.run \in Runs /\ destroyed[p.run]
      BY <1>1, <2>2 DEF CInv, TypeOK, ReportInv
    <3>2. RunInv(p.run)
      BY <1>1, <3>1 DEF CInv
    <3> QED
      BY <2>1, <2>2, <3>1, <3>2 DEF View, RunInv
  <2> QED
    BY <2>1, <2>2 DEF ReportsAgree
<1> QED
  BY <1>1, Inductive, PTL

\* However often a sample is submitted, it is executed at most once.
THEOREM ExecutesOnce == Spec => []OneExecutionPerSample
<1>1. ASSUME CInv, NEW k \in Keys PROVE Cardinality({r \in started : keyOf[r] = k}) <= 1
  <2> DEFINE S == {r \in started : keyOf[r] = k}
  <2>1. \A q, r \in S : q = r
    BY <1>1 DEF CInv, TypeOK, NodeTypeOK, RunInv, KeysUnique
  <2>2. CASE S = {}
    <3>1. Cardinality({}) = 0
      BY FS_EmptySet
    <3> QED
      BY <2>2, <3>1
  <2>3. CASE S # {}
    <3>1. PICK r : S = {r}
      BY <2>1, <2>3
    <3>2. Cardinality({r}) = 1
      BY FS_Singleton
    <3>. HIDE DEF S
    <3>3. Cardinality(S) <= 1
      BY <3>1, <3>2
    <3> QED
      BY <3>3 DEF S
  <2> QED
    BY <2>2, <2>3
<1>2. CInv => OneExecutionPerSample
  BY <1>1 DEF OneExecutionPerSample
<1> QED
  BY <1>2, Inductive, PTL

-----------------------------------------------------------------------------
(* The node and its coordinators together implement DisposableRuns: what    *)
(* they publish of a run is never more than the abstract specification      *)
(* releases.                                                                *)

Stages == [r \in Runs |-> StageOf(r)]
Released == {p.run : p \in published}

\* The steps that leave alone everything the abstract specification sees.
Hidden == Stages' = Stages /\ destroyed' = destroyed /\ live' = live /\ published' = published

\* A hidden step is a stuttering step.
LEMMA HiddenStutters == Hidden => UNCHANGED Promise!vars
  BY DEF Hidden, Stages, Promise!vars

\* A step of one run moves the abstract stage of that run only.
LEMMA StageMoves ==
  ASSUME NEW r \in Runs,
         \A q \in Runs \ {r} : status'[q] = status[q] /\ (q \in started' <=> q \in started)
  PROVE  Stages' = [Stages EXCEPT ![r] = StageOf(r)']
<1>1. \A q \in Runs \ {r} : StageOf(q)' = StageOf(q)
  BY DEF StageOf
<1> QED
  BY <1>1 DEF Stages

\* A step of one run that does not move its stage hides it.
LEMMA StageStays ==
  ASSUME NEW r \in Runs,
         \A q \in Runs \ {r} : status'[q] = status[q] /\ (q \in started' <=> q \in started),
         StageOf(r)' = StageOf(r)
  PROVE  Stages' = Stages
<1>1. \A q \in Runs : StageOf(q)' = StageOf(q)
  BY DEF StageOf
<1> QED
  BY <1>1 DEF Stages

\* A row that becomes terminal finishes the abstract run; its destroyed column is
\* set only when the VM is gone.
LEMMA FinishStep ==
  ASSUME CInv, NEW r \in Runs, NEW v \in Terminal,
         status[r] \in Active, status' = [status EXCEPT ![r] = v],
         destroyed' = destroyed \/ (r \notin live /\ destroyed' = [destroyed EXCEPT ![r] = TRUE]),
         UNCHANGED <<started, live, published>>
  PROVE  Promise!Finish(r)
<1>1. NodeTypeOK
  BY DEF CInv, TypeOK
<1>2. StageOf(r) \in {"accepted", "executed"} /\ StageOf(r)' = "finished"
  BY <1>1 DEF StageOf, NodeTypeOK
<1>3. Stages' = [Stages EXCEPT ![r] = "finished"]
  BY <1>1, <1>2, StageMoves DEF NodeTypeOK
<1>4. Stages[r] \in {"accepted", "executed"}
  BY <1>2 DEF Stages
<1> QED
  BY <1>3, <1>4 DEF Promise!Finish, Stages

\* Inserting a row accepts the abstract run.
LEMMA ReserveAccepts ==
  ASSUME CInv, NEW r \in Runs, NEW k \in Keys, Reserve(r, k), published' = published
  PROVE  Promise!Accept(r)
<1>1. NodeTypeOK /\ r \notin started
  BY DEF CInv, TypeOK, RunInv, Reserve
<1>2. StageOf(r) = "unknown" /\ StageOf(r)' = "accepted"
  BY <1>1 DEF StageOf, NodeTypeOK, Reserve
<1>3. Stages' = [Stages EXCEPT ![r] = "accepted"]
  BY <1>1, <1>2, StageMoves DEF NodeTypeOK, Reserve
<1>4. Stages[r] = "unknown"
  BY <1>2 DEF Stages
<1> QED
  BY <1>3, <1>4 DEF Promise!Accept, Stages, Reserve

\* Confirming a destruction is the abstract confirmation.
LEMMA ConfirmConfirms ==
  ASSUME CInv, NEW r \in Runs, Confirm(r), published' = published
  PROVE  Promise!Confirm(r)
<1>1. NodeTypeOK
  BY DEF CInv, TypeOK
<1>2. Stages[r] = "finished" /\ Stages' = Stages
  BY <1>1 DEF Stages, StageOf, NodeTypeOK, Confirm
<1> QED
  BY <1>2 DEF Promise!Confirm, Stages, Confirm

\* Each step of the node is a step of the abstract specification, or hidden.
LEMMA NodeImplements ==
  ASSUME CInv, NodeStep, published' = published
  PROVE  Promise!Next \/ Hidden
<1>1. NodeTypeOK
  BY DEF CInv, TypeOK
<1>2. ASSUME NEW r \in Runs, Begin(r) PROVE Hidden
  <2>1. r \notin started
    BY <1>2 DEF CInv, RunInv, Begin
  <2>2. StageOf(r)' = StageOf(r)
    BY <1>1, <1>2, <2>1 DEF Begin, StageOf, NodeTypeOK
  <2>3. Stages' = Stages
    BY <1>1, <1>2, <2>2, StageStays DEF Begin, NodeTypeOK
  <2> QED
    BY <1>2, <2>3 DEF Hidden, Begin
<1>3. ASSUME NEW r \in Runs, Execute(r) PROVE Promise!Execute(r)
  <2>1. StageOf(r) = "accepted" /\ StageOf(r)' = "executed"
    BY <1>1, <1>3 DEF Execute, StageOf
  <2>2. Stages' = [Stages EXCEPT ![r] = "executed"]
    BY <1>1, <1>3, <2>1, StageMoves DEF Execute
  <2>3. Stages[r] = "accepted"
    BY <2>1 DEF Stages
  <2> QED
    BY <1>3, <2>2, <2>3 DEF Execute, Promise!Execute, Stages
<1>4. ASSUME NEW r \in Runs, Stop(r) PROVE Promise!Stop(r)
  BY <1>4 DEF Stop, StageOf, Promise!Stop
<1>5. ASSUME NEW r \in Runs, Close(r) PROVE Promise!Finish(r)
  <2>1. PICK v \in Terminal, gone \in BOOLEAN :
          /\ status[r] = "running" /\ status' = [status EXCEPT ![r] = v]
          /\ gone => r \notin live
          /\ destroyed' = [destroyed EXCEPT ![r] = gone]
          /\ UNCHANGED <<live, started>>
    BY <1>5 DEF Close
  <2>2. destroyed[r] = FALSE
    BY <1>1, <2>1 DEF CInv, RunInv, NodeTypeOK
  <2>3. destroyed' = destroyed \/ (r \notin live /\ destroyed' = [destroyed EXCEPT ![r] = TRUE])
    BY <1>1, <2>1, <2>2 DEF NodeTypeOK
  <2> QED
    BY <2>1, <2>3, FinishStep
<1>6. ASSUME NEW r \in Runs, Recover(r) PROVE Promise!Finish(r)
  <2>1. "failed" \in Terminal
    OBVIOUS
  <2> QED
    BY <1>6, <2>1, FinishStep DEF Recover
<1>7. ASSUME (\E r \in Runs : Write(r) \/ Remove(r)) \/ Quarantine PROVE Hidden
  <2>1. UNCHANGED <<status, destroyed, live, started>>
    BY <1>7 DEF Write, Remove, Quarantine
  <2>2. Stages' = Stages
    BY <2>1 DEF Stages, StageOf
  <2> QED
    BY <2>1, <2>2 DEF Hidden
<1> QED
  BY <1>2, <1>3, <1>4, <1>5, <1>6, <1>7 DEF NodeStep, Promise!Next

\* So is each answer of the node.
LEMMA ServeImplements ==
  ASSUME CInv, NEW m \in requests, Serve(m)
  PROVE  Promise!Next \/ Hidden
<1>1. (m.kind = "submit" => m.key \in Keys) /\ (m.kind = "delete" => m.run \in Runs)
  BY MessagesTyped DEF CInv, TypeOK
<1>2. CASE m.kind = "submit" /\ SubmitReserved(m)
  BY <1>1, <1>2, ReserveAccepts DEF SubmitReserved, Promise!Next
<1>3. CASE m.kind = "delete" /\ DeleteConfirms(m)
  BY <1>1, <1>3, ConfirmConfirms DEF DeleteConfirms, Promise!Next
<1>4. CASE \/ RequestLost(m) \/ SubmitRefused(m) \/ SubmitKnown(m)
           \/ DeleteRefused(m) \/ DeleteFails(m) \/ DeleteRemoves(m)
  <2>1. UNCHANGED <<status, destroyed, live, started, published>>
    BY <1>4 DEF RequestLost, SubmitRefused, SubmitKnown, DeleteRefused, DeleteFails, Quarantine, DeleteRemoves, node, rows
  <2>2. Stages' = Stages
    BY <2>1 DEF Stages, StageOf
  <2> QED
    BY <2>1, <2>2 DEF Hidden
<1> QED
  BY <1>2, <1>3, <1>4 DEF Serve

\* Publishing a report releases the run; every other step of run_in_vm is hidden.
LEMMA CoordinatorImplements ==
  ASSUME CInv, NEW c \in Clients, Coordinator(c) \/ (\E k \in Keys : Start(c, k))
  PROVE  Promise!Next \/ Hidden
<1>1. UNCHANGED node
  BY DEF Coordinator, Start, Preflight, PreflightFails, SubmitReturns, SubmitRaises, WaitReturns, WaitRaises,
     Fetch, FetchRaises, Cleanup, DeleteReturns, DeleteRaises
<1>2. Stages' = Stages
  BY <1>1 DEF Stages, StageOf
<1>3. CASE published' = published
  BY <1>1, <1>2, <1>3 DEF Hidden
<1>4. CASE DeleteReturns(c) /\ client[c].report
  <2>1. PICK r \in Runs : r = client[c].run /\ destroyed[r]
    BY <1>4 DEF CInv, ClientInv, DeleteReturns
  <2>2. status[r] \in Terminal
    BY <2>1 DEF CInv, RunInv
  <2>3. Released' = Released \cup {r}
    <3> DEFINE report == [from |-> c, command |-> client[c].command, key |-> client[c].key,
                          run |-> r, status |-> client[c].seen]
    <3>1. published' = published \cup {report} /\ report.run = r
      BY <1>4, <2>1 DEF DeleteReturns
    <3>. HIDE DEF report
    <3> QED
      BY <3>1 DEF Released
  <2>4. Stages[r] = "finished"
    BY <2>1, <2>2 DEF Stages, StageOf
  <2>5. Promise!Release(r)
    BY <1>1, <1>2, <2>1, <2>3, <2>4 DEF Promise!Release, Stages, Released
  <2> QED
    BY <2>1, <2>5 DEF Promise!Next
<1> QED
  BY <1>3, <1>4 DEF Coordinator, Start, Preflight, PreflightFails, SubmitReturns, SubmitRaises, WaitReturns,
     WaitRaises, Fetch, FetchRaises, Cleanup, DeleteReturns, DeleteRaises

\* The composition implements the abstract specification of disposable runs:
\* whatever is published of a run was released after its destruction.
THEOREM ImplementsDisposable == Spec => ImplementsDisposableRuns
<1>1. Init => Promise!Init
  BY DEF Init, NodeInit, Promise!Init, StageOf
<1>2. CInv /\ [Next]_vars => [Promise!Next]_Promise!vars
  <2> SUFFICES ASSUME CInv, [Next]_vars PROVE Promise!Next \/ Hidden
    BY HiddenStutters
  <2>1. CASE UNCHANGED vars
    BY <2>1 DEF vars, Hidden, Stages, StageOf
  <2>2. CASE NodeMoves
    BY <2>2, NodeImplements DEF NodeMoves
  <2> QED
    BY <2>1, <2>2, ServeImplements, CoordinatorImplements DEF Next
<1> QED
  BY <1>1, <1>2, Inductive, PTL DEF Spec, ImplementsDisposableRuns, Promise!Spec

=============================================================================
