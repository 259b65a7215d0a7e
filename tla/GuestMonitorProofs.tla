-------------------------- MODULE GuestMonitorProofs --------------------------
(***************************************************************************)
(* GuestMonitor for any streams, any limit of what is kept of them and any  *)
(* amount of output: a reply tells the truth about the canary.              *)
(***************************************************************************)
EXTENDS GuestMonitor, TLAPS

\* What the canary is while the main thread is where it is.
CanaryFollows ==
    /\ pc \in {"accept", "receive"} =>
           /\ canary.state = "none" /\ ~canary.escaped /\ answer.status = "none"
           /\ \A s \in Streams : reader[s] = "none"
    /\ pc \in {"poll", "judge", "kill"} => canary.state \in {"running", "exited"}
    /\ pc \in {"join", "certify", "reply"} => canary.state \in {"exited", "killed"}
    /\ canary.state = "killed" => canary.code = Killed

\* A stream that was stored is whole, or the overflow was noted.
StreamsAreKept ==
    \A s \in Streams :
        /\ reader[s] = "full" => overflow
        /\ reader[s] = "ended" =>
               /\ kept[s] = got[s]
               /\ overflow \/ got[s] = wrote[s]

\* A status decided on, and what it was decided from; it stays true.
Justified(status) ==
    /\ status \notin {"none", "monitor_lost"} => canary.state \in {"exited", "killed"}
    /\ status = "succeeded" => canary.code = 0 /\ (late \/ ~overflow)
    /\ status = "failed" => canary.code # 0
    /\ status = "policy_violation" => overflow

AllEnded == \A s \in Streams : reader[s] = "ended"

Judged ==
    /\ pc \in {"poll", "judge", "kill", "join", "certify"} => \A s \in Streams : reader[s] # "none"
    /\ pc \in {"certify", "reply"} => verdict \in Statuses /\ Justified(verdict)
    /\ pc = "reply" /\ verdict # "monitor_lost" => AllEnded
    /\ answer.status # "none" =>
           /\ pc = "stopped" /\ Justified(answer.status)
           /\ answer.status # "monitor_lost" => AllEnded /\ answer.streams = Streams

\* The inductive invariant.
GInv == GuestTypeOK /\ CanaryFollows /\ StreamsAreKept /\ Judged

-----------------------------------------------------------------------------

\* What the canary's record may be.
CanaryRecord == [state : {"none", "running", "exited", "killed"}, code : Int, escaped : BOOLEAN]

\* A canary that ends keeps the shape of its record.
LEMMA EndedRecord ==
    ASSUME NEW c \in CanaryRecord, NEW state \in {"exited", "killed"}, NEW code \in Int
    PROVE  [c EXCEPT !.state = state, !.code = code] \in CanaryRecord
  <1>1. [c EXCEPT !.state = state] \in CanaryRecord
      BY DEF CanaryRecord
  <1>2. \A d \in CanaryRecord : [d EXCEPT !.code = code] \in CanaryRecord
      BY DEF CanaryRecord
  <1>3. [c EXCEPT !.state = state, !.code = code] = [[c EXCEPT !.state = state] EXCEPT !.code = code]
      OBVIOUS
  <1> QED  BY <1>1, <1>2, <1>3

USE DEF GInv, GuestTypeOK, CanaryFollows, StreamsAreKept, Judged, Justified, AllEnded, Statuses,
        process, threads, judgement, NotKept, Killed

\* The invariant holds before the monitor starts.
LEMMA InitHolds == GuestInit => GInv
  <1> SUFFICES ASSUME GuestInit PROVE GInv
      OBVIOUS
  <1> USE DEF GuestInit, NoAnswer
  <1>1. GuestTypeOK
    <2>1. canary \in [state : {"none", "running", "exited", "killed"}, code : Int, escaped : BOOLEAN]
        OBVIOUS
    <2>2. /\ overflow \in BOOLEAN /\ late \in BOOLEAN /\ timedOut \in BOOLEAN
          /\ joined \subseteq Streams
        OBVIOUS
    <2>3. /\ wrote \in [Streams -> Nat] /\ got \in [Streams -> Nat]
          /\ reader \in [Streams -> {"none", "reading", "full", "ended"}]
          /\ kept \in [Streams -> Nat \cup {NotKept}]
        OBVIOUS
    <2>4. answer \in [status : Statuses \cup {"none"}, streams : SUBSET Streams]
        OBVIOUS
    <2>5. /\ pc \in {"accept", "receive", "poll", "judge", "kill", "join", "certify", "reply", "stopped"}
          /\ host \in Sent \cup {"away", "answered", "gone"}
          /\ verdict \in Statuses \cup {"none"}
        OBVIOUS
    <2> QED  BY <2>1, <2>2, <2>3, <2>4, <2>5
  <1>2. CanaryFollows  OBVIOUS
  <1>3. StreamsAreKept  OBVIOUS
  <1>4. Judged  OBVIOUS
  <1> QED  BY <1>1, <1>2, <1>3, <1>4

\* The steps of the host.
LEMMA HostSteps == GInv /\ (Connect \/ HostGivesUp) => GInv'
  <1> SUFFICES ASSUME GInv, Connect \/ HostGivesUp PROVE GInv'
      OBVIOUS
  <1>1. GuestTypeOK'  BY DEF Connect, HostGivesUp
  <1>2. CanaryFollows'  BY DEF Connect, HostGivesUp
  <1>3. StreamsAreKept'  BY DEF Connect, HostGivesUp
  <1>4. Judged'  BY DEF Connect, HostGivesUp
  <1> QED  BY <1>1, <1>2, <1>3, <1>4

\* The steps of the canary and of what it left behind.
LEMMA CanarySteps ==
    ASSUME GInv, LeaveGroup \/ Exit \/ EscapedEnds \/ (\E s \in Streams : Write(s))
    PROVE  GInv'
  <1>1. CASE LeaveGroup
    <2>1. GuestTypeOK'  BY <1>1 DEF LeaveGroup
    <2>2. CanaryFollows'  BY <1>1 DEF LeaveGroup
    <2>3. StreamsAreKept'  BY <1>1 DEF LeaveGroup
    <2>4. Judged'  BY <1>1 DEF LeaveGroup
    <2> QED  BY <2>1, <2>2, <2>3, <2>4
  <1>2. CASE Exit
    <2>1. GuestTypeOK'
      <3>1. canary' \in CanaryRecord
        <4>1. PICK code \in {0, 1} : canary' = [canary EXCEPT !.state = "exited", !.code = code]
            BY <1>2 DEF Exit
        <4>2. canary \in CanaryRecord /\ code \in Int  BY DEF CanaryRecord
        <4> QED  BY <4>1, <4>2, EndedRecord
      <3>2. UNCHANGED <<pc, host, wrote, threads, judgement, answer>>  BY <1>2 DEF Exit
      <3> QED  BY <3>1, <3>2 DEF CanaryRecord
    <2>2. CanaryFollows'  BY <1>2 DEF Exit
    <2>3. StreamsAreKept'  BY <1>2 DEF Exit
    <2>4. Judged'  BY <1>2 DEF Exit
    <2> QED  BY <2>1, <2>2, <2>3, <2>4
  <1>3. CASE EscapedEnds
    <2>1. GuestTypeOK'  BY <1>3 DEF EscapedEnds
    <2>2. CanaryFollows'  BY <1>3 DEF EscapedEnds
    <2>3. StreamsAreKept'  BY <1>3 DEF EscapedEnds
    <2>4. Judged'  BY <1>3 DEF EscapedEnds
    <2> QED  BY <2>1, <2>2, <2>3, <2>4
  <1>4. ASSUME NEW s \in Streams, Write(s) PROVE GInv'  BY <1>4 DEF Write
  <1> QED  BY <1>1, <1>2, <1>3, <1>4

\* The steps of the readers.
LEMMA ReaderSteps ==
    ASSUME GInv, NEW s \in Streams, ReadBlock(s) \/ EndReader(s)
    PROVE  GInv'
  <1>1. CASE ReadBlock(s)
    <2>1. GuestTypeOK'
      <3>1. overflow' \in BOOLEAN /\ late' \in BOOLEAN
          BY <1>1, ZenonT(30) DEF ReadBlock
      <3>2. /\ got' \in [Streams -> Nat]
            /\ reader' \in [Streams -> {"none", "reading", "full", "ended"}]
          BY <1>1 DEF ReadBlock
      <3>3. UNCHANGED <<pc, host, process, kept, judgement, answer>>  BY <1>1 DEF ReadBlock
      <3> QED  BY <3>1, <3>2, <3>3
    <2>2. CanaryFollows'  BY <1>1 DEF ReadBlock
    <2>3. StreamsAreKept'  BY <1>1 DEF ReadBlock
    <2>4. Judged'  BY <1>1 DEF ReadBlock
    <2> QED  BY <2>1, <2>2, <2>3, <2>4
  <1>2. CASE EndReader(s)  BY <1>2 DEF EndReader
  <1> QED  BY <1>1, <1>2

\* The steps of the main thread.
LEMMA MainSteps ==
    ASSUME GInv, Main \/ Raise
    PROVE  GInv'
  <1>1. CASE Accept  BY <1>1 DEF Accept
  <1>2. ASSUME Stop PROVE GInv'
    <2>1. GuestTypeOK'  BY <1>2 DEF Stop
    <2>2. CanaryFollows'  BY <1>2 DEF Stop
    <2>3. StreamsAreKept'  BY <1>2 DEF Stop
    <2>4. Judged'  BY <1>2 DEF Stop
    <2> QED  BY <2>1, <2>2, <2>3, <2>4
  <1>3. CASE Receive  BY <1>3 DEF Receive
  <1>4. CASE EndPoll  BY <1>4 DEF EndPoll
  <1>5. CASE JudgeTimeout  BY <1>5 DEF JudgeTimeout
  <1>6. CASE KillGroup
    <2>1. GuestTypeOK'
      <3>1. canary' \in CanaryRecord
        <4>1. canary \in CanaryRecord /\ Killed \in Int  BY DEF CanaryRecord
        <4>2. CASE canary.state = "running"
          <5>1. canary' = [canary EXCEPT !.state = "killed", !.code = Killed]  BY <1>6, <4>2 DEF KillGroup
          <5> HIDE DEF Killed
          <5> QED  BY <4>1, <5>1, EndedRecord
        <4>3. CASE canary.state # "running"  BY <1>6, <4>1, <4>3 DEF KillGroup
        <4> QED  BY <4>2, <4>3
      <3>2. pc' = "join" /\ UNCHANGED <<host, wrote, threads, judgement, answer>>  BY <1>6 DEF KillGroup
      <3> QED  BY <3>1, <3>2 DEF CanaryRecord
    <2>2. CanaryFollows'  BY <1>6 DEF KillGroup
    <2>3. StreamsAreKept'  BY <1>6 DEF KillGroup
    <2>4. Judged'  BY <1>6 DEF KillGroup
    <2> QED  BY <2>1, <2>2, <2>3, <2>4
  <1>7. ASSUME NEW s \in Streams, Join(s) PROVE GInv'  BY <1>7 DEF Join, Joinable
  <1>8. CASE Decide  BY <1>8 DEF Decide, Status
  <1>9. CASE Certify  BY <1>9 DEF Certify, Complete, Alive, Traced
  <1>10. CASE Reply  BY <1>10 DEF Reply
  <1> QED  BY <1>1, <1>2, <1>3, <1>4, <1>5, <1>6, <1>7, <1>8, <1>9, <1>10
           DEF Main, Raise, GiveUpListening, Refuse

\* Every step of the monitor, its canary and its threads keeps the invariant.
LEMMA StepHolds == GInv /\ [Next]_vars => GInv'
  <1> SUFFICES ASSUME GInv, [Next]_vars PROVE GInv'
      OBVIOUS
  <1>1. CASE UNCHANGED vars  BY <1>1 DEF vars
  <1>2. CASE Next
      BY <1>2, HostSteps, CanarySteps, ReaderSteps, MainSteps DEF Next
  <1> QED  BY <1>1, <1>2

HIDE DEF GInv

\* The invariant holds in every reachable state.
THEOREM Inductive == Spec => []GInv
  BY InitHolds, StepHolds, PTL DEF Spec

\* What a reply claims is true of the canary and of its streams, in whatever
\* order the process, its descendants, the readers and the timeouts come.
THEOREM VerdictHolds == Spec => []VerdictIsTrue
  <1>1. GInv => VerdictIsTrue
      BY DEF GInv, VerdictIsTrue, Accepted
  <1> QED  BY <1>1, Inductive, PTL
=============================================================================
