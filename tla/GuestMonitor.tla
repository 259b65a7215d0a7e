----------------------------- MODULE GuestMonitor -----------------------------
(***************************************************************************)
(* One request to the monitor inside a disposable guest (guest_monitor.py)  *)
(* over the framed channel of guest_channel.py: the main thread starts a    *)
(* canary under strace, polls it to its deadline, kills its process group,  *)
(* joins the two threads that read stdout and stderr, judges, and replies.  *)
(*                                                                          *)
(* The canary may write, exit with any code, and leave a process of another *)
(* session that keeps its pipes open.  Output is counted in blocks.  Every  *)
(* timeout is a step that may be taken whether or not what it waits for has *)
(* come: the deadline of the poll, two seconds of each join, the listener's *)
(* minute, the connection's fifteen seconds, the patience of the host.      *)
(***************************************************************************)
EXTENDS Integers, FiniteSets

CONSTANTS
    Streams,     \* stdout.txt and stderr.txt
    MaxStream,   \* blocks a reader keeps of one stream
    MaxWrites    \* blocks written to a stream

ASSUME GuestAssumption ==
    /\ IsFiniteSet(Streams) /\ Streams # {}
    /\ MaxStream \in Nat /\ MaxWrites \in Nat

VARIABLES
    pc,          \* the main thread
    host,        \* the supervisor's side of the channel
    canary,      \* its process: state, exit code, and a descendant that left its group
    wrote, got,  \* blocks written to each pipe, and read from it
    reader,      \* the thread of each stream
    kept,        \* the bytes of each stream once its reader has ended, in blocks
    overflow,    \* the event a reader sets, and whether it was after the verdict
    late,
    timedOut,
    joined,      \* the readers joined or given up
    verdict,     \* the status of the run, and whether the monitor certified it
    answer       \* the response the host received

process == <<canary, wrote>>
threads == <<got, reader, kept, overflow, late>>
judgement == <<timedOut, joined, verdict>>
vars == <<pc, host, process, threads, judgement, answer>>

NotKept == -1
NoAnswer == [status |-> "none", streams |-> {}]
Killed == -9

GuestInit ==
    /\ pc = "accept" /\ host = "away"
    /\ canary = [state |-> "none", code |-> 0, escaped |-> FALSE]
    /\ wrote = [s \in Streams |-> 0] /\ got = [s \in Streams |-> 0]
    /\ reader = [s \in Streams |-> "none"] /\ kept = [s \in Streams |-> NotKept]
    /\ overflow = FALSE /\ late = FALSE /\ timedOut = FALSE /\ joined = {}
    /\ verdict = "none" /\ answer = NoAnswer

Alive(s) == reader[s] \in {"reading", "full"}

-----------------------------------------------------------------------------
(* The host: request_guest *)

\* What receive_frame makes of a frame: the object it holds, a frame whose
\* length, encoding or keys are refused, or one cut short, which is waited for.
Frames == {"request", "malformed", "cut short"}

\* canary_guest_request builds one for a built-in canary only, and checks it; any
\* other object is refused at the far end.
Request == {"valid", "refused"}

\* What the host has sent.
Sent == (Frames \ {"request"}) \cup Request

Connect ==
    /\ host = "away" /\ pc = "accept"
    /\ host' \in Sent
    /\ UNCHANGED <<pc, process, threads, judgement, answer>>

\* Its timeout ends the wait for the reply.
HostGivesUp ==
    /\ host \in Sent
    /\ host' = "gone"
    /\ UNCHANGED <<pc, process, threads, judgement, answer>>

\* decode_guest_response: all the artifacts, bound to a terminal status.
Accepted(response) == response.status # "none" /\ response.streams = Streams

-----------------------------------------------------------------------------
(* The canary's processes, outside of the monitor's control *)

Writer == canary.state = "running" \/ canary.escaped

Write(s) ==
    /\ Writer /\ wrote[s] < MaxWrites /\ reader[s] = "reading"
    /\ wrote' = [wrote EXCEPT ![s] = @ + 1]
    /\ UNCHANGED <<pc, host, canary, threads, judgement, answer>>

LeaveGroup ==
    /\ canary.state = "running" /\ ~canary.escaped
    /\ canary' = [canary EXCEPT !.escaped = TRUE]
    /\ UNCHANGED <<pc, host, wrote, threads, judgement, answer>>

Exit ==
    /\ canary.state = "running"
    /\ \E code \in {0, 1} : canary' = [canary EXCEPT !.state = "exited", !.code = code]
    /\ UNCHANGED <<pc, host, wrote, threads, judgement, answer>>

EscapedEnds ==
    /\ canary.escaped
    /\ canary' = [canary EXCEPT !.escaped = FALSE]
    /\ UNCHANGED <<pc, host, wrote, threads, judgement, answer>>

-----------------------------------------------------------------------------
(* The reading threads: collect *)

\* A block too many sets the overflow event and ends the loop.
ReadBlock(s) ==
    /\ reader[s] = "reading" /\ got[s] < wrote[s]
    /\ IF got[s] = MaxStream
       THEN /\ overflow' = TRUE /\ late' = (late \/ (~overflow /\ pc \in {"certify", "reply", "stopped"}))
            /\ reader' = [reader EXCEPT ![s] = "full"] /\ UNCHANGED got
       ELSE /\ got' = [got EXCEPT ![s] = @ + 1] /\ UNCHANGED <<reader, overflow, late>>
    /\ UNCHANGED <<pc, host, process, kept, judgement, answer>>

\* At the end of the pipe, or after the overflow, the stream is stored.
EndReader(s) ==
    /\ reader[s] = "full" \/ (reader[s] = "reading" /\ got[s] = wrote[s] /\ ~Writer)
    /\ kept' = [kept EXCEPT ![s] = got[s]]
    /\ reader' = [reader EXCEPT ![s] = "ended"]
    /\ UNCHANGED <<pc, host, process, got, overflow, late, judgement, answer>>

-----------------------------------------------------------------------------
(* The main thread: serve_one_guest and run_guest_canary *)

Stop ==
    /\ pc' = "stopped"
    /\ UNCHANGED <<host, process, threads, judgement, answer>>

\* accept; a peer that is not the host and the listener's timeout end the
\* service, as does guest_guard before it, outside of a provisioned guest.
Accept ==
    /\ pc = "accept"
    /\ host # "away" /\ pc' = "receive"
    /\ UNCHANGED <<host, process, threads, judgement, answer>>
GiveUpListening == pc = "accept" /\ Stop

\* receive_frame and validate_guest_request: nothing starts for a request that
\* is refused or late.
Receive ==
    /\ pc = "receive" /\ host = "valid"
    /\ pc' = "poll"
    /\ canary' = [canary EXCEPT !.state = "running"]
    /\ reader' = [s \in Streams |-> "reading"]
    /\ UNCHANGED <<host, wrote, got, kept, overflow, late, judgement, answer>>
Refuse == pc = "receive" /\ Stop

\* The loop ends with the process, the overflow or the deadline; what ended it
\* is asked again.
EndPoll ==
    /\ pc = "poll" /\ pc' = "judge"
    /\ UNCHANGED <<host, process, threads, judgement, answer>>
JudgeTimeout ==
    /\ pc = "judge" /\ pc' = "kill"
    /\ timedOut' = (canary.state = "running" /\ ~overflow)
    /\ UNCHANGED <<host, process, threads, joined, verdict, answer>>

\* killpg and wait: a descendant in a group of its own is not reached.
KillGroup ==
    /\ pc = "kill" /\ pc' = "join"
    /\ canary' = IF canary.state = "running" THEN [canary EXCEPT !.state = "killed", !.code = Killed] ELSE canary
    /\ UNCHANGED <<host, wrote, threads, judgement, answer>>

\* Mutant: the join waits for the reader.
JoinedWhenEnded(s) == s \notin joined /\ ~Alive(s)
Joinable(s) == s \notin joined

\* A reader is joined when it has ended or after two seconds.
Join(s) ==
    /\ pc = "join" /\ Joinable(s)
    /\ joined' = joined \cup {s}
    /\ UNCHANGED <<pc, host, process, threads, timedOut, verdict, answer>>

\* Mutant: the exit code is asked before the deadline and the overflow.
StatusByCode ==
    IF canary.code = 0 THEN "succeeded"
    ELSE IF overflow THEN "policy_violation" ELSE IF timedOut THEN "timed_out" ELSE "failed"
Status ==
    IF overflow THEN "policy_violation"
    ELSE IF timedOut THEN "timed_out"
    ELSE IF canary.code = 0 THEN "succeeded" ELSE "failed"

Decide ==
    /\ pc = "join" /\ joined = Streams /\ pc' = "certify"
    /\ verdict' = Status
    /\ UNCHANGED <<host, process, threads, timedOut, joined, answer>>

\* Mutant: a reader that has not ended is overlooked.
CompleteTrace(traced) == traced
\* The trace files parse, are within their limits and hold a system call, and
\* no reader is alive.
Complete(traced) == traced /\ \A s \in Streams : ~Alive(s)

\* What normalize_trace makes of the files of strace: events, or a line it does
\* not know, too many of them, or none that is a system call.
Traced == BOOLEAN

Certify ==
    /\ pc = "certify" /\ pc' = "reply"
    /\ \E traced \in Traced : verdict' = IF Complete(traced) THEN verdict ELSE "monitor_lost"
    /\ UNCHANGED <<host, process, threads, timedOut, joined, answer>>

\* The streams stored by now are packed with the events and the result.
Reply ==
    /\ pc = "reply" /\ pc' = "stopped"
    /\ IF host = "valid"
       THEN /\ host' = "answered"
            /\ answer' = [status |-> verdict, streams |-> {s \in Streams : kept[s] # NotKept}]
       ELSE UNCHANGED <<host, answer>>
    /\ UNCHANGED <<process, threads, judgement>>

\* A file or process operation raises: the service ends without a reply.
Raise == pc \notin {"accept", "receive", "stopped"} /\ Stop

-----------------------------------------------------------------------------

Main ==
    \/ Accept \/ GiveUpListening \/ Receive \/ Refuse \/ EndPoll \/ JudgeTimeout \/ KillGroup
    \/ \E s \in Streams : Join(s)
    \/ Decide \/ Certify \/ Reply

Next ==
    \/ Connect \/ HostGivesUp
    \/ LeaveGroup \/ Exit \/ EscapedEnds \/ \E s \in Streams : Write(s) \/ ReadBlock(s) \/ EndReader(s)
    \/ Main \/ Raise

\* The main thread runs; nothing is assumed of the readers, the canary or the host.
Spec == GuestInit /\ [][Next]_vars /\ WF_vars(Main)

-----------------------------------------------------------------------------
(* Properties *)

Statuses == {"succeeded", "failed", "timed_out", "policy_violation", "monitor_lost"}

GuestTypeOK ==
    /\ pc \in {"accept", "receive", "poll", "judge", "kill", "join", "certify", "reply", "stopped"}
    /\ host \in Sent \cup {"away", "answered", "gone"}
    /\ canary \in [state : {"none", "running", "exited", "killed"}, code : Int, escaped : BOOLEAN]
    /\ wrote \in [Streams -> Nat] /\ got \in [Streams -> Nat]
    /\ reader \in [Streams -> {"none", "reading", "full", "ended"}]
    /\ kept \in [Streams -> Nat \cup {NotKept}]
    /\ overflow \in BOOLEAN /\ late \in BOOLEAN /\ timedOut \in BOOLEAN
    /\ joined \subseteq Streams
    /\ verdict \in Statuses \cup {"none"}
    /\ answer \in [status : Statuses \cup {"none"}, streams : SUBSET Streams]

\* What a reply claims is true of the canary: a success ended by itself with
\* code 0 and both of its streams are there, whole unless one overflowed after
\* the verdict; a failure was not a success; and only a monitor that says it
\* was lost misses a stream.
VerdictIsTrue ==
    LET claim == answer.status
    IN /\ claim = "succeeded" =>
             /\ canary.state = "exited" /\ canary.code = 0
             /\ ~late => \A s \in Streams : kept[s] = wrote[s]
       /\ claim = "failed" => canary.code # 0
       /\ claim = "policy_violation" => overflow
       /\ claim \notin {"none", "monitor_lost"} => Accepted(answer)

\* The service ends, whatever canary, readers and host do.
GuestEnds == <>(pc = "stopped")
=============================================================================
