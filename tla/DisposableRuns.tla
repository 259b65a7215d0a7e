--------------------------- MODULE DisposableRuns ---------------------------
(***************************************************************************)
(* What the sandbox node promises of a run, without stores, threads or      *)
(* restarts: a sample is given to at most one VM, once; a run is finished   *)
(* with or without a confirmed destruction of that VM; and what the VM left *)
(* behind is released only after the destruction is confirmed.              *)
(***************************************************************************)
CONSTANT Runs

VARIABLES
    stage,     \* "unknown", "accepted", "executed" or "finished"
    gone,      \* the VM's destruction is confirmed
    live,      \* runs whose VM is alive
    released   \* runs whose artifacts were given out

vars == <<stage, gone, live, released>>

TypeOK ==
    /\ stage \in [Runs -> {"unknown", "accepted", "executed", "finished"}]
    /\ gone \in [Runs -> BOOLEAN]
    /\ live \subseteq Runs
    /\ released \subseteq Runs

Init ==
    /\ stage = [r \in Runs |-> "unknown"]
    /\ gone = [r \in Runs |-> FALSE]
    /\ live = {}
    /\ released = {}

Accept(r) ==
    /\ stage[r] = "unknown"
    /\ stage' = [stage EXCEPT ![r] = "accepted"]
    /\ UNCHANGED <<gone, live, released>>

Execute(r) ==
    /\ stage[r] = "accepted"
    /\ stage' = [stage EXCEPT ![r] = "executed"]
    /\ live' = live \cup {r}
    /\ UNCHANGED <<gone, released>>

\* The VM stops, by itself or because it is destroyed.
Stop(r) ==
    /\ live' = live \ {r}
    /\ UNCHANGED <<stage, gone, released>>

Finish(r) ==
    /\ stage[r] \in {"accepted", "executed"}
    /\ stage' = [stage EXCEPT ![r] = "finished"]
    /\ \/ UNCHANGED gone
       \/ r \notin live /\ gone' = [gone EXCEPT ![r] = TRUE]
    /\ UNCHANGED <<live, released>>

Confirm(r) ==
    /\ stage[r] = "finished" /\ r \notin live
    /\ gone' = [gone EXCEPT ![r] = TRUE]
    /\ UNCHANGED <<stage, live, released>>

Release(r) ==
    /\ stage[r] = "finished" /\ gone[r]
    /\ released' = released \cup {r}
    /\ UNCHANGED <<stage, gone, live>>

Next == \E r \in Runs :
    Accept(r) \/ Execute(r) \/ Stop(r) \/ Finish(r) \/ Confirm(r) \/ Release(r)

Spec == Init /\ [][Next]_vars

\* Nothing is released while, or before, the run's VM is alive.
ReleasedIsContained == released \cap live = {}

=============================================================================
