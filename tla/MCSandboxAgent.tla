--------------------------- MODULE MCSandboxAgent ---------------------------
(* Instances of SandboxAgent for TLC.  Runs and threads are interchangeable. *)
EXTENDS SandboxAgentProofs, TLC

RunSymmetry == Permutations(Runs)
ThreadSymmetry == Permutations(Threads)

=============================================================================
