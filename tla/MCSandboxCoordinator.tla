------------------------ MODULE MCSandboxCoordinator ------------------------
(* Instances of SandboxCoordinator for TLC.  Clients, runs and samples are   *)
(* interchangeable.                                                          *)
EXTENDS SandboxCoordinatorProofs, TLC

Symmetry == Permutations(Clients) \cup Permutations(Runs) \cup Permutations(Keys)

=============================================================================
