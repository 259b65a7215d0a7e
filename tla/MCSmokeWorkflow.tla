--------------------------- MODULE MCSmokeWorkflow ---------------------------
(* Instances of SmokeWorkflow for TLC.  Runs are interchangeable.            *)
EXTENDS SmokeWorkflow, TLC

Symmetry == Permutations(Runs)

=============================================================================
