------------------------------ MODULE MCPipeline ------------------------------
(* The instance of Pipeline for TLC. *)
EXTENDS Pipeline, TLC

Splits == [i \in Ids |-> IF i = 1 THEN "train" ELSE "test"]
Indexed == {[i \in Ids |-> IF i = 1 THEN [version |-> 1, text |-> FALSE, extra |-> FALSE] ELSE None]}

\* The commands that derive data from the sources, and those on trajectories.
Installations == {{"import", "process", "enrich", "attach", "index", "search", "dataset"},
                  {"index", "trajectories", "docker", "dump", "export"}}

\* The processes run the same commands.
Symmetry == Permutations(Procs)

=============================================================================
