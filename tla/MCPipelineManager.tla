-------------------------- MODULE MCPipelineManager --------------------------
(* TLC instances of PipelineManager. *)
EXTENDS PipelineManager, TLC

CONSTANTS m1, m2, c1, c2, p1, p2, p3

\* Handlers, processes and model names are interchangeable; the runs of safety
\* properties exploit it.
Symmetry == Permutations(Callers) \cup Permutations(Pids) \cup Permutations(Models)
=============================================================================
