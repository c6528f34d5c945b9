----------------------------- MODULE MCRpcWorker -----------------------------
(* TLC instance of RpcWorker. *)
EXTENDS RpcWorker, TLC

CONSTANTS c1, c2, p1, p2, p3

\* Handlers and processes are interchangeable; used where only safety is asked.
Symmetry == Permutations(Callers) \cup Permutations(Pids)
=============================================================================
