------------------------------ MODULE MCPoolView ------------------------------
(* TLC instances of PoolView. *)
EXTENDS PoolView, TLC

CONSTANTS p1, p2, a1, a2

\* Addresses are interchangeable, and so are the peers but for the one watched.
Symmetry == Permutations(Peers \ {Watched}) \cup Permutations(Addrs)
=============================================================================
