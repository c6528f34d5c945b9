---------------------------- MODULE MCSplitServing ----------------------------
(* TLC instance of SplitServing: the plan takes both workers, and without w1 the  *)
(* model does not go in.                                                          *)
EXTENDS SplitServing, TLC

CONSTANTS d, w1, w2, c1, c2

MCNodes == <<d, w1, w2>>
MCTotal == (d :> 2) @@ (w1 :> 7) @@ (w2 :> 5)
Symmetry == Permutations(Calls)
=============================================================================
