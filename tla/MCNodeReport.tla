----------------------------- MODULE MCNodeReport -----------------------------
(* TLC instance of NodeReport. *)
EXTENDS NodeReport
=============================================================================
