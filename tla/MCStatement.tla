----------------------------- MODULE MCStatement ------------------------------
(***************************************************************************)
(* A small instance of Statement for TLC.                                  *)
(***************************************************************************)
EXTENDS Statement, TLC

Symmetry == Permutations(Txns)
=============================================================================
