-------------------------- MODULE MCLedgerService ---------------------------
(***************************************************************************)
(* Small instances of LedgerService for TLC.                               *)
(***************************************************************************)
EXTENDS LedgerService, TLC

Symmetry == Permutations(Requests) \cup Permutations(Bodies)
=============================================================================
