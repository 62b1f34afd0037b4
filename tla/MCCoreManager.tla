---------------------------- MODULE MCCoreManager ----------------------------
(***************************************************************************)
(* Instances of CoreManager for TLC.                                       *)
(***************************************************************************)
EXTENDS CoreManager, TLC

Symmetry == Permutations(Pids)
=============================================================================
