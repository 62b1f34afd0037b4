---------------------------- MODULE MCAtomicFile ----------------------------
(***************************************************************************)
(* Instances of AtomicFile for TLC.                                        *)
(***************************************************************************)
EXTENDS AtomicFile, TLC

Symmetry == Permutations(Inodes) \cup Permutations(TempNames) \cup Permutations(Values)
=============================================================================
