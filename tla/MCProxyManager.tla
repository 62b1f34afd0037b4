--------------------------- MODULE MCProxyManager ---------------------------
(***************************************************************************)
(* Instances of ProxyManager for TLC.  The constant values of the runs are *)
(* in the configurations; the sets that are not sets of model values are   *)
(* named here.                                                             *)
(***************************************************************************)
EXTENDS ProxyManagerInv, TLC

Symmetry == Permutations(Pids) \cup Permutations(Settings)
=============================================================================
