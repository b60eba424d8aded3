---------------------------- MODULE MCAdminPages ----------------------------
(***************************************************************************)
(* Instances of AdminPages.                                                *)
(***************************************************************************)
EXTENDS AdminPages, TLC

Symmetry == Permutations(Code) \cup Permutations(Pin)
=============================================================================
