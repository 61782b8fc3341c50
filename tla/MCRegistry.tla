----------------------------- MODULE MCRegistry -----------------------------
(* Symmetry of the names, for TLC.                                         *)
EXTENDS Registry, TLC

Symmetry == Permutations(Name)
=============================================================================
