---------------------------- MODULE MCClientQueries ----------------------------
(* Symmetry of the names of cvars, for TLC.                                *)
EXTENDS ClientQueries, TLC

Symmetry == Permutations(Cvar)
=============================================================================
