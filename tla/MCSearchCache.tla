---------------------------- MODULE MCSearchCache ----------------------------
(***************************************************************************)
(* Small instances of SearchCache for TLC.                                 *)
(***************************************************************************)
EXTENDS SearchCache

Symmetry == Permutations(Callers) \cup Permutations(Queries)
=============================================================================
