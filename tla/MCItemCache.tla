---------------------------- MODULE MCItemCache ----------------------------
(***************************************************************************)
(* ItemCache with the symmetry of its readers, writers and pages, for runs *)
(* without liveness.                                                       *)
(***************************************************************************)
EXTENDS ItemCache, TLC

Symmetry ==
    Permutations(Readers) \cup Permutations(Writers) \cup Permutations(Keys)
=============================================================================
