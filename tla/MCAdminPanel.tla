---------------------------- MODULE MCAdminPanel ----------------------------
(***************************************************************************)
(* AdminPanel with the symmetry of its roles.                              *)
(***************************************************************************)
EXTENDS AdminPanel, TLC

Symmetry == Permutations(Roles)
=============================================================================
