---------------------------- MODULE MCUserAdmin ----------------------------
(***************************************************************************)
(* UserAdmin with the symmetry of its requests and, where the constants    *)
(* treat all users alike, of its users.                                    *)
(***************************************************************************)
EXTENDS UserAdmin, TLC

RequestSymmetry == Permutations(Requests)
Symmetry == RequestSymmetry \cup Permutations(Users)
=============================================================================
