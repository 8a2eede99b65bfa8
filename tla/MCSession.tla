----------------------------- MODULE MCSession -----------------------------
(***************************************************************************)
(* Session with the symmetry of its users and requests, for safety runs.   *)
(***************************************************************************)
EXTENDS Session, TLC

Symmetry == Permutations(Requests) \cup Permutations(Users) \cup Permutations(Browsers)
=============================================================================
