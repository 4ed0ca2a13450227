------------------------------- MODULE MCAuth -------------------------------
(***************************************************************************)
(* Auth with handlers and users that are alike.                            *)
(***************************************************************************)
EXTENDS Auth, TLC

Alike == Permutations(Handlers) \union Permutations(Users)
=============================================================================
