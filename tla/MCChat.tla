------------------------------- MODULE MCChat -------------------------------
(* Small instances of Chat for TLC. *)
EXTENDS Chat, TLC

Symmetric == Permutations(Users) \cup Permutations(Handlers)
=============================================================================
