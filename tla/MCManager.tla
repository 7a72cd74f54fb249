------------------------------- MODULE MCManager ------------------------------
(***************************************************************************)
(* Networks and callers are told apart by nothing but their names.         *)
(***************************************************************************)
EXTENDS Manager, TLC

Symmetry == Permutations(Alias) \cup Permutations(Caller)
===============================================================================
