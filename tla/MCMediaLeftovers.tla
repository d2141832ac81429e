-------------------------- MODULE MCMediaLeftovers --------------------------
(* A small instance of MediaLeftovers for TLC: every statement may fail.   *)
EXTENDS MediaLeftovers, TLC

Symmetry == Permutations(Users) \cup Permutations(Assets) \cup Permutations(Workers)
=============================================================================
