-------------------------- MODULE MCCategoryOrder --------------------------
(* A small instance of CategoryOrder for TLC.                              *)
EXTENDS CategoryOrder, TLC

\* Some requests name the order of the group, most do not.
MCNamed == {Null, 1}

\* All that the migrations have left has been deleted.
MCSeeds == [c \in Codes |-> Null]

Symmetry == Permutations(Codes) \cup Permutations(Groups) \cup Permutations(Workers)
=============================================================================
