------------------------------ MODULE MCGroups ------------------------------
(* A small instance of Groups for TLC.                                    *)
EXTENDS Groups, TLC

\* "teacher", " TEACHER " and "STUDENT".
Spellings ==
  {[word |-> "TEACHER", padded |-> FALSE, capital |-> FALSE],
   [word |-> "TEACHER", padded |-> TRUE, capital |-> TRUE],
   [word |-> "STUDENT", padded |-> FALSE, capital |-> TRUE]}

TeacherCode == {"TEACHER"}

Symmetry == Permutations(GroupIds) \cup Permutations(Users) \cup Permutations(Workers)
=============================================================================
