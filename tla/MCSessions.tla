---------------------------- MODULE MCSessions ----------------------------
(* Small instances of Sessions for TLC.                                    *)
EXTENDS Sessions, TLC

Symmetry == Permutations(Users) \cup Permutations(Passwords) \cup Permutations(Workers)
=============================================================================
