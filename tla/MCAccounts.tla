----------------------------- MODULE MCAccounts -----------------------------
(* A small instance of Accounts for TLC.                                   *)
EXTENDS Accounts, TLC

\* Student is not interchangeable with the other roles.
Symmetry ==
  Permutations(Ids) \cup Permutations(Emails) \cup Permutations(Workers)
    \cup Permutations(Roles \ {Student})
=============================================================================
