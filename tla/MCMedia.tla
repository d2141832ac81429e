------------------------------ MODULE MCMedia ------------------------------
(* Small instances of Media for TLC.                                       *)
EXTENDS Media, TLC

\* The results the code mistakes for others, and with which RowHasFile or
\* AvatarsAreKept do not hold; MediaLeftovers accounts for them.
Mistaken == {"deleteAsset", "insertReply", "setAvatar"}
Tolerated == Statements \ Mistaken

Symmetry == Permutations(Users) \cup Permutations(Assets) \cup Permutations(Workers)
=============================================================================
