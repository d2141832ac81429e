---------------------------- MODULE MCResources ----------------------------
(* Small instances of Resources for TLC.                                   *)
EXTENDS Resources, TLC

CONSTANTS a, k

\* The title "a 2" has the slug that the second entry titled "a" is given.
MCTitles == {<<a>>, <<a, 2>>}

AnyStatus == Statuses \cup {Null}

MCLabels == {<<k>>}

Symmetry == Permutations(Ids) \cup Permutations(Workers) \cup Permutations(Dates)
=============================================================================
