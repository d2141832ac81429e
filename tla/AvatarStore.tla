---------------------------- MODULE AvatarStore ----------------------------
(***************************************************************************)
(* What uploads and deletions of avatars promise to the users of the       *)
(* service: an avatar that a profile shows can be fetched for as long as   *)
(* it is shown; it changes only to another avatar that can be fetched; it  *)
(* disappears only while the account is being deleted; and no two profiles *)
(* show the same one.                                                      *)
(***************************************************************************)
CONSTANTS Users, Assets, Null

VARIABLES
  shown,    \* the avatar each user shows
  stored,   \* the assets that can be fetched
  closing   \* the users whose account somebody is deleting

vars == <<shown, stored, closing>>

Init ==
  /\ shown = [u \in Users |-> Null]
  /\ stored = {}
  /\ closing = {}

\* An upload is complete.
Store(a) ==
  /\ a \notin stored
  /\ stored' = stored \cup {a}
  /\ UNCHANGED shown

\* A user shows an asset that can be fetched and that nobody else shows.
Show(u, a) ==
  /\ a \in stored
  /\ \A v \in Users : shown[v] # a
  /\ shown' = [shown EXCEPT ![u] = a]
  /\ UNCHANGED stored

\* An asset goes: only an account that is being deleted may still show it.
Retire(a) ==
  /\ a \in stored
  /\ \A u \in Users : shown[u] = a => u \in closing
  /\ stored' = stored \ {a}
  /\ shown' = [u \in Users |-> IF shown[u] = a THEN Null ELSE shown[u]]

\* The account is deleted with its profile.
Close(u) ==
  /\ u \in closing
  /\ shown' = [shown EXCEPT ![u] = Null]
  /\ UNCHANGED stored

\* Requests to delete accounts open, end, and are cut off, also in the step
\* that does their work.
Requests == closing' \subseteq Users

Next ==
  /\ Requests
  /\ \/ \E a \in Assets : Store(a) \/ Retire(a)
     \/ \E u \in Users, a \in Assets : Show(u, a)
     \/ \E u \in Users : Close(u)
     \/ UNCHANGED <<shown, stored>>

Spec == Init /\ [][Next]_vars

-----------------------------------------------------------------------------
\* What a profile shows can be fetched, and belongs to that profile alone.
ShownIsStored ==
  \A u \in Users :
    shown[u] # Null => shown[u] \in stored /\ \A v \in Users \ {u} : shown[v] # shown[u]
=============================================================================
