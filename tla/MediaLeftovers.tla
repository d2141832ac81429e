--------------------------- MODULE MediaLeftovers ---------------------------
(***************************************************************************)
(* Media with a history variable: which assets had something go wrong      *)
(* while a request held them.  It bounds the damage of what Media's other  *)
(* properties leave out: an avatar nobody shows any more but whose row or  *)
(* file stays, and a row whose file is gone.                               *)
(***************************************************************************)
EXTENDS Media

VARIABLE disturbed   \* the assets something went wrong with

hvars == <<vars, disturbed>>

\* What a request is there to change: the asset it saves, the avatar it
\* removes, and the avatar of its user it is about to read.
Concerns(w) ==
  {a \in Assets :
    \/ a = asset[w] /\ pc[w] # "serve"
    \/ a = old[w]
    \/ pc[w] \in {"previous", "avatarOf"} /\ a = avatar[user[w]]}

\* A failure disturbs what the request works on, a crash what any request
\* does.
Failed(w) == disturbed' = disturbed \cup Concerns(w)
Killed    == disturbed' = disturbed \cup UNION {Concerns(w) : w \in Workers}

\* An upload of an avatar or a deletion is opened while another one of the
\* same user runs: an upload among them may lose its asset to the other.
ChangesAvatarOf(u, w) ==
  pc[w] # "idle" /\ user[w] = u /\ (asset[w] \in Assets => bucket[asset[w]] = "users")

Rivals(w) ==
  IF ChangesAvatarOf(user[w], w)
    THEN {v \in Workers \ {w} : ChangesAvatarOf(user[w], v)} ELSE {}

Overlaps(w) ==
  disturbed' = disturbed \cup
    (IF Rivals(w)' = {} THEN {} ELSE Assets \cap {asset'[v] : v \in Rivals(w)' \cup {w}})

HInit == Init /\ disturbed = {}

HNext ==
  \/ \E w \in Workers, u \in Users, a \in Assets, b \in Buckets :
       StartUpload(w, u, a, b) /\ Overlaps(w)
  \/ \E w \in Workers, u \in Users : StartDelete(w, u) /\ Overlaps(w)
  \/ \E w \in Workers, a \in Assets : StartRead(w, a) /\ UNCHANGED disturbed
  \/ \E w \in Workers : Statement(w, TRUE) /\ UNCHANGED disturbed
  \/ \E w \in Workers : Statement(w, FALSE) /\ Failed(w)
  \/ \E w \in Workers : ServeFile(w) /\ UNCHANGED disturbed
  \/ \E u \in Users : EnsureProfile(u) /\ UNCHANGED disturbed
  \/ Crash /\ Killed

HSpec == HInit /\ [][HNext]_hvars

-----------------------------------------------------------------------------
\* An avatar nobody shows and nobody works on any more.
Abandoned(a) ==
  /\ bucket[a] = "users"
  /\ \A u \in Users : avatar[u] # a
  /\ \A w \in Workers : a \notin Concerns(w)

\* An abandoned avatar leaves neither a row nor a file, unless something went
\* wrong while a request held it: an ignored error, a crash, or two requests
\* of one user at the same time, of which both read the same previous avatar
\* and the first one's upload is forgotten (me_handlers.go:158-166), or the
\* user is gone before the profile is updated (me_handlers.go:122).
LeftoversAreExcused ==
  \A a \in Assets :
    Abandoned(a) /\ a \notin disturbed => a \notin rows /\ file[a] = "absent"

\* With every statement failing at will, a row without its file is still the
\* trace of a failure that met that very asset: nothing spreads to others.
LossesAreExcused == \A a \in rows \ disturbed : file[a] = "complete"
=============================================================================
