---------------------------- MODULE MediaProofs ----------------------------
(***************************************************************************)
(* Theorems about Media and MediaLeftovers, for every set of users, assets *)
(* and goroutines, every number of crashes and every set of statements     *)
(* that may fail.                                                          *)
(***************************************************************************)
EXTENDS MediaLeftovers, TLAPS

-----------------------------------------------------------------------------
(* The inductive invariant.  RowHasFile is not inductive: a step that      *)
(* removes a file is harmless only because nobody holds its UUID for       *)
(* another purpose at that moment.                                         *)

InFlight == Saving \cup Placing

\* A UUID is drawn before anything is known about it.
IssuedFirst ==
  /\ \A a \in Assets : bucket[a] = Null =>
       /\ file[a] = "absent"
       /\ a \notin rows
       /\ \A u \in Users : avatar[u] # a
       /\ \A w \in Workers : asset[w] # a /\ old[w] # a

\* Every request holds what its next statement needs.
HoldsItsArguments ==
  \A w \in Workers :
    /\ pc[w] \in InFlight => asset[w] \in Assets /\ user[w] \in Users
    /\ pc[w] \in Saving \cup {"serve", "previous", "avatarOf"} => old[w] = Null
    /\ pc[w] = "serve" => asset[w] \in Assets
    /\ pc[w] \in Removing => old[w] \in Assets /\ old[w] # asset[w] /\ user[w] \in Users
    /\ pc[w] \in {"avatarOf", "deleteUser"} => asset[w] = Null /\ user[w] \in Users
    /\ pc[w] = "idle" => asset[w] = Null /\ old[w] = Null

\* TypeOK alone is not inductive: that InsertAsset adds a UUID to the table
\* needs the request to hold one.
Typed == TypeOK /\ HoldsItsArguments

\* An asset that is being saved is this request's alone: it has no row, and
\* no profile, deletion, reader or other upload knows it.  Between its INSERT
\* and its UPDATE it has a row and still no profile and no deletion know it.
SavesItsOwn ==
  \A w \in Workers : pc[w] \in InFlight =>
    /\ \A u \in Users : avatar[u] # asset[w]
    /\ \A v \in Workers : old[v] # asset[w]
    /\ \A v \in Workers \ {w} : pc[v] \in InFlight => asset[v] # asset[w]
    /\ pc[w] \in Saving => asset[w] \notin rows
    /\ pc[w] = "insert" => file[asset[w]] = "complete"
    /\ pc[w] \in Placing => asset[w] \in rows

\* No two profiles show the same asset, and each shows one with a row.
OneProfileEach ==
  \A u \in Users : avatar[u] \in Assets =>
    avatar[u] \in rows /\ \A v \in Users \ {u} : avatar[v] # avatar[u]

\* A previous avatar that is still shown is shown by the user of the request.
OldIsTheUsers ==
  \A w \in Workers, u \in Users :
    old[w] # Null /\ avatar[u] = old[w] => user[w] = u

\* A file is removed after its row.
RowGoesFirst == \A w \in Workers : pc[w] = "removeFile" => old[w] \notin rows

IInv ==
  /\ Typed
  /\ IssuedFirst
  /\ SavesItsOwn
  /\ OneProfileEach
  /\ OldIsTheUsers
  /\ RowGoesFirst
  /\ RowHasFile
  /\ ServedWhole

-----------------------------------------------------------------------------
(* Types                                                                   *)

LEMMA TypedInit == Init => Typed
  BY MediaConstants
  DEF Init, Typed, TypeOK, HoldsItsArguments, InFlight, Labels, Saving, Placing, Removing

\* One step per action of Next.
LEMMA TypedStep == Typed /\ [Next]_vars => Typed'
<1> SUFFICES ASSUME Typed, [Next]_vars PROVE Typed'
  OBVIOUS
<1> USE MediaConstants
    DEF Buckets, Typed, TypeOK, HoldsItsArguments, InFlight, Labels, Saving, Placing, Removing,
        database, disk, locals, At, Goto
<1>1. ASSUME NEW w \in Workers, NEW u \in Users, NEW a \in Assets,
             NEW b \in Buckets, StartUpload(w, u, a, b)
      PROVE  Typed'
  BY <1>1 DEF StartUpload
<1>2. ASSUME NEW w \in Workers, NEW u \in Users, StartDelete(w, u)
      PROVE  Typed'
  BY <1>2 DEF StartDelete
<1>3. ASSUME NEW w \in Workers, NEW a \in Assets, StartRead(w, a)
      PROVE  Typed'
  BY <1>3 DEF StartRead
<1>4. ASSUME NEW w \in Workers, NEW ok \in BOOLEAN, CopyBody(w, ok)
      PROVE  Typed'
  BY <1>4 DEF CopyBody, Answer
<1>5. ASSUME NEW w \in Workers, NEW ok \in BOOLEAN, InsertAsset(w, ok)
      PROVE  Typed'
  BY <1>5 DEF InsertAsset, Answer
<1>6. ASSUME NEW w \in Workers, NEW ok \in BOOLEAN, DiscardFile(w, ok)
      PROVE  Typed'
  BY <1>6 DEF DiscardFile, Answer
<1>7. ASSUME NEW w \in Workers, NEW ok \in BOOLEAN, SelectAvatar(w, ok)
      PROVE  Typed'
  BY <1>7 DEF SelectAvatar
<1>8. ASSUME NEW w \in Workers, NEW ok \in BOOLEAN, InsertProfile(w, ok)
      PROVE  Typed'
  BY <1>8 DEF InsertProfile
<1>9. ASSUME NEW w \in Workers, NEW ok \in BOOLEAN, SetAvatar(w, ok)
      PROVE  Typed'
  BY <1>9 DEF SetAvatar, Answer
<1>10. ASSUME NEW w \in Workers, NEW ok \in BOOLEAN, LookupAsset(w, ok)
      PROVE  Typed'
  BY <1>10 DEF LookupAsset, AfterRemoval, Answer
<1>11. ASSUME NEW w \in Workers, NEW ok \in BOOLEAN, DeleteRow(w, ok)
      PROVE  Typed'
  BY <1>11 DEF DeleteRow
<1>12. ASSUME NEW w \in Workers, NEW ok \in BOOLEAN, RemoveFile(w, ok)
      PROVE  Typed'
  BY <1>12 DEF RemoveFile, AfterRemoval, Answer
<1>13. ASSUME NEW w \in Workers, NEW ok \in BOOLEAN, DeleteUser(w, ok)
      PROVE  Typed'
  BY <1>13 DEF DeleteUser, Answer
<1>14. ASSUME NEW w \in Workers, ServeFile(w)
      PROVE  Typed'
  BY <1>14 DEF ServeFile, Answer
<1>15. ASSUME NEW u \in Users, EnsureProfile(u)
      PROVE  Typed'
  BY <1>15 DEF EnsureProfile
<1>16. CASE Crash
  BY <1>16 DEF Crash
<1>17. CASE UNCHANGED vars
  BY <1>17 DEF vars
<1> QED
  BY <1>1, <1>2, <1>3, <1>4, <1>5, <1>6, <1>7, <1>8, <1>9, <1>10, <1>11, <1>12, <1>13, <1>14, <1>15, <1>16, <1>17
     DEF Next, Start, Step, Statement

\* Every variable keeps its type, through failures and crashes: no handler
\* runs with a user, an asset or a previous avatar that is not one.
THEOREM TypeCorrect == Spec => []TypeOK
<1>1. Typed => TypeOK
  BY DEF Typed
<1> QED
  BY <1>1, TypedInit, TypedStep, PTL DEF Spec

-----------------------------------------------------------------------------
(* A row has its file                                                      *)

LEMMA IInvInit == Init => IInv
<1> SUFFICES ASSUME Init PROVE IInv
  OBVIOUS
<1>1. Typed
  BY TypedInit
<1> QED
  BY <1>1, MediaConstants
  DEF Init, IInv, Typed, IssuedFirst, SavesItsOwn, OneProfileEach, OldIsTheUsers, RowGoesFirst,
      RowHasFile, ServedWhole, InFlight, Saving, Placing, At

\* One step per action; the substeps name what the action can disturb and the
\* part of the invariant that forbids it.
LEMMA IInvStep == RowsTrusted /\ IInv /\ [Next]_vars => IInv'
<1> SUFFICES ASSUME RowsTrusted, IInv, [Next]_vars PROVE IInv'
  OBVIOUS
<1>0. Typed'
  BY TypedStep DEF IInv
<1> USE <1>0, MediaConstants
    DEF Buckets, IInv, Typed, TypeOK, HoldsItsArguments, InFlight, Labels, Saving, Placing, Removing,
        database, disk, locals, At, Goto
<1> DEFINE Rest == IssuedFirst /\ OneProfileEach /\ OldIsTheUsers
<1>1. ASSUME NEW w \in Workers, NEW u \in Users, NEW a \in Assets,
             NEW b \in Buckets, StartUpload(w, u, a, b)
      PROVE  IInv'
  \* A fresh UUID is nobody's: no row describes the file that is emptied, and
  \* no reader has it open.
  <2>1. RowHasFile' /\ RowGoesFirst'
    BY <1>1 DEF StartUpload, IssuedFirst, RowHasFile, RowGoesFirst
  <2>2. ServedWhole'
    BY <1>1 DEF StartUpload, IssuedFirst, ServedWhole
  <2>3. SavesItsOwn'
    BY <1>1 DEF StartUpload, IssuedFirst, SavesItsOwn
  <2>4. Rest'
    BY <1>1 DEF StartUpload, IssuedFirst, OneProfileEach, OldIsTheUsers
  <2> QED
    BY <2>1, <2>2, <2>3, <2>4
<1>2. ASSUME NEW w \in Workers, NEW u \in Users, StartDelete(w, u)
      PROVE  IInv'
  BY <1>2 DEF StartDelete, IssuedFirst, SavesItsOwn, OneProfileEach, OldIsTheUsers, RowGoesFirst,
              RowHasFile, ServedWhole
<1>3. ASSUME NEW w \in Workers, NEW a \in Assets, StartRead(w, a)
      PROVE  IInv'
  \* The row that was found has a complete file.
  <2>1. ServedWhole'
    BY <1>3 DEF StartRead, RowHasFile, ServedWhole
  <2>2. IssuedFirst'
    BY <1>3 DEF StartRead, IssuedFirst
  <2> QED
    BY <1>3, <2>1, <2>2 DEF StartRead, SavesItsOwn, OneProfileEach, OldIsTheUsers, RowGoesFirst,
                            RowHasFile
<1>4. ASSUME NEW w \in Workers, NEW ok \in BOOLEAN, CopyBody(w, ok)
      PROVE  IInv'
  <2>1. SavesItsOwn'
    BY <1>4 DEF CopyBody, Answer, SavesItsOwn
  <2>2. RowHasFile' /\ RowGoesFirst' /\ ServedWhole'
    BY <1>4 DEF CopyBody, Answer, SavesItsOwn, RowHasFile, RowGoesFirst, ServedWhole
  <2>3. Rest'
    BY <1>4 DEF CopyBody, Answer, IssuedFirst, OneProfileEach, OldIsTheUsers
  <2> QED
    BY <2>1, <2>2, <2>3
<1>5. ASSUME NEW w \in Workers, NEW ok \in BOOLEAN, InsertAsset(w, ok)
      PROVE  IInv'
  \* The file was completed first, and no deletion holds the new row.
  <2>1. RowHasFile' /\ RowGoesFirst'
    BY <1>5 DEF InsertAsset, Answer, SavesItsOwn, RowHasFile, RowGoesFirst, RowsTrusted
  <2>2. SavesItsOwn'
    <3>1. CASE ok /\ user[w] \in users
      BY <1>5, <3>1 DEF InsertAsset, Answer, SavesItsOwn
    <3>2. CASE ~(ok /\ user[w] \in users)
      <4>1. UNCHANGED <<rows, avatar, file, asset, old>> /\ pc' = [pc EXCEPT ![w] = "discard"]
        BY <1>5, <3>2 DEF InsertAsset, RowsTrusted
      <4> QED
        BY <1>5, <4>1 DEF InsertAsset, SavesItsOwn
    <3> QED
      BY <3>1, <3>2
  <2>3. Rest' /\ ServedWhole'
    BY <1>5 DEF InsertAsset, Answer, IssuedFirst, OneProfileEach, OldIsTheUsers, ServedWhole
  <2> QED
    BY <2>1, <2>2, <2>3
<1>6. ASSUME NEW w \in Workers, NEW ok \in BOOLEAN, DiscardFile(w, ok)
      PROVE  IInv'
  \* The file that goes has no row, and is no other upload's.
  <2>1. RowHasFile' /\ RowGoesFirst'
    BY <1>6 DEF DiscardFile, Answer, SavesItsOwn, RowHasFile, RowGoesFirst
  <2>2. SavesItsOwn'
    BY <1>6 DEF DiscardFile, Answer, SavesItsOwn
  <2>3. Rest' /\ ServedWhole'
    BY <1>6 DEF DiscardFile, Answer, IssuedFirst, OneProfileEach, OldIsTheUsers, ServedWhole
  <2> QED
    BY <2>1, <2>2, <2>3
<1>7. ASSUME NEW w \in Workers, NEW ok \in BOOLEAN, SelectAvatar(w, ok)
      PROVE  IInv'
  \* What the profile shows is in no upload's hands and in no other profile.
  <2>1. SavesItsOwn'
    BY <1>7 DEF SelectAvatar, SavesItsOwn
  <2>2. OldIsTheUsers'
    BY <1>7 DEF SelectAvatar, OneProfileEach, OldIsTheUsers
  <2>3. IssuedFirst' /\ OneProfileEach'
    BY <1>7 DEF SelectAvatar, IssuedFirst, OneProfileEach
  <2>4. RowGoesFirst' /\ RowHasFile' /\ ServedWhole'
    BY <1>7 DEF SelectAvatar, RowGoesFirst, RowHasFile, ServedWhole
  <2> QED
    BY <2>1, <2>2, <2>3, <2>4
<1>8. ASSUME NEW w \in Workers, NEW ok \in BOOLEAN, InsertProfile(w, ok)
      PROVE  IInv'
  BY <1>8 DEF InsertProfile, IssuedFirst, SavesItsOwn, OneProfileEach, OldIsTheUsers, RowGoesFirst,
              RowHasFile, ServedWhole
<1>9. ASSUME NEW w \in Workers, NEW ok \in BOOLEAN, SetAvatar(w, ok)
       PROVE  IInv'
  \* The profile turns to an asset that no other profile shows and no
  \* deletion has read.
  <2>1. OneProfileEach' /\ OldIsTheUsers'
    BY <1>9 DEF SetAvatar, Answer, SavesItsOwn, OneProfileEach, OldIsTheUsers
  <2>2. SavesItsOwn'
    BY <1>9 DEF SetAvatar, Answer, SavesItsOwn
  <2>3. IssuedFirst' /\ RowGoesFirst' /\ RowHasFile' /\ ServedWhole'
    BY <1>9 DEF SetAvatar, Answer, IssuedFirst, RowGoesFirst, RowHasFile, ServedWhole
  <2> QED
    BY <2>1, <2>2, <2>3
<1>10. ASSUME NEW w \in Workers, NEW ok \in BOOLEAN, LookupAsset(w, ok)
       PROVE  IInv'
  BY <1>10 DEF LookupAsset, AfterRemoval, Answer, IssuedFirst, SavesItsOwn, OneProfileEach,
               OldIsTheUsers, RowGoesFirst, RowHasFile, ServedWhole
<1>11. ASSUME NEW w \in Workers, NEW ok \in BOOLEAN, DeleteRow(w, ok)
       PROVE  IInv'
  \* The row that goes is no upload's, and no profile shows it any more.
  <2>0. ok
    BY <1>11 DEF DeleteRow, Attempt, RowsTrusted
  <2>1. SavesItsOwn'
    BY <1>11, <2>0 DEF DeleteRow, SavesItsOwn
  <2>2. OneProfileEach' /\ OldIsTheUsers'
    BY <1>11, <2>0 DEF DeleteRow, OneProfileEach, OldIsTheUsers
  <2>3. IssuedFirst' /\ RowGoesFirst' /\ RowHasFile' /\ ServedWhole'
    BY <1>11, <2>0 DEF DeleteRow, IssuedFirst, RowGoesFirst, RowHasFile, ServedWhole
  <2> QED
    BY <2>1, <2>2, <2>3
<1>12. ASSUME NEW w \in Workers, NEW ok \in BOOLEAN, RemoveFile(w, ok)
       PROVE  IInv'
  \* The file that goes lost its row first, and is no upload's.
  <2>1. RowHasFile' /\ RowGoesFirst'
    BY <1>12 DEF RemoveFile, AfterRemoval, Answer, RowGoesFirst, RowHasFile
  <2>2. SavesItsOwn'
    BY <1>12 DEF RemoveFile, AfterRemoval, Answer, SavesItsOwn
  <2>3. Rest' /\ ServedWhole'
    BY <1>12 DEF RemoveFile, AfterRemoval, Answer, IssuedFirst, OneProfileEach, OldIsTheUsers,
                 ServedWhole
  <2> QED
    BY <2>1, <2>2, <2>3
<1>13. ASSUME NEW w \in Workers, NEW ok \in BOOLEAN, DeleteUser(w, ok)
       PROVE  IInv'
  BY <1>13 DEF DeleteUser, Answer, IssuedFirst, SavesItsOwn, OneProfileEach, OldIsTheUsers,
               RowGoesFirst, RowHasFile, ServedWhole
<1>14. ASSUME NEW w \in Workers, ServeFile(w)
       PROVE  IInv'
  BY <1>14 DEF ServeFile, Answer, IssuedFirst, SavesItsOwn, OneProfileEach, OldIsTheUsers,
               RowGoesFirst, RowHasFile, ServedWhole
<1>15. ASSUME NEW u \in Users, EnsureProfile(u)
       PROVE  IInv'
  BY <1>15 DEF EnsureProfile, MissingProfile, IssuedFirst, SavesItsOwn, OneProfileEach,
               OldIsTheUsers, RowGoesFirst, RowHasFile, ServedWhole
<1>16. CASE Crash
  BY <1>16 DEF Crash, IssuedFirst, SavesItsOwn, OneProfileEach, OldIsTheUsers, RowGoesFirst,
               RowHasFile, ServedWhole
<1>17. CASE UNCHANGED vars
  BY <1>17 DEF vars, IssuedFirst, SavesItsOwn, OneProfileEach, OldIsTheUsers, RowGoesFirst,
               RowHasFile, ServedWhole
<1> QED
  BY <1>1, <1>2, <1>3, <1>4, <1>5, <1>6, <1>7, <1>8, <1>9, <1>10, <1>11, <1>12, <1>13,
     <1>14, <1>15, <1>16, <1>17
     DEF Next, Start, Step, Statement

LEMMA IInvAlways == RowsTrusted => (Spec => []IInv)
<1> SUFFICES ASSUME RowsTrusted PROVE Spec => []IInv
  OBVIOUS
<1>1. IInv /\ [Next]_vars => IInv'
  BY IInvStep
<1> QED
  BY <1>1, IInvInit, PTL DEF Spec

\* Every row of media_assets describes a complete file, whatever the number of
\* users, requests and crashes, unless a failed DELETE or a lost answer to an
\* INSERT is taken for what it is not.
THEOREM RowHasFileAlways == RowsTrusted => (Spec => []RowHasFile)
<1>1. IInv => RowHasFile
  BY DEF IInv
<1> QED
  BY <1>1, IInvAlways, PTL

\* No reader of MediaContent is served a file that an upload still writes.
THEOREM ServedWholeAlways == RowsTrusted => (Spec => []ServedWhole)
<1>1. IInv => ServedWhole
  BY DEF IInv
<1> QED
  BY <1>1, IInvAlways, PTL

-----------------------------------------------------------------------------
(* Avatars are kept                                                        *)

\* An upload reaches DeleteAsset only with an avatar that nobody shows: its
\* UPDATE has turned the one profile that showed it, or that profile is gone.
ReplacedFirst ==
  \A w \in Workers, u \in Users :
    pc[w] \in Removing /\ asset[w] # Null => avatar[u] # old[w]

LEMMA ReplacedFirstStep == AvatarsTrusted /\ IInv /\ ReplacedFirst /\ [Next]_vars => ReplacedFirst'
<1> SUFFICES ASSUME AvatarsTrusted, IInv, ReplacedFirst, [Next]_vars PROVE ReplacedFirst'
  OBVIOUS
<1> USE MediaConstants
    DEF IInv, Typed, TypeOK, HoldsItsArguments, InFlight, Labels, Saving, Placing, Removing,
        database, disk, locals, At, Goto, ReplacedFirst
<1>1. ASSUME NEW w \in Workers, Start(w)
      PROVE  ReplacedFirst'
  BY <1>1 DEF Start, StartUpload, StartDelete, StartRead
<1>2. ASSUME NEW w \in Workers, NEW ok \in BOOLEAN,
             CopyBody(w, ok) \/ InsertAsset(w, ok) \/ DiscardFile(w, ok)
      PROVE  ReplacedFirst'
  BY <1>2 DEF CopyBody, InsertAsset, DiscardFile, Answer
<1>3. ASSUME NEW w \in Workers, NEW ok \in BOOLEAN, SelectAvatar(w, ok)
      PROVE  ReplacedFirst'
  BY <1>3 DEF SelectAvatar
<1>4. ASSUME NEW w \in Workers, NEW ok \in BOOLEAN, InsertProfile(w, ok)
      PROVE  ReplacedFirst'
  BY <1>4 DEF InsertProfile
<1>5. ASSUME NEW w \in Workers, NEW ok \in BOOLEAN, SetAvatar(w, ok)
      PROVE  ReplacedFirst'
  <2>0. ok
    BY <1>5 DEF SetAvatar, Attempt, AvatarsTrusted
  <2>1. ASSUME NEW v \in Workers, NEW u \in Users,
               pc'[v] \in Removing, asset'[v] # Null, v # w
        PROVE  avatar'[u] # old'[v]
    \* Another request's previous avatar: this upload shows its own asset.
    BY <1>5, <2>1 DEF SetAvatar, Answer, SavesItsOwn
  <2>2. ASSUME NEW u \in Users, pc'[w] \in Removing
        PROVE  avatar'[u] # old'[w]
    \* Only the user of the request may have shown old[w].
    BY <1>5, <2>0, <2>2 DEF SetAvatar, Answer, SavesItsOwn, OldIsTheUsers
  <2> QED
    BY <2>1, <2>2
<1>6. ASSUME NEW w \in Workers, NEW ok \in BOOLEAN, LookupAsset(w, ok) \/ RemoveFile(w, ok)
      PROVE  ReplacedFirst'
  BY <1>6 DEF LookupAsset, RemoveFile, AfterRemoval, Answer
<1>7. ASSUME NEW w \in Workers, NEW ok \in BOOLEAN, DeleteRow(w, ok)
      PROVE  ReplacedFirst'
  BY <1>7 DEF DeleteRow
<1>8. ASSUME NEW w \in Workers, NEW ok \in BOOLEAN, DeleteUser(w, ok)
      PROVE  ReplacedFirst'
  BY <1>8 DEF DeleteUser, Answer
<1>9. ASSUME NEW w \in Workers, ServeFile(w)
      PROVE  ReplacedFirst'
  BY <1>9 DEF ServeFile, Answer
<1>10. ASSUME NEW u \in Users, EnsureProfile(u)
       PROVE  ReplacedFirst'
  BY <1>10 DEF EnsureProfile
<1>11. CASE Crash
  BY <1>11 DEF Crash
<1>12. CASE UNCHANGED vars
  BY <1>12 DEF vars
<1> QED
  BY <1>1, <1>2, <1>3, <1>4, <1>5, <1>6, <1>7, <1>8, <1>9, <1>10, <1>11, <1>12
     DEF Next, Step, Statement

LEMMA ReplacedFirstAlways == AvatarsTrusted => (Spec => [](IInv /\ ReplacedFirst))
<1> SUFFICES ASSUME AvatarsTrusted PROVE Spec => [](IInv /\ ReplacedFirst)
  OBVIOUS
<1>1. Init => IInv /\ ReplacedFirst
  BY IInvInit DEF Init, ReplacedFirst, Removing
<1>2. IInv /\ ReplacedFirst /\ [Next]_vars => (IInv /\ ReplacedFirst)'
  BY IInvStep, ReplacedFirstStep DEF AvatarsTrusted
<1> QED
  BY <1>1, <1>2, PTL DEF Spec

LEMMA RemovesOnlyReplacedInv == IInv /\ ReplacedFirst => RemovesOnlyReplaced
  BY MediaConstants
  DEF IInv, Typed, TypeOK, HoldsItsArguments, ReplacedFirst, RemovesOnlyReplaced, OldIsTheUsers,
      Deleting, Removing

\* DeleteAsset never removes an avatar that is shown, except for the user whose
\* account the same request deletes.
THEOREM RemovesOnlyReplacedAlways == AvatarsTrusted => (Spec => []RemovesOnlyReplaced)
<1> SUFFICES ASSUME AvatarsTrusted PROVE Spec => []RemovesOnlyReplaced
  OBVIOUS
<1> QED
  BY ReplacedFirstAlways, RemovesOnlyReplacedInv, PTL

-----------------------------------------------------------------------------
(* Media implements AvatarStore                                            *)

Shown == [u \in Users |-> IF avatar[u] \in Assets THEN avatar[u] ELSE Null]
Stored == {a \in rows : file[a] = "complete"}
Closing == {user[w] : w \in {v \in Workers : Deleting(v)}}

LEMMA ClosingType == Typed' => Closing' \subseteq Users
  BY MediaConstants
  DEF Typed, TypeOK, HoldsItsArguments, InFlight, Closing, Deleting, Labels, Saving, Placing,
      Removing

\* Steps that change neither what is shown nor what can be fetched.
LEMMA QuietStep ==
  ASSUME Shown' = Shown, Stored' = Stored, Closing' \subseteq Users
  PROVE  Store!Next
  BY DEF Store!Next, Store!Requests, Shown, Stored, Closing

LEMMA AvatarStoreInit == Init => Store!Init
  BY MediaConstants DEF Init, Store!Init, Deleting

LEMMA AvatarStoreStep ==
  AvatarsTrusted /\ IInv /\ ReplacedFirst /\ IInv' /\ [Next]_vars => [Store!Next]_Store!vars
<1> SUFFICES ASSUME AvatarsTrusted, IInv, ReplacedFirst, IInv', [Next]_vars
             PROVE  [Store!Next]_Store!vars
  OBVIOUS
<1>0. Closing' \subseteq Users
  BY ClosingType DEF IInv
<1> USE MediaConstants
    DEF IInv, Typed, TypeOK, HoldsItsArguments, InFlight, Saving, Placing, Removing,
        database, disk, locals, At
\* An upload that can be fetched once its row is there.
<1>1. ASSUME NEW w \in Workers, NEW ok \in BOOLEAN, InsertAsset(w, ok)
      PROVE  Store!Next
  <2>1. CASE ok /\ user[w] \in users
    <3>1. asset[w] \in Assets /\ asset[w] \notin Stored
      BY <1>1 DEF InsertAsset, SavesItsOwn, Stored
    <3>2. Stored' = Stored \cup {asset[w]} /\ Shown' = Shown
      BY <1>1, <2>1, <3>1 DEF InsertAsset, SavesItsOwn, Stored, Shown
    <3>3. Store!Store(asset[w])
      BY <3>1, <3>2 DEF Store!Store, Stored, Shown
    <3> QED
      BY <1>0, <3>1, <3>3 DEF Store!Next, Store!Requests, Store!Store, Stored, Shown, Closing
  <2>2. CASE ~(ok /\ user[w] \in users)
    <3>1. Stored' = Stored /\ Shown' = Shown
      BY <1>1, <2>2 DEF InsertAsset, Stored, Shown, AvatarsTrusted, RowsTrusted
    <3> QED
      BY <1>0, <3>1, QuietStep
  <2> QED
    BY <2>1, <2>2
\* A profile turns to an asset that can be fetched and is nobody else's.
<1>2. ASSUME NEW w \in Workers, NEW ok \in BOOLEAN, SetAvatar(w, ok)
      PROVE  Store!Next
  <2>0. Stored' = Stored
    BY <1>2 DEF SetAvatar, Stored
  <2>1. CASE avatar[user[w]] = NoRow
    <3>1. Shown' = Shown
      BY <1>2, <2>1 DEF SetAvatar, Shown
    <3> QED
      BY <1>0, <2>0, <3>1, QuietStep
  <2>2. CASE avatar[user[w]] # NoRow
    <3>1. /\ user[w] \in Users /\ asset[w] \in Stored
          /\ \A v \in Users : Shown[v] # asset[w]
      BY <1>2 DEF SetAvatar, SavesItsOwn, RowHasFile, Stored, Shown
    <3>2. ok /\ asset[w] \in rows /\ asset[w] \in Assets
      BY <1>2, <3>1 DEF SetAvatar, Attempt, AvatarsTrusted, Stored
    <3>3. Shown' = [Shown EXCEPT ![user[w]] = asset[w]]
      BY <1>2, <2>2, <3>1, <3>2 DEF SetAvatar, Shown
    <3>4. PICK u \in Users, a \in Assets : u = user[w] /\ a = asset[w]
      BY <3>1, <3>2
    <3>5. Store!Show(u, a)
      BY <2>0, <3>1, <3>3, <3>4 DEF Store!Show, Stored, Shown
    <3> QED
      BY <1>0, <3>5 DEF Store!Next, Store!Requests, Closing
  <2> QED
    BY <2>1, <2>2
\* The row goes: either another request was faster, or nobody shows the asset
\* but the user whose account is being deleted.
<1>3. ASSUME NEW w \in Workers, NEW ok \in BOOLEAN, DeleteRow(w, ok)
      PROVE  Store!Next
  <2>0. ok /\ old[w] \in Assets
    BY <1>3 DEF DeleteRow, Attempt, AvatarsTrusted, RowsTrusted
  <2>1. CASE old[w] \notin rows
    <3>1. Stored' = Stored /\ Shown' = Shown
      BY <1>3, <2>0, <2>1 DEF DeleteRow, OneProfileEach, Stored, Shown
    <3> QED
      BY <1>0, <3>1, QuietStep
  <2>2. CASE old[w] \in rows
    <3>1. old[w] \in Stored
      BY <2>2 DEF RowHasFile, Stored
    <3>2. \A u \in Users : Shown[u] = old[w] => u \in Closing
      <4>1. RemovesOnlyReplaced
        BY RemovesOnlyReplacedInv
      <4> QED
        BY <1>3, <2>0, <4>1 DEF DeleteRow, RemovesOnlyReplaced, Shown, Closing
    <3>3. Stored' = Stored \ {old[w]}
      BY <1>3, <2>0 DEF DeleteRow, Stored
    <3>4. Shown' = [u \in Users |-> IF Shown[u] = old[w] THEN Null ELSE Shown[u]]
      BY <1>3, <2>0 DEF DeleteRow, Shown
    <3>5. Store!Retire(old[w])
      BY <3>1, <3>2, <3>3, <3>4 DEF Store!Retire, Stored, Shown, Closing
    <3> QED
      BY <1>0, <2>0, <3>5 DEF Store!Next, Store!Requests, Store!Retire, Stored, Shown, Closing
  <2> QED
    BY <2>1, <2>2
\* The user goes, in a request that deletes its account.
<1>4. ASSUME NEW w \in Workers, NEW ok \in BOOLEAN, DeleteUser(w, ok)
      PROVE  Store!Next
  <2>0. Stored' = Stored
    BY <1>4 DEF DeleteUser, Stored
  <2>1. CASE ~ok
    <3>1. Shown' = Shown
      BY <1>4, <2>1 DEF DeleteUser, Shown
    <3> QED
      BY <1>0, <2>0, <3>1, QuietStep
  <2>2. CASE ok
    <3>1. user[w] \in Users /\ user[w] \in Closing
      BY <1>4 DEF DeleteUser, Closing, Deleting
    <3>2. Shown' = [Shown EXCEPT ![user[w]] = Null]
      BY <1>4, <2>2, <3>1 DEF DeleteUser, Shown
    <3>3. Store!Close(user[w])
      BY <2>0, <3>1, <3>2 DEF Store!Close, Stored, Shown, Closing
    <3> QED
      BY <1>0, <3>1, <3>3 DEF Store!Next, Store!Requests, Store!Close, Stored, Shown, Closing
  <2> QED
    BY <2>1, <2>2
\* Files change only while they have no row.
<1>5. ASSUME NEW w \in Workers, NEW u \in Users, NEW a \in Assets, NEW b \in Buckets,
             StartUpload(w, u, a, b)
      PROVE  Store!Next
  <2>1. Stored' = Stored /\ Shown' = Shown
    BY <1>5 DEF StartUpload, IssuedFirst, Stored, Shown
  <2> QED
    BY <1>0, <2>1, QuietStep
<1>6. ASSUME NEW w \in Workers, NEW ok \in BOOLEAN, CopyBody(w, ok) \/ DiscardFile(w, ok)
      PROVE  Store!Next
  <2>1. Stored' = Stored /\ Shown' = Shown
    BY <1>6 DEF CopyBody, DiscardFile, SavesItsOwn, Stored, Shown
  <2> QED
    BY <1>0, <2>1, QuietStep
<1>7. ASSUME NEW w \in Workers, NEW ok \in BOOLEAN, RemoveFile(w, ok)
      PROVE  Store!Next
  <2>1. Stored' = Stored /\ Shown' = Shown
    BY <1>7 DEF RemoveFile, RowGoesFirst, Stored, Shown
  <2> QED
    BY <1>0, <2>1, QuietStep
\* A missing profile shows what an empty one does.
<1>8. ASSUME NEW w \in Workers, NEW ok \in BOOLEAN, InsertProfile(w, ok)
      PROVE  Store!Next
  <2>1. Stored' = Stored /\ Shown' = Shown
    BY <1>8 DEF InsertProfile, MissingProfile, Stored, Shown
  <2> QED
    BY <1>0, <2>1, QuietStep
<1>9. ASSUME NEW u \in Users, EnsureProfile(u)
      PROVE  Store!Next
  <2>1. Stored' = Stored /\ Shown' = Shown
    BY <1>9 DEF EnsureProfile, MissingProfile, Stored, Shown
  <2> QED
    BY <1>0, <2>1, QuietStep
\* The other steps leave profiles, rows and files alone.
<1>10. ASSUME UNCHANGED <<avatar, rows, file>>
       PROVE  Store!Next
  BY <1>0, <1>10, QuietStep DEF Stored, Shown
<1>11. ASSUME NEW w \in Workers, NEW ok \in BOOLEAN,
              \/ SelectAvatar(w, ok) \/ LookupAsset(w, ok) \/ ServeFile(w)
       PROVE  Store!Next
  BY <1>10, <1>11
     DEF SelectAvatar, LookupAsset, ServeFile
<1>12. ASSUME NEW w \in Workers, NEW u \in Users, NEW a \in Assets,
              StartDelete(w, u) \/ StartRead(w, a)
       PROVE  Store!Next
  BY <1>10, <1>12 DEF StartDelete, StartRead
<1>13. CASE Crash
  BY <1>10, <1>13 DEF Crash
<1>14. CASE UNCHANGED vars
  <2>1. UNCHANGED <<avatar, rows, file>>
    BY <1>14 DEF vars
  <2> QED
    BY <1>10, <2>1
<1>15. ASSUME NEW w \in Workers, Start(w)
       PROVE  Store!Next
  BY <1>5, <1>12, <1>15, <1>10 DEF Start, StartDelete, StartRead
<1>16. ASSUME NEW w \in Workers, Step(w)
       PROVE  Store!Next
  <2>1. ASSUME NEW ok \in BOOLEAN, Statement(w, ok)
        PROVE  Store!Next
    BY <1>1, <1>2, <1>3, <1>4, <1>6, <1>7, <1>8, <1>11, <2>1 DEF Statement
  <2>2. CASE ServeFile(w)
    BY <1>11, <2>2
  <2> QED
    BY <1>16, <2>1, <2>2 DEF Step
<1> QED
  BY <1>9, <1>13, <1>14, <1>15, <1>16 DEF Next

\* Uploads and deletions of avatars keep the promises of AvatarStore: a shown
\* avatar can be fetched, changes only to another, disappears only with its
\* account, and belongs to one profile.
THEOREM AvatarsAreKeptAlways == AvatarsTrusted => (Spec => AvatarsAreKept)
<1> SUFFICES ASSUME AvatarsTrusted PROVE Spec => AvatarsAreKept
  OBVIOUS
<1>1. Spec => [](IInv /\ ReplacedFirst)
  BY ReplacedFirstAlways
<1>2. IInv /\ ReplacedFirst /\ IInv' /\ [Next]_vars => [Store!Next]_Store!vars
  BY AvatarStoreStep
<1> QED
  BY <1>1, <1>2, AvatarStoreInit, PTL DEF Spec, AvatarsAreKept, Store!Spec

\* What a profile shows can be fetched and is nobody else's, also when the
\* UPDATE that turns the profile fails.
THEOREM ShownIsStoredAlways == RowsTrusted => (Spec => []Store!ShownIsStored)
<1> SUFFICES ASSUME RowsTrusted PROVE Spec => []Store!ShownIsStored
  OBVIOUS
<1>1. IInv => Store!ShownIsStored
  BY MediaConstants DEF IInv, OneProfileEach, RowHasFile, Store!ShownIsStored
<1> QED
  BY <1>1, IInvAlways, PTL

-----------------------------------------------------------------------------
(* What a failure costs: the invariant of Media for the assets nothing     *)
(* went wrong with, whichever statements fail.                             *)

\* A request that is over or only reads is nobody's.
ReadersAreNobodys == \A w \in Workers : pc[w] \in {"idle", "serve"} => user[w] = Null

\* SavesItsOwn, RowGoesFirst and RowHasFile for the assets nothing went wrong
\* with.
SavesUndisturbed ==
  \A w \in Workers : pc[w] \in InFlight =>
    /\ \A u \in Users : avatar[u] # asset[w]
    /\ \A v \in Workers : old[v] # asset[w]
    /\ \A v \in Workers \ {w} : pc[v] \in InFlight => asset[v] # asset[w]
    /\ pc[w] \in Saving => asset[w] \notin rows \ disturbed
    /\ pc[w] = "insert" => file[asset[w]] = "complete"
    /\ pc[w] \in Placing => asset[w] \in rows

UndisturbedRowGoesFirst ==
  \A w \in Workers : pc[w] = "removeFile" => old[w] \notin rows \ disturbed

HInv ==
  /\ Typed
  /\ disturbed \subseteq Assets
  /\ ReadersAreNobodys
  /\ IssuedFirst
  /\ SavesUndisturbed
  /\ OneProfileEach
  /\ OldIsTheUsers
  /\ UndisturbedRowGoesFirst
  /\ LossesAreExcused

\* What a statement leaves of the history: a failure disturbs what the request
\* works on.
Noted(w, ok) ==
  /\ disturbed \subseteq disturbed'
  /\ disturbed' \subseteq Assets
  /\ ~ok => Concerns(w) \subseteq disturbed'

LEMMA ConcernsAssets == \A w \in Workers : Concerns(w) \subseteq Assets
  BY DEF Concerns

\* A step of the history is one of Media.
LEMMA HNextIsNext == ASSUME [HNext]_hvars PROVE [Next]_vars
<1>1. CASE UNCHANGED hvars
  BY <1>1 DEF hvars
<1>2. CASE HNext
  BY <1>2 DEF HNext, Next, Start, Step, Overlaps, Failed, Killed
<1> QED BY <1>1, <1>2

LEMMA StatementIsNoted ==
  ASSUME disturbed \subseteq Assets, NEW w \in Workers, NEW ok \in BOOLEAN,
         IF ok THEN UNCHANGED disturbed ELSE Failed(w)
  PROVE  Noted(w, ok)
  BY ConcernsAssets DEF Noted, Failed

LEMMA OthersAreNoted ==
  ASSUME disturbed \subseteq Assets, NEW w \in Workers, UNCHANGED disturbed \/ Overlaps(w)
  PROVE  Noted(w, TRUE)
  BY DEF Noted, Overlaps

LEMMA HInvInit == HInit => HInv
<1> SUFFICES ASSUME HInit PROVE HInv
  OBVIOUS
<1>1. Typed
  BY TypedInit DEF HInit
<1> QED
  BY <1>1, MediaConstants
  DEF HInit, Init, HInv, Typed, ReadersAreNobodys, IssuedFirst, SavesUndisturbed, OneProfileEach,
      OldIsTheUsers, UndisturbedRowGoesFirst, LossesAreExcused, InFlight, Saving, Placing, At

LEMMA HInvStep == HInv /\ [HNext]_hvars => HInv'
<1> SUFFICES ASSUME HInv, [HNext]_hvars PROVE HInv'
  OBVIOUS
<1>0. Typed'
  BY TypedStep, HNextIsNext DEF HInv
<1> USE <1>0, MediaConstants
    DEF Buckets, HInv, Typed, TypeOK, HoldsItsArguments, InFlight, Labels, Saving, Placing, Removing,
        database, disk, locals, At, Goto
<1> DEFINE Rest == IssuedFirst /\ OneProfileEach /\ OldIsTheUsers /\ ReadersAreNobodys
           Files == UndisturbedRowGoesFirst /\ LossesAreExcused
<1>1. ASSUME NEW w \in Workers, NEW u \in Users, NEW a \in Assets, NEW b \in Buckets,
             StartUpload(w, u, a, b), Noted(w, TRUE)
      PROVE  HInv'
  <2>1. Files'
    BY <1>1 DEF StartUpload, Noted, IssuedFirst, UndisturbedRowGoesFirst, LossesAreExcused
  <2>2. SavesUndisturbed'
    BY <1>1 DEF StartUpload, Noted, IssuedFirst, SavesUndisturbed
  <2>3. Rest'
    BY <1>1 DEF StartUpload, ReadersAreNobodys, IssuedFirst, OneProfileEach, OldIsTheUsers
  <2> QED
    BY <1>1, <2>1, <2>2, <2>3 DEF Noted
<1>2. ASSUME NEW w \in Workers, NEW u \in Users, StartDelete(w, u), Noted(w, TRUE)
      PROVE  HInv'
  BY <1>2 DEF StartDelete, Noted, ReadersAreNobodys, IssuedFirst, SavesUndisturbed, OneProfileEach,
              OldIsTheUsers, UndisturbedRowGoesFirst, LossesAreExcused
<1>3. ASSUME NEW w \in Workers, NEW a \in Assets, StartRead(w, a), Noted(w, TRUE)
      PROVE  HInv'
  <2>1. IssuedFirst' /\ ReadersAreNobodys'
    BY <1>3 DEF StartRead, IssuedFirst, ReadersAreNobodys
  <2> QED
    BY <1>3, <2>1 DEF StartRead, Noted, SavesUndisturbed, OneProfileEach, OldIsTheUsers,
                      UndisturbedRowGoesFirst, LossesAreExcused
<1>4. ASSUME NEW w \in Workers, NEW ok \in BOOLEAN, CopyBody(w, ok), Noted(w, ok)
      PROVE  HInv'
  <2>1. SavesUndisturbed'
    BY <1>4 DEF CopyBody, Noted, Answer, SavesUndisturbed
  <2>2. Files'
    BY <1>4 DEF CopyBody, Noted, Answer, SavesUndisturbed, UndisturbedRowGoesFirst, LossesAreExcused
  <2>3. Rest'
    BY <1>4 DEF CopyBody, Answer, ReadersAreNobodys, IssuedFirst, OneProfileEach, OldIsTheUsers
  <2> QED
    BY <1>4, <2>1, <2>2, <2>3 DEF Noted
<1>5. ASSUME NEW w \in Workers, NEW ok \in BOOLEAN, InsertAsset(w, ok), Noted(w, ok)
      PROVE  HInv'
  <2>1. Files'
    BY <1>5 DEF InsertAsset, Noted, Answer, SavesUndisturbed, UndisturbedRowGoesFirst, LossesAreExcused
  <2>2. SavesUndisturbed'
    <3>1. CASE ok /\ user[w] \in users
      BY <1>5, <3>1 DEF InsertAsset, Noted, Answer, SavesUndisturbed
    \* A row whose INSERT was taken for a failure is disturbed.
    <3>2. CASE ~(ok /\ user[w] \in users)
      <4>1. /\ UNCHANGED <<avatar, file, asset, old>> /\ pc' = [pc EXCEPT ![w] = "discard"]
            /\ rows' = rows \/ (rows' = rows \cup {asset[w]} /\ asset[w] \in disturbed')
        BY <1>5, <3>2 DEF InsertAsset, Noted, Concerns
      <4> QED
        BY <1>5, <4>1 DEF InsertAsset, Noted, SavesUndisturbed
    <3> QED
      BY <3>1, <3>2
  <2>3. Rest'
    BY <1>5 DEF InsertAsset, Answer, ReadersAreNobodys, IssuedFirst, OneProfileEach, OldIsTheUsers
  <2> QED
    BY <1>5, <2>1, <2>2, <2>3 DEF Noted
<1>6. ASSUME NEW w \in Workers, NEW ok \in BOOLEAN, DiscardFile(w, ok), Noted(w, ok)
      PROVE  HInv'
  <2>1. Files'
    BY <1>6 DEF DiscardFile, Noted, Answer, SavesUndisturbed, UndisturbedRowGoesFirst, LossesAreExcused
  <2>2. SavesUndisturbed'
    BY <1>6 DEF DiscardFile, Noted, Answer, SavesUndisturbed
  <2>3. Rest'
    BY <1>6 DEF DiscardFile, Answer, ReadersAreNobodys, IssuedFirst, OneProfileEach, OldIsTheUsers
  <2> QED
    BY <1>6, <2>1, <2>2, <2>3 DEF Noted
<1>7. ASSUME NEW w \in Workers, NEW ok \in BOOLEAN, SelectAvatar(w, ok), Noted(w, ok)
      PROVE  HInv'
  <2>1. SavesUndisturbed'
    BY <1>7 DEF SelectAvatar, Noted, SavesUndisturbed
  <2>2. OldIsTheUsers'
    BY <1>7 DEF SelectAvatar, OneProfileEach, OldIsTheUsers
  <2>3. IssuedFirst' /\ OneProfileEach' /\ ReadersAreNobodys'
    BY <1>7 DEF SelectAvatar, IssuedFirst, OneProfileEach, ReadersAreNobodys
  <2>4. Files'
    BY <1>7 DEF SelectAvatar, Noted, UndisturbedRowGoesFirst, LossesAreExcused
  <2> QED
    BY <1>7, <2>1, <2>2, <2>3, <2>4 DEF Noted
<1>8. ASSUME NEW w \in Workers, NEW ok \in BOOLEAN, InsertProfile(w, ok), Noted(w, ok)
      PROVE  HInv'
  BY <1>8 DEF InsertProfile, Noted, ReadersAreNobodys, IssuedFirst, SavesUndisturbed, OneProfileEach,
              OldIsTheUsers, UndisturbedRowGoesFirst, LossesAreExcused
<1>9. ASSUME NEW w \in Workers, NEW ok \in BOOLEAN, SetAvatar(w, ok), Noted(w, ok)
      PROVE  HInv'
  <2>1. OneProfileEach' /\ OldIsTheUsers'
    BY <1>9 DEF SetAvatar, Answer, SavesUndisturbed, OneProfileEach, OldIsTheUsers
  <2>2. SavesUndisturbed'
    BY <1>9 DEF SetAvatar, Noted, Answer, SavesUndisturbed
  <2>3. IssuedFirst' /\ ReadersAreNobodys' /\ Files'
    BY <1>9 DEF SetAvatar, Noted, Answer, ReadersAreNobodys, IssuedFirst, UndisturbedRowGoesFirst,
                LossesAreExcused
  <2> QED
    BY <1>9, <2>1, <2>2, <2>3 DEF Noted
<1>10. ASSUME NEW w \in Workers, NEW ok \in BOOLEAN, LookupAsset(w, ok), Noted(w, ok)
       PROVE  HInv'
  BY <1>10 DEF LookupAsset, Noted, AfterRemoval, Answer, ReadersAreNobodys, IssuedFirst,
               SavesUndisturbed, OneProfileEach, OldIsTheUsers, UndisturbedRowGoesFirst,
               LossesAreExcused
<1>11. ASSUME NEW w \in Workers, NEW ok \in BOOLEAN, DeleteRow(w, ok), Noted(w, ok)
       PROVE  HInv'
  \* The row stays only if its DELETE has failed.
  <2>1. old[w] \notin rows' \ disturbed'
    BY <1>11 DEF DeleteRow, Noted, Concerns
  <2>2. SavesUndisturbed'
    BY <1>11 DEF DeleteRow, Noted, SavesUndisturbed
  <2>3. OneProfileEach' /\ OldIsTheUsers'
    BY <1>11 DEF DeleteRow, OneProfileEach, OldIsTheUsers
  <2>4. IssuedFirst' /\ ReadersAreNobodys'
    BY <1>11 DEF DeleteRow, IssuedFirst, ReadersAreNobodys
  <2>5. Files'
    BY <1>11, <2>1 DEF DeleteRow, Noted, UndisturbedRowGoesFirst, LossesAreExcused
  <2> QED
    BY <1>11, <2>2, <2>3, <2>4, <2>5 DEF Noted
<1>12. ASSUME NEW w \in Workers, NEW ok \in BOOLEAN, RemoveFile(w, ok), Noted(w, ok)
       PROVE  HInv'
  <2>1. Files'
    BY <1>12 DEF RemoveFile, Noted, AfterRemoval, Answer, UndisturbedRowGoesFirst, LossesAreExcused
  <2>2. SavesUndisturbed'
    BY <1>12 DEF RemoveFile, Noted, AfterRemoval, Answer, SavesUndisturbed
  <2>3. Rest'
    BY <1>12 DEF RemoveFile, AfterRemoval, Answer, ReadersAreNobodys, IssuedFirst, OneProfileEach,
                 OldIsTheUsers
  <2> QED
    BY <1>12, <2>1, <2>2, <2>3 DEF Noted
<1>13. ASSUME NEW w \in Workers, NEW ok \in BOOLEAN, DeleteUser(w, ok), Noted(w, ok)
       PROVE  HInv'
  BY <1>13 DEF DeleteUser, Noted, Answer, ReadersAreNobodys, IssuedFirst, SavesUndisturbed,
               OneProfileEach, OldIsTheUsers, UndisturbedRowGoesFirst, LossesAreExcused
<1>14. ASSUME NEW w \in Workers, ServeFile(w), Noted(w, TRUE)
       PROVE  HInv'
  BY <1>14 DEF ServeFile, Noted, Answer, ReadersAreNobodys, IssuedFirst, SavesUndisturbed,
               OneProfileEach, OldIsTheUsers, UndisturbedRowGoesFirst, LossesAreExcused
<1>15. ASSUME NEW u \in Users, EnsureProfile(u), UNCHANGED disturbed
       PROVE  HInv'
  BY <1>15 DEF EnsureProfile, MissingProfile, ReadersAreNobodys, IssuedFirst, SavesUndisturbed,
               OneProfileEach, OldIsTheUsers, UndisturbedRowGoesFirst, LossesAreExcused
<1>16. CASE Crash /\ Killed
  BY <1>16, ConcernsAssets
     DEF Crash, Killed, ReadersAreNobodys, IssuedFirst, SavesUndisturbed, OneProfileEach,
         OldIsTheUsers, UndisturbedRowGoesFirst, LossesAreExcused
<1>17. CASE UNCHANGED hvars
  BY <1>17 DEF hvars, vars, ReadersAreNobodys, IssuedFirst, SavesUndisturbed, OneProfileEach,
               OldIsTheUsers, UndisturbedRowGoesFirst, LossesAreExcused
<1>18. ASSUME NEW w \in Workers, NEW ok \in BOOLEAN, Statement(w, ok), Noted(w, ok)
       PROVE  HInv'
  BY <1>4, <1>5, <1>6, <1>7, <1>8, <1>9, <1>10, <1>11, <1>12, <1>13, <1>18 DEF Statement
<1>19. disturbed \subseteq Assets
  OBVIOUS
<1> HIDE DEF Buckets, HInv, Typed, TypeOK, HoldsItsArguments, InFlight, Labels, Saving, Placing,
             Removing, database, disk, locals, At, Goto
<1>20. ASSUME NEW w \in Workers, NEW u \in Users, NEW a \in Assets, NEW b \in Buckets,
              StartUpload(w, u, a, b), Overlaps(w)
       PROVE  HInv'
  BY <1>19, <1>1, <1>20, OthersAreNoted
<1>21. ASSUME NEW w \in Workers, NEW u \in Users, StartDelete(w, u), Overlaps(w)
       PROVE  HInv'
  BY <1>19, <1>2, <1>21, OthersAreNoted
<1>22. ASSUME NEW w \in Workers, NEW a \in Assets, StartRead(w, a), UNCHANGED disturbed
       PROVE  HInv'
  BY <1>19, <1>3, <1>22, OthersAreNoted
<1>23. ASSUME NEW w \in Workers, Statement(w, TRUE), UNCHANGED disturbed
       PROVE  HInv'
  BY <1>19, <1>18, <1>23, StatementIsNoted
<1>24. ASSUME NEW w \in Workers, Statement(w, FALSE), Failed(w)
       PROVE  HInv'
  BY <1>19, <1>18, <1>24, StatementIsNoted
<1>25. ASSUME NEW w \in Workers, ServeFile(w), UNCHANGED disturbed
       PROVE  HInv'
  BY <1>19, <1>14, <1>25, OthersAreNoted
<1> QED
  BY <1>15, <1>16, <1>17, <1>20, <1>21, <1>22, <1>23, <1>24, <1>25 DEF HNext

-----------------------------------------------------------------------------
(* What is left behind.  An avatar is never without somebody to show it or *)
(* a request that is about to show or to remove it, unless something went  *)
(* wrong with it: here is what the requests know of each other meanwhile.  *)

\* Of two requests that change the avatar of one user, the assets they save
\* are disturbed.
RivalsAreDisturbed ==
  \A w, v \in Workers :
    /\ v # w
    /\ user[w] \in Users
    /\ ChangesAvatarOf(user[w], w)
    /\ ChangesAvatarOf(user[w], v)
    => asset[w] \notin Assets \ disturbed /\ asset[v] \notin Assets \ disturbed

\* An upload that reaches its UPDATE finds the user, the profile and the avatar
\* that it has read.
Undisturbed(a) == a \in Assets \ disturbed

UploadFindsProfile ==
  \A w \in Workers : pc[w] \in Placing =>
    /\ bucket[asset[w]] = "users"
    /\ Undisturbed(asset[w]) => user[w] \in users
    /\ Undisturbed(asset[w]) /\ At(w, "setAvatar") => avatar[user[w]] # NoRow

UploadKnowsPrevious ==
  \A w \in Workers :
    /\ pc[w] \in {"insertProfile", "setAvatar"}
    /\ Undisturbed(avatar[user[w]])
    => old[w] = avatar[user[w]]

\* A deletion knows the avatar of its user until it has removed it.
DeletionKnowsAvatar ==
  \A w \in Workers :
    /\ asset[w] = Null
    /\ pc[w] \in Removing \cup {"deleteUser"}
    /\ Undisturbed(avatar[user[w]])
    => pc[w] \in {"lookup", "deleteRow"} /\ old[w] = avatar[user[w]]

\* The row of an avatar is shown, or a request is there to show or remove it.
RowIsHeld ==
  \A a \in rows \ disturbed : bucket[a] = "users" =>
    \/ \E u \in Users : avatar[u] = a
    \/ \E w \in Workers : pc[w] \in Placing /\ asset[w] = a
    \/ \E w \in Workers : pc[w] \in {"lookup", "deleteRow"} /\ old[w] = a

\* A file without a row is there to get one, or to be removed.
FileIsHeld ==
  \A a \in Assets \ (rows \cup disturbed) : bucket[a] = "users" /\ file[a] # "absent" =>
    \/ \E w \in Workers : pc[w] \in Saving /\ asset[w] = a
    \/ \E w \in Workers : pc[w] = "removeFile" /\ old[w] = a

LInv ==
  /\ HInv
  /\ RivalsAreDisturbed
  /\ UploadFindsProfile
  /\ UploadKnowsPrevious
  /\ DeletionKnowsAvatar
  /\ RowIsHeld
  /\ FileIsHeld

\* Only a request that opens can become a rival, and then it is noted.
LEMMA RivalsStep == HInv /\ RivalsAreDisturbed /\ [HNext]_hvars => RivalsAreDisturbed'
<1> SUFFICES ASSUME HInv, RivalsAreDisturbed, [HNext]_hvars PROVE RivalsAreDisturbed'
  OBVIOUS
<1>0. HInv'
  BY HInvStep
<1>1. ASSUME bucket' = bucket, disturbed \subseteq disturbed',
             \A w \in Workers : pc'[w] # "idle" =>
               pc[w] # "idle" /\ user'[w] = user[w] /\ asset'[w] = asset[w]
      PROVE  RivalsAreDisturbed'
  BY <1>1 DEF RivalsAreDisturbed, ChangesAvatarOf
\* Whoever opens an upload or a deletion.
<1>2. ASSUME NEW w \in Workers, Overlaps(w),
             \A v \in Workers \ {w} : pc'[v] = pc[v] /\ user'[v] = user[v] /\ asset'[v] = asset[v],
             \A a \in Assets : bucket[a] # Null => bucket'[a] = bucket[a]
      PROVE  RivalsAreDisturbed'
  <2> SUFFICES ASSUME NEW x \in Workers, NEW y \in Workers, x # y, user'[x] \in Users,
                      ChangesAvatarOf(user[x], x)', ChangesAvatarOf(user[x], y)'
               PROVE  /\ asset'[x] \notin Assets \ disturbed'
                      /\ asset'[y] \notin Assets \ disturbed'
    BY DEF RivalsAreDisturbed
  <2>1. CASE x = w
    <3>1. y \in Rivals(w)'
      BY <2>1 DEF Rivals
    <3> QED BY <1>2, <2>1, <3>1 DEF Overlaps
  <2>2. CASE y = w
    <3>1. user'[x] = user'[w]
      BY <2>2 DEF ChangesAvatarOf
    <3>2. x \in Rivals(w)'
      BY <2>2, <3>1 DEF Rivals
    <3> QED BY <1>2, <2>2, <3>2 DEF Overlaps
  <2>3. CASE x # w /\ y # w
    <3>1. \A v \in {x, y} : asset[v] \in Assets => bucket'[asset[v]] = bucket[asset[v]]
      BY <1>2 DEF HInv, IssuedFirst
    <3>2. ChangesAvatarOf(user[x], x) /\ ChangesAvatarOf(user[x], y)
      BY <1>2, <2>3, <3>1 DEF ChangesAvatarOf
    <3> QED BY <1>2, <2>3, <3>2 DEF RivalsAreDisturbed, Overlaps
  <2> QED BY <2>1, <2>2, <2>3
<1>3. ASSUME NEW w \in Workers, NEW u \in Users, NEW a \in Assets, NEW b \in Buckets,
             StartUpload(w, u, a, b), Overlaps(w)
      PROVE  RivalsAreDisturbed'
  BY <1>2, <1>3 DEF StartUpload, Goto, HInv, Typed, TypeOK
<1>4. ASSUME NEW w \in Workers, NEW u \in Users, StartDelete(w, u), Overlaps(w)
      PROVE  RivalsAreDisturbed'
  BY <1>2, <1>4 DEF StartDelete, Goto, disk, HInv, Typed, TypeOK
<1>5. ASSUME NEW w \in Workers, NEW a \in Assets, StartRead(w, a), UNCHANGED disturbed
      PROVE  RivalsAreDisturbed'
  <2>1. /\ bucket' = bucket /\ user'[w] = Null /\ Null \notin Users
        /\ \A v \in Workers \ {w} : pc'[v] = pc[v] /\ user'[v] = user[v] /\ asset'[v] = asset[v]
    BY <1>5, MediaConstants
       DEF StartRead, Goto, At, disk, HInv, Typed, TypeOK, ReadersAreNobodys
  <2> QED BY <1>5, <2>1 DEF RivalsAreDisturbed, ChangesAvatarOf
<1>6. ASSUME NEW w \in Workers, NEW ok \in BOOLEAN, Statement(w, ok) \/ ServeFile(w),
             disturbed \subseteq disturbed'
      PROVE  RivalsAreDisturbed'
  <2>1. /\ bucket' = bucket
        /\ \A v \in Workers : pc'[v] # "idle" =>
             pc[v] # "idle" /\ user'[v] = user[v] /\ asset'[v] = asset[v]
    BY <1>6 DEF Statement, CopyBody, InsertAsset, DiscardFile, SelectAvatar, InsertProfile,
                SetAvatar, LookupAsset, DeleteRow, RemoveFile, DeleteUser, ServeFile, AfterRemoval,
                Answer, At, Goto, disk, locals, HInv, Typed, TypeOK
  <2> QED BY <1>1, <1>6, <2>1
<1>7. CASE Crash /\ Killed
  BY <1>1, <1>7 DEF Crash, Killed, disk
<1>8. ASSUME NEW u \in Users, EnsureProfile(u), UNCHANGED disturbed
      PROVE  RivalsAreDisturbed'
  BY <1>1, <1>8 DEF EnsureProfile, disk, locals
<1>9. CASE UNCHANGED hvars
  BY <1>1, <1>9 DEF hvars, vars, disk, locals
<1> QED
  BY <1>3, <1>4, <1>5, <1>6, <1>7, <1>8, <1>9 DEF HNext, Failed

LEMMA LInvInit == HInit => LInv
<1> SUFFICES ASSUME HInit PROVE LInv
  OBVIOUS
<1> QED
  BY HInvInit, MediaConstants
  DEF HInit, Init, LInv, RivalsAreDisturbed, ChangesAvatarOf, UploadFindsProfile, Undisturbed,
      UploadKnowsPrevious, DeletionKnowsAvatar, RowIsHeld, FileIsHeld, Saving, Placing, Removing, At

LEMMA LInvStep == LInv /\ [HNext]_hvars => LInv'
<1> SUFFICES ASSUME LInv, [HNext]_hvars PROVE LInv'
  OBVIOUS
<1>0. HInv' /\ RivalsAreDisturbed' /\ disturbed \subseteq Assets
  BY HInvStep, RivalsStep DEF LInv, HInv
<1> USE <1>0, MediaConstants
    DEF Buckets, LInv, HInv, Typed, TypeOK, HoldsItsArguments, InFlight, Labels, Saving, Placing,
        Removing, Undisturbed, database, disk, locals, At, Goto
<1> DEFINE Knows == UploadFindsProfile /\ UploadKnowsPrevious /\ DeletionKnowsAvatar
           Held == RowIsHeld /\ FileIsHeld
<1>1. ASSUME NEW w \in Workers, NEW u \in Users, NEW a \in Assets, NEW b \in Buckets,
             StartUpload(w, u, a, b), Noted(w, TRUE)
      PROVE  LInv'
  <2>1. Knows'
    BY <1>1 DEF StartUpload, Noted, IssuedFirst, UploadFindsProfile, UploadKnowsPrevious,
                DeletionKnowsAvatar
  <2>2. RowIsHeld'
    BY <1>1 DEF StartUpload, Noted, IssuedFirst, RowIsHeld
  <2>3. FileIsHeld'
    BY <1>1 DEF StartUpload, Noted, FileIsHeld
  <2> QED
    BY <2>1, <2>2, <2>3
<1>2. ASSUME NEW w \in Workers, NEW u \in Users, StartDelete(w, u), Noted(w, TRUE)
      PROVE  LInv'
  BY <1>2 DEF StartDelete, Noted, UploadFindsProfile, UploadKnowsPrevious, DeletionKnowsAvatar,
              RowIsHeld, FileIsHeld
<1>3. ASSUME NEW w \in Workers, NEW a \in Assets, StartRead(w, a), Noted(w, TRUE)
      PROVE  LInv'
  BY <1>3 DEF StartRead, Noted, UploadFindsProfile, UploadKnowsPrevious, DeletionKnowsAvatar,
              RowIsHeld, FileIsHeld
<1>4. ASSUME NEW w \in Workers, NEW ok \in BOOLEAN, CopyBody(w, ok), Noted(w, ok)
      PROVE  LInv'
  <2>1. Knows'
    BY <1>4 DEF CopyBody, Answer, Noted, UploadFindsProfile, UploadKnowsPrevious, DeletionKnowsAvatar
  <2>2. Held'
    BY <1>4 DEF CopyBody, Answer, Noted, Concerns, RowIsHeld, FileIsHeld
  <2> QED
    BY <2>1, <2>2
<1>5. ASSUME NEW w \in Workers, NEW ok \in BOOLEAN, InsertAsset(w, ok), Noted(w, ok)
      PROVE  LInv'
  <2>1. Knows'
    BY <1>5 DEF InsertAsset, Answer, Noted, UploadFindsProfile, UploadKnowsPrevious,
                DeletionKnowsAvatar
  <2>2. CASE ok /\ user[w] \in users
    <3>1. /\ rows' = rows \cup {asset[w]} /\ UNCHANGED <<avatar, bucket, file>>
          /\ \/ bucket[asset[w]] = "users" /\ pc' = [pc EXCEPT ![w] = "previous"]
                /\ UNCHANGED <<asset, old>>
             \/ bucket[asset[w]] = "resources" /\ Answer(w)
      BY <1>5, <2>2 DEF InsertAsset
    <3>2. RowIsHeld'
      <4>1. pc[w] = "insert" /\ disturbed \subseteq disturbed' /\ asset[w] \in Assets
        BY <1>5 DEF InsertAsset, Noted
      <4>2. CASE bucket[asset[w]] = "users"
        BY <3>1, <4>1, <4>2 DEF RowIsHeld
      <4>3. CASE bucket[asset[w]] = "resources"
        BY <3>1, <4>1, <4>3 DEF Answer, RowIsHeld
      <4> QED BY <3>1, <4>2, <4>3
    <3>3. FileIsHeld'
      BY <1>5, <3>1 DEF InsertAsset, Answer, Noted, FileIsHeld
    <3> QED BY <2>1, <3>2, <3>3
  <2>3. CASE ~(ok /\ user[w] \in users)
    <3>1. /\ UNCHANGED <<avatar, bucket, file, asset, old>> /\ pc' = [pc EXCEPT ![w] = "discard"]
          /\ rows' = rows \/ (rows' = rows \cup {asset[w]} /\ asset[w] \in disturbed')
      BY <1>5, <2>3 DEF InsertAsset, Noted, Concerns
    <3>2. Held'
      BY <1>5, <3>1 DEF InsertAsset, Noted, RowIsHeld, FileIsHeld
    <3> QED BY <2>1, <3>2
  <2> QED
    BY <2>2, <2>3
<1>6. ASSUME NEW w \in Workers, NEW ok \in BOOLEAN, DiscardFile(w, ok), Noted(w, ok)
      PROVE  LInv'
  <2>1. Knows'
    BY <1>6 DEF DiscardFile, Answer, Noted, UploadFindsProfile, UploadKnowsPrevious,
                DeletionKnowsAvatar
  <2>2. Held'
    BY <1>6 DEF DiscardFile, Answer, Noted, Concerns, RowIsHeld, FileIsHeld
  <2> QED
    BY <2>1, <2>2
<1>7. ASSUME NEW w \in Workers, NEW ok \in BOOLEAN, SelectAvatar(w, ok), Noted(w, ok)
      PROVE  LInv'
  \* A previous avatar that was not read is disturbed.
  <2>1. Undisturbed(avatar[user[w]])' => old'[w] = avatar[user[w]]
    BY <1>7 DEF SelectAvatar, Noted, Concerns
  <2>2. UploadFindsProfile'
    BY <1>7 DEF SelectAvatar, Noted, UploadFindsProfile
  <2>3. UploadKnowsPrevious'
    BY <1>7, <2>1 DEF SelectAvatar, Noted, UploadKnowsPrevious
  <2>4. DeletionKnowsAvatar'
    BY <1>7, <2>1 DEF SelectAvatar, Noted, DeletionKnowsAvatar
  <2>5. Held'
    BY <1>7 DEF SelectAvatar, Noted, RowIsHeld, FileIsHeld
  <2> QED
    BY <2>2, <2>3, <2>4, <2>5
<1>8. ASSUME NEW w \in Workers, NEW ok \in BOOLEAN, InsertProfile(w, ok), Noted(w, ok)
      PROVE  LInv'
  <2>1. UploadFindsProfile'
    BY <1>8 DEF InsertProfile, MissingProfile, Noted, Concerns, UploadFindsProfile
  <2>2. UploadKnowsPrevious' /\ DeletionKnowsAvatar'
    BY <1>8 DEF InsertProfile, MissingProfile, Noted, UploadKnowsPrevious, DeletionKnowsAvatar
  <2>3. Held'
    BY <1>8 DEF InsertProfile, MissingProfile, Noted, RowIsHeld, FileIsHeld
  <2> QED
    BY <2>1, <2>2, <2>3
<1>9. ASSUME NEW w \in Workers, NEW ok \in BOOLEAN, SetAvatar(w, ok), Noted(w, ok)
      PROVE  LInv'
  <2>1. UploadFindsProfile'
    BY <1>9 DEF SetAvatar, Answer, Noted, UploadFindsProfile
  \* The upload of another request of this user has been noted.
  <2>2. ASSUME NEW v \in Workers \ {w}, user[v] = user[w], asset[v] \in Assets => bucket[asset[v]] = "users",
               pc[v] # "idle"
        PROVE  asset[w] \notin Assets \ disturbed'
    BY <1>9, <2>2 DEF SetAvatar, Noted, UploadFindsProfile, RivalsAreDisturbed, ChangesAvatarOf
  <2>3. UploadKnowsPrevious'
    BY <1>9, <2>2 DEF SetAvatar, Answer, Noted, UploadKnowsPrevious, UploadFindsProfile
  <2>4. DeletionKnowsAvatar'
    BY <1>9, <2>2 DEF SetAvatar, Answer, Noted, DeletionKnowsAvatar
  <2>5. asset[w] \notin disturbed' => avatar'[user[w]] = asset[w]
    BY <1>9 DEF SetAvatar, Noted, Concerns, UploadFindsProfile, SavesUndisturbed
  <2>6. avatar[user[w]] \in Assets \ disturbed' => pc'[w] = "lookup" /\ old'[w] = avatar[user[w]]
    BY <1>9 DEF SetAvatar, Noted, UploadKnowsPrevious, SavesUndisturbed
  <2>7. RowIsHeld'
    BY <1>9, <2>5, <2>6 DEF SetAvatar, Answer, Noted, RowIsHeld
  <2>8. FileIsHeld'
    BY <1>9 DEF SetAvatar, Answer, Noted, FileIsHeld
  <2> QED
    BY <2>1, <2>3, <2>4, <2>7, <2>8
<1>10. ASSUME NEW w \in Workers, NEW ok \in BOOLEAN, LookupAsset(w, ok), Noted(w, ok)
       PROVE  LInv'
  <2>1. UploadFindsProfile' /\ UploadKnowsPrevious'
    BY <1>10 DEF LookupAsset, AfterRemoval, Answer, Noted, UploadFindsProfile, UploadKnowsPrevious
  \* What is not found has no row, and no profile shows it.
  <2>2. DeletionKnowsAvatar'
    BY <1>10 DEF LookupAsset, AfterRemoval, Answer, Noted, Concerns, DeletionKnowsAvatar,
                 OneProfileEach
  <2>3. Held'
    BY <1>10 DEF LookupAsset, AfterRemoval, Answer, Noted, Concerns, RowIsHeld, FileIsHeld
  <2> QED
    BY <2>1, <2>2, <2>3
<1>11. ASSUME NEW w \in Workers, NEW ok \in BOOLEAN, DeleteRow(w, ok), Noted(w, ok)
       PROVE  LInv'
  <2>1. UploadFindsProfile' /\ UploadKnowsPrevious'
    BY <1>11 DEF DeleteRow, Noted, UploadFindsProfile, UploadKnowsPrevious
  <2>2. DeletionKnowsAvatar'
    BY <1>11 DEF DeleteRow, Noted, Concerns, DeletionKnowsAvatar
  <2>3. Held'
    BY <1>11 DEF DeleteRow, Noted, Concerns, RowIsHeld, FileIsHeld
  <2> QED
    BY <2>1, <2>2, <2>3
<1>12. ASSUME NEW w \in Workers, NEW ok \in BOOLEAN, RemoveFile(w, ok), Noted(w, ok)
       PROVE  LInv'
  <2>1. Knows'
    BY <1>12 DEF RemoveFile, AfterRemoval, Answer, Noted, UploadFindsProfile, UploadKnowsPrevious,
                 DeletionKnowsAvatar
  <2>2. Held'
    BY <1>12 DEF RemoveFile, AfterRemoval, Answer, Noted, Concerns, RowIsHeld, FileIsHeld
  <2> QED
    BY <2>1, <2>2
<1>13. ASSUME NEW w \in Workers, NEW ok \in BOOLEAN, DeleteUser(w, ok), Noted(w, ok)
       PROVE  LInv'
  \* An upload that loses its user or its profile has been noted.
  <2>1. ASSUME NEW v \in Workers, pc[v] \in Placing, user[v] = user[w]
        PROVE  asset[v] \notin Assets \ disturbed'
    BY <1>13, <2>1 DEF DeleteUser, Noted, UploadFindsProfile, RivalsAreDisturbed, ChangesAvatarOf
  <2>2. UploadFindsProfile'
    BY <1>13, <2>1 DEF DeleteUser, Answer, Noted, UploadFindsProfile
  <2>3. UploadKnowsPrevious' /\ DeletionKnowsAvatar'
    BY <1>13 DEF DeleteUser, Answer, Noted, UploadKnowsPrevious, DeletionKnowsAvatar
  \* The avatar of the user has been removed, or is disturbed.
  <2>4. avatar[user[w]] \notin Assets \ disturbed'
    BY <1>13 DEF DeleteUser, Noted, DeletionKnowsAvatar
  <2>5. Held'
    BY <1>13, <2>4 DEF DeleteUser, Answer, Noted, RowIsHeld, FileIsHeld
  <2> QED
    BY <2>2, <2>3, <2>5
<1>14. ASSUME NEW w \in Workers, ServeFile(w), Noted(w, TRUE)
       PROVE  LInv'
  BY <1>14 DEF ServeFile, Answer, Noted, UploadFindsProfile, UploadKnowsPrevious,
               DeletionKnowsAvatar, RowIsHeld, FileIsHeld
<1>15. ASSUME NEW u \in Users, EnsureProfile(u), UNCHANGED disturbed
       PROVE  LInv'
  BY <1>15 DEF EnsureProfile, MissingProfile, UploadFindsProfile, UploadKnowsPrevious,
               DeletionKnowsAvatar, RowIsHeld, FileIsHeld
\* What no profile shows was in the hands of a request that was killed.
<1>16. CASE Crash /\ Killed
  <2>1. Knows'
    BY <1>16 DEF Crash, UploadFindsProfile, UploadKnowsPrevious, DeletionKnowsAvatar
  <2>2. ASSUME NEW w \in Workers, pc[w] \in InFlight \cup Removing
        PROVE  asset[w] \notin Assets \ disturbed' /\ old[w] \notin Assets \ disturbed'
    BY <1>16, <2>2 DEF Crash, Killed, Concerns
  <2>3. Held'
    BY <1>16, <2>2 DEF Crash, Killed, RowIsHeld, FileIsHeld
  <2> QED
    BY <2>1, <2>3
<1>17. CASE UNCHANGED hvars
  BY <1>17 DEF hvars, vars, UploadFindsProfile, UploadKnowsPrevious, DeletionKnowsAvatar, RowIsHeld,
               FileIsHeld
<1>18. ASSUME NEW w \in Workers, NEW ok \in BOOLEAN, Statement(w, ok), Noted(w, ok)
       PROVE  LInv'
  BY <1>4, <1>5, <1>6, <1>7, <1>8, <1>9, <1>10, <1>11, <1>12, <1>13, <1>18 DEF Statement
<1> HIDE DEF Buckets, LInv, HInv, Typed, TypeOK, HoldsItsArguments, InFlight, Labels, Saving,
             Placing, Removing, Undisturbed, database, disk, locals, At, Goto
<1>19. ASSUME NEW w \in Workers, NEW u \in Users, NEW a \in Assets, NEW b \in Buckets,
              StartUpload(w, u, a, b), Overlaps(w)
       PROVE  LInv'
  BY <1>1, <1>19, OthersAreNoted
<1>20. ASSUME NEW w \in Workers, NEW u \in Users, StartDelete(w, u), Overlaps(w)
       PROVE  LInv'
  BY <1>2, <1>20, OthersAreNoted
<1>21. ASSUME NEW w \in Workers, NEW a \in Assets, StartRead(w, a), UNCHANGED disturbed
       PROVE  LInv'
  BY <1>3, <1>21, OthersAreNoted
<1>22. ASSUME NEW w \in Workers, Statement(w, TRUE), UNCHANGED disturbed
       PROVE  LInv'
  BY <1>18, <1>22, StatementIsNoted
<1>23. ASSUME NEW w \in Workers, Statement(w, FALSE), Failed(w)
       PROVE  LInv'
  BY <1>18, <1>23, StatementIsNoted
<1>24. ASSUME NEW w \in Workers, ServeFile(w), UNCHANGED disturbed
       PROVE  LInv'
  BY <1>14, <1>24, OthersAreNoted
<1> QED
  BY <1>15, <1>16, <1>17, <1>19, <1>20, <1>21, <1>22, <1>23, <1>24 DEF HNext

\* To note what went wrong changes nothing: with the history variable left out,
\* every run of MediaLeftovers is one of Media, and what Media keeps it keeps.
THEOREM HistoryChangesNothing == HSpec => Spec
<1>1. HInit => Init
  BY DEF HInit
<1>2. [HNext]_hvars => [Next]_vars
  BY HNextIsNext
<1> QED BY <1>1, <1>2, PTL DEF HSpec, Spec

LEMMA LInvAlways == HSpec => []LInv
  BY LInvInit, LInvStep, PTL DEF HSpec

\* Whatever statements fail, a row without its complete file is the trace of a
\* failure, a crash or an overlap that met this very asset.
THEOREM LossesAreExcusedAlways == HSpec => []LossesAreExcused
<1>1. LInv => LossesAreExcused
  BY DEF LInv, HInv
<1> QED
  BY <1>1, LInvAlways, PTL

\* An avatar that nobody shows any more and no request holds has neither row nor
\* file, but for a failure, a crash or an overlap that met this very asset.
THEOREM LeftoversAreExcusedAlways == HSpec => []LeftoversAreExcused
<1>1. LInv => LeftoversAreExcused
  BY DEF LInv, HInv, Typed, TypeOK, RowIsHeld, FileIsHeld, LeftoversAreExcused, Abandoned, Concerns,
         Saving, Placing, Removing
<1> QED
  BY <1>1, LInvAlways, PTL
=============================================================================
