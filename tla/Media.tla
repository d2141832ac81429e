------------------------------- MODULE Media -------------------------------
(***************************************************************************)
(* Uploaded files and the rows that describe them.                         *)
(*                                                                         *)
(* An upload writes a file under a fresh UUID and then, statement by       *)
(* statement and without a database transaction, inserts the row that      *)
(* describes it, points the user's profile at it and deletes the avatar it *)
(* replaces (services/media.go, http/me_handlers.go).  A deletion of an    *)
(* account removes the avatar and then the user.  Every request runs in a  *)
(* goroutine of its own; the process may be killed between any two of      *)
(* their steps, and almost every error of a statement is ignored.          *)
(*                                                                         *)
(* A step is one statement of the database, one operation of the file      *)
(* system, or the decision that opens a request.                           *)
(***************************************************************************)
EXTENDS Naturals

CONSTANTS
  Users,       \* users.id; a token outlives its user, so any of them may call
  Assets,      \* the UUIDs SaveMediaAsset can draw
  Workers,     \* the goroutines that serve requests
  Null,        \* SQL NULL, and "no value" in a local variable
  NoRow,       \* the user has no row in user_profiles
  Failing,     \* the statements that may fail in this instance
  MaxCrashes   \* bound: how often the process is killed

\* The statements and file operations whose failure the handlers survive.
Statements == { "copy", "insertAsset", "insertReply", "selectAvatar",
                "insertProfile", "setAvatar", "selectAsset", "deleteAsset",
                "removeFile", "deleteUser" }

\* BucketUsers holds the avatars, BucketResources the rest.
Buckets == {"users", "resources"}

ASSUME MediaConstants ==
  /\ Null \notin Users \cup Assets \cup Buckets
  /\ NoRow \notin Assets \cup {Null}
  /\ Failing \subseteq Statements
  /\ MaxCrashes \in Nat

VARIABLES
  users,     \* the rows of users
  avatar,    \* user_profiles.avatar_media_id, NoRow without a profile
  rows,      \* the rows of media_assets
  bucket,    \* the directory of each UUID drawn so far, Null before that
  file,      \* what the file system holds under each UUID
  pc,        \* the statement each worker runs next
  user,      \* the user its request is about
  asset,     \* the asset its request stores or serves
  old,       \* the avatar it read and is going to delete
  crashes    \* how often the process was killed

database == <<users, avatar, rows>>
disk     == <<bucket, file>>
locals   == <<user, asset, old>>
vars     == <<users, avatar, rows, bucket, file, pc, user, asset, old, crashes>>

\* SaveMediaAsset before its row exists, and UploadAvatar up to its UPDATE.
Saving    == {"copy", "insert", "discard"}
Placing   == {"previous", "insertProfile", "setAvatar"}
\* DeleteAsset, called by UploadAvatar, DeleteAccount and DeleteUser.
Removing  == {"lookup", "deleteRow", "removeFile"}
Labels    == {"idle", "avatarOf", "deleteUser", "serve"}
               \cup Saving \cup Placing \cup Removing

TypeOK ==
  /\ users \subseteq Users
  /\ avatar \in [Users -> Assets \cup {Null, NoRow}]
  /\ rows \subseteq Assets
  /\ bucket \in [Assets -> Buckets \cup {Null}]
  /\ file \in [Assets -> {"absent", "partial", "complete"}]
  /\ pc \in [Workers -> Labels]
  /\ user \in [Workers -> Users \cup {Null}]
  /\ asset \in [Workers -> Assets \cup {Null}]
  /\ old \in [Workers -> Assets \cup {Null}]
  /\ crashes \in 0 .. MaxCrashes

\* Register and CreateUser ignore the error of the INSERT that makes the
\* profile, so a user may have none.
Init ==
  /\ users = Users
  /\ avatar \in [Users -> {Null, NoRow}]
  /\ rows = {}
  /\ bucket = [a \in Assets |-> Null]
  /\ file = [a \in Assets |-> "absent"]
  /\ pc = [w \in Workers |-> "idle"]
  /\ user = [w \in Workers |-> Null]
  /\ asset = [w \in Workers |-> Null]
  /\ old = [w \in Workers |-> Null]
  /\ crashes = 0

-----------------------------------------------------------------------------
(* Helpers                                                                 *)

\* ok says whether the statement succeeds; only one in Failing may not.
Attempt(statement, ok) == ok \/ statement \in Failing

At(w, label) == pc[w] = label

Goto(w, label) == pc' = [pc EXCEPT ![w] = label]

\* The handler returns and its goroutine forgets the request.
Answer(w) ==
  /\ Goto(w, "idle")
  /\ user' = [user EXCEPT ![w] = Null]
  /\ asset' = [asset EXCEPT ![w] = Null]
  /\ old' = [old EXCEPT ![w] = Null]

\* A request that deletes an account stores no asset of its own.
Deleting(w) == pc[w] # "idle" /\ asset[w] = Null

-----------------------------------------------------------------------------
(* SaveMediaAsset                                                          *)

\* UploadAvatar or UploadResource up to os.Create: a fresh UUID names an
\* empty file.
StartUpload(w, u, a, b) ==
  /\ At(w, "idle")
  /\ bucket[a] = Null
  /\ bucket' = [bucket EXCEPT ![a] = b]
  /\ file' = [file EXCEPT ![a] = "partial"]
  /\ Goto(w, "copy")
  /\ user' = [user EXCEPT ![w] = u]
  /\ asset' = [asset EXCEPT ![w] = a]
  /\ UNCHANGED <<database, old, crashes>>

\* Variant of CopyBody: the empty body is stored like any other.
CopyBodyKeepsEmpty(w, ok) ==
  /\ At(w, "copy")
  /\ Attempt("copy", ok)
  /\ \/ ok /\ file' = [file EXCEPT ![asset[w]] = "complete"]
     \/ UNCHANGED file
  /\ Goto(w, "insert")
  /\ UNCHANGED <<database, bucket, locals, crashes>>

\* io.Copy.  An error returns at once and leaves what was written; an empty
\* body is removed and refused.
CopyBody(w, ok) ==
  /\ At(w, "copy")
  /\ Attempt("copy", ok)
  /\ \/ /\ ok
        /\ file' = [file EXCEPT ![asset[w]] = "complete"]
        /\ Goto(w, "insert")
        /\ UNCHANGED locals
     \/ /\ ok
        /\ Goto(w, "discard")
        /\ UNCHANGED <<file, locals>>
     \/ /\ ~ok
        /\ Answer(w)
        /\ UNCHANGED file
  /\ UNCHANGED <<database, bucket, crashes>>

\* INSERT INTO media_assets: the foreign key on owner_user_id refuses a user
\* that was deleted while the file was written.  UploadResource is done when
\* it succeeds, UploadAvatar goes on.  When Exec reports an error the row is
\* taken for not inserted; if only the answer was lost, it is there.
InsertAsset(w, ok) ==
  /\ At(w, "insert")
  /\ Attempt("insertAsset", ok)
  /\ IF ok /\ user[w] \in users
       THEN /\ rows' = rows \cup {asset[w]}
            /\ \/ bucket[asset[w]] = "users" /\ Goto(w, "previous") /\ UNCHANGED locals
               \/ bucket[asset[w]] = "resources" /\ Answer(w)
       ELSE /\ \/ rows' = rows
               \/ /\ "insertReply" \in Failing
                  /\ user[w] \in users
                  /\ rows' = rows \cup {asset[w]}
            /\ Goto(w, "discard")
            /\ UNCHANGED locals
  /\ UNCHANGED <<users, avatar, disk, crashes>>

\* Variant of DiscardFile: the error path forgets the file.
DiscardNothing(w, ok) ==
  /\ At(w, "discard")
  /\ Answer(w)
  /\ UNCHANGED <<database, disk, crashes>>

\* os.Remove of the file just written, and the handler answers an error.
DiscardFile(w, ok) ==
  /\ At(w, "discard")
  /\ Attempt("removeFile", ok)
  /\ file' = IF ok THEN [file EXCEPT ![asset[w]] = "absent"] ELSE file
  /\ Answer(w)
  /\ UNCHANGED <<database, bucket, crashes>>

-----------------------------------------------------------------------------
(* UploadAvatar, after SaveMediaAsset                                      *)

\* Variant of SelectAvatar: a user without a profile is not told from one
\* whose avatar was read.
SelectAnyAvatar(w, ok) ==
  /\ pc[w] \in {"previous", "avatarOf"}
  /\ old' = [old EXCEPT ![w] = avatar[user[w]]]
  /\ Goto(w, IF At(w, "previous") THEN "insertProfile" ELSE "lookup")
  /\ UNCHANGED <<database, disk, user, asset, crashes>>

\* SELECT avatar_media_id, for an upload and for a deletion: no row, NULL and
\* an error all leave the variable nil.
SelectAvatar(w, ok) ==
  /\ pc[w] \in {"previous", "avatarOf"}
  /\ Attempt("selectAvatar", ok)
  /\ LET found == IF ok /\ avatar[user[w]] \in Assets
                    THEN avatar[user[w]] ELSE Null
     IN /\ old' = [old EXCEPT ![w] = found]
        /\ Goto(w, IF At(w, "previous") THEN "insertProfile"
                   ELSE IF found = Null THEN "deleteUser" ELSE "lookup")
  /\ UNCHANGED <<database, disk, user, asset, crashes>>

\* INSERT INTO user_profiles ... ON CONFLICT DO NOTHING: the foreign key
\* refuses a deleted user.
MissingProfile(u) == u \in users /\ avatar[u] = NoRow

\* Variant of InsertProfile: the previous avatar is deleted before the new one
\* is set.
InsertProfileThenRemove(w, ok) ==
  /\ At(w, "insertProfile")
  /\ Goto(w, IF old[w] = Null THEN "setAvatar" ELSE "lookup")
  /\ UNCHANGED <<database, disk, locals, crashes>>

InsertProfile(w, ok) ==
  /\ At(w, "insertProfile")
  /\ Attempt("insertProfile", ok)
  /\ avatar' = IF ok /\ MissingProfile(user[w])
                 THEN [avatar EXCEPT ![user[w]] = Null] ELSE avatar
  /\ Goto(w, "setAvatar")
  /\ UNCHANGED <<users, rows, disk, locals, crashes>>

\* Variant of SetAvatar: the UPDATE has lost its WHERE.
SetEveryAvatar(w, ok) ==
  /\ At(w, "setAvatar")
  /\ avatar' = [u \in Users |-> IF avatar[u] = NoRow THEN NoRow ELSE asset[w]]
  /\ Answer(w)
  /\ UNCHANGED <<users, rows, disk, crashes>>

\* UPDATE user_profiles SET avatar_media_id: no profile, no effect; the
\* foreign key refuses an asset without a row.  The result is ignored.
SetAvatar(w, ok) ==
  /\ At(w, "setAvatar")
  /\ Attempt("setAvatar", ok)
  /\ avatar' = IF ok /\ avatar[user[w]] # NoRow /\ asset[w] \in rows
                 THEN [avatar EXCEPT ![user[w]] = asset[w]] ELSE avatar
  /\ \/ /\ old[w] \notin {Null, asset[w]}
        /\ Goto(w, "lookup")
        /\ UNCHANGED locals
     \/ /\ old[w] \in {Null, asset[w]}
        /\ Answer(w)
  /\ UNCHANGED <<users, rows, disk, crashes>>

-----------------------------------------------------------------------------
(* DeleteAsset                                                             *)

\* What follows DeleteAsset: UploadAvatar answers, a deletion goes on.
AfterRemoval(w) ==
  \/ asset[w] # Null /\ Answer(w)
  \/ asset[w] = Null /\ Goto(w, "deleteUser") /\ UNCHANGED locals

\* The two SELECTs of one row; an error of either returns without an error.
LookupAsset(w, ok) ==
  /\ At(w, "lookup")
  /\ Attempt("selectAsset", ok)
  /\ IF ok /\ old[w] \in rows
       THEN Goto(w, "deleteRow") /\ UNCHANGED locals
       ELSE AfterRemoval(w)
  /\ UNCHANGED <<database, disk, crashes>>

\* DELETE FROM media_assets: every profile that shows the asset is set to
\* NULL with it.  A failure is ignored and the file goes all the same.
DeleteRow(w, ok) ==
  /\ At(w, "deleteRow")
  /\ Attempt("deleteAsset", ok)
  /\ rows' = IF ok THEN rows \ {old[w]} ELSE rows
  /\ avatar' = IF ok THEN [u \in Users |-> IF avatar[u] = old[w] THEN Null ELSE avatar[u]]
               ELSE avatar
  /\ Goto(w, "removeFile")
  /\ UNCHANGED <<users, disk, locals, crashes>>

\* os.Remove.
RemoveFile(w, ok) ==
  /\ At(w, "removeFile")
  /\ Attempt("removeFile", ok)
  /\ file' = IF ok THEN [file EXCEPT ![old[w]] = "absent"] ELSE file
  /\ AfterRemoval(w)
  /\ UNCHANGED <<database, bucket, crashes>>

-----------------------------------------------------------------------------
(* The other requests                                                      *)

\* DeleteAccount of the caller, or DeleteUser by an administrator.
StartDelete(w, u) ==
  /\ At(w, "idle")
  /\ Goto(w, "avatarOf")
  /\ user' = [user EXCEPT ![w] = u]
  /\ UNCHANGED <<database, disk, asset, old, crashes>>

\* DELETE FROM users, which takes the profile along.
DeleteUser(w, ok) ==
  /\ At(w, "deleteUser")
  /\ Attempt("deleteUser", ok)
  /\ users' = IF ok THEN users \ {user[w]} ELSE users
  /\ avatar' = IF ok THEN [avatar EXCEPT ![user[w]] = NoRow] ELSE avatar
  /\ Answer(w)
  /\ UNCHANGED <<rows, disk, crashes>>

\* Variant of StartRead: the path is built from the request alone.
StartReadUnchecked(w, a) ==
  /\ At(w, "idle")
  /\ Goto(w, "serve")
  /\ asset' = [asset EXCEPT ![w] = a]
  /\ UNCHANGED <<database, disk, user, old, crashes>>

\* MediaContent finds the row, and opens the file only afterwards.
StartRead(w, a) ==
  /\ At(w, "idle")
  /\ a \in rows
  /\ Goto(w, "serve")
  /\ asset' = [asset EXCEPT ![w] = a]
  /\ UNCHANGED <<database, disk, user, old, crashes>>

\* http.ServeFile answers 200 with the file or 404 without one.
ServeFile(w) ==
  /\ At(w, "serve")
  /\ Answer(w)
  /\ UNCHANGED <<database, disk, crashes>>

\* UpdateProfile and the administrator's UpdateUser make a missing profile.
EnsureProfile(u) ==
  /\ MissingProfile(u)
  /\ avatar' = [avatar EXCEPT ![u] = Null]
  /\ UNCHANGED <<users, rows, disk, pc, locals, crashes>>

\* The process is killed: its goroutines and their locals are gone, the
\* database and the disk stay.
Crash ==
  /\ crashes < MaxCrashes
  /\ crashes' = crashes + 1
  /\ pc' = [w \in Workers |-> "idle"]
  /\ user' = [w \in Workers |-> Null]
  /\ asset' = [w \in Workers |-> Null]
  /\ old' = [w \in Workers |-> Null]
  /\ UNCHANGED <<database, disk>>

-----------------------------------------------------------------------------
\* A request opens.
Start(w) ==
  \/ \E u \in Users, a \in Assets, b \in Buckets : StartUpload(w, u, a, b)
  \/ \E u \in Users : StartDelete(w, u)
  \/ \E a \in Assets : StartRead(w, a)

\* A statement that succeeds, or fails in the way its error is handled.
Statement(w, ok) ==
  \/ CopyBody(w, ok)      \/ InsertAsset(w, ok)   \/ DiscardFile(w, ok)
  \/ SelectAvatar(w, ok)  \/ InsertProfile(w, ok) \/ SetAvatar(w, ok)
  \/ LookupAsset(w, ok)   \/ DeleteRow(w, ok)     \/ RemoveFile(w, ok)
  \/ DeleteUser(w, ok)

\* An open request goes on.
Step(w) == (\E ok \in BOOLEAN : Statement(w, ok)) \/ ServeFile(w)

Next ==
  \/ \E w \in Workers : Start(w) \/ Step(w)
  \/ \E u \in Users : EnsureProfile(u)
  \/ Crash

Spec == Init /\ [][Next]_vars

-----------------------------------------------------------------------------
(* Properties                                                              *)

\* Every row of media_assets describes a file that is there and complete, at
\* every moment, through crashes and concurrent requests.  It is the order of
\* the statements that keeps it: the file before its row in SaveMediaAsset,
\* the row before its file in DeleteAsset.  It does not survive the two
\* results the code takes for something else: a DELETE that failed
\* (media.go:82) and an INSERT whose answer was lost (media.go:60).
RowsTrusted == {"deleteAsset", "insertReply"} \cap Failing = {}

RowHasFile == \A a \in rows : file[a] = "complete"

\* MediaContent answers a whole file or a 404, never a file that an upload is
\* still writing, although it opens the file after it read the row and an
\* upload or a deletion may run in between.
ServedWhole == \A w \in Workers : At(w, "serve") => file[asset[w]] # "partial"

\* DeleteAsset is told of an avatar that somebody shows only when that user is
\* being deleted: an upload deletes the avatar it replaced after nobody
\* shows it any more, even when two uploads of one user read the same
\* previous avatar (me_handlers.go:158-166).  It relies on the UPDATE whose
\* error is ignored just before (me_handlers.go:164).
AvatarsTrusted == RowsTrusted /\ "setAvatar" \notin Failing

RemovesOnlyReplaced ==
  \A w \in Workers, u \in Users :
    pc[w] \in Removing /\ avatar[u] = old[w] => Deleting(w) /\ user[w] = u

\* What a user of the component relies on: see AvatarStore.
Store == INSTANCE AvatarStore WITH
  shown   <- [u \in Users |-> IF avatar[u] \in Assets THEN avatar[u] ELSE Null],
  stored  <- {a \in rows : file[a] = "complete"},
  closing <- {user[w] : w \in {v \in Workers : Deleting(v)}}

AvatarsAreKept == Store!Spec
=============================================================================
