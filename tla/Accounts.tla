------------------------------ MODULE Accounts ------------------------------
(***************************************************************************)
(* Accounts, the roles they hold and their places in the role groups.      *)
(*                                                                         *)
(* Accounts are made by Register and CreateUser, which look for the email  *)
(* before they insert it; their roles are set by UpdateUser, which reads   *)
(* the roles held and then grants and revokes one by one what differs from *)
(* the roles wanted, and by AssignRole and RemoveRole.  A role that is     *)
(* granted is followed by EnsureMembership, a separate statement that      *)
(* makes the user a member of the group "Role: <code>".  Nothing of this   *)
(* is a transaction, and every statement may fail: the handlers pass over  *)
(* most of these errors and go on (http/auth_handlers.go,                  *)
(* http/admin_users.go, services/groups.go).                               *)
(***************************************************************************)
EXTENDS Naturals

CONSTANTS
  Ids,         \* the UUIDs of users
  Emails,      \* addresses, as they are after trimming and lowering
  Roles,       \* the rows of roles
  Student,     \* the role a new account gets
  Codes,       \* the role codes a request may name
  Workers,     \* the goroutines that serve requests
  Null,
  MaxCrashes   \* bound: how often the process is killed

ASSUME AccountsConstants ==
  /\ Student \in Roles
  /\ Roles \subseteq Codes
  /\ Null \notin Ids \cup Emails \cup Roles
  /\ MaxCrashes \in Nat

VARIABLES
  email,       \* users.email; Null before and after the user's row
  issued,      \* the UUIDs drawn so far
  held,        \* user_roles: the roles of each user
  member,      \* group_members: the role groups of each user
  roleGroups,  \* the roles whose group exists under its name
  pc,          \* the statement each worker runs next
  id,          \* the user its request is about
  mail,        \* the address it registers
  todo,        \* the roles it has still to grant
  cut,         \* the roles it has still to revoke
  now,         \* the role it has just granted
  crashes,
  wanted,      \* history: what the requests of the current overlap want held
  unwanted,    \* history: what they want gone
  missed,      \* history: the roles an error kept them from granting or revoking
  excused      \* history: roles whose membership was lost, see HoldersAreMembers

tables  == <<email, issued, held, member, roleGroups>>
locals  == <<id, mail, todo, cut, now>>
history == <<wanted, unwanted, missed, excused>>
vars == <<email, issued, held, member, roleGroups, pc, id, mail, todo, cut, now, crashes,
          wanted, unwanted, missed, excused>>

Labels == {"idle", "emailFree", "insertUser", "userExists", "readRoles", "grant", "join", "revoke"}

TypeOK ==
  /\ email \in [Ids -> Emails \cup {Null}]
  /\ issued \subseteq Ids
  /\ held \in [Ids -> SUBSET Roles]
  /\ member \in [Ids -> SUBSET Roles]
  /\ roleGroups \subseteq Roles
  /\ pc \in [Workers -> Labels]
  /\ id \in [Workers -> Ids \cup {Null}]
  /\ mail \in [Workers -> Emails \cup {Null}]
  /\ todo \in [Workers -> SUBSET Roles]
  /\ cut \in [Workers -> SUBSET Roles]
  /\ now \in [Workers -> Roles \cup {Null}]
  /\ crashes \in 0 .. MaxCrashes
  /\ wanted \in [Ids -> SUBSET Roles]
  /\ unwanted \in [Ids -> SUBSET Roles]
  /\ missed \in [Ids -> SUBSET Roles]
  /\ excused \subseteq Ids \X Roles

\* The server starts on an empty database; EnsureRoleGroups has run.
Init ==
  /\ email = [i \in Ids |-> Null]
  /\ issued = {}
  /\ held = [i \in Ids |-> {}]
  /\ member = [i \in Ids |-> {}]
  /\ roleGroups = Roles
  /\ pc = [w \in Workers |-> "idle"]
  /\ id = [w \in Workers |-> Null]
  /\ mail = [w \in Workers |-> Null]
  /\ todo = [w \in Workers |-> {}]
  /\ cut = [w \in Workers |-> {}]
  /\ now = [w \in Workers |-> Null]
  /\ crashes = 0
  /\ wanted = [i \in Ids |-> {}]
  /\ unwanted = [i \in Ids |-> {}]
  /\ missed = [i \in Ids |-> {}]
  /\ excused = {}

-----------------------------------------------------------------------------
At(w, label) == pc[w] = label

Goto(w, label) == pc' = [pc EXCEPT ![w] = label]

\* The handler returns.
Answer(w) ==
  /\ Goto(w, "idle")
  /\ id' = [id EXCEPT ![w] = Null]
  /\ mail' = [mail EXCEPT ![w] = Null]
  /\ todo' = [todo EXCEPT ![w] = {}]
  /\ cut' = [cut EXCEPT ![w] = {}]
  /\ now' = [now EXCEPT ![w] = Null]

\* A request about user i is open.
Busy(i) == \E w \in Workers : id[w] = i

\* History: a request about user i opens, and wants the roles in, and not the
\* roles out.  It joins those it overlaps with, if any.
Overlap(i, in, out) ==
  /\ IF email[i] = Null
       THEN UNCHANGED <<wanted, unwanted, missed>>
       ELSE /\ wanted' = [wanted EXCEPT ![i] = IF Busy(i) THEN @ \cup in ELSE in]
            /\ unwanted' = [unwanted EXCEPT ![i] = IF Busy(i) THEN @ \cup out ELSE out]
            /\ missed' = [missed EXCEPT ![i] = IF Busy(i) THEN @ ELSE {}]
  /\ UNCHANGED excused

\* History: an error leaves these roles of user i as they are; a statement that
\* succeeds makes one good.
PassOver(i, roles) ==
  missed' = IF email[i] = Null THEN missed ELSE [missed EXCEPT ![i] = @ \cup roles]

MakeGood(i, r) == missed' = [missed EXCEPT ![i] = @ \ {r}]

\* History: these pairs of a user and a role have lost their membership; the
\* pairs whose role is gone need no excuse.
Excuse(pairs) == excused' = {p \in pairs : p[2] \in held'[p[1]]}

\* Variant of Requested: a code is not looked up in the table of roles.
RequestedUnchecked(codes) == IF codes = {} THEN {Student} ELSE codes

\* The roles a request to create or to update a user asks for: STUDENT when it
\* names none, and codes without a row in roles are passed over.
Requested(codes) == (IF codes = {} THEN {Student} ELSE codes) \cap Roles

\* The loops over roles: what is left to grant comes before what is left to
\* revoke, and the handler answers when both are done.  The loops of
\* UpdateUser range over maps, in any order.
NextRole(w, granting, revoking) ==
  IF granting # {} THEN "grant" ELSE IF revoking # {} THEN "revoke" ELSE "idle"

Continue(w, granting, revoking) ==
  IF NextRole(w, granting, revoking) = "idle"
    THEN Answer(w)
    ELSE /\ Goto(w, NextRole(w, granting, revoking))
         /\ todo' = [todo EXCEPT ![w] = granting]
         /\ cut' = [cut EXCEPT ![w] = revoking]
         /\ now' = [now EXCEPT ![w] = Null]
         /\ UNCHANGED <<id, mail>>

-----------------------------------------------------------------------------
(* Register and CreateUser                                                 *)

\* Register makes a student; CreateUser, by an administrator, grants the roles
\* it is given, STUDENT for none.
StartCreate(w, e, codes) ==
  /\ At(w, "idle")
  /\ Goto(w, "emailFree")
  /\ mail' = [mail EXCEPT ![w] = e]
  /\ todo' = [todo EXCEPT ![w] = Requested(codes)]
  /\ UNCHANGED <<tables, id, cut, now, crashes, history>>

\* SELECT EXISTS ... lower(email): a known address is refused, and so is any
\* address when the statement fails.
CheckEmail(w) ==
  /\ At(w, "emailFree")
  /\ \/ Answer(w)
     \/ /\ \A i \in Ids : email[i] # mail[w]
        /\ Goto(w, "insertUser")
        /\ UNCHANGED locals
  /\ UNCHANGED <<tables, crashes, history>>

\* Variant of InsertUser: the table has no unique index.
InsertUserAnyway(w, i) ==
  /\ At(w, "insertUser")
  /\ i \notin issued
  /\ issued' = issued \cup {i}
  /\ email' = [email EXCEPT ![i] = mail[w]]
  /\ Answer(w)
  /\ UNCHANGED <<held, member, roleGroups, crashes, history>>

\* INSERT INTO users under a fresh UUID.  Without roles to grant, and when the
\* row is there but the reply is lost, the request ends here.
InsertUser(w, i) ==
  /\ At(w, "insertUser")
  /\ i \notin issued
  /\ \A j \in Ids : email[j] # mail[w]
  /\ issued' = issued \cup {i}
  /\ email' = [email EXCEPT ![i] = mail[w]]
  /\ \/ /\ todo[w] # {}
        /\ Goto(w, "grant")
        /\ id' = [id EXCEPT ![w] = i]
        /\ wanted' = [wanted EXCEPT ![i] = todo[w]]
        /\ UNCHANGED <<mail, todo, cut, now>>
     \/ Answer(w) /\ wanted' = [wanted EXCEPT ![i] = {}]
  /\ UNCHANGED <<held, member, roleGroups, crashes, unwanted, missed, excused>>

\* The INSERT fails: the unique index on lower(email) refuses an address that
\* another request inserted since, or the statement meets an error.
FailInsert(w) ==
  /\ At(w, "insertUser")
  /\ Answer(w)
  /\ UNCHANGED <<tables, crashes, history>>

-----------------------------------------------------------------------------
(* UpdateUser, AssignRole, RemoveRole                                      *)

StartUpdate(w, i, codes) ==
  /\ At(w, "idle")
  /\ i \in issued
  /\ Goto(w, "userExists")
  /\ id' = [id EXCEPT ![w] = i]
  /\ todo' = [todo EXCEPT ![w] = Requested(codes)]
  /\ Overlap(i, Requested(codes), Roles \ Requested(codes))
  /\ UNCHANGED <<tables, mail, cut, now, crashes>>

\* SELECT email: an unknown user is answered 404, and so is any user when the
\* statement fails.
FindUser(w) ==
  /\ At(w, "userExists")
  /\ LET i == id[w]
     IN \/ Answer(w) /\ PassOver(i, (todo[w] \ held[i]) \cup (held[i] \ todo[w]))
        \/ email[i] # Null /\ Goto(w, "readRoles") /\ UNCHANGED <<locals, missed>>
  /\ UNCHANGED <<tables, crashes, wanted, unwanted, excused>>

\* Variant of ReadRoles: the second loop forgets which roles are asked for.
ReadRolesRevokeAll(w) ==
  /\ At(w, "readRoles")
  /\ \E current \in SUBSET held[id[w]] :
       /\ Continue(w, todo[w] \ current, current)
       /\ PassOver(id[w], (held[id[w]] \ current) \ todo[w])
  /\ UNCHANGED <<tables, crashes, wanted, unwanted, excused>>

\* SELECT r.code, and the difference to the roles asked for.  The error of the
\* SELECT is passed over, with the roles it has read by then, or none: those it
\* has not read are not revoked.
ReadRoles(w) ==
  /\ At(w, "readRoles")
  /\ \E current \in SUBSET held[id[w]] :
       /\ Continue(w, todo[w] \ current, current \ todo[w])
       /\ PassOver(id[w], (held[id[w]] \ current) \ todo[w])
  /\ UNCHANGED <<tables, crashes, wanted, unwanted, excused>>

StartAssign(w, i, r) ==
  /\ At(w, "idle")
  /\ i \in issued
  /\ Goto(w, "grant")
  /\ id' = [id EXCEPT ![w] = i]
  /\ todo' = [todo EXCEPT ![w] = {r}]
  /\ Overlap(i, {r}, {})
  /\ UNCHANGED <<tables, mail, cut, now, crashes>>

StartRemove(w, i, r) ==
  /\ At(w, "idle")
  /\ i \in issued
  /\ Goto(w, "revoke")
  /\ id' = [id EXCEPT ![w] = i]
  /\ cut' = [cut EXCEPT ![w] = {r}]
  /\ Overlap(i, {}, {r})
  /\ UNCHANGED <<tables, mail, todo, now, crashes>>

\* INSERT INTO user_roles: refused for a deleted user, or failing; either way
\* the handler goes on as if the role were granted.
InsertRole(i, r) ==
  \/ UNCHANGED held /\ PassOver(i, {r} \ held[i])
  \/ email[i] # Null /\ held' = [held EXCEPT ![i] = @ \cup {r}] /\ MakeGood(i, r)

\* Variant of Grant: the call of EnsureMembership is forgotten.
GrantOnly(w, r) ==
  /\ At(w, "grant")
  /\ r \in todo[w]
  /\ InsertRole(id[w], r)
  /\ Continue(w, todo[w] \ {r}, cut[w])
  /\ UNCHANGED <<email, issued, member, roleGroups, crashes, wanted, unwanted, excused>>

\* One round of the loop that grants: without the id of the role, whose SELECT
\* may fail, the role is skipped.
Grant(w, r) ==
  /\ At(w, "grant")
  /\ r \in todo[w]
  /\ \/ /\ Continue(w, todo[w] \ {r}, cut[w])
        /\ UNCHANGED held
        /\ PassOver(id[w], {r} \ held[id[w]])
     \/ /\ InsertRole(id[w], r)
        /\ Goto(w, "join")
        /\ now' = [now EXCEPT ![w] = r]
        /\ UNCHANGED <<id, mail, todo, cut>>
  /\ UNCHANGED <<email, issued, member, roleGroups, crashes, wanted, unwanted, excused>>

\* EnsureMembership: the group by its name, then the INSERT unless the row is
\* there.  Any of its statements may fail, as they do without the group and for
\* a deleted user, and no caller looks at the error.
Join(w) ==
  /\ At(w, "join")
  /\ UNCHANGED <<email, issued, held, roleGroups, crashes, wanted, unwanted, missed>>
  /\ LET i == id[w]  r == now[w]
     IN /\ \/ UNCHANGED member
           \/ /\ email[i] # Null /\ r \in roleGroups
              /\ member' = [member EXCEPT ![i] = @ \cup {r}]
        /\ Excuse(IF r \in member'[i] THEN excused \ {<<i, r>>} ELSE excused \cup {<<i, r>>})
        /\ Continue(w, todo[w] \ {r}, cut[w])

\* One round of the loop that revokes.  The role is left when the SELECT of its
\* id or the DELETE fails; the membership stays in any case.
Revoke(w, r) ==
  /\ At(w, "revoke")
  /\ r \in cut[w]
  /\ LET i == id[w]
     IN \/ UNCHANGED held /\ PassOver(i, {r} \cap held[i])
        \/ held' = [held EXCEPT ![i] = @ \ {r}] /\ MakeGood(i, r)
  /\ Continue(w, {}, cut[w] \ {r})
  /\ Excuse(excused)
  /\ UNCHANGED <<email, issued, member, roleGroups, crashes, wanted, unwanted>>

-----------------------------------------------------------------------------
(* What else changes these tables                                          *)

\* DELETE FROM users, by DeleteAccount and DeleteUser, takes the roles and the
\* memberships along.
DeleteUser(i) ==
  /\ email[i] # Null
  /\ email' = [email EXCEPT ![i] = Null]
  /\ held' = [held EXCEPT ![i] = {}]
  /\ member' = [member EXCEPT ![i] = {}]
  /\ wanted' = [wanted EXCEPT ![i] = {}]
  /\ unwanted' = [unwanted EXCEPT ![i] = {}]
  /\ missed' = [missed EXCEPT ![i] = {}]
  /\ Excuse(excused)
  /\ UNCHANGED <<issued, roleGroups, pc, locals, crashes>>

\* AdminRemoveMember of a role group.
LeaveRoleGroup(i, r) ==
  /\ r \in member[i] \cap roleGroups
  /\ member' = [member EXCEPT ![i] = @ \ {r}]
  /\ UNCHANGED <<email, issued, held, roleGroups, pc, locals, crashes, wanted, unwanted, missed>>
  /\ Excuse(excused \cup {<<i, r>>})

\* AdminDeleteGroup of a role group, or a new name for it: the code finds the
\* group by its name and nothing else.
LoseRoleGroup(r) ==
  /\ r \in roleGroups
  /\ roleGroups' = roleGroups \ {r}
  /\ member' = [i \in Ids |-> member[i] \ {r}]
  /\ UNCHANGED <<email, issued, held, pc, locals, crashes, wanted, unwanted, missed>>
  /\ Excuse(excused \cup (Ids \X {r}))

\* The process is killed, and starts again with EnsureRoleGroups.  A role
\* granted and not yet followed by its membership stays without.
Crash ==
  /\ crashes < MaxCrashes
  /\ crashes' = crashes + 1
  /\ pc' = [w \in Workers |-> "idle"]
  /\ id' = [w \in Workers |-> Null]
  /\ mail' = [w \in Workers |-> Null]
  /\ todo' = [w \in Workers |-> {}]
  /\ cut' = [w \in Workers |-> {}]
  /\ now' = [w \in Workers |-> Null]
  /\ roleGroups' = Roles
  /\ wanted' = [i \in Ids |-> {}]
  /\ unwanted' = [i \in Ids |-> {}]
  /\ missed' = [i \in Ids |-> {}]
  /\ UNCHANGED <<email, issued, held, member>>
  /\ Excuse(excused \cup {<<id[w], now[w]>> : w \in {v \in Workers : At(v, "join")}})

-----------------------------------------------------------------------------
Start(w) ==
  \/ \E e \in Emails, codes \in SUBSET Codes : StartCreate(w, e, codes)
  \/ \E i \in Ids, codes \in SUBSET Codes : StartUpdate(w, i, codes)
  \/ \E i \in Ids, r \in Roles : StartAssign(w, i, r) \/ StartRemove(w, i, r)

Step(w) ==
  \/ CheckEmail(w)
  \/ \E i \in Ids : InsertUser(w, i)
  \/ FailInsert(w)
  \/ FindUser(w)
  \/ ReadRoles(w)
  \/ \E r \in Roles : Grant(w, r) \/ Revoke(w, r)
  \/ Join(w)

Next ==
  \/ \E w \in Workers : Start(w) \/ Step(w)
  \/ \E i \in Ids : DeleteUser(i)
  \/ \E i \in Ids, r \in Roles : LeaveRoleGroup(i, r)
  \/ \E r \in Roles : LoseRoleGroup(r)
  \/ Crash

Spec == Init /\ [][Next]_vars

-----------------------------------------------------------------------------
(* Properties                                                              *)

\* Two requests that register one address at the same time make one account:
\* both may find it free (auth_handlers.go:58), the index decides.
OneAccountPerEmail ==
  \A i, j \in Ids : email[i] # Null /\ email[i] = email[j] => i = j

\* When the last of several overlapping requests about a user has answered, a
\* role that some of them asked for and none asked to go is held, and a role
\* that some asked to go and none asked for is not.  Where they disagree the
\* order of their statements decides, and then even a user with no role at all
\* may result (admin_users.go:246-276).  An error, though the answer is 200, costs
\* exactly the roles it met: those the SELECT of line 246 did not return, which
\* are never revoked, the one whose id was not found (lines 190, 263, 273, 309,
\* 322) or whose INSERT or DELETE failed (191, 264, 274, 313, 326), and all that
\* the request would have changed when line 216 takes an error for an unknown
\* user.  Every other role comes out as agreed.
AgreementWins ==
  \A i \in Ids : email[i] # Null /\ ~Busy(i) =>
    /\ wanted[i] \ unwanted[i] \subseteq held[i] \cup missed[i]
    /\ (unwanted[i] \ wanted[i]) \cap held[i] \subseteq missed[i]

\* Whoever holds a role is in the group of that role as soon as the request
\* that granted it goes on, unless EnsureMembership failed (groups.go:60-78, an
\* error that admin_users.go:192, 265, 314 and auth_handlers.go:90 ignore), an
\* administrator took the user or the group away, or the process died between
\* the two statements.  Nothing repairs that later but a new grant of the role:
\* EnsureUserMemberships (groups.go:38) has no caller.  A grant that succeeds
\* again ends the excuse.
HoldersAreMembers ==
  \A i \in Ids, r \in Roles :
    r \in held[i] /\ <<i, r>> \notin excused
      => \/ r \in member[i]
         \/ \E w \in Workers : At(w, "join") /\ id[w] = i /\ now[w] = r
=============================================================================
