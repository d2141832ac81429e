------------------------------- MODULE Groups -------------------------------
(***************************************************************************)
(* Groups, their members and the requests of teachers and students about   *)
(* them (http/groups.go, services/groups.go).                              *)
(*                                                                         *)
(* A request of an administrator is one statement.  One of a teacher first *)
(* asks whether the caller teaches the group, one of a student whether the *)
(* caller is in it, and acts in later statements without asking again.     *)
(* EnsureMembership, which follows every role granted, finds the group of  *)
(* the role by its name; any teacher of a group may rename it.             *)
(*                                                                         *)
(* The grade, the year and the dates of a group are left out: no code      *)
(* looks at them.                                                          *)
(***************************************************************************)
EXTENDS Naturals, FiniteSets

CONSTANTS
  GroupIds,    \* the UUIDs of groups
  Users,       \* the UUIDs of users
  Texts,       \* what a request may write as memberRole
  Codes,       \* role codes; as a name, code c stands for "Role: c"
  PlainNames,  \* other names of groups
  Workers,     \* the goroutines that serve teachers, students and grants
  Null

\* A text keeps a word, and whether it has blanks around it and is written in
\* capitals.
IsText(t) == t \in [word : STRING, padded : BOOLEAN, capital : BOOLEAN]

TrimSpace(t) == [t EXCEPT !.padded = FALSE]
ToUpper(t) == [t EXCEPT !.capital = TRUE]

Plain(word) == [word |-> word, padded |-> FALSE, capital |-> TRUE]
Teacher == Plain("TEACHER")
Student == Plain("STUDENT")

\* The values member_role takes.
MemberRoles ==
  {ToUpper(t) : t \in Texts} \cup {ToUpper(TrimSpace(t)) : t \in Texts} \cup {Plain(c) : c \in Codes}

Names == Codes \cup PlainNames

ASSUME GroupsConstants ==
  /\ \A t \in Texts : IsText(t)
  /\ Codes \subseteq {"ADMIN", "TEACHER", "STUDENT"}
  /\ Null \notin GroupIds
  /\ Null \notin Users
  /\ Null \notin Names
  /\ Null \notin MemberRoles \cup {Teacher, Student}

VARIABLES
  name,       \* groups.name; Null before and after the group's row
  issued,     \* the UUIDs of groups drawn so far
  live,       \* users with a row in users
  member,     \* group_members.member_role of each user in each group, or Null
  job,        \* the request each worker serves
  past,       \* history: what has been true since that request began
  appointed   \* history: <<g, u>> whom an administrator or a role made teacher

tables == <<name, issued, live, member>>
vars == <<name, issued, live, member, job, past, appointed>>

Labels == {"idle", "mayUpdate", "update", "mayAdd", "add", "mayRemove", "memberRole", "remove",
           "mayRead", "listIds", "group", "members", "findGroup", "isMember", "join"}

\* A request: the statement it runs next, who asks, the group and the member
\* it is about, the member role it writes and the groups it has still to show.
Jobs == [at : Labels, caller : Users \cup {Null}, group : GroupIds \cup {Null},
         target : Users \cup {Null}, role : MemberRoles \cup {Null}, todo : SUBSET GroupIds]

Idle == [at |-> "idle", caller |-> Null, group |-> Null, target |-> Null, role |-> Null,
         todo |-> {}]

\* What has been true since a request began: the groups its caller has taught
\* and been in, those its target has been a student of, and those that have
\* borne the name of the group of its role.
Pasts == [taught : SUBSET GroupIds, belonged : SUBSET GroupIds,
          studied : SUBSET GroupIds, bore : SUBSET GroupIds]

Nothing == [taught |-> {}, belonged |-> {}, studied |-> {}, bore |-> {}]

TypeOK ==
  /\ name \in [GroupIds -> Names \cup {Null}]
  /\ issued \subseteq GroupIds
  /\ live \subseteq Users
  /\ member \in [GroupIds -> [Users -> MemberRoles \cup {Null}]]
  /\ job \in [Workers -> Jobs]
  /\ past \in [Workers -> Pasts]
  /\ appointed \subseteq GroupIds \X Users

-----------------------------------------------------------------------------
Exists(g) == name[g] # Null

\* The groups a user teaches, is a student of, is in.
Teaches(m, u) == {g \in GroupIds : u # Null /\ m[g][u] = Teacher}
Studies(m, u) == {g \in GroupIds : u # Null /\ m[g][u] = Student}
IsIn(m, u)    == {g \in GroupIds : u # Null /\ m[g][u] # Null}

\* The groups under the name of the group of a role.
RoleGroups(nm, r) == {g \in GroupIds : \E c \in Codes : r = Plain(c) /\ nm[g] = c}

At(w, label) == job[w].at = label
Goto(w, label) == job' = [job EXCEPT ![w].at = label]
Answer(w) == job' = [job EXCEPT ![w] = Idle]

\* History: what is true of a request after this step, and before it.
Since(w) ==
  [taught |-> past[w].taught \cup Teaches(member', job'[w].caller),
   belonged |-> past[w].belonged \cup IsIn(member', job'[w].caller),
   studied |-> past[w].studied \cup Studies(member', job'[w].target),
   bore |-> past[w].bore \cup RoleGroups(name', job'[w].role)]

\* History: the pairs in new are made teachers by this step.
Remember(new) ==
  /\ past' = [w \in Workers |-> IF job'[w].at = "idle" THEN Nothing ELSE Since(w)]
  /\ appointed' = {p \in appointed \cup new : member'[p[1]][p[2]] = Teacher}

-----------------------------------------------------------------------------
(* Administrators, and what else changes these tables                      *)

\* AdminCreateGroup.
CreateGroup(g, n) ==
  /\ g \notin issued
  /\ name' = [name EXCEPT ![g] = n]
  /\ issued' = issued \cup {g}
  /\ UNCHANGED <<live, member>>

\* The UPDATE of AdminUpdateGroup and TeacherUpdateGroup; without a name in
\* the request the old one stays.
UpdateGroup(g, n) ==
  /\ name' = IF Exists(g) THEN [name EXCEPT ![g] = n] ELSE name
  /\ UNCHANGED <<issued, live, member>>

\* AdminDeleteGroup takes the members along.
DeleteGroup(g) ==
  /\ Exists(g)
  /\ name' = [name EXCEPT ![g] = Null]
  /\ member' = [member EXCEPT ![g] = [u \in Users |-> Null]]
  /\ UNCHANGED <<issued, live>>

\* AddMember: an INSERT, or for a user who is in the group an UPDATE of the
\* member role.  The foreign keys refuse a group or a user that is gone.
AddMember(g, u, r) ==
  /\ member' = IF Exists(g) /\ u \in live THEN [member EXCEPT ![g][u] = r] ELSE member
  /\ UNCHANGED <<name, issued, live>>

\* RemoveMember, which is the whole of AdminRemoveMember.
RemoveMember(g, u) ==
  /\ member' = [member EXCEPT ![g][u] = Null]
  /\ UNCHANGED <<name, issued, live>>

\* Variant of AdminAdd: AddMember does not capitalise.
AdminAddAsWritten(g, u, t) == AddMember(g, u, t)

\* AdminAddMember refuses no role but the empty one; AddMember capitalises it
\* and leaves its blanks.
AdminAdd(g, u, t) == t # Plain("") /\ AddMember(g, u, ToUpper(t))

\* DELETE FROM users takes the memberships along.  The token of the user stays
\* valid.
DeleteUser(u) ==
  /\ u \in live
  /\ live' = live \ {u}
  /\ member' = [g \in GroupIds |-> [member[g] EXCEPT ![u] = Null]]
  /\ UNCHANGED <<name, issued>>

\* EnsureRoleGroups, when the server starts, over groups with the names nm and
\* the UUIDs iss: f gives each code whose name no group bears a new group.
EnsureRoleGroups(f, nm, iss) ==
  /\ DOMAIN f = {c \in Codes : \A g \in GroupIds : nm[g] # c}
  /\ \A c, d \in DOMAIN f : f[c] \notin iss /\ (f[c] = f[d] => c = d)

Foundings == UNION {[D -> GroupIds] : D \in SUBSET Codes}

NewGroups(f) == {f[c] : c \in DOMAIN f}

Named(f, nm) ==
  [g \in GroupIds |-> IF g \in NewGroups(f) THEN CHOOSE c \in DOMAIN f : f[c] = g ELSE nm[g]]

\* The process is killed and starts again.
Restart(f) ==
  /\ EnsureRoleGroups(f, name, issued)
  /\ name' = Named(f, name)
  /\ issued' = issued \cup NewGroups(f)
  /\ job' = [w \in Workers |-> Idle]
  /\ UNCHANGED <<live, member>>

-----------------------------------------------------------------------------
(* What a worker is asked for                                              *)

Ask(w, request) == At(w, "idle") /\ job' = [job EXCEPT ![w] = request]

\* TeacherUpdateGroup, by a user who need not teach anything: the router has
\* only looked at the role in the token.
AskUpdate(w, u, g) == Ask(w, [Idle EXCEPT !.at = "mayUpdate", !.caller = u, !.group = g])

\* Variant of AskAdd: the role is compared as it is written.
AskAddAsWritten(w, u, g, v, t) ==
  /\ t # Teacher
  /\ Ask(w, [Idle EXCEPT !.at = "mayAdd", !.caller = u, !.group = g, !.target = v,
                         !.role = ToUpper(TrimSpace(t))])

\* TeacherAddMember.  The role is trimmed and capitalised, and refused when it
\* is TEACHER; that the caller is checked before makes no difference.
AskAdd(w, u, g, v, t) ==
  /\ ToUpper(TrimSpace(t)) # Teacher
  /\ Ask(w, [Idle EXCEPT !.at = "mayAdd", !.caller = u, !.group = g, !.target = v,
                         !.role = ToUpper(TrimSpace(t))])

\* TeacherRemoveMember.
AskRemove(w, u, g, v) ==
  Ask(w, [Idle EXCEPT !.at = "mayRemove", !.caller = u, !.group = g, !.target = v])

\* TeacherGetGroup and StudentGetGroup.
AskGet(w, u, g) == Ask(w, [Idle EXCEPT !.at = "mayRead", !.caller = u, !.group = g])

\* TeacherGroups and StudentGroups.
AskList(w, u) == Ask(w, [Idle EXCEPT !.at = "listIds", !.caller = u])

\* AdminGetGroup asks for no membership.
AdminGet(w, g) == Ask(w, [Idle EXCEPT !.at = "group", !.todo = {g}])

\* EnsureMembership, for a user who has been granted the role c.
StartEnsure(w, u, c) ==
  Ask(w, [Idle EXCEPT !.at = "findGroup", !.target = u, !.role = Plain(c)])

-----------------------------------------------------------------------------
(* The statements that only read                                           *)

\* isTeacherInGroup; 403 for others.
MayTeach(w) ==
  \E check \in {<<"mayUpdate", "update">>, <<"mayAdd", "add">>, <<"mayRemove", "memberRole">>} :
    /\ At(w, check[1])
    /\ IF job[w].group \in Teaches(member, job[w].caller) THEN Goto(w, check[2]) ELSE Answer(w)

\* Variant of ReadMemberRole: whoever is no teacher may be removed.
ReadMemberRoleNotTeacher(w) ==
  /\ At(w, "memberRole")
  /\ IF job[w].group \in Teaches(member, job[w].target) THEN Answer(w) ELSE Goto(w, "remove")

\* memberRole; 403 unless the member is a student.
ReadMemberRole(w) ==
  /\ At(w, "memberRole")
  /\ IF job[w].group \in Studies(member, job[w].target) THEN Goto(w, "remove") ELSE Answer(w)

\* Go on with the groups still to show.
Show(w, groups) ==
  IF groups = {}
    THEN Answer(w)
    ELSE job' = [job EXCEPT ![w].at = "group", ![w].group = Null, ![w].todo = groups]

\* isGroupMember; 403 for others.
MayRead(w) ==
  /\ At(w, "mayRead")
  /\ Show(w, IsIn(member, job[w].caller) \cap {job[w].group})

\* The ids of the caller's groups.
ListIds(w) == At(w, "listIds") /\ Show(w, IsIn(member, job[w].caller))

\* getGroup, its first SELECT: a group that is gone is left out.
SelectGroup(w, g) ==
  /\ At(w, "group")
  /\ g \in job[w].todo
  /\ \/ Exists(g) /\ job' = [job EXCEPT ![w].at = "members", ![w].group = g]
     \/ Show(w, job[w].todo \ {g})

\* Its second: the members, none when the SELECT fails or the group is gone.
SelectMembers(w) == At(w, "members") /\ Show(w, job[w].todo \ {job[w].group})

\* SELECT id ... WHERE name: one of the groups of that name.
FindGroup(w, g) ==
  /\ At(w, "findGroup")
  /\ g \in RoleGroups(name, job[w].role)
  /\ job' = [job EXCEPT ![w].at = "isMember", ![w].group = g]

\* SELECT EXISTS: who is in the group stays what they are there.
CheckMember(w) ==
  /\ At(w, "isMember")
  /\ IF job[w].group \in IsIn(member, job[w].target) THEN Answer(w) ELSE Goto(w, "join")

\* A statement fails.  Whatever the request was, it ends without a change; in
\* a list the group is left out, see SelectGroup.
Fail(w) == job[w].at \notin {"idle", "group", "members"} /\ Answer(w)

-----------------------------------------------------------------------------
(* The statements that write, each the last of its request                 *)

TeacherUpdate(w, n) == At(w, "update") /\ UpdateGroup(job[w].group, n)

TeacherAdd(w) == At(w, "add") /\ AddMember(job[w].group, job[w].target, job[w].role)

TeacherRemove(w) == At(w, "remove") /\ RemoveMember(job[w].group, job[w].target)

\* The INSERT of EnsureMembership, refused by a key when the user is in the
\* group by now, or the user or the group is gone.
Join(w) ==
  /\ At(w, "join")
  /\ IF member[job[w].group][job[w].target] = Null
       THEN AddMember(job[w].group, job[w].target, job[w].role)
       ELSE UNCHANGED tables

\* Whom Join may make a teacher: a member of a group that has borne the name.
Joins(w) == past[w].bore \X {job[w].target}

-----------------------------------------------------------------------------
\* The server has made the groups of the roles; some users have registered.
Init ==
  /\ \E f \in Foundings :
       LET none == [g \in GroupIds |-> Null]
       IN /\ EnsureRoleGroups(f, none, {})
          /\ name = Named(f, none)
          /\ issued = NewGroups(f)
  /\ live = Users
  /\ member = [g \in GroupIds |-> [u \in Users |-> Null]]
  /\ job = [w \in Workers |-> Idle]
  /\ past = [w \in Workers |-> Nothing]
  /\ appointed = {}

Administer ==
  \/ \E g \in GroupIds, n \in Names : CreateGroup(g, n) \/ UpdateGroup(g, n)
  \/ \E g \in GroupIds : DeleteGroup(g)
  \/ \E g \in GroupIds, u \in Users : RemoveMember(g, u)
  \/ \E u \in Users : DeleteUser(u)

Request(w) ==
  \/ \E u \in Users, g \in GroupIds : AskUpdate(w, u, g) \/ AskGet(w, u, g)
  \/ \E u, v \in Users, g \in GroupIds, t \in Texts : AskAdd(w, u, g, v, t)
  \/ \E u, v \in Users, g \in GroupIds : AskRemove(w, u, g, v)
  \/ \E u \in Users : AskList(w, u)
  \/ \E g \in GroupIds : AdminGet(w, g)
  \/ \E u \in Users, c \in Codes : StartEnsure(w, u, c)

Read(w) ==
  \/ MayTeach(w) \/ ReadMemberRole(w) \/ MayRead(w) \/ ListIds(w) \/ SelectMembers(w)
  \/ \E g \in GroupIds : SelectGroup(w, g) \/ FindGroup(w, g)
  \/ CheckMember(w) \/ Fail(w)

TeacherWrite(w) == (\E n \in Names : TeacherUpdate(w, n)) \/ TeacherAdd(w) \/ TeacherRemove(w)

Next ==
  \/ Administer /\ UNCHANGED job /\ Remember({})
  \/ \E g \in GroupIds, u \in Users, t \in Texts :
       AdminAdd(g, u, t) /\ UNCHANGED job /\ Remember({<<g, u>>})
  \/ \E f \in Foundings : Restart(f) /\ Remember({})
  \/ \E w \in Workers :
       \/ (Request(w) \/ Read(w)) /\ UNCHANGED tables /\ Remember({})
       \/ TeacherWrite(w) /\ Answer(w) /\ Remember({})
       \/ Join(w) /\ Answer(w) /\ Remember(Joins(w))

Spec == Init /\ [][Next]_vars

-----------------------------------------------------------------------------
(* Properties                                                              *)

\* Nobody becomes a teacher of a group through a teacher: a TEACHER was named
\* by an administrator, or joined while the group bore the name of the group
\* of the role they were granted, however memberRole is written
\* (http/groups.go:181).
TeachersAreAppointed ==
  \A g \in GroupIds, u \in Users : member[g][u] = Teacher => <<g, u>> \in appointed

\* A request acts on a group only if its caller has taught it at some time
\* since the request began, removes only whom the group has had for a student
\* in that time, and shows its caller only groups they have been in: the
\* checks may be stale, but never about another group or another user
\* (http/groups.go:153, 172, 197, 129).
ActsAreJustified ==
  \A w \in Workers :
    /\ job[w].at \in {"update", "add", "memberRole", "remove"}
         => job[w].group \in past[w].taught
    /\ At(w, "remove") => job[w].group \in past[w].studied
    /\ At(w, "members") /\ job[w].caller # Null => job[w].group \in past[w].belonged

\* "Teacher can remove only students" (http/groups.go:203).
RemovesOnlyStudents ==
  [][\A w \in Workers :
       At(w, "remove") /\ ~At(w, "remove")' /\ member' # member
         => job[w].group \in Studies(member, job[w].target)]_vars
=============================================================================
