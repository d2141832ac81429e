---------------------------- MODULE GroupsProofs ----------------------------
(***************************************************************************)
(* Proofs about Groups: its types, that teachers come only from            *)
(* administrators and from role groups, and that no request acts on what   *)
(* its caller had no claim to.                                             *)
(***************************************************************************)
EXTENDS Groups, TLAPS

(* Types                                                                   *)

\* A plain text is a text like any other.
LEMMA PlainIsText ==
  ASSUME NEW c \in Codes
  PROVE  Plain(c) \in MemberRoles
BY DEF MemberRoles

\* The history has its types after every step.
LEMMA RememberType ==
  ASSUME TypeOK, NEW new, new \subseteq GroupIds \X Users, Remember(new)
  PROVE  past' \in [Workers -> Pasts] /\ appointed' \subseteq GroupIds \X Users
<1>1. \A w \in Workers : Since(w) \in Pasts
  BY DEF TypeOK, Since, Pasts, Teaches, IsIn, Studies, RoleGroups
<1>2. Nothing \in Pasts
  BY DEF Nothing, Pasts
<1> QED BY <1>1, <1>2 DEF Remember, TypeOK

\* Where a worker may go from its label, its request stays a request.
LEMMA WorkerType ==
  ASSUME TypeOK, NEW w \in Workers
  PROVE  /\ Answer(w) => job' \in [Workers -> Jobs]
         /\ \A label \in Labels : Goto(w, label) => job' \in [Workers -> Jobs]
         /\ \A G \in SUBSET GroupIds : Show(w, G) => job' \in [Workers -> Jobs]
         /\ \A r \in Jobs : Ask(w, r) => job' \in [Workers -> Jobs]
         /\ \A label \in Labels, g \in GroupIds :
              job' = [job EXCEPT ![w].at = label, ![w].group = g] => job' \in [Workers -> Jobs]
<1>1. Idle \in Jobs
  BY DEF Idle, Jobs, Labels
<1>2. job \in [Workers -> Jobs] /\ job[w] \in Jobs
  BY DEF TypeOK
<1>3. \A r \in Jobs : [job EXCEPT ![w] = r] \in [Workers -> Jobs]
  BY <1>2
<1>4. ASSUME NEW label \in Labels, Goto(w, label)
      PROVE  job' \in [Workers -> Jobs]
  <2>1. [job[w] EXCEPT !.at = label] \in Jobs
    BY <1>2 DEF Jobs
  <2> QED BY <1>3, <1>4, <2>1 DEF Goto
<1>5. ASSUME NEW label \in Labels, NEW g \in GroupIds,
             job' = [job EXCEPT ![w].at = label, ![w].group = g]
      PROVE  job' \in [Workers -> Jobs]
  <2>1. [job[w] EXCEPT !.at = label, !.group = g] \in Jobs
    BY <1>2 DEF Jobs
  <2>2. job' = [job EXCEPT ![w] = [job[w] EXCEPT !.at = label, !.group = g]]
    BY <1>2, <1>5
  <2> QED BY <1>3, <2>1, <2>2
<1>6. ASSUME NEW G \in SUBSET GroupIds, Show(w, G)
      PROVE  job' \in [Workers -> Jobs]
  <2>1. CASE G = {}
    BY <1>1, <1>3, <1>6, <2>1 DEF Show, Answer
  <2>2. CASE G # {}
    <3>1. [job[w] EXCEPT !.at = "group", !.group = Null, !.todo = G] \in Jobs
      BY <1>2 DEF Jobs, Labels
    <3>2. job' = [job EXCEPT ![w] = [job[w] EXCEPT !.at = "group", !.group = Null, !.todo = G]]
      BY <1>2, <1>6, <2>2 DEF Show
    <3> QED BY <1>3, <3>1, <3>2
  <2> QED BY <2>1, <2>2
<1> QED BY <1>1, <1>3, <1>4, <1>5, <1>6 DEF Answer, Ask

\* What a worker is asked for is a request.
LEMMA RequestType ==
  ASSUME TypeOK, NEW w \in Workers, Request(w)
  PROVE  job' \in [Workers -> Jobs]
<1>0. \A t \in Texts : ToUpper(TrimSpace(t)) \in MemberRoles
  BY DEF MemberRoles
<1> USE DEF Idle, Jobs, Labels
<1>1. ASSUME NEW u \in Users, NEW g \in GroupIds, AskUpdate(w, u, g) \/ AskGet(w, u, g)
      PROVE  job' \in [Workers -> Jobs]
  BY <1>1, WorkerType DEF AskUpdate, AskGet
<1>2. ASSUME NEW u \in Users, NEW v \in Users, NEW g \in GroupIds, NEW t \in Texts,
             AskAdd(w, u, g, v, t)
      PROVE  job' \in [Workers -> Jobs]
  BY <1>0, <1>2, WorkerType DEF AskAdd
<1>3. ASSUME NEW u \in Users, NEW v \in Users, NEW g \in GroupIds, AskRemove(w, u, g, v)
      PROVE  job' \in [Workers -> Jobs]
  BY <1>3, WorkerType DEF AskRemove
<1>4. ASSUME NEW u \in Users, AskList(w, u)
      PROVE  job' \in [Workers -> Jobs]
  BY <1>4, WorkerType DEF AskList
<1>5. ASSUME NEW g \in GroupIds, AdminGet(w, g)
      PROVE  job' \in [Workers -> Jobs]
  BY <1>5, WorkerType DEF AdminGet
<1>6. ASSUME NEW u \in Users, NEW c \in Codes, StartEnsure(w, u, c)
      PROVE  job' \in [Workers -> Jobs]
  BY <1>6, WorkerType, PlainIsText DEF StartEnsure
<1> QED BY <1>1, <1>2, <1>3, <1>4, <1>5, <1>6 DEF Request

\* A statement that reads leaves its worker with a request.
LEMMA ReadType ==
  ASSUME TypeOK, NEW w \in Workers, Read(w)
  PROVE  job' \in [Workers -> Jobs]
<1>1. CASE MayTeach(w)
  <2>1. \E label \in Labels : Goto(w, label) \/ Answer(w)
    BY <1>1 DEF MayTeach, Labels
  <2> QED BY <2>1, WorkerType
<1>2. CASE ReadMemberRole(w)
  BY <1>2, WorkerType DEF ReadMemberRole, Labels
<1>3. CASE MayRead(w) \/ ListIds(w)
  BY <1>3, WorkerType DEF MayRead, ListIds, IsIn
<1>4. CASE SelectMembers(w)
  BY <1>4, WorkerType DEF SelectMembers, TypeOK, Jobs
<1>5. ASSUME NEW g \in GroupIds, SelectGroup(w, g) \/ FindGroup(w, g)
      PROVE  job' \in [Workers -> Jobs]
  <2>1. job[w].todo \ {g} \in SUBSET GroupIds
    BY DEF TypeOK, Jobs
  <2>2. CASE FindGroup(w, g)
    BY <2>2, WorkerType DEF FindGroup, Labels
  <2>3. CASE SelectGroup(w, g)
    BY <2>1, <2>3, WorkerType DEF SelectGroup, Labels
  <2> QED BY <1>5, <2>2, <2>3
<1>6. CASE CheckMember(w) \/ Fail(w)
  BY <1>6, WorkerType DEF CheckMember, Fail, Labels
<1> QED BY <1>1, <1>2, <1>3, <1>4, <1>5, <1>6 DEF Read

\* The tables have their types after each statement that writes them.
LEMMA TableType ==
  ASSUME TypeOK
  PROVE  /\ \A g \in GroupIds, u \in Users, r \in MemberRoles :
              AddMember(g, u, r) => TypeOK!1' /\ TypeOK!2' /\ TypeOK!3' /\ TypeOK!4'
         /\ \A g \in GroupIds, u \in Users :
              RemoveMember(g, u) => TypeOK!1' /\ TypeOK!2' /\ TypeOK!3' /\ TypeOK!4'
         /\ \A g \in GroupIds, n \in Names :
              UpdateGroup(g, n) => TypeOK!1' /\ TypeOK!2' /\ TypeOK!3' /\ TypeOK!4'
         /\ UNCHANGED tables => TypeOK!1' /\ TypeOK!2' /\ TypeOK!3' /\ TypeOK!4'
BY DEF TypeOK, AddMember, RemoveMember, UpdateGroup, tables

\* What else changes the tables.
LEMMA AdministerType ==
  ASSUME TypeOK, Administer
  PROVE  TypeOK!1' /\ TypeOK!2' /\ TypeOK!3' /\ TypeOK!4'
<1>1. ASSUME NEW g \in GroupIds, NEW n \in Names, CreateGroup(g, n)
      PROVE  TypeOK!1' /\ TypeOK!2' /\ TypeOK!3' /\ TypeOK!4'
  BY <1>1 DEF TypeOK, CreateGroup
<1>2. ASSUME NEW g \in GroupIds, DeleteGroup(g)
      PROVE  TypeOK!1' /\ TypeOK!2' /\ TypeOK!3' /\ TypeOK!4'
  BY <1>2 DEF TypeOK, DeleteGroup
<1>3. ASSUME NEW u \in Users, DeleteUser(u)
      PROVE  TypeOK!1' /\ TypeOK!2' /\ TypeOK!3' /\ TypeOK!4'
  BY <1>3 DEF TypeOK, DeleteUser
<1> QED BY <1>1, <1>2, <1>3, TableType DEF Administer

\* New groups get names.
LEMMA NamedType ==
  ASSUME NEW nm \in [GroupIds -> Names \cup {Null}], NEW f \in Foundings, NEW iss,
         EnsureRoleGroups(f, nm, iss)
  PROVE  Named(f, nm) \in [GroupIds -> Names \cup {Null}] /\ NewGroups(f) \subseteq GroupIds
<1>1. DOMAIN f \subseteq Codes /\ \A c \in DOMAIN f : f[c] \in GroupIds
  BY DEF Foundings
<1>2. \A g \in NewGroups(f) : (CHOOSE c \in DOMAIN f : f[c] = g) \in DOMAIN f
  BY DEF NewGroups
<1> QED BY <1>1, <1>2 DEF Named, NewGroups, Names

\* A start of the server leaves the tables with their types.
LEMMA RestartType ==
  ASSUME TypeOK, NEW f \in Foundings, Restart(f)
  PROVE  TypeOK!1' /\ TypeOK!2' /\ TypeOK!3' /\ TypeOK!4' /\ TypeOK!5'
<1>1. name' \in [GroupIds -> Names \cup {Null}] /\ NewGroups(f) \subseteq GroupIds
  BY NamedType DEF TypeOK, Restart
<1>2. Idle \in Jobs
  BY DEF Idle, Jobs, Labels
<1> QED BY <1>1, <1>2 DEF TypeOK, Restart

\* What a request is about, label by label, and what its caller has had.
Justified(w) ==
  /\ job[w].at \in {"mayUpdate", "update", "mayAdd", "add", "mayRemove", "memberRole", "remove",
                    "mayRead", "members", "isMember", "join"} => job[w].group \in GroupIds
  /\ job[w].at \in {"mayAdd", "add", "mayRemove", "memberRole", "remove",
                    "findGroup", "isMember", "join"} => job[w].target \in Users
  /\ job[w].at \in {"mayAdd", "add"} => job[w].role \in MemberRoles \ {Teacher}
  /\ job[w].at \in {"findGroup", "isMember", "join"} => job[w].role \in MemberRoles
  /\ job[w].at \in {"isMember", "join"} => job[w].group \in past[w].bore
  /\ job[w].at \in {"update", "add", "memberRole", "remove"}
       => job[w].group \in past[w].taught
  /\ At(w, "remove") => job[w].group \in past[w].studied
  /\ job[w].at \in {"group", "members"} /\ job[w].caller # Null
       => job[w].todo \subseteq past[w].belonged
  /\ At(w, "members") => job[w].group \in job[w].todo

\* The inductive invariant.
IInv ==
  /\ TypeOK
  /\ \A w \in Workers : Justified(w)
  /\ TeachersAreAppointed

\* A statement that writes keeps the types of the tables.
LEMMA WriteType ==
  ASSUME TypeOK, NEW w \in Workers, Justified(w), TeacherWrite(w) \/ Join(w)
  PROVE  TypeOK!1' /\ TypeOK!2' /\ TypeOK!3' /\ TypeOK!4'
<1> USE DEF Justified, At
<1>1. CASE Join(w)
  BY <1>1, TableType DEF Join
<1>2. ASSUME NEW n \in Names, TeacherUpdate(w, n)
      PROVE  TypeOK!1' /\ TypeOK!2' /\ TypeOK!3' /\ TypeOK!4'
  BY <1>2, TableType DEF TeacherUpdate
<1>3. CASE TeacherAdd(w)
  BY <1>3, TableType DEF TeacherAdd
<1>4. CASE TeacherRemove(w)
  BY <1>4, TableType DEF TeacherRemove
<1> QED BY <1>1, <1>2, <1>3, <1>4 DEF TeacherWrite

\* Every step keeps the types.
LEMMA TypeStep ==
  ASSUME IInv, [Next]_vars
  PROVE  TypeOK'
<1> USE DEF IInv
<1>1. CASE UNCHANGED vars
  BY <1>1 DEF TypeOK, vars
<1>2. CASE Administer /\ UNCHANGED job /\ Remember({})
  BY <1>2, AdministerType, RememberType DEF TypeOK
<1>3. ASSUME NEW g \in GroupIds, NEW u \in Users, NEW t \in Texts,
             AdminAdd(g, u, t), UNCHANGED job, Remember({<<g, u>>})
      PROVE  TypeOK'
  <2>1. ToUpper(t) \in MemberRoles
    BY DEF MemberRoles
  <2>2. TypeOK!1' /\ TypeOK!2' /\ TypeOK!3' /\ TypeOK!4'
    BY <1>3, <2>1, TableType DEF AdminAdd
  <2>3. {<<g, u>>} \subseteq GroupIds \X Users
    OBVIOUS
  <2> QED BY <1>3, <2>2, <2>3, RememberType DEF TypeOK
<1>4. ASSUME NEW f \in Foundings, Restart(f), Remember({})
      PROVE  TypeOK'
  BY <1>4, RestartType, RememberType DEF TypeOK
<1>5. ASSUME NEW w \in Workers, Request(w) \/ Read(w), UNCHANGED tables, Remember({})
      PROVE  TypeOK'
  <2>1. job' \in [Workers -> Jobs]
    BY <1>5, RequestType, ReadType
  <2> QED BY <1>5, <2>1, TableType, RememberType DEF TypeOK
<1>6. ASSUME NEW w \in Workers, TeacherWrite(w), Answer(w), Remember({})
      PROVE  TypeOK'
  BY <1>6, WriteType, WorkerType, RememberType DEF TypeOK
<1>7. ASSUME NEW w \in Workers, Join(w), Answer(w), Remember(Joins(w))
      PROVE  TypeOK'
  <2>1. Joins(w) \subseteq GroupIds \X Users
    BY <1>7 DEF Joins, Join, Justified, At, TypeOK, Pasts
  <2> QED BY <1>7, <2>1, WriteType, WorkerType, RememberType DEF TypeOK
<1> QED BY <1>1, <1>2, <1>3, <1>4, <1>5, <1>6, <1>7 DEF Next
-----------------------------------------------------------------------------
(* Justification                                                           *)

\* What an open request remembers only grows, and holds what is true now.
LEMMA Remembered ==
  ASSUME NEW w \in Workers, NEW new, Remember(new), job'[w].at # "idle"
  PROVE  /\ past[w].taught \cup Teaches(member', job'[w].caller) \subseteq past'[w].taught
         /\ past[w].belonged \cup IsIn(member', job'[w].caller) \subseteq past'[w].belonged
         /\ past[w].studied \cup Studies(member', job'[w].target) \subseteq past'[w].studied
         /\ past[w].bore \cup RoleGroups(name', job'[w].role) \subseteq past'[w].bore
BY DEF Remember, Since

\* A request that a step does not touch stays justified.
LEMMA OthersJustified ==
  ASSUME NEW w \in Workers, Justified(w), NEW new, Remember(new), job'[w] = job[w]
  PROVE  Justified(w)'
<1>1. CASE job[w].at = "idle"
  BY <1>1 DEF Justified, At
<1>2. CASE job[w].at # "idle"
  BY <1>2, Remembered DEF Justified, At
<1> QED BY <1>1, <1>2

\* A request that has ended has nothing to justify.
LEMMA EndedJustified ==
  ASSUME NEW w \in Workers, job'[w] = Idle
  PROVE  Justified(w)'
BY DEF Justified, At, Idle

\* A request that begins.
LEMMA RequestJustified ==
  ASSUME IInv, NEW w \in Workers, Request(w), Remember({})
  PROVE  Justified(w)'
<1>0. job \in [Workers -> Jobs] /\ \A t \in Texts : ToUpper(TrimSpace(t)) \in MemberRoles
  BY DEF IInv, TypeOK, MemberRoles
<1>1. ASSUME NEW u \in Users, NEW g \in GroupIds, AskUpdate(w, u, g) \/ AskGet(w, u, g)
      PROVE  Justified(w)'
  BY <1>0, <1>1 DEF AskUpdate, AskGet, Ask, Idle, Justified, At
<1>2. ASSUME NEW u \in Users, NEW v \in Users, NEW g \in GroupIds, NEW t \in Texts,
             AskAdd(w, u, g, v, t)
      PROVE  Justified(w)'
  BY <1>0, <1>2 DEF AskAdd, Ask, Idle, Justified, At
<1>3. ASSUME NEW u \in Users, NEW v \in Users, NEW g \in GroupIds, AskRemove(w, u, g, v)
      PROVE  Justified(w)'
  BY <1>0, <1>3 DEF AskRemove, Ask, Idle, Justified, At
<1>4. ASSUME NEW u \in Users, AskList(w, u)
      PROVE  Justified(w)'
  BY <1>0, <1>4 DEF AskList, Ask, Idle, Justified, At
<1>5. ASSUME NEW g \in GroupIds, AdminGet(w, g)
      PROVE  Justified(w)'
  BY <1>0, <1>5 DEF AdminGet, Ask, Idle, Justified, At
<1>6. ASSUME NEW u \in Users, NEW c \in Codes, StartEnsure(w, u, c)
      PROVE  Justified(w)'
  BY <1>0, <1>6, PlainIsText DEF StartEnsure, Ask, Idle, Justified, At
<1> QED BY <1>1, <1>2, <1>3, <1>4, <1>5, <1>6 DEF Request

\* A request goes on showing only groups its caller has been in.
LEMMA ShowJustified ==
  ASSUME IInv, NEW w \in Workers, Remember({}), NEW G \in SUBSET GroupIds, Show(w, G),
         job[w].caller # Null => G \subseteq past[w].belonged \cup IsIn(member', job[w].caller)
  PROVE  Justified(w)'
<1>0. job \in [Workers -> Jobs]
  BY DEF IInv, TypeOK
<1>1. CASE G = {}
  BY <1>0, <1>1, EndedJustified DEF Show, Answer
<1>2. CASE G # {}
  <2>1. /\ job'[w].at = "group"
        /\ job'[w].caller = job[w].caller
        /\ job'[w].todo = G
    BY <1>0, <1>2 DEF Show, Jobs
  <2> QED BY <2>1, Remembered DEF Justified, At
<1> QED BY <1>1, <1>2

\* A request goes on past its checks.
LEMMA ReadJustified ==
  ASSUME IInv, NEW w \in Workers, Read(w), UNCHANGED tables, Remember({})
  PROVE  Justified(w)'
<1>0. /\ job \in [Workers -> Jobs] /\ job[w] \in Jobs
      /\ member' = member /\ name' = name
      /\ Justified(w)
  BY DEF IInv, TypeOK, tables
<1>1. CASE Answer(w)
  BY <1>0, <1>1, EndedJustified DEF Answer
<1>2. ASSUME NEW label \in Labels, Goto(w, label)
      PROVE  /\ job'[w].at = label
             /\ job'[w].caller = job[w].caller /\ job'[w].group = job[w].group
             /\ job'[w].target = job[w].target /\ job'[w].role = job[w].role
             /\ job'[w].todo = job[w].todo
  BY <1>0, <1>2 DEF Goto, Jobs
<1>3. CASE MayTeach(w) /\ ~Answer(w)
  <2>1. PICK check \in {<<"mayUpdate", "update">>, <<"mayAdd", "add">>,
                        <<"mayRemove", "memberRole">>} :
          /\ At(w, check[1])
          /\ job[w].group \in Teaches(member, job[w].caller)
          /\ Goto(w, check[2])
    BY <1>3 DEF MayTeach
  <2>2. check[2] \in Labels
    BY DEF Labels
  <2> QED BY <1>0, <1>2, <2>1, <2>2, Remembered DEF Justified, At
<1>4. CASE ReadMemberRole(w) /\ ~Answer(w)
  <2>1. At(w, "memberRole") /\ Goto(w, "remove") /\ job[w].group \in Studies(member, job[w].target)
    BY <1>4 DEF ReadMemberRole
  <2> QED BY <1>0, <1>2, <2>1, Remembered DEF Justified, At, Labels
<1>5. CASE MayRead(w) \/ ListIds(w)
  BY <1>0, <1>5, ShowJustified DEF MayRead, ListIds, IsIn
<1>6. CASE SelectMembers(w)
  BY <1>0, <1>6, ShowJustified DEF SelectMembers, Justified, At, Jobs
<1>7. ASSUME NEW g \in GroupIds, SelectGroup(w, g)
      PROVE  Justified(w)'
  <2>1. CASE Show(w, job[w].todo \ {g})
    BY <1>0, <1>7, <2>1, ShowJustified DEF SelectGroup, Justified, At, Jobs
  <2>2. CASE job' = [job EXCEPT ![w].at = "members", ![w].group = g]
    <3>1. /\ job'[w].at = "members" /\ job'[w].group = g
          /\ job'[w].caller = job[w].caller /\ job'[w].todo = job[w].todo
      BY <1>0, <2>2 DEF Jobs
    <3> QED BY <1>0, <1>7, <3>1, Remembered DEF SelectGroup, Justified, At
  <2> QED BY <1>7, <2>1, <2>2 DEF SelectGroup
<1>8. ASSUME NEW g \in GroupIds, FindGroup(w, g)
      PROVE  Justified(w)'
  <2>1. /\ job'[w].at = "isMember" /\ job'[w].group = g
        /\ job'[w].target = job[w].target /\ job'[w].role = job[w].role
    BY <1>0, <1>8 DEF FindGroup, Jobs
  <2> QED BY <1>0, <1>8, <2>1, Remembered DEF FindGroup, Justified, At
<1>9. CASE CheckMember(w) /\ ~Answer(w)
  <2>1. At(w, "isMember") /\ Goto(w, "join")
    BY <1>9 DEF CheckMember
  <2> QED BY <1>0, <1>2, <2>1, Remembered DEF Justified, At, Labels
<1> QED BY <1>1, <1>3, <1>4, <1>5, <1>6, <1>7, <1>8, <1>9 DEF Read, Fail

\* Every step leaves every request justified.
LEMMA JustifiedStep ==
  ASSUME IInv, [Next]_vars, NEW v \in Workers
  PROVE  Justified(v)'
<1>0. Justified(v) /\ job \in [Workers -> Jobs]
  BY DEF IInv, TypeOK
<1>1. CASE UNCHANGED vars
  BY <1>0, <1>1 DEF vars, Justified, At
<1>2. ASSUME NEW new, Remember(new), UNCHANGED job
      PROVE  Justified(v)'
  BY <1>0, <1>2, OthersJustified
<1>3. ASSUME NEW f \in Foundings, Restart(f), Remember({})
      PROVE  Justified(v)'
  BY <1>3, EndedJustified DEF Restart
<1>4. ASSUME NEW w \in Workers, Request(w) \/ Read(w), UNCHANGED tables, Remember({})
      PROVE  Justified(v)'
  <2>1. CASE v = w
    BY <1>4, <2>1, RequestJustified, ReadJustified
  <2>2. CASE v # w
    <3>1. job'[v] = job[v]
      BY <1>0, <1>4, <2>2 DEF Request, Read, AskUpdate, AskGet, AskAdd, AskRemove, AskList,
            AdminGet, StartEnsure, Ask, MayTeach, ReadMemberRole, MayRead, ListIds,
            SelectMembers, SelectGroup, FindGroup, CheckMember, Fail, Show, Goto, Answer
    <3> QED BY <1>0, <1>4, <3>1, OthersJustified
  <2> QED BY <2>1, <2>2
<1>5. ASSUME NEW w \in Workers, NEW new, Answer(w), Remember(new)
      PROVE  Justified(v)'
  BY <1>0, <1>5, EndedJustified, OthersJustified DEF Answer
<1> QED BY <1>1, <1>2, <1>3, <1>4, <1>5 DEF Next

-----------------------------------------------------------------------------
(* Appointment                                                             *)

\* A step that makes no teacher but those in new.
LEMMA AppointedBy ==
  ASSUME IInv, NEW new, Remember(new),
         \A g \in GroupIds, u \in Users :
           member'[g][u] = Teacher => member[g][u] = Teacher \/ <<g, u>> \in new
  PROVE  TeachersAreAppointed'
BY DEF IInv, TeachersAreAppointed, Remember

\* Every teacher of a group has been appointed, after every step.
LEMMA AppointedStep ==
  ASSUME IInv, [Next]_vars
  PROVE  TeachersAreAppointed'
<1>0. /\ member \in [GroupIds -> [Users -> MemberRoles \cup {Null}]]
      /\ Teacher # Null
  BY GroupsConstants DEF IInv, TypeOK
<1>2. ASSUME UNCHANGED member, NEW new, Remember(new)
      PROVE  TeachersAreAppointed'
  BY <1>2, AppointedBy
<1>3. ASSUME NEW g, NEW u, RemoveMember(g, u), Remember({})
      PROVE  TeachersAreAppointed'
  <2>1. \A h \in GroupIds, x \in Users : member'[h][x] = Teacher => member[h][x] = Teacher
    BY <1>0, <1>3 DEF RemoveMember
  <2> QED BY <1>3, <2>1, AppointedBy
<1>4. ASSUME NEW g, NEW u, NEW r, NEW new, AddMember(g, u, r), Remember(new),
             r = Teacher => <<g, u>> \in new
      PROVE  TeachersAreAppointed'
  <2>1. \A h \in GroupIds, x \in Users :
          member'[h][x] = Teacher => member[h][x] = Teacher \/ <<h, x>> \in new
    BY <1>0, <1>4 DEF AddMember
  <2> QED BY <1>4, <2>1, AppointedBy
<1>5. CASE UNCHANGED vars
  BY <1>5 DEF vars, IInv, TeachersAreAppointed
<1>6. CASE Administer /\ UNCHANGED job /\ Remember({})
  <2>1. ASSUME NEW g \in GroupIds, NEW n \in Names, CreateGroup(g, n) \/ UpdateGroup(g, n)
        PROVE  TeachersAreAppointed'
    BY <1>2, <1>6, <2>1 DEF CreateGroup, UpdateGroup
  <2>2. ASSUME NEW g \in GroupIds, DeleteGroup(g)
        PROVE  TeachersAreAppointed'
    <3>1. \A h \in GroupIds, x \in Users : member'[h][x] = Teacher => member[h][x] = Teacher
      BY <1>0, <2>2 DEF DeleteGroup
    <3> QED BY <1>6, <3>1, AppointedBy
  <2>3. ASSUME NEW u \in Users, DeleteUser(u)
        PROVE  TeachersAreAppointed'
    <3>1. \A h \in GroupIds, x \in Users : member'[h][x] = Teacher => member[h][x] = Teacher
      BY <1>0, <2>3 DEF DeleteUser
    <3> QED BY <1>6, <3>1, AppointedBy
  <2> QED BY <1>3, <1>6, <2>1, <2>2, <2>3 DEF Administer
<1>7. ASSUME NEW g \in GroupIds, NEW u \in Users, NEW t \in Texts,
             AdminAdd(g, u, t), UNCHANGED job, Remember({<<g, u>>})
      PROVE  TeachersAreAppointed'
  BY <1>4, <1>7 DEF AdminAdd
<1>8. ASSUME NEW f \in Foundings, Restart(f), Remember({})
      PROVE  TeachersAreAppointed'
  BY <1>2, <1>8 DEF Restart
<1>9. ASSUME NEW w \in Workers, Request(w) \/ Read(w), UNCHANGED tables, Remember({})
      PROVE  TeachersAreAppointed'
  BY <1>2, <1>9 DEF tables
<1>10. ASSUME NEW w \in Workers, TeacherWrite(w), Answer(w), Remember({})
      PROVE  TeachersAreAppointed'
  <2>1. ASSUME NEW n \in Names, TeacherUpdate(w, n)
        PROVE  TeachersAreAppointed'
    BY <1>2, <1>10, <2>1 DEF TeacherUpdate, UpdateGroup
  <2>2. CASE TeacherAdd(w)
    <3>1. job[w].role # Teacher
      BY <2>2 DEF TeacherAdd, At, IInv, Justified
    <3> QED BY <1>4, <1>10, <2>2, <3>1 DEF TeacherAdd
  <2>3. CASE TeacherRemove(w)
    BY <1>3, <1>10, <2>3 DEF TeacherRemove
  <2> QED BY <1>10, <2>1, <2>2, <2>3 DEF TeacherWrite
<1>11. ASSUME NEW w \in Workers, Join(w), Answer(w), Remember(Joins(w))
      PROVE  TeachersAreAppointed'
  <2>1. <<job[w].group, job[w].target>> \in Joins(w)
    BY <1>11 DEF Join, Joins, At, IInv, Justified
  <2> QED BY <1>2, <1>4, <1>11, <2>1 DEF Join, tables
<1> QED BY <1>5, <1>6, <1>7, <1>8, <1>9, <1>10, <1>11 DEF Next

-----------------------------------------------------------------------------
(* The theorems                                                            *)

\* The first state.
LEMMA Start ==
  ASSUME Init
  PROVE  IInv
<1>1. PICK f \in Foundings : /\ EnsureRoleGroups(f, [g \in GroupIds |-> Null], {})
                             /\ name = Named(f, [g \in GroupIds |-> Null])
                             /\ issued = NewGroups(f)
  BY DEF Init
<1>2. name \in [GroupIds -> Names \cup {Null}] /\ issued \subseteq GroupIds
  BY <1>1, NamedType
<1>3. TypeOK
  BY <1>2 DEF Init, TypeOK, Idle, Jobs, Labels, Nothing, Pasts
<1>4. \A w \in Workers : Justified(w)
  BY DEF Init, Idle, Justified, At
<1>5. TeachersAreAppointed
  BY GroupsConstants DEF Init, TeachersAreAppointed
<1> QED BY <1>3, <1>4, <1>5 DEF IInv

\* The invariant holds throughout.
LEMMA Invariance == Spec => []IInv
<1>1. Init => IInv
  BY Start
<1>2. IInv /\ [Next]_vars => IInv'
  BY TypeStep, JustifiedStep, AppointedStep DEF IInv
<1> QED BY <1>1, <1>2, PTL DEF Spec

\* Every variable of Groups keeps its type; member roles are stored in
\* capitals (services/groups.go:108).
THEOREM TypeCorrect == Spec => []TypeOK
<1>1. IInv => TypeOK
  BY DEF IInv
<1> QED BY <1>1, Invariance, PTL

\* Nobody becomes a teacher of a group through a teacher, for any number of
\* groups, users and requests (http/groups.go:181).
THEOREM TeachersAreAppointedAlways == Spec => []TeachersAreAppointed
<1>1. IInv => TeachersAreAppointed
  BY DEF IInv
<1> QED BY <1>1, Invariance, PTL

\* A request acts only on groups its caller had a claim to while it ran, and
\* removes only whom the group has had for a student while it ran.
THEOREM ActsAreJustifiedAlways == Spec => []ActsAreJustified
<1>1. IInv => ActsAreJustified
  BY DEF IInv, Justified, ActsAreJustified, At
<1> QED BY <1>1, Invariance, PTL
=============================================================================
