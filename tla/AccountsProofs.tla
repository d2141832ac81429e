--------------------------- MODULE AccountsProofs ---------------------------
(***************************************************************************)
(* Theorems about Accounts, for every set of users, addresses, roles and   *)
(* goroutines and every number of crashes.                                 *)
(***************************************************************************)
EXTENDS Accounts, FiniteSetTheorems, TLAPS

-----------------------------------------------------------------------------
(* The parts of the inductive invariant                                    *)

\* A request that works on a user holds a UUID that was drawn, one that does
\* not has nothing to revoke, and a role just granted is one of those to grant.
RequestsHoldUsers ==
  \A w \in Workers :
    /\ pc[w] \in {"userExists", "readRoles", "grant", "join", "revoke"} => id[w] \in issued
    /\ pc[w] \in {"idle", "emailFree", "insertUser"} => id[w] = Null /\ cut[w] = {}
    /\ pc[w] = "join" => now[w] \in todo[w]

\* The rows of a user go with the user: DELETE CASCADE.
NothingWithoutUser ==
  /\ \A i \in Ids : email[i] = Null => held[i] = {}
  /\ \A i \in Ids : email[i] # Null => i \in issued

Typed == TypeOK /\ RequestsHoldUsers /\ NothingWithoutUser

\* What a request has still to do is what it asked for.
PlansAreAsked ==
  \A w \in Workers : id[w] # Null /\ email[id[w]] # Null =>
    /\ pc[w] \in {"userExists", "readRoles"} => Roles \ todo[w] \subseteq unwanted[id[w]]
    /\ pc[w] \in {"userExists", "readRoles", "grant", "join"} => todo[w] \subseteq wanted[id[w]]
    /\ pc[w] \in {"grant", "join", "revoke"} => cut[w] \subseteq unwanted[id[w]]

\* A request that will grant role r to user i, and one that will revoke it.
WillGrant(w, i, r) ==
  /\ id[w] = i
  /\ r \in todo[w]
  /\ \/ pc[w] \in {"userExists", "readRoles", "grant"}
     \/ pc[w] = "join" /\ now[w] # r

WillRevoke(w, i, r) ==
  /\ id[w] = i
  /\ \/ pc[w] \in {"userExists", "readRoles"} /\ r \notin todo[w]
     \/ pc[w] \in {"grant", "join", "revoke"} /\ r \in cut[w]

\* A role the overlapping requests agree on is there, or one of them brings it,
\* or an error has passed it over; a role they agree to remove is gone, or one of
\* them removes it, or an error has passed it over.
AgreementIsUnderWay ==
  \A i \in Ids, r \in Roles : email[i] # Null =>
    /\ r \in wanted[i] \ unwanted[i] =>
         r \in held[i] \cup missed[i] \/ \E w \in Workers : WillGrant(w, i, r)
    /\ r \in (unwanted[i] \ wanted[i]) \cap held[i] =>
         r \in missed[i] \/ \E w \in Workers : WillRevoke(w, i, r)

-----------------------------------------------------------------------------
(* Types                                                                   *)

LEMMA TypedInit == Init => Typed
  BY AccountsConstants
  DEF Init, Typed, TypeOK, RequestsHoldUsers, NothingWithoutUser, Labels

\* The loops over roles go on, or the request is answered: either way nobody else
\* is affected, and the request keeps its user as long as it runs.
LEMMA ContinueTyped ==
  ASSUME Typed, NEW w \in Workers, id[w] \in issued, issued' = issued,
         NEW granting \in SUBSET Roles, NEW revoking \in SUBSET Roles,
         Continue(w, granting, revoking)
  PROVE  /\ pc' \in [Workers -> Labels]
         /\ id' \in [Workers -> Ids \cup {Null}]
         /\ mail' \in [Workers -> Emails \cup {Null}]
         /\ todo' \in [Workers -> SUBSET Roles]
         /\ cut' \in [Workers -> SUBSET Roles]
         /\ now' \in [Workers -> Roles \cup {Null}]
         /\ RequestsHoldUsers'
BY AccountsConstants
DEF Typed, TypeOK, RequestsHoldUsers, Labels, Continue, NextRole, Answer, Goto

LEMMA TypedStep == Typed /\ [Next]_vars => Typed'
<1> SUFFICES ASSUME Typed, [Next]_vars PROVE Typed'
  OBVIOUS
<1> USE AccountsConstants
    DEF Typed, TypeOK, RequestsHoldUsers, NothingWithoutUser, Labels, tables, locals, history, At,
        Goto
<1>1. ASSUME NEW w \in Workers, NEW e \in Emails, NEW codes \in SUBSET Codes, StartCreate(w, e, codes)
      PROVE  Typed'
  BY <1>1 DEF StartCreate, Requested
<1>2. ASSUME NEW w \in Workers, NEW i \in Ids, NEW codes \in SUBSET Codes, StartUpdate(w, i, codes)
      PROVE  Typed'
  BY <1>2 DEF StartUpdate, Requested, Overlap
<1>3. ASSUME NEW w \in Workers, NEW i \in Ids, NEW r \in Roles, StartAssign(w, i, r)
      PROVE  Typed'
  BY <1>3 DEF StartAssign, Overlap
<1>4. ASSUME NEW w \in Workers, NEW i \in Ids, NEW r \in Roles, StartRemove(w, i, r)
      PROVE  Typed'
  BY <1>4 DEF StartRemove, Overlap
<1>5. ASSUME NEW w \in Workers, CheckEmail(w)
      PROVE  Typed'
  BY <1>5 DEF CheckEmail, Answer
<1>6. ASSUME NEW w \in Workers, NEW i \in Ids, InsertUser(w, i)
      PROVE  Typed'
  <2>1. NothingWithoutUser'
    BY <1>6 DEF InsertUser
  <2>2. CASE /\ Goto(w, "grant")
             /\ id' = [id EXCEPT ![w] = i]
             /\ wanted' = [wanted EXCEPT ![i] = todo[w]]
             /\ UNCHANGED <<mail, todo, cut, now>>
    <3>1. TypeOK'
      BY <1>6, <2>2 DEF InsertUser
    <3>2. RequestsHoldUsers'
      BY <1>6, <2>2 DEF InsertUser
    <3> QED
      BY <3>1, <3>2, <2>1
  <2>3. CASE Answer(w) /\ wanted' = [wanted EXCEPT ![i] = {}]
    <3>1. TypeOK'
      BY <1>6, <2>3 DEF InsertUser, Answer
    <3>2. RequestsHoldUsers'
      BY <1>6, <2>3 DEF InsertUser, Answer
    <3> QED
      BY <3>1, <3>2, <2>1
  <2> QED
    BY <1>6, <2>2, <2>3 DEF InsertUser
<1>7. ASSUME NEW w \in Workers, FailInsert(w)
      PROVE  Typed'
  BY <1>7 DEF FailInsert, Answer
<1>8. ASSUME NEW w \in Workers, FindUser(w)
      PROVE  Typed'
  BY <1>8 DEF FindUser, PassOver, Answer
<1>9. ASSUME NEW w \in Workers, ReadRoles(w)
      PROVE  Typed'
  BY <1>9 DEF ReadRoles, PassOver, Continue, NextRole, Answer
<1>10. ASSUME NEW w \in Workers, NEW r \in Roles, Grant(w, r)
       PROVE  Typed'
  BY <1>10 DEF Grant, InsertRole, PassOver, MakeGood, Continue, NextRole, Answer
<1>11. ASSUME NEW w \in Workers, Join(w)
       PROVE  Typed'
  <2>1. /\ pc[w] = "join" /\ UNCHANGED <<email, issued, held, roleGroups, crashes, wanted, unwanted, missed>>
        /\ Continue(w, todo[w] \ {now[w]}, cut[w])
        /\ excused' \subseteq Ids \X Roles
    BY <1>11 DEF Join, Excuse
  <2>2. id[w] \in issued
    BY <2>1
  <2>3. member' \in [Ids -> SUBSET Roles]
    BY <1>11 DEF Join
  <2> HIDE DEF Goto, At, RequestsHoldUsers, NothingWithoutUser
  <2> QED
    BY <2>1, <2>2, <2>3, ContinueTyped DEF NothingWithoutUser
<1>12. ASSUME NEW w \in Workers, NEW r \in Roles, Revoke(w, r)
       PROVE  Typed'
  <2>1. /\ pc[w] = "revoke" /\ UNCHANGED <<email, issued, member, roleGroups, crashes, wanted, unwanted>>
        /\ Continue(w, {}, cut[w] \ {r})
        /\ excused' \subseteq Ids \X Roles
    BY <1>12 DEF Revoke, Excuse
  <2>2. id[w] \in issued
    BY <2>1
  <2>3. held' \in [Ids -> SUBSET Roles] /\ missed' \in [Ids -> SUBSET Roles] /\ NothingWithoutUser'
    BY <1>12, <2>2 DEF Revoke, PassOver, MakeGood
  <2> HIDE DEF Goto, At, RequestsHoldUsers, NothingWithoutUser
  <2> QED
    BY <2>1, <2>2, <2>3, ContinueTyped
<1>13. ASSUME NEW i \in Ids, DeleteUser(i)
       PROVE  Typed'
  BY <1>13 DEF DeleteUser, Excuse
<1>14. ASSUME NEW i \in Ids, NEW r \in Roles, LeaveRoleGroup(i, r)
       PROVE  Typed'
  BY <1>14 DEF LeaveRoleGroup, Excuse
<1>15. ASSUME NEW r \in Roles, LoseRoleGroup(r)
       PROVE  Typed'
  BY <1>15 DEF LoseRoleGroup, Excuse
<1>16. CASE Crash
  BY <1>16 DEF Crash, Excuse
<1>17. CASE UNCHANGED vars
  BY <1>17 DEF vars
<1> QED
  BY <1>1, <1>2, <1>3, <1>4, <1>5, <1>6, <1>7, <1>8, <1>9, <1>10, <1>11, <1>12, <1>13, <1>14, <1>15, <1>16, <1>17
     DEF Next, Start, Step

\* Every variable keeps its type; in particular no user is ever given a role
\* that is not a row of roles.
THEOREM TypeCorrect == Spec => []TypeOK
<1>1. Typed => TypeOK
  BY DEF Typed
<1> QED
  BY <1>1, TypedInit, TypedStep, PTL DEF Spec

-----------------------------------------------------------------------------
(* One account per address                                                 *)

LEMMA OneAccountStep == Typed /\ OneAccountPerEmail /\ [Next]_vars => OneAccountPerEmail'
<1> SUFFICES ASSUME Typed, OneAccountPerEmail, [Next]_vars PROVE OneAccountPerEmail'
  OBVIOUS
<1> USE AccountsConstants DEF Typed, TypeOK, tables, OneAccountPerEmail
<1>1. ASSUME NEW w \in Workers, NEW i \in Ids, InsertUser(w, i)
      PROVE  OneAccountPerEmail'
  BY <1>1 DEF InsertUser
<1>2. ASSUME NEW i \in Ids, DeleteUser(i)
      PROVE  OneAccountPerEmail'
  BY <1>2 DEF DeleteUser
<1>3. CASE UNCHANGED email
  BY <1>3
<1>4. CASE \/ \E w \in Workers : Start(w)
           \/ \E w \in Workers : CheckEmail(w) \/ FailInsert(w) \/ FindUser(w)
                                   \/ ReadRoles(w) \/ Join(w)
           \/ \E w \in Workers, r \in Roles : Grant(w, r) \/ Revoke(w, r)
           \/ \E i \in Ids, r \in Roles : LeaveRoleGroup(i, r)
           \/ \E r \in Roles : LoseRoleGroup(r)
           \/ Crash
           \/ UNCHANGED vars
  BY <1>3, <1>4
     DEF Start, StartCreate, StartUpdate, StartAssign, StartRemove, CheckEmail, FailInsert,
         FindUser, ReadRoles, Join, Grant, Revoke, LeaveRoleGroup, LoseRoleGroup, Crash, vars
<1> QED
  BY <1>1, <1>2, <1>4 DEF Next, Step

\* However many requests register an address at the same time, it gets one
\* account.
THEOREM OneAccountPerEmailAlways == Spec => []OneAccountPerEmail
<1>1. Init => OneAccountPerEmail
  BY DEF Init, OneAccountPerEmail
<1> QED
  BY <1>1, TypedInit, TypedStep, OneAccountStep, PTL DEF Spec

-----------------------------------------------------------------------------
(* Who holds a role is in its group                                        *)

\* EnsureMembership takes nobody out of a group.
LEMMA JoinAdds ==
  ASSUME TypeOK, NEW w \in Workers, Join(w)
  PROVE  \A i \in Ids : member[i] \subseteq member'[i]
<1>1. CASE UNCHANGED member
  BY <1>1
<1>2. CASE member' = [member EXCEPT ![id[w]] = @ \cup {now[w]}]
  BY <1>2 DEF TypeOK
<1> QED BY <1>1, <1>2 DEF Join

LEMMA HoldersStep == Typed /\ HoldersAreMembers /\ [Next]_vars => HoldersAreMembers'
<1> SUFFICES ASSUME Typed, HoldersAreMembers, [Next]_vars PROVE HoldersAreMembers'
  OBVIOUS
<1>0. Typed'
  BY TypedStep
<1> USE <1>0, AccountsConstants
    DEF Typed, TypeOK, RequestsHoldUsers, NothingWithoutUser, Labels, tables, locals, history, At,
        Goto, HoldersAreMembers
<1>1. ASSUME NEW w \in Workers, NEW e \in Emails, NEW codes \in SUBSET Codes, StartCreate(w, e, codes)
      PROVE  HoldersAreMembers'
  BY <1>1 DEF StartCreate, Requested
<1>2. ASSUME NEW w \in Workers, NEW i \in Ids, NEW codes \in SUBSET Codes, StartUpdate(w, i, codes)
      PROVE  HoldersAreMembers'
  BY <1>2 DEF StartUpdate, Requested, Overlap
<1>3. ASSUME NEW w \in Workers, NEW i \in Ids, NEW r \in Roles, StartAssign(w, i, r)
      PROVE  HoldersAreMembers'
  BY <1>3 DEF StartAssign, Overlap
<1>4. ASSUME NEW w \in Workers, NEW i \in Ids, NEW r \in Roles, StartRemove(w, i, r)
      PROVE  HoldersAreMembers'
  BY <1>4 DEF StartRemove, Overlap
<1>5. ASSUME NEW w \in Workers, CheckEmail(w)
      PROVE  HoldersAreMembers'
  BY <1>5 DEF CheckEmail, Answer
<1>6. ASSUME NEW w \in Workers, NEW i \in Ids, InsertUser(w, i)
      PROVE  HoldersAreMembers'
  BY <1>6 DEF InsertUser, Answer
<1>7. ASSUME NEW w \in Workers, FailInsert(w)
      PROVE  HoldersAreMembers'
  BY <1>7 DEF FailInsert, Answer
<1>8. ASSUME NEW w \in Workers, FindUser(w)
      PROVE  HoldersAreMembers'
  BY <1>8 DEF FindUser, PassOver, Answer
<1>9. ASSUME NEW w \in Workers, ReadRoles(w)
      PROVE  HoldersAreMembers'
  BY <1>9 DEF ReadRoles, PassOver, Continue, NextRole, Answer
<1>10. ASSUME NEW w \in Workers, NEW r \in Roles, Grant(w, r)
       PROVE  HoldersAreMembers'
  BY <1>10 DEF Grant, InsertRole, PassOver, MakeGood, Continue, NextRole, Answer
<1>11. ASSUME NEW w \in Workers, Join(w)
       PROVE  HoldersAreMembers'
  <2>0. \A i \in Ids : member[i] \subseteq member'[i]
    BY <1>11, JoinAdds
  <2>1. held' = held /\ id[w] \in Ids /\ now[w] \in Roles
    BY <1>11 DEF Join
  <2>2. \A v \in Workers \ {w} : pc'[v] = pc[v] /\ id'[v] = id[v] /\ now'[v] = now[v]
    BY <1>11 DEF Join, Continue, Answer
  <2>3. ASSUME NEW i \in Ids, NEW r \in held[i], <<i, r>> \notin excused', r \notin member'[i]
        PROVE  \E v \in Workers : pc'[v] = "join" /\ id'[v] = i /\ now'[v] = r
    <3>1. CASE i = id[w] /\ r = now[w]
      BY <1>11, <2>1, <2>3, <3>1 DEF Join, Excuse
    <3>2. CASE ~(i = id[w] /\ r = now[w])
      <4>1. <<i, r>> # <<id[w], now[w]>>
        BY <3>2
      <4>2. <<i, r>> \notin excused
        BY <1>11, <2>3, <4>1 DEF Join, Excuse
      <4>3. r \notin member[i]
        BY <2>0, <2>3
      <4> QED BY <2>2, <2>3, <3>2, <4>2, <4>3
    <3> QED BY <3>1, <3>2
  <2> QED BY <2>1, <2>3
<1>12. ASSUME NEW w \in Workers, NEW r \in Roles, Revoke(w, r)
       PROVE  HoldersAreMembers'
  BY <1>12 DEF Revoke, PassOver, MakeGood, Excuse, Continue, NextRole, Answer
<1>13. ASSUME NEW i \in Ids, DeleteUser(i)
       PROVE  HoldersAreMembers'
  BY <1>13 DEF DeleteUser, Excuse
<1>14. ASSUME NEW i \in Ids, NEW r \in Roles, LeaveRoleGroup(i, r)
       PROVE  HoldersAreMembers'
  BY <1>14 DEF LeaveRoleGroup, Excuse
<1>15. ASSUME NEW r \in Roles, LoseRoleGroup(r)
       PROVE  HoldersAreMembers'
  BY <1>15 DEF LoseRoleGroup, Excuse
<1>16. CASE Crash
  BY <1>16 DEF Crash, Excuse
<1>17. CASE UNCHANGED vars
  BY <1>17 DEF vars
<1> QED
  BY <1>1, <1>2, <1>3, <1>4, <1>5, <1>6, <1>7, <1>8, <1>9, <1>10, <1>11, <1>12, <1>13, <1>14, <1>15, <1>16, <1>17
     DEF Next, Start, Step

\* A role that is held comes with the membership of its group, but for the
\* losses that HoldersAreMembers names.
THEOREM HoldersAreMembersAlways == Spec => []HoldersAreMembers
<1>1. Init => HoldersAreMembers
  BY DEF Init, HoldersAreMembers
<1> QED
  BY <1>1, TypedInit, TypedStep, HoldersStep, PTL DEF Spec

-----------------------------------------------------------------------------
(* Agreement                                                               *)

AInv == Typed /\ PlansAreAsked /\ AgreementIsUnderWay

LEMMA AInvStep == AInv /\ [Next]_vars => AInv'
<1> SUFFICES ASSUME AInv, [Next]_vars PROVE AInv'
  OBVIOUS
<1>0. Typed'
  BY TypedStep DEF AInv
<1> USE <1>0, AccountsConstants
    DEF AInv, Typed, TypeOK, RequestsHoldUsers, NothingWithoutUser, Labels, tables, locals, history,
        At, Goto, Busy
<1>1. ASSUME NEW w \in Workers, NEW e \in Emails, NEW codes \in SUBSET Codes, StartCreate(w, e, codes)
      PROVE  AInv'
  <2>1. PlansAreAsked'
    BY <1>1 DEF StartCreate, Requested, PlansAreAsked
  <2>2. AgreementIsUnderWay'
    BY <1>1 DEF StartCreate, Requested, PlansAreAsked, AgreementIsUnderWay, WillGrant, WillRevoke
  <2> QED
    BY <2>1, <2>2
<1>2. ASSUME NEW w \in Workers, NEW i \in Ids, NEW codes \in SUBSET Codes, StartUpdate(w, i, codes)
      PROVE  AInv'
  <2>1. PlansAreAsked'
    BY <1>2 DEF StartUpdate, Requested, Overlap, PlansAreAsked
  <2>2. AgreementIsUnderWay'
    BY <1>2 DEF StartUpdate, Requested, Overlap, PlansAreAsked, AgreementIsUnderWay, WillGrant, WillRevoke
  <2> QED
    BY <2>1, <2>2
<1>3. ASSUME NEW w \in Workers, NEW i \in Ids, NEW r \in Roles, StartAssign(w, i, r)
      PROVE  AInv'
  <2>1. PlansAreAsked'
    BY <1>3 DEF StartAssign, Overlap, PlansAreAsked
  <2>2. AgreementIsUnderWay'
    BY <1>3 DEF StartAssign, Overlap, PlansAreAsked, AgreementIsUnderWay, WillGrant, WillRevoke
  <2> QED
    BY <2>1, <2>2
<1>4. ASSUME NEW w \in Workers, NEW i \in Ids, NEW r \in Roles, StartRemove(w, i, r)
      PROVE  AInv'
  <2>1. PlansAreAsked'
    BY <1>4 DEF StartRemove, Overlap, PlansAreAsked
  <2>2. AgreementIsUnderWay'
    <3>1. /\ \A v \in Workers, j \in Ids, q \in Roles : WillGrant(v, j, q) => WillGrant(v, j, q)'
          /\ \A v \in Workers, j \in Ids, q \in Roles : WillRevoke(v, j, q) => WillRevoke(v, j, q)'
          /\ WillRevoke(w, i, r)'
      BY <1>4 DEF StartRemove, WillGrant, WillRevoke
    <3>2. UNCHANGED <<email, held>>
      BY <1>4 DEF StartRemove
    <3>3. \A j \in Ids : j # i \/ email[j] = Null =>
            wanted'[j] = wanted[j] /\ unwanted'[j] = unwanted[j] /\ missed'[j] = missed[j]
      BY <1>4 DEF StartRemove, Overlap
    <3>4. email[i] # Null =>
            \/ wanted'[i] = wanted[i] /\ unwanted'[i] = unwanted[i] \cup {r} /\ missed'[i] = missed[i]
            \/ wanted'[i] = {} /\ unwanted'[i] = {r}
      BY <1>4 DEF StartRemove, Overlap
    <3> HIDE DEF Typed, TypeOK, RequestsHoldUsers, NothingWithoutUser, Busy
    <3> QED
      BY <3>1, <3>2, <3>3, <3>4 DEF AgreementIsUnderWay
  <2> QED
    BY <2>1, <2>2
<1>5. ASSUME NEW w \in Workers, CheckEmail(w)
      PROVE  AInv'
  <2>1. PlansAreAsked'
    BY <1>5 DEF CheckEmail, Answer, PlansAreAsked
  <2>2. AgreementIsUnderWay'
    BY <1>5 DEF CheckEmail, Answer, PlansAreAsked, AgreementIsUnderWay, WillGrant, WillRevoke
  <2> QED
    BY <2>1, <2>2
<1>6. ASSUME NEW w \in Workers, NEW i \in Ids, InsertUser(w, i)
      PROVE  AInv'
  <2>1. PlansAreAsked'
    <3>1. \A v \in Workers : id[v] # Null => id[v] # i
      BY <1>6 DEF InsertUser
    <3>2. \/ /\ pc'[w] = "grant" /\ id'[w] = i /\ todo'[w] = todo[w] /\ cut'[w] = {}
             /\ wanted'[i] = todo[w]
          \/ pc'[w] = "idle" /\ id'[w] = Null
      BY <1>6 DEF InsertUser, Answer
    <3>3. /\ \A v \in Workers : v # w =>
               pc'[v] = pc[v] /\ id'[v] = id[v] /\ todo'[v] = todo[v] /\ cut'[v] = cut[v]
          /\ \A j \in Ids : j # i =>
               email'[j] = email[j] /\ wanted'[j] = wanted[j] /\ unwanted'[j] = unwanted[j]
      BY <1>6 DEF InsertUser, Answer
    <3> QED
      BY <3>1, <3>2, <3>3 DEF PlansAreAsked
  <2>2. AgreementIsUnderWay'
    <3> SUFFICES ASSUME NEW j \in Ids, NEW r \in Roles, email'[j] # Null
                 PROVE  /\ r \in wanted'[j] \ unwanted'[j] =>
                             r \in held'[j] \cup missed'[j] \/ \E v \in Workers : WillGrant(v, j, r)'
                        /\ r \in (unwanted'[j] \ wanted'[j]) \cap held'[j] =>
                             r \in missed'[j] \/ \E v \in Workers : WillRevoke(v, j, r)'
      BY DEF AgreementIsUnderWay
    <3>1. CASE j = i
      <4>1. held'[i] = {}
        BY <1>6 DEF InsertUser
      <4>2. \/ wanted'[i] = {}
            \/ wanted'[i] = todo[w] /\ id'[w] = i /\ pc'[w] = "grant" /\ todo'[w] = todo[w]
        BY <1>6 DEF InsertUser
      <4> QED
        BY <3>1, <4>1, <4>2 DEF WillGrant
    <3>2. CASE j # i
      <4>1. /\ email'[j] = email[j]
            /\ held'[j] = held[j] /\ unwanted'[j] = unwanted[j] /\ wanted'[j] = wanted[j]
            /\ missed'[j] = missed[j]
        BY <1>6, <3>2 DEF InsertUser
      <4>2. \A v \in Workers : /\ WillGrant(v, j, r) => WillGrant(v, j, r)'
                               /\ WillRevoke(v, j, r) => WillRevoke(v, j, r)'
        <5> TAKE v \in Workers
        <5>1. v # w => pc'[v] = pc[v] /\ id'[v] = id[v] /\ todo'[v] = todo[v]
                         /\ cut'[v] = cut[v] /\ now'[v] = now[v]
          BY <1>6 DEF InsertUser, Answer
        <5>2. id[w] # j
          BY <1>6 DEF InsertUser
        <5> QED
          BY <5>1, <5>2 DEF WillGrant, WillRevoke
      <4>3. /\ r \in wanted[j] \ unwanted[j] =>
                 r \in held[j] \cup missed[j] \/ \E v \in Workers : WillGrant(v, j, r)
            /\ r \in (unwanted[j] \ wanted[j]) \cap held[j] =>
                 r \in missed[j] \/ \E v \in Workers : WillRevoke(v, j, r)
        BY <4>1 DEF AgreementIsUnderWay
      <4> HIDE DEF AInv, Typed, TypeOK
      <4> QED
        BY <4>1, <4>2, <4>3
    <3> QED
      BY <3>1, <3>2
  <2> QED
    BY <2>1, <2>2
<1>7. ASSUME NEW w \in Workers, FailInsert(w)
      PROVE  AInv'
  <2>1. PlansAreAsked'
    BY <1>7 DEF FailInsert, Answer, PlansAreAsked
  <2>2. AgreementIsUnderWay'
    BY <1>7 DEF FailInsert, Answer, PlansAreAsked, AgreementIsUnderWay, WillGrant, WillRevoke
  <2> QED
    BY <2>1, <2>2
<1>8. ASSUME NEW w \in Workers, FindUser(w)
      PROVE  AInv'
  <2>1. PlansAreAsked'
    BY <1>8 DEF FindUser, PassOver, Answer, PlansAreAsked
  <2>2. AgreementIsUnderWay'
    BY <1>8 DEF FindUser, PassOver, Answer, PlansAreAsked, AgreementIsUnderWay, WillGrant, WillRevoke
  <2> QED
    BY <2>1, <2>2
<1>9. ASSUME NEW w \in Workers, ReadRoles(w)
      PROVE  AInv'
  <2>1. PlansAreAsked'
    BY <1>9 DEF ReadRoles, PassOver, Continue, NextRole, Answer, PlansAreAsked
  <2>2. AgreementIsUnderWay'
    BY <1>9 DEF ReadRoles, PassOver, Continue, NextRole, Answer, PlansAreAsked, AgreementIsUnderWay, WillGrant, WillRevoke
  <2> QED
    BY <2>1, <2>2
<1>10. ASSUME NEW w \in Workers, NEW r \in Roles, Grant(w, r)
       PROVE  AInv'
  <2>1. PlansAreAsked'
    BY <1>10 DEF Grant, InsertRole, PassOver, MakeGood, Continue, NextRole, Answer, PlansAreAsked
  <2>2. AgreementIsUnderWay'
    BY <1>10 DEF Grant, InsertRole, PassOver, MakeGood, Continue, NextRole, Answer, PlansAreAsked, AgreementIsUnderWay, WillGrant, WillRevoke
  <2> QED
    BY <2>1, <2>2
<1>11. ASSUME NEW w \in Workers, Join(w)
       PROVE  AInv'
  <2>1. PlansAreAsked'
    BY <1>11 DEF Join, Excuse, Continue, NextRole, Answer, PlansAreAsked
  <2>2. AgreementIsUnderWay'
    <3>1. /\ \A v \in Workers, i \in Ids, q \in Roles : WillGrant(v, i, q) => WillGrant(v, i, q)'
          /\ \A v \in Workers, i \in Ids, q \in Roles : WillRevoke(v, i, q) => WillRevoke(v, i, q)'
      BY <1>11 DEF Join, Continue, NextRole, Answer, WillGrant, WillRevoke
    <3>2. UNCHANGED <<email, held, wanted, unwanted, missed>>
      BY <1>11 DEF Join
    <3> HIDE DEF Typed, TypeOK, RequestsHoldUsers, NothingWithoutUser, Busy
    <3> QED
      BY <3>1, <3>2 DEF AgreementIsUnderWay
  <2> QED
    BY <2>1, <2>2
<1>12. ASSUME NEW w \in Workers, NEW r \in Roles, Revoke(w, r)
       PROVE  AInv'
  <2>1. PlansAreAsked'
    BY <1>12 DEF Revoke, PassOver, MakeGood, Excuse, Continue, NextRole, Answer, PlansAreAsked
  <2>2. AgreementIsUnderWay'
    <3>1. r \in unwanted[id[w]] \/ email[id[w]] = Null
      BY <1>12 DEF Revoke, PlansAreAsked
    <3>2. /\ \A v \in Workers, i \in Ids, q \in Roles : WillGrant(v, i, q) => WillGrant(v, i, q)'
          /\ \A v \in Workers, i \in Ids, q \in Roles :
               WillRevoke(v, i, q) => WillRevoke(v, i, q)' \/ (v = w /\ i = id[w] /\ q = r)
      BY <1>12 DEF Revoke, Continue, NextRole, Answer, WillGrant, WillRevoke
    <3>3. /\ UNCHANGED <<email, wanted, unwanted>>
          /\ \A i \in Ids, q \in Roles : ~(i = id[w] /\ q = r) =>
               (q \in held'[i] <=> q \in held[i]) /\ (q \in missed'[i] <=> q \in missed[i])
      BY <1>12 DEF Revoke, PassOver, MakeGood
    <3>4. email[id[w]] # Null => r \notin held'[id[w]] \/ r \in missed'[id[w]]
      BY <1>12 DEF Revoke, PassOver
    <3> HIDE DEF Typed, TypeOK, RequestsHoldUsers, NothingWithoutUser, Busy
    <3> QED
      BY <3>1, <3>2, <3>3, <3>4 DEF AgreementIsUnderWay
  <2> QED
    BY <2>1, <2>2
<1>13. ASSUME NEW i \in Ids, DeleteUser(i)
       PROVE  AInv'
  <2>1. PlansAreAsked'
    BY <1>13 DEF DeleteUser, Excuse, PlansAreAsked
  <2>2. AgreementIsUnderWay'
    BY <1>13 DEF DeleteUser, Excuse, PlansAreAsked, AgreementIsUnderWay, WillGrant, WillRevoke
  <2> QED
    BY <2>1, <2>2
<1>14. ASSUME NEW i \in Ids, NEW r \in Roles, LeaveRoleGroup(i, r)
       PROVE  AInv'
  <2>1. PlansAreAsked'
    BY <1>14 DEF LeaveRoleGroup, Excuse, PlansAreAsked
  <2>2. AgreementIsUnderWay'
    BY <1>14 DEF LeaveRoleGroup, Excuse, PlansAreAsked, AgreementIsUnderWay, WillGrant, WillRevoke
  <2> QED
    BY <2>1, <2>2
<1>15. ASSUME NEW r \in Roles, LoseRoleGroup(r)
       PROVE  AInv'
  <2>1. PlansAreAsked'
    BY <1>15 DEF LoseRoleGroup, Excuse, PlansAreAsked
  <2>2. AgreementIsUnderWay'
    BY <1>15 DEF LoseRoleGroup, Excuse, PlansAreAsked, AgreementIsUnderWay, WillGrant, WillRevoke
  <2> QED
    BY <2>1, <2>2
<1>16. CASE Crash
  <2>1. PlansAreAsked'
    BY <1>16 DEF Crash, Excuse, PlansAreAsked
  <2>2. AgreementIsUnderWay'
    BY <1>16 DEF Crash, Excuse, PlansAreAsked, AgreementIsUnderWay, WillGrant, WillRevoke
  <2> QED
    BY <2>1, <2>2
<1>17. CASE UNCHANGED vars
  BY <1>17 DEF vars, PlansAreAsked, AgreementIsUnderWay, WillGrant, WillRevoke
<1> QED
  BY <1>1, <1>2, <1>3, <1>4, <1>5, <1>6, <1>7, <1>8, <1>9, <1>10, <1>11, <1>12, <1>13, <1>14, <1>15, <1>16, <1>17
     DEF Next, Start, Step

\* When the last of several overlapping requests has answered, what they agree
\* on is done.
THEOREM AgreementWinsAlways == Spec => []AgreementWins
<1>1. Init => AInv
  BY TypedInit DEF Init, AInv, PlansAreAsked, AgreementIsUnderWay
<1>2. AInv => AgreementWins
  BY AccountsConstants
  DEF AInv, Typed, TypeOK, RequestsHoldUsers, AgreementIsUnderWay, WillGrant, WillRevoke,
      AgreementWins, Busy
<1> QED
  BY <1>1, <1>2, AInvStep, PTL DEF Spec

\* A request of UpdateUser that overlaps with no other, or with requests that
\* want the same, leaves the user with the roles it asked for and no others,
\* whatever the user held before, up to the roles that an error passed over: it
\* never costs a role but the one it met.
THEOREM LastWordCounts ==
  Spec => [](\A i \in Ids : email[i] # Null /\ ~Busy(i) /\ unwanted[i] = Roles \ wanted[i]
               => (held[i] \ wanted[i]) \cup (wanted[i] \ held[i]) \subseteq missed[i])
<1>1. TypeOK /\ AgreementWins
      => \A i \in Ids : email[i] # Null /\ ~Busy(i) /\ unwanted[i] = Roles \ wanted[i]
           => (held[i] \ wanted[i]) \cup (wanted[i] \ held[i]) \subseteq missed[i]
  BY DEF TypeOK, AgreementWins
<1> QED BY <1>1, TypeCorrect, AgreementWinsAlways, PTL

-----------------------------------------------------------------------------
(* The end of a request                                                    *)

\* How far a request is from the loops over roles, and how much these have left.
Phase(w) ==
  CASE pc[w] \in {"emailFree", "userExists"} -> 3
    [] pc[w] \in {"insertUser", "readRoles"} -> 2
    [] pc[w] \in {"grant", "join", "revoke"} -> 1
    [] pc[w] = "idle" -> 0

Work(w) ==
  2 * Cardinality(todo[w]) + Cardinality(cut[w]) + (IF pc[w] = "join" THEN 0 ELSE 1)

Progress(w) == Phase(w)' < Phase(w) \/ (Phase(w)' = Phase(w) /\ Work(w)' < Work(w))

LEMMA WorkIsNumber ==
  ASSUME TypeOK, IsFiniteSet(Roles), NEW w \in Workers
  PROVE  /\ IsFiniteSet(todo[w]) /\ Cardinality(todo[w]) \in Nat
         /\ IsFiniteSet(cut[w]) /\ Cardinality(cut[w]) \in Nat
BY FS_Subset, FS_CardinalityType DEF TypeOK

\* The loops go on with less, or the request is answered.
LEMMA ContinueAdvances ==
  ASSUME Typed, IsFiniteSet(Roles), NEW w \in Workers, pc[w] \in {"grant", "join", "revoke"},
         NEW granting \in SUBSET todo[w], NEW revoking \in SUBSET cut[w],
         Continue(w, granting, revoking),
         \/ pc[w] = "join" /\ granting # todo[w]
         \/ pc[w] = "grant" /\ \E r \in todo[w] : granting = todo[w] \ {r}
         \/ pc[w] = "revoke" /\ revoking # cut[w]
  PROVE  Progress(w)
<1>0. TypeOK
  BY DEF Typed
<1>1. Phase(w) = 1
  BY DEF Phase
<1>2. CASE NextRole(w, granting, revoking) = "idle"
  BY <1>0, <1>1, <1>2 DEF Continue, Answer, Goto, Progress, Phase, TypeOK
<1>3. CASE NextRole(w, granting, revoking) # "idle"
  <2>1. /\ pc'[w] \in {"grant", "revoke"}
        /\ todo'[w] = granting /\ cut'[w] = revoking
    BY <1>0, <1>3 DEF Continue, Goto, NextRole, TypeOK
  <2>2. Phase(w)' = 1
    BY <2>1 DEF Phase
  <2>3. /\ Cardinality(granting) \in Nat /\ Cardinality(granting) <= Cardinality(todo[w])
        /\ granting # todo[w] => Cardinality(granting) < Cardinality(todo[w])
        /\ Cardinality(revoking) \in Nat /\ Cardinality(revoking) <= Cardinality(cut[w])
        /\ revoking # cut[w] => Cardinality(revoking) < Cardinality(cut[w])
    BY <1>0, WorkIsNumber, FS_Subset, FS_CardinalityType
  <2>4. Work(w)' = 2 * Cardinality(granting) + Cardinality(revoking) + 1
    BY <2>1 DEF Work
  <2>5. Work(w)' < Work(w)
    BY <1>0, <2>3, <2>4, WorkIsNumber DEF Work
  <2> QED BY <1>1, <2>2, <2>5 DEF Progress
<1> QED BY <1>2, <1>3

LEMMA StepAdvances ==
  ASSUME Typed, IsFiniteSet(Roles), NEW w \in Workers, Step(w)
  PROVE  Progress(w)
<1> USE DEF Typed, At, Goto
<1>1. CASE CheckEmail(w) \/ FindUser(w) \/ FailInsert(w)
  BY <1>1 DEF CheckEmail, FindUser, FailInsert, Answer, Progress, Phase, TypeOK
<1>2. ASSUME NEW i \in Ids, InsertUser(w, i) PROVE Progress(w)
  BY <1>2 DEF InsertUser, Answer, Progress, Phase, TypeOK
<1>3. CASE ReadRoles(w)
  BY <1>3 DEF ReadRoles, PassOver, Continue, NextRole, Answer, Progress, Phase, TypeOK
<1>4. ASSUME NEW r \in Roles, Grant(w, r) PROVE Progress(w)
  <2>1. pc[w] = "grant" /\ r \in todo[w]
    BY <1>4 DEF Grant
  <2>2. CASE Continue(w, todo[w] \ {r}, cut[w])
    <3>1. \E q \in todo[w] : todo[w] \ {r} = todo[w] \ {q}
      BY <2>1
    <3> QED BY <2>1, <2>2, <3>1, ContinueAdvances
  <2>3. CASE Goto(w, "join") /\ UNCHANGED <<todo, cut>>
    <3>1. Phase(w) = 1 /\ Phase(w)' = 1
      BY <2>1, <2>3 DEF Phase, TypeOK
    <3>2. Work(w)' < Work(w)
      BY <2>1, <2>3, WorkIsNumber DEF Work, TypeOK
    <3> QED BY <3>1, <3>2 DEF Progress
  <2> QED BY <1>4, <2>2, <2>3 DEF Grant
<1>5. CASE Join(w)
  <2>1. pc[w] = "join" /\ now[w] \in todo[w] /\ Continue(w, todo[w] \ {now[w]}, cut[w])
    BY <1>5 DEF Join, RequestsHoldUsers
  <2>2. todo[w] \ {now[w]} # todo[w]
    BY <2>1
  <2> QED BY <2>1, <2>2, ContinueAdvances
<1>6. ASSUME NEW r \in Roles, Revoke(w, r) PROVE Progress(w)
  <2>1. pc[w] = "revoke" /\ r \in cut[w] /\ Continue(w, {}, cut[w] \ {r})
    BY <1>6 DEF Revoke
  <2>2. cut[w] \ {r} # cut[w]
    BY <2>1
  <2> QED BY <2>1, <2>2, ContinueAdvances
<1> QED BY <1>1, <1>2, <1>3, <1>4, <1>5, <1>6 DEF Step

\* Every statement of a request brings it nearer to its answer, however other
\* requests, and administrators, change the roles under its two loops meanwhile:
\* what the loops go through is settled when UpdateUser has read the roles
\* (admin_users.go:246-276).
THEOREM RequestsEnd ==
  ASSUME IsFiniteSet(Roles)
  PROVE  Spec => [][\A w \in Workers : Step(w) => Progress(w)]_vars
<1>1. Typed /\ [Next]_vars => [\A w \in Workers : Step(w) => Progress(w)]_vars
  BY StepAdvances
<1> QED BY <1>1, TypedInit, TypedStep, PTL DEF Spec
=============================================================================
