--------------------------- MODULE SessionsProofs ---------------------------
(***************************************************************************)
(* Proofs about Sessions: its types, how old the roles may be that let a   *)
(* request in, for how long a deleted account is let in, that who is       *)
(* barred begins no session, and how passwords are handed on.              *)
(***************************************************************************)
EXTENDS Sessions, TLAPS

(* Types                                                                   *)

LEMMA HasUser ==
  ASSUME TypeOK, NEW w \in Workers
  PROVE  /\ pc[w] # "idle" => req[w].user \in Users
         /\ pc[w] = "setPassword" => req[w].new \in Passwords
<1>1. Asked
  BY DEF TypeOK
<1> QED BY <1>1 DEF Asked

\* The first moment and the last are moments, and so is a count of bars.
LEMMA Numbers ==
  /\ 0 \in Moments /\ 1 \in Moments /\ Moments \subseteq Nat
  /\ 1 .. MaxTime \subseteq Moments
  /\ 0 \in 0 .. MaxBars /\ 0 .. MaxBars \subseteq Nat
BY SessionsConstants DEF Moments

\* What ends a request leaves requests and history with their types.
LEMMA AnswerType ==
  ASSUME TypeOK, NEW w \in Workers, Answer(w)
  PROVE  /\ pc' \in [Workers -> {"idle", "roles", "sign", "build", "inside", "setPassword"}]
         /\ req' \in [Workers -> Requests]
         /\ overtaken' \in [Workers -> BOOLEAN]
         /\ Asked'
<1>1. NoRequest \in Requests
  BY Numbers DEF NoRequest, Requests
<1> QED BY <1>1 DEF TypeOK, Answer, Goto, Set, Asked

\* What goes on with a request leaves the requests with their type.
LEMMA GoOnType ==
  ASSUME TypeOK, NEW w \in Workers, NEW r \in Requests, Set(w, r)
  PROVE  /\ req' \in [Workers -> Requests]
         /\ r.user \in Users /\ (\E l : l # "setPassword" /\ Goto(w, l)) => Asked'
BY DEF TypeOK, Set, Goto, Asked

\* Logins, refreshes and requests that carry a token keep the types.
LEMMA EnterType ==
  ASSUME TypeOK, NEW w \in Workers
  PROVE  /\ \A u \in Users, p \in Passwords : Login(w, u, p) => TypeOK'
         /\ \A p \in tokens : Refresh(w, p) \/ WithAuth(w, p) => TypeOK'
         /\ ReadRoles(w) \/ Sign(w) => TypeOK'
<1> USE DEF Goto, accounts, history
<1>0. NoRequest \in Requests /\ req[w] \in Requests /\ clock \in Moments
  BY Numbers DEF NoRequest, Requests, TypeOK
<1>a. ASSUME NEW r \in Requests, r.user \in Users, Set(w, r),
             NEW l \in {"roles", "sign", "build", "inside"}, Goto(w, l),
             UNCHANGED <<clock, accounts, tokens, history, overtaken>>
      PROVE  TypeOK'
  <2>1. req' \in [Workers -> Requests] /\ Asked'
    BY <1>a, GoOnType DEF TypeOK
  <2> QED BY <1>a, <2>1 DEF TypeOK, Asked
<1>1. ASSUME NEW u \in Users, NEW p \in Passwords, Login(w, u, p)
      PROVE  TypeOK'
  <2>1. [NoRequest EXCEPT !.user = u, !.era = bars[u]] \in Requests
    BY <1>0 DEF Requests, TypeOK
  <2> QED BY <1>a, <1>1, <2>1 DEF Login, NoRequest
<1>2. ASSUME NEW p \in tokens, Refresh(w, p)
      PROVE  TypeOK'
  <2>1. [NoRequest EXCEPT !.user = p.user, !.era = p.era] \in Requests /\ p.user \in Users
    BY <1>0 DEF Requests, TypeOK, Pairs
  <2> QED BY <1>a, <1>2, <2>1 DEF Refresh, NoRequest
<1>3. ASSUME NEW p \in tokens, WithAuth(w, p)
      PROVE  TypeOK'
  <2>1. /\ [NoRequest EXCEPT !.user = p.user, !.roles = p.roles, !.iat = p.iat,
                             !.read = p.read, !.at = clock] \in Requests
        /\ p.user \in Users
    BY <1>0 DEF Requests, TypeOK, Pairs
  <2> QED BY <1>a, <1>3, <2>1 DEF WithAuth, NoRequest
<1>4. CASE ReadRoles(w)
  <2>1. PICK R \in {held[req[w].user], {}} : Set(w, [req[w] EXCEPT !.roles = R, !.read = clock])
    BY <1>4 DEF ReadRoles
  <2>2. req[w].user \in Users
    BY <1>4, HasUser DEF ReadRoles, At
  <2>3. [req[w] EXCEPT !.roles = R, !.read = clock] \in Requests
    BY <1>0, <2>2 DEF Requests, TypeOK
  <2> QED BY <1>a, <1>4, <2>1, <2>2, <2>3, <1>0 DEF ReadRoles, Requests
<1>5. CASE Sign(w)
  <2>1. [req[w] EXCEPT !.iat = clock] \in Requests
    BY <1>0 DEF Requests
  <2>2. req[w].user \in Users
    BY <1>5, HasUser DEF Sign, At
  <2> QED BY <1>a, <1>5, <2>1, <2>2, <1>0 DEF Sign, Requests
<1> QED BY <1>1, <1>2, <1>3, <1>4, <1>5

\* Answers, and the statements of administrators, keep the types.
LEMMA ServeType ==
  ASSUME TypeOK, NEW w \in Workers
  PROVE  /\ BuildUserDTO(w) \/ Leave(w) \/ Abort(w) => TypeOK'
         /\ Administer(w) => TypeOK'
<1> USE DEF accounts, history
<1>1. CASE BuildUserDTO(w)
  <2>1. NewPair(w) \in Pairs
    BY <1>1, HasUser DEF BuildUserDTO, NewPair, Pairs, TypeOK, Requests, At
  <2>2. tokens' \subseteq Pairs
    BY <1>1, <2>1 DEF BuildUserDTO, TypeOK
  <2> QED BY <1>1, <2>2, AnswerType DEF BuildUserDTO, TypeOK, Asked
<1>2. CASE Leave(w) \/ Abort(w)
  BY <1>2, AnswerType DEF Leave, Abort, TypeOK, Asked
<1>3. ASSUME NEW u \in Users, NEW s \in {"ACTIVE", "barred"}, SetStatus(w, u, s)
      PROVE  TypeOK'
  <2>1. bars' \in [Users -> 0 .. MaxBars]
    BY <1>3, SessionsConstants DEF SetStatus, TypeOK
  <2> QED BY <1>3, <2>1 DEF SetStatus, TypeOK, Asked
<1>4. ASSUME NEW u \in Users, NEW r \in Roles, Grant(w, u, r) \/ Revoke(w, u, r)
      PROVE  TypeOK'
  <2>1. clock \in Moments
    BY Numbers DEF TypeOK
  <2>2. CASE Grant(w, u, r)
    <3>1. held' \in [Users -> SUBSET Roles] /\ until' \in [Users -> [Roles -> Moments]]
      BY <2>1, <2>2 DEF Grant, TypeOK
    <3> QED BY <2>2, <3>1 DEF Grant, TypeOK, Asked
  <2>3. CASE Revoke(w, u, r)
    BY <2>3 DEF Revoke, TypeOK, Asked
  <2> QED BY <1>4, <2>2, <2>3
<1>5. ASSUME NEW u \in Users, DeleteUser(w, u)
      PROVE  TypeOK'
  BY <1>5, Numbers DEF DeleteUser, TypeOK, Asked
<1> QED BY <1>1, <1>2, <1>3, <1>4, <1>5 DEF Administer

\* Changes of passwords keep the types.
LEMMA PasswordType ==
  ASSUME TypeOK, NEW w \in Workers
  PROVE  /\ \A old, new \in Passwords : CheckPassword(w, old, new) => TypeOK'
         /\ SetPassword(w) => TypeOK'
<1> USE DEF accounts, history
<1>0. NoRequest \in Requests /\ req[w] \in Requests
  BY Numbers DEF NoRequest, Requests, TypeOK
<1>1. ASSUME NEW old \in Passwords, NEW new \in Passwords, CheckPassword(w, old, new)
      PROVE  TypeOK'
  <2>1. [req[w] EXCEPT !.old = old, !.new = new] \in Requests /\ req[w].user \in Users
    BY <1>0, <1>1, HasUser DEF Requests, CheckPassword, At
  <2>2. /\ req' \in [Workers -> Requests]
        /\ Asked'
    BY <1>0, <1>1, <2>1, GoOnType DEF CheckPassword, Requests, Goto, Set, TypeOK, Asked
  <2> QED BY <1>1, <2>2 DEF CheckPassword, Goto, TypeOK, Asked
<1>2. CASE SetPassword(w)
  <2>1. req[w].user \in Users
    BY <1>2, HasUser DEF SetPassword, At
  <2>2. password' \in [Users -> Passwords]
    BY <1>2, <2>1, HasUser, SessionsConstants DEF SetPassword, TypeOK, At
  <2>3. overtaken' \in [Workers -> BOOLEAN]
    BY <1>2, ZenonT(20) DEF SetPassword
  <2>4. /\ req' \in [Workers -> Requests]
        /\ Asked'
    BY <1>0, <1>2 DEF SetPassword, Goto, Set, TypeOK, Asked
  <2> QED BY <1>2, <2>2, <2>3, <2>4 DEF SetPassword, Goto, TypeOK, Asked
<1> QED BY <1>1, <1>2

\* So does the passage of time.
LEMMA TickType ==
  ASSUME TypeOK, Tick
  PROVE  TypeOK'
<1> USE DEF accounts, history
<1>1. clock' \in 1 .. MaxTime /\ clock + 1 \in Moments
  BY SessionsConstants DEF Tick, TypeOK, Moments
<1>2. until' \in [Users -> [Roles -> Moments]]
  BY <1>1 DEF Tick, TypeOK
<1>3. tokens' \subseteq Pairs
  BY DEF Tick, TypeOK
<1> QED BY <1>1, <1>2, <1>3 DEF Tick, TypeOK, Asked

LEMMA InitType == Init => TypeOK
<1>1. NoRequest \in Requests
  BY Numbers DEF NoRequest, Requests
<1> QED BY <1>1, Numbers, SessionsConstants DEF Init, TypeOK, Asked

LEMMA NextType == TypeOK /\ [Next]_vars => TypeOK'
<1> SUFFICES ASSUME TypeOK, [Next]_vars PROVE TypeOK'
  OBVIOUS
<1>1. CASE UNCHANGED vars
  BY <1>1 DEF vars, accounts, history, TypeOK, Asked
<1>2. ASSUME NEW w \in Workers, Step(w) PROVE TypeOK'
  BY <1>2, EnterType, ServeType, PasswordType DEF Step
<1>3. CASE Tick
  BY <1>3, TickType
<1> QED BY <1>1, <1>2, <1>3 DEF Next

\* The states have their types.
THEOREM SessionsType == Spec => []TypeOK
BY InitType, NextType, PTL DEF Spec

-----------------------------------------------------------------------------
(* What tokens and requests carry                                          *)

\* The history of the roles is up to date.
HeldUntilNow ==
  \A u \in Users, r \in Roles : r \in held[u] => until[u][r] = clock

Recent(u, R, t) == 0 < t /\ t <= clock /\ \A r \in R : t <= until[u][r]

PairsAreRecent ==
  \A p \in tokens : Recent(p.user, p.roles, p.read) /\ p.read <= p.iat /\ p.iat <= clock

RequestIsRecent(w) ==
  /\ pc[w] \in {"sign", "build", "inside", "setPassword"}
       => Recent(req[w].user, req[w].roles, req[w].read)
  /\ pc[w] \in {"build", "inside", "setPassword"}
       => req[w].read <= req[w].iat /\ req[w].iat <= clock
  /\ pc[w] \in {"inside", "setPassword"} => req[w].at < req[w].iat + AccessTTL

\* Who is deleted stays deleted, and holds no token signed later.
GoneAreGone ==
  \A u \in Users : gone[u] # 0 =>
    /\ status[u] = Null
    /\ \A p \in tokens : p.user = u => p.iat <= gone[u]
    /\ \A w \in Workers : pc[w] \in {"inside", "setPassword"} /\ req[w].user = u
                           => req[w].iat <= gone[u]

\* A session is no newer than the last time its user was active.
Begun(u, e) == e <= bars[u] /\ (status[u] = "barred" => e < bars[u])

SessionsAreBegun ==
  /\ \A p \in tokens : Begun(p.user, p.era)
  /\ \A w \in Workers : pc[w] \in {"roles", "sign", "build"} => Begun(req[w].user, req[w].era)

\* What a change of password has named is the password, or was overtaken.
NamedOrOvertaken ==
  \A w \in Workers : pc[w] = "setPassword" => req[w].old = password[req[w].user] \/ overtaken[w]

IInv ==
  /\ TypeOK
  /\ HeldUntilNow
  /\ PairsAreRecent
  /\ \A w \in Workers : RequestIsRecent(w)
  /\ GoneAreGone
  /\ SessionsAreBegun
  /\ NamedOrOvertaken

LEMMA InvInit == Init => IInv
<1> SUFFICES ASSUME Init PROVE IInv
  OBVIOUS
<1>1. TypeOK
  BY InitType
<1>2. HeldUntilNow
  BY DEF Init, HeldUntilNow
<1> QED BY <1>1, <1>2 DEF Init, IInv, PairsAreRecent, RequestIsRecent, GoneAreGone,
                          SessionsAreBegun, NamedOrOvertaken

\* A step that changes nothing but the request of one worker.
LEMMA Carry ==
  ASSUME IInv, TypeOK', NEW w \in Workers, NEW r, NEW l, Set(w, r), Goto(w, l),
         UNCHANGED <<clock, accounts, tokens, history, overtaken>>,
         RequestIsRecent(w)',
         l \in {"inside", "setPassword"} /\ gone[r.user] # 0 => r.iat <= gone[r.user],
         l \in {"roles", "sign", "build"} => Begun(r.user, r.era),
         l = "setPassword" => r.old = password[r.user] \/ overtaken[w]
  PROVE  IInv'
<1> USE DEF accounts, history
<1>1. /\ req'[w] = r /\ pc'[w] = l
      /\ \A v \in Workers : v # w => req'[v] = req[v] /\ pc'[v] = pc[v]
  BY DEF IInv, TypeOK, Set, Goto
<1>2. HeldUntilNow' /\ PairsAreRecent'
  BY DEF IInv, HeldUntilNow, PairsAreRecent, Recent
<1>3. ASSUME NEW v \in Workers PROVE RequestIsRecent(v)'
  <2>1. CASE v = w
    BY <2>1
  <2>2. CASE v # w
    BY <1>1, <2>2 DEF IInv, RequestIsRecent, Recent
  <2> QED BY <2>1, <2>2
<1>4. GoneAreGone'
  BY <1>1 DEF IInv, GoneAreGone
<1>5. SessionsAreBegun'
  BY <1>1 DEF IInv, SessionsAreBegun, Begun
<1>6. NamedOrOvertaken'
  BY <1>1 DEF IInv, NamedOrOvertaken
<1> QED BY <1>2, <1>3, <1>4, <1>5, <1>6 DEF IInv

LEMMA InvEnter ==
  ASSUME IInv, TypeOK', NEW w \in Workers
  PROVE  /\ \A u \in Users, p \in Passwords : Login(w, u, p) => IInv'
         /\ \A p \in tokens : Refresh(w, p) \/ WithAuth(w, p) => IInv'
<1>0. /\ req \in [Workers -> Requests]
      /\ pc \in [Workers -> {"idle", "roles", "sign", "build", "inside", "setPassword"}]
  BY DEF IInv, TypeOK
<1>1. ASSUME NEW u \in Users, NEW p \in Passwords, Login(w, u, p)
      PROVE  IInv'
  <2> DEFINE r == [NoRequest EXCEPT !.user = u, !.era = bars[u]]
  <2>1. r.user = u /\ r.era = bars[u]
    BY DEF NoRequest
  <2>2. Set(w, r) /\ Goto(w, "roles") /\ UNCHANGED <<clock, accounts, tokens, history, overtaken>>
    BY <1>1 DEF Login
  <2>3. RequestIsRecent(w)'
    BY <1>0, <2>2 DEF RequestIsRecent, Goto
  <2>4. Begun(u, bars[u])
    BY <1>1 DEF Login, Begun, IInv, TypeOK
  <2> HIDE DEF r
  <2> QED BY <2>1, <2>2, <2>3, <2>4, Carry
<1>2. ASSUME NEW p \in tokens, Refresh(w, p)
      PROVE  IInv'
  <2> DEFINE r == [NoRequest EXCEPT !.user = p.user, !.era = p.era]
  <2>1. r.user = p.user /\ r.era = p.era
    BY DEF NoRequest
  <2>2. Set(w, r) /\ Goto(w, "roles") /\ UNCHANGED <<clock, accounts, tokens, history, overtaken>>
    BY <1>2 DEF Refresh
  <2>3. RequestIsRecent(w)'
    BY <1>0, <2>2 DEF RequestIsRecent, Goto
  <2>4. Begun(p.user, p.era)
    BY DEF IInv, SessionsAreBegun
  <2> HIDE DEF r
  <2> QED BY <2>1, <2>2, <2>3, <2>4, Carry
<1>3. ASSUME NEW p \in tokens, WithAuth(w, p)
      PROVE  IInv'
  <2> DEFINE r == [NoRequest EXCEPT !.user = p.user, !.roles = p.roles, !.iat = p.iat,
                                    !.read = p.read, !.at = clock]
  <2>1. r.user = p.user /\ r.roles = p.roles /\ r.iat = p.iat /\ r.read = p.read /\ r.at = clock
    BY DEF NoRequest
  <2>2. Set(w, r) /\ Goto(w, "inside") /\ UNCHANGED <<clock, accounts, tokens, history, overtaken>>
    BY <1>3 DEF WithAuth
  <2>3. pc'[w] = "inside" /\ req'[w] = r
    BY <1>0, <2>2 DEF Goto, Set
  <2>4. Recent(p.user, p.roles, p.read) /\ p.read <= p.iat /\ p.iat <= clock
    BY DEF IInv, PairsAreRecent
  <2>5. RequestIsRecent(w)'
    BY <1>3, <2>1, <2>2, <2>3, <2>4 DEF RequestIsRecent, Recent, WithAuth, Valid, history
  <2>6. gone[r.user] # 0 => r.iat <= gone[r.user]
    BY <2>1 DEF IInv, GoneAreGone, TypeOK, Pairs
  <2> HIDE DEF r
  <2> QED BY <2>2, <2>5, <2>6, Carry
<1> QED BY <1>1, <1>2, <1>3

LEMMA InvRead ==
  ASSUME IInv, TypeOK', NEW w \in Workers
  PROVE  /\ ReadRoles(w) \/ Sign(w) => IInv'
         /\ \A old, new \in Passwords : CheckPassword(w, old, new) => IInv'
<1>0. /\ req \in [Workers -> Requests] /\ req[w] \in Requests
      /\ pc \in [Workers -> {"idle", "roles", "sign", "build", "inside", "setPassword"}]
      /\ clock \in Nat \ {0} /\ RequestIsRecent(w)
      /\ Begun(req[w].user, req[w].era) \/ ~(pc[w] \in {"roles", "sign", "build"})
  BY DEF IInv, TypeOK, SessionsAreBegun
<1>1. CASE ReadRoles(w)
  <2>1. PICK R \in {held[req[w].user], {}} : Set(w, [req[w] EXCEPT !.roles = R, !.read = clock])
    BY <1>1 DEF ReadRoles
  <2> DEFINE r == [req[w] EXCEPT !.roles = R, !.read = clock]
  <2>2. r.user = req[w].user /\ r.era = req[w].era /\ r.roles = R /\ r.read = clock
    BY <1>0 DEF Requests
  <2>3. Goto(w, "sign") /\ At(w, "roles") /\ UNCHANGED <<clock, accounts, tokens, history, overtaken>>
    BY <1>1 DEF ReadRoles
  <2>4. pc'[w] = "sign" /\ req'[w] = r
    BY <1>0, <2>1, <2>3 DEF Goto, Set
  <2>5. Recent(req[w].user, R, clock)
    <3>1. req[w].user \in Users /\ held[req[w].user] \subseteq Roles
      BY <2>3, HasUser DEF At, IInv, TypeOK
    <3>2. \A c \in R : clock <= until[req[w].user][c]
      BY <1>0, <3>1 DEF IInv, HeldUntilNow
    <3> QED BY <1>0, <3>2 DEF Recent
  <2>6. RequestIsRecent(w)'
    BY <2>2, <2>3, <2>4, <2>5 DEF RequestIsRecent, Recent, history
  <2>7. Begun(r.user, r.era)
    BY <1>0, <2>2, <2>3 DEF At
  <2> HIDE DEF r
  <2> QED BY <2>1, <2>3, <2>6, <2>7, Carry DEF r
<1>2. CASE Sign(w)
  <2> DEFINE r == [req[w] EXCEPT !.iat = clock]
  <2>1. /\ r.user = req[w].user /\ r.era = req[w].era /\ r.roles = req[w].roles
        /\ r.read = req[w].read /\ r.iat = clock
    BY <1>0 DEF Requests
  <2>2. /\ Set(w, r) /\ Goto(w, "build") /\ At(w, "sign")
        /\ UNCHANGED <<clock, accounts, tokens, history, overtaken>>
    BY <1>2 DEF Sign
  <2>3. pc'[w] = "build" /\ req'[w] = r
    BY <1>0, <2>2 DEF Goto, Set
  <2>4. Recent(req[w].user, req[w].roles, req[w].read)
    BY <1>0, <2>2 DEF At, RequestIsRecent
  <2>5. RequestIsRecent(w)'
    BY <1>0, <2>1, <2>2, <2>3, <2>4 DEF RequestIsRecent, Recent, history
  <2>6. Begun(r.user, r.era)
    BY <1>0, <2>1, <2>2 DEF At
  <2> HIDE DEF r
  <2> QED BY <2>2, <2>5, <2>6, Carry
<1>3. ASSUME NEW old \in Passwords, NEW new \in Passwords, CheckPassword(w, old, new)
      PROVE  IInv'
  <2> DEFINE r == [req[w] EXCEPT !.old = old, !.new = new]
  <2>1. /\ r.user = req[w].user /\ r.roles = req[w].roles /\ r.at = req[w].at
        /\ r.read = req[w].read /\ r.iat = req[w].iat /\ r.old = old
    BY <1>0 DEF Requests
  <2>2. /\ Set(w, r) /\ Goto(w, "setPassword") /\ At(w, "inside") /\ old = password[req[w].user]
        /\ UNCHANGED <<clock, accounts, tokens, history, overtaken>>
    BY <1>3 DEF CheckPassword
  <2>3. pc'[w] = "setPassword" /\ req'[w] = r
    BY <1>0, <2>2 DEF Goto, Set
  <2>4. RequestIsRecent(w)'
    BY <1>0, <2>1, <2>2, <2>3 DEF RequestIsRecent, Recent, At, history
  <2>5. gone[r.user] # 0 => r.iat <= gone[r.user]
    BY <2>1, <2>2, HasUser DEF IInv, GoneAreGone, At
  <2> HIDE DEF r
  <2> QED BY <2>1, <2>2, <2>4, <2>5, Carry
<1> QED BY <1>1, <1>2, <1>3

\* A step that ends a request, and perhaps gives its pair away.
LEMMA InvAnswer ==
  ASSUME IInv, TypeOK', NEW w \in Workers, BuildUserDTO(w) \/ Leave(w) \/ Abort(w)
  PROVE  IInv'
<1> USE DEF accounts, history
<1>1. /\ pc'[w] = "idle" /\ UNCHANGED <<clock, accounts, history>>
      /\ \A v \in Workers : v # w => /\ req'[v] = req[v] /\ pc'[v] = pc[v]
                                      /\ overtaken'[v] = overtaken[v]
  BY DEF IInv, TypeOK, BuildUserDTO, Leave, Abort, Answer, Set, Goto
<1>2. ASSUME NEW p \in tokens', p \notin tokens
      PROVE  /\ p = NewPair(w) /\ pc[w] = "build" /\ status[req[w].user] # Null
             /\ p.user = req[w].user /\ p.roles = req[w].roles /\ p.iat = req[w].iat
             /\ p.read = req[w].read /\ p.era = req[w].era /\ req[w].user \in Users
  <2>1. p = NewPair(w) /\ pc[w] = "build" /\ status[req[w].user] # Null
    BY <1>2 DEF BuildUserDTO, Leave, Abort, At
  <2> QED BY <2>1, HasUser DEF NewPair, IInv
<1>3. HeldUntilNow'
  BY <1>1 DEF IInv, HeldUntilNow
<1>4. PairsAreRecent'
  <2> SUFFICES ASSUME NEW p \in tokens'
               PROVE  Recent(p.user, p.roles, p.read) /\ p.read <= p.iat /\ p.iat <= clock
    BY <1>1 DEF PairsAreRecent, Recent
  <2>1. CASE p \in tokens
    BY <2>1 DEF IInv, PairsAreRecent
  <2>2. CASE p \notin tokens
    BY <1>2, <2>2 DEF IInv, RequestIsRecent
  <2> QED BY <2>1, <2>2
<1>5. ASSUME NEW v \in Workers PROVE RequestIsRecent(v)'
  BY <1>1 DEF IInv, RequestIsRecent, Recent
<1>6. GoneAreGone'
  BY <1>1, <1>2 DEF IInv, GoneAreGone
<1>7. SessionsAreBegun'
  <2>1. ASSUME NEW p \in tokens' PROVE Begun(p.user, p.era)
    BY <1>2 DEF IInv, SessionsAreBegun
  <2> QED BY <1>1, <2>1 DEF IInv, SessionsAreBegun, Begun
<1>8. NamedOrOvertaken'
  BY <1>1 DEF IInv, NamedOrOvertaken
<1> QED BY <1>3, <1>4, <1>5, <1>6, <1>7, <1>8 DEF IInv

\* A statement of an administrator.
LEMMA InvAdminister ==
  ASSUME IInv, TypeOK', NEW w \in Workers, Administer(w)
  PROVE  IInv'
<1> USE DEF accounts, history
<1>1. UNCHANGED <<clock, password, tokens, pc, req, overtaken>>
  BY DEF Administer, SetStatus, Grant, Revoke, DeleteUser
<1>2. /\ clock \in Nat \ {0} /\ until \in [Users -> [Roles -> Moments]]
      /\ held \in [Users -> SUBSET Roles] /\ status \in [Users -> {"ACTIVE", "barred", Null}]
      /\ gone \in [Users -> Moments] /\ bars \in [Users -> 0 .. MaxBars] /\ tokens \subseteq Pairs
      /\ Null \notin {"ACTIVE", "barred"} /\ Moments \subseteq Nat /\ MaxBars \in Nat
  BY SessionsConstants, Numbers DEF IInv, TypeOK
<1>3. \A u \in Users, r \in Roles : until'[u][r] = until[u][r] \/ until'[u][r] = clock
  BY <1>2 DEF Administer, SetStatus, Grant, Revoke, DeleteUser
<1>4. \A u \in Users, R \in SUBSET Roles : \A t : Recent(u, R, t) => Recent(u, R, t)'
  BY <1>1, <1>2, <1>3 DEF Recent
<1>5. HeldUntilNow'
  <2>1. \A u \in Users, r \in Roles :
          r \in held'[u] => \/ r \in held[u] /\ until'[u][r] = until[u][r]
                           \/ until'[u][r] = clock
    BY <1>2, <1>3 DEF Administer, SetStatus, Grant, Revoke, DeleteUser
  <2> QED BY <1>1, <2>1 DEF IInv, HeldUntilNow
<1>6. PairsAreRecent'
  BY <1>1, <1>2, <1>4 DEF IInv, PairsAreRecent, Pairs
<1>7. ASSUME NEW v \in Workers PROVE RequestIsRecent(v)'
  <2>1. pc[v] # "idle" => req[v].user \in Users /\ req[v].roles \in SUBSET Roles
    BY HasUser DEF IInv, TypeOK, Requests
  <2> QED BY <1>1, <1>4, <2>1 DEF IInv, RequestIsRecent
<1>8. GoneAreGone'
  <2>1. ASSUME NEW u \in Users
        PROVE  \/ gone'[u] = gone[u] /\ (status[u] = Null => status'[u] = Null)
               \/ gone'[u] = clock /\ status'[u] = Null
    BY <1>2 DEF Administer, SetStatus, Grant, Revoke, DeleteUser
  <2>2. /\ \A p \in tokens : p.iat <= clock
        /\ \A v \in Workers : pc[v] \in {"inside", "setPassword"} => req[v].iat <= clock
    BY DEF IInv, PairsAreRecent, RequestIsRecent
  <2> QED BY <1>1, <2>1, <2>2 DEF IInv, GoneAreGone
<1>9. SessionsAreBegun'
  <2>1. ASSUME NEW u \in Users, NEW e \in 0 .. MaxBars, Begun(u, e) PROVE Begun(u, e)'
    <3>1. \/ bars'[u] = bars[u] /\ (status'[u] = "barred" => status[u] = "barred")
          \/ bars'[u] = bars[u] + 1
      BY <1>2 DEF Administer, SetStatus, Grant, Revoke, DeleteUser
    <3> QED BY <1>2, <2>1, <3>1 DEF Begun
  <2>2. \A v \in Workers : pc[v] # "idle" => req[v].user \in Users /\ req[v].era \in 0 .. MaxBars
    BY HasUser DEF IInv, TypeOK, Requests
  <2> QED BY <1>1, <1>2, <2>1, <2>2 DEF IInv, SessionsAreBegun, Pairs
<1>10. NamedOrOvertaken'
  BY <1>1 DEF IInv, NamedOrOvertaken
<1> QED BY <1>5, <1>6, <1>7, <1>8, <1>9, <1>10 DEF IInv

LEMMA InvSetPassword ==
  ASSUME IInv, TypeOK', NEW w \in Workers, SetPassword(w)
  PROVE  IInv'
<1> USE DEF accounts, history
<1>1. /\ pc'[w] = "idle" /\ UNCHANGED <<clock, status, held, tokens, history>>
      /\ \A v \in Workers : v # w => req'[v] = req[v] /\ pc'[v] = pc[v]
  BY DEF IInv, TypeOK, SetPassword, Goto, Set
<1>2. HeldUntilNow' /\ PairsAreRecent'
  BY <1>1 DEF IInv, HeldUntilNow, PairsAreRecent, Recent
<1>3. ASSUME NEW v \in Workers PROVE RequestIsRecent(v)'
  BY <1>1 DEF IInv, RequestIsRecent, Recent
<1>4. GoneAreGone'
  BY <1>1 DEF IInv, GoneAreGone
<1>5. SessionsAreBegun'
  BY <1>1 DEF IInv, SessionsAreBegun, Begun
<1>6. NamedOrOvertaken'
  <2> SUFFICES ASSUME NEW v \in Workers, pc'[v] = "setPassword"
               PROVE  req'[v].old = password'[req'[v].user] \/ overtaken'[v]
    BY DEF NamedOrOvertaken
  <2>1. v # w /\ req'[v] = req[v] /\ pc[v] = "setPassword"
    BY <1>1
  <2>2. overtaken'[v] <=> overtaken[v] \/ req[v].user = req[w].user
    BY <2>1, Zenon DEF SetPassword, At
  <2>3. req[v].user # req[w].user => password'[req[v].user] = password[req[v].user]
    BY <2>1 DEF SetPassword, IInv, TypeOK
  <2> QED BY <2>1, <2>2, <2>3 DEF IInv, NamedOrOvertaken
<1> QED BY <1>2, <1>3, <1>4, <1>5, <1>6 DEF IInv

LEMMA InvTick ==
  ASSUME IInv, TypeOK', Tick
  PROVE  IInv'
<1> USE DEF accounts, history
<1>1. /\ clock' = clock + 1 /\ clock \in Nat /\ tokens' \subseteq tokens /\ tokens \subseteq Pairs
      /\ Moments \subseteq Nat
      /\ UNCHANGED <<accounts, pc, req, gone, bars, overtaken>>
  BY Numbers DEF Tick, IInv, TypeOK
<1>2. \A u \in Users, r \in Roles :
        until'[u][r] = IF r \in held[u] THEN clock + 1 ELSE until[u][r]
  BY DEF Tick
<1>3. HeldUntilNow'
  BY <1>1, <1>2 DEF HeldUntilNow
<1>4. ASSUME NEW u \in Users, NEW R \in SUBSET Roles, NEW t \in Nat, Recent(u, R, t)
      PROVE  Recent(u, R, t)'
  BY <1>1, <1>2, <1>4 DEF Recent
<1>5. PairsAreRecent'
  <2> SUFFICES ASSUME NEW p \in tokens'
               PROVE  Recent(p.user, p.roles, p.read)' /\ p.read <= p.iat /\ p.iat <= clock'
    BY DEF PairsAreRecent
  <2>1. p \in tokens /\ p.user \in Users /\ p.roles \in SUBSET Roles /\ p.read \in Nat /\ p.iat \in Nat
    BY <1>1 DEF Pairs
  <2>2. Recent(p.user, p.roles, p.read) /\ p.read <= p.iat /\ p.iat <= clock
    BY <2>1 DEF IInv, PairsAreRecent
  <2> QED BY <1>1, <1>4, <2>1, <2>2
<1>6. ASSUME NEW v \in Workers PROVE RequestIsRecent(v)'
  <2>1. /\ pc[v] # "idle" => req[v].user \in Users
        /\ req[v].roles \in SUBSET Roles /\ req[v].read \in Nat /\ req[v].iat \in Nat
    BY <1>1, HasUser DEF IInv, TypeOK, Requests
  <2>2. RequestIsRecent(v)
    BY DEF IInv
  <2> QED BY <1>1, <1>4, <2>1, <2>2 DEF RequestIsRecent
<1>7. GoneAreGone'
  BY <1>1 DEF IInv, GoneAreGone
<1>8. SessionsAreBegun'
  BY <1>1 DEF IInv, SessionsAreBegun, Begun
<1>9. NamedOrOvertaken'
  BY <1>1 DEF IInv, NamedOrOvertaken
<1> QED BY <1>3, <1>5, <1>6, <1>7, <1>8, <1>9 DEF IInv

LEMMA InvNext == IInv /\ [Next]_vars => IInv'
<1> SUFFICES ASSUME IInv, [Next]_vars PROVE IInv'
  OBVIOUS
<1>1. TypeOK'
  BY NextType DEF IInv
<1>2. CASE UNCHANGED vars
  <2>1. \A w \in Workers : RequestIsRecent(w)'
    BY <1>2 DEF vars, accounts, history, IInv, RequestIsRecent, Recent
  <2> QED BY <1>1, <1>2, <2>1 DEF vars, accounts, history, IInv, HeldUntilNow, PairsAreRecent, Recent,
                             GoneAreGone, SessionsAreBegun, Begun, NamedOrOvertaken
<1>3. ASSUME NEW w \in Workers, Step(w) PROVE IInv'
  BY <1>1, <1>3, InvEnter, InvRead, InvAnswer, InvAdminister, InvSetPassword DEF Step
<1>4. CASE Tick
  BY <1>1, <1>4, InvTick
<1> QED BY <1>2, <1>3, <1>4 DEF Next

LEMMA Invariance == Spec => []IInv
BY InvInit, InvNext, PTL DEF Spec

-----------------------------------------------------------------------------
(* Theorems                                                                *)

\* A role that was taken away opens no route AccessTTL after the last answer
\* that still carried it was made (auth.go:28).
THEOREM RolesExpire == Spec => []RolesAreRecent
<1>1. IInv => RolesAreRecent
  <2> SUFFICES ASSUME IInv, NEW w \in Workers, pc[w] \in {"inside", "setPassword"}
               PROVE  /\ \A r \in req[w].roles : until[req[w].user][r] >= req[w].read /\ req[w].read > 0
                      /\ req[w].read <= req[w].iat /\ req[w].at < req[w].iat + AccessTTL
    BY DEF RolesAreRecent
  <2>1. RequestIsRecent(w) /\ req[w] \in Requests
    BY DEF IInv, TypeOK
  <2>2. req[w].user \in Users /\ req[w].roles \subseteq Roles /\ req[w].read \in Nat
    BY <2>1, HasUser, Numbers DEF IInv, Requests
  <2>3. \A r \in req[w].roles : until[req[w].user][r] \in Nat
    BY <2>2, Numbers DEF IInv, TypeOK
  <2> QED BY <2>1, <2>2, <2>3 DEF RequestIsRecent, Recent
<1> QED BY <1>1, Invariance, PTL

\* A deleted account is let in for AccessTTL at the most.
THEOREM DeletedGetOut == Spec => []DeletedAreOut
<1>1. IInv => DeletedAreOut
  <2> SUFFICES ASSUME IInv, NEW w \in Workers, pc[w] \in {"inside", "setPassword"},
                      gone[req[w].user] # 0
               PROVE  req[w].at < gone[req[w].user] + AccessTTL
    BY DEF DeletedAreOut
  <2>1. req[w].user \in Users /\ req[w].iat \in Nat /\ req[w].at \in Nat /\ gone[req[w].user] \in Nat
    BY HasUser, Numbers DEF IInv, TypeOK, Requests
  <2>2. req[w].iat <= gone[req[w].user] /\ req[w].at < req[w].iat + AccessTTL
    BY <2>1 DEF IInv, GoneAreGone, RequestIsRecent
  <2> QED BY <2>1, <2>2, SessionsConstants
<1> QED BY <1>1, Invariance, PTL

\* Who is barred has no session that was begun since.
THEOREM NoSessionForBarred == Spec => []BarredBeginNoSession
<1>1. IInv => BarredBeginNoSession
  BY DEF IInv, BarredBeginNoSession, SessionsAreBegun, Begun
<1> QED BY <1>1, Invariance, PTL

\* A password is replaced by who named it, or by who was overtaken.
THEOREM PasswordsChangeHands == Spec => PasswordsAreHandedOn
<1> DEFINE Handed(u) == \E w \in Workers :
                          /\ At(w, "setPassword") /\ req[w].user = u
                          /\ (req[w].old = password[u] \/ overtaken[w])
<1>1. IInv /\ [Next]_vars => [\A u \in Users : password'[u] # password[u] => Handed(u)]_vars
  <2> SUFFICES ASSUME IInv, Next, NEW u \in Users, password'[u] # password[u]
               PROVE  Handed(u)
    OBVIOUS
  <2>1. PICK w \in Workers : SetPassword(w)
    BY DEF Next, Tick, Step, Login, Refresh, WithAuth, ReadRoles, Sign, BuildUserDTO, Administer,
           SetStatus, Grant, Revoke, DeleteUser, CheckPassword, Leave, Abort, accounts
  <2>2. At(w, "setPassword") /\ req[w].user = u
    BY <2>1 DEF SetPassword, IInv, TypeOK
  <2>3. req[w].old = password[u] \/ overtaken[w]
    BY <2>2 DEF IInv, NamedOrOvertaken, At
  <2> QED BY <2>2, <2>3
<1> QED BY <1>1, Invariance, PTL DEF Spec, PasswordsAreHandedOn

-----------------------------------------------------------------------------
(* Where power comes from                                                  *)

\* Nobody is an administrator, nobody's token says so, and no request was let in
\* as one.
Powerless ==
  /\ \A u \in Users : Admin \notin held[u]
  /\ \A p \in tokens : Admin \notin p.roles
  /\ \A w \in Workers : Admin \notin req[w].roles

\* A worker that goes on, or answers, carries no role it has not read.
LEMMA PowerlessRequest ==
  ASSUME TypeOK, Powerless, NEW w \in Workers, NEW r, Set(w, r), Admin \notin r.roles,
         held' = held, \A p \in tokens' : Admin \notin p.roles
  PROVE  Powerless'
BY DEF Powerless, Set, TypeOK

LEMMA PowerlessAnswer ==
  ASSUME TypeOK, Powerless, NEW w \in Workers, Answer(w),
         held' = held, \A p \in tokens' : Admin \notin p.roles
  PROVE  Powerless'
BY PowerlessRequest DEF Answer, NoRequest

\* An installation without an administrator, or one that has lost the last and
\* the last token that says so, gets none from the server: requests take power
\* from the power of others only.  Nor does any account change its roles then,
\* but by being deleted by its user (http/server.go:69).  Register, which makes
\* students, is left to Accounts.
THEOREM PowerIsNotMade ==
  Spec => [][Powerless =>
               /\ Powerless'
               /\ \A u \in Users : held'[u] # held[u] => status'[u] = Null]_vars
<1>1. ASSUME TypeOK, [Next]_vars, Powerless
      PROVE  Powerless' /\ \A u \in Users : held'[u] # held[u] => status'[u] = Null
  <2> USE DEF accounts, history
  <2>1. CASE UNCHANGED vars
    BY <1>1, <2>1 DEF vars, Powerless
  <2>2. CASE Tick
    BY <1>1, <2>2 DEF Tick, Powerless
  <2>3. ASSUME NEW w \in Workers, Step(w)
        PROVE  Powerless' /\ \A u \in Users : held'[u] # held[u] => status'[u] = Null
    <3>1. ASSUME NEW u \in Users, NEW p \in Passwords, Login(w, u, p) PROVE Powerless' /\ held' = held
      BY <1>1, <3>1, PowerlessRequest DEF Login, NoRequest, Powerless
    <3>2. ASSUME NEW p \in tokens, Refresh(w, p) \/ WithAuth(w, p) PROVE Powerless' /\ held' = held
      BY <1>1, <3>2, PowerlessRequest DEF Refresh, WithAuth, NoRequest, Powerless
    <3>3. CASE ReadRoles(w)
      <4>1. req[w].user \in Users
        BY <1>1, <3>3, HasUser DEF ReadRoles, At
      <4>2. PICK R \in {held[req[w].user], {}} : Set(w, [req[w] EXCEPT !.roles = R, !.read = clock])
        BY <3>3 DEF ReadRoles
      <4>3. Admin \notin [req[w] EXCEPT !.roles = R, !.read = clock].roles
        BY <1>1, <4>1 DEF Powerless, TypeOK, Requests
      <4>4. held' = held /\ tokens' = tokens
        BY <3>3 DEF ReadRoles
      <4> QED BY <1>1, <4>2, <4>3, <4>4, PowerlessRequest DEF Powerless
    <3>4. CASE Sign(w)
      BY <1>1, <3>4, PowerlessRequest DEF Sign, Powerless, TypeOK, Requests
    <3>5. CASE BuildUserDTO(w)
      <4>1. Admin \notin NewPair(w).roles
        BY <1>1 DEF Powerless, NewPair
      <4>2. held' = held /\ \A p \in tokens' : Admin \notin p.roles
        BY <1>1, <3>5, <4>1 DEF BuildUserDTO, Powerless
      <4> QED BY <1>1, <3>5, <4>2, PowerlessAnswer DEF BuildUserDTO
    <3>6. CASE Leave(w) \/ Abort(w)
      BY <1>1, <3>6, PowerlessAnswer DEF Leave, Abort, Powerless
    <3>7. ASSUME NEW u \in Users, DeleteUser(w, u)
          PROVE  Powerless' /\ \A v \in Users : held'[v] # held[v] => status'[v] = Null
      BY <1>1, <3>7 DEF DeleteUser, Powerless, TypeOK
    <3>8. ~RequireRole(w, Admin)
      BY <1>1 DEF RequireRole, Powerless
    <3>9. ASSUME NEW old \in Passwords, NEW new \in Passwords, CheckPassword(w, old, new)
          PROVE  Powerless' /\ held' = held
      <4>1. Admin \notin [req[w] EXCEPT !.old = old, !.new = new].roles
        BY <1>1 DEF Powerless, TypeOK, Requests
      <4>2. held' = held /\ tokens' = tokens /\ Set(w, [req[w] EXCEPT !.old = old, !.new = new])
        BY <3>9 DEF CheckPassword
      <4> QED BY <1>1, <4>1, <4>2, PowerlessRequest DEF Powerless
    <3>10. CASE SetPassword(w)
      BY <1>1, <3>10, PowerlessRequest DEF SetPassword, NoRequest, Powerless
    <3> QED BY <2>3, <3>1, <3>2, <3>3, <3>4, <3>5, <3>6, <3>7, <3>8, <3>9, <3>10
            DEF Step, Administer, SetStatus, Grant, Revoke
  <2> QED BY <1>1, <2>1, <2>2, <2>3 DEF Next
<1> QED BY <1>1, SessionsType, PTL DEF Spec
=============================================================================
