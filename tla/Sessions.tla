------------------------------ MODULE Sessions ------------------------------
(***************************************************************************)
(* Sessions: signed tokens against the accounts they were made for         *)
(* (services/auth.go, http/auth.go, http/auth_handlers.go,                 *)
(* http/me_handlers.go).                                                   *)
(*                                                                         *)
(* The server keeps no session.  Login and Refresh read the roles, sign    *)
(* them into an access token, sign a refresh token and give both away if   *)
(* the account is still there; WithAuth looks at nothing but the signature *)
(* and the clock.  What a request may do is therefore decided by what the  *)
(* account was when its token was made.  Administrators change accounts    *)
(* through such requests themselves.  Of these requests the module keeps   *)
(* the statements, in any order; Accounts and Groups say how they follow   *)
(* each other.                                                             *)
(***************************************************************************)
EXTENDS Naturals, FiniteSets

CONSTANTS
  Users,       \* the accounts
  Roles,       \* the rows of roles
  Admin,       \* the role that opens the routes under /api/admin
  Passwords,
  Workers,     \* the goroutines that serve requests
  Null,
  AccessTTL,   \* how long an access token lives
  RefreshTTL,  \* how long a refresh token lives
  MaxTime,     \* bound: the last moment
  MaxPairs,    \* bound: how many pairs of tokens live at a time
  MaxBars      \* bound: how often an account is barred

ASSUME SessionsConstants ==
  /\ Admin \in Roles
  /\ Null \notin Users \cup Passwords \cup {"ACTIVE", "barred"}
  /\ AccessTTL \in Nat /\ RefreshTTL \in Nat
  /\ MaxTime \in Nat \ {0} /\ MaxPairs \in Nat /\ MaxBars \in Nat \ {0}

VARIABLES
  clock,
  status,      \* users.status, "barred" for all but ACTIVE; Null without a row
  held,        \* user_roles
  password,    \* what users.password_hash is the hash of
  tokens,      \* the pairs that clients hold
  pc,          \* the statement each worker runs next
  req,         \* what its request is about and has read
  until,       \* history: when each user last held each role, 0 for never
  gone,        \* history: when each user was deleted, 0 for not yet
  bars,        \* history: how often each user has been barred
  overtaken    \* history: the password was changed since the request read it

accounts == <<status, held, password>>
history == <<until, gone, bars>>
vars == <<clock, status, held, password, tokens, pc, req, until, gone, bars, overtaken>>

Moments == 0 .. MaxTime

\* The access and the refresh token that an answer carries.  The history of a
\* pair: when its roles were read, and how often the user had been barred when
\* the login checked the status from which it descends.
Pairs == [user : Users, roles : SUBSET Roles, iat : Moments, read : Moments, era : 0 .. MaxBars]

\* What a request is about and has read; at is when WithAuth let it in.
Requests ==
  [user : Users \cup {Null}, roles : SUBSET Roles, iat : Moments, read : Moments,
   era : 0 .. MaxBars, at : Moments, old : Passwords \cup {Null}, new : Passwords \cup {Null}]

NoRequest ==
  [user |-> Null, roles |-> {}, iat |-> 0, read |-> 0, era |-> 0, at |-> 0,
   old |-> Null, new |-> Null]

\* Who asks is known, and what for.
Asked ==
  \A w \in Workers : /\ pc[w] # "idle" => req[w].user \in Users
                     /\ pc[w] = "setPassword" => req[w].new \in Passwords

TypeOK ==
  /\ clock \in 1 .. MaxTime
  /\ status \in [Users -> {"ACTIVE", "barred", Null}]
  /\ held \in [Users -> SUBSET Roles]
  /\ password \in [Users -> Passwords]
  /\ tokens \subseteq Pairs
  /\ pc \in [Workers -> {"idle", "roles", "sign", "build", "inside", "setPassword"}]
  /\ req \in [Workers -> Requests]
  /\ Asked
  /\ until \in [Users -> [Roles -> Moments]]
  /\ gone \in [Users -> Moments]
  /\ bars \in [Users -> 0 .. MaxBars]
  /\ overtaken \in [Workers -> BOOLEAN]

\* Any accounts, with any roles, and nobody logged in.
Init ==
  /\ clock = 1
  /\ status \in [Users -> {"ACTIVE", "barred"}]
  /\ held \in [Users -> SUBSET Roles]
  /\ password \in [Users -> Passwords]
  /\ tokens = {}
  /\ pc = [w \in Workers |-> "idle"]
  /\ req = [w \in Workers |-> NoRequest]
  /\ until = [u \in Users |-> [r \in Roles |-> IF r \in held[u] THEN 1 ELSE 0]]
  /\ gone = [u \in Users |-> 0]
  /\ bars = [u \in Users |-> 0]
  /\ overtaken = [w \in Workers |-> FALSE]

-----------------------------------------------------------------------------
At(w, label) == pc[w] = label

Goto(w, label) == pc' = [pc EXCEPT ![w] = label]

Set(w, r) == req' = [req EXCEPT ![w] = r]

\* The handler returns.
Answer(w) ==
  /\ Goto(w, "idle")
  /\ Set(w, NoRequest)
  /\ overtaken' = [overtaken EXCEPT ![w] = FALSE]

\* ParseToken: a token is valid before its exp, iat + ttl.
Valid(p, ttl) == clock < p.iat + ttl

\* Bound: every answer under way has a place among the pairs.
RoomForPair ==
  Cardinality(tokens) + Cardinality({w \in Workers : pc[w] \in {"roles", "sign", "build"}}) < MaxPairs

-----------------------------------------------------------------------------
(* Login and Refresh                                                       *)

\* Variant of Login: the status is not looked at.
LoginAnyStatus(w, u, p) ==
  /\ At(w, "idle")
  /\ RoomForPair
  /\ status[u] # Null
  /\ p = password[u]
  /\ Goto(w, "roles")
  /\ Set(w, [NoRequest EXCEPT !.user = u, !.era = bars[u]])
  /\ UNCHANGED <<clock, accounts, tokens, history, overtaken>>

\* SELECT id, password_hash, status: 401 or 403 unless the account is active
\* and the password is that of the hash.
Login(w, u, p) ==
  /\ At(w, "idle")
  /\ RoomForPair
  /\ status[u] = "ACTIVE"
  /\ p = password[u]
  /\ Goto(w, "roles")
  /\ Set(w, [NoRequest EXCEPT !.user = u, !.era = bars[u]])
  /\ UNCHANGED <<clock, accounts, tokens, history, overtaken>>

\* Refresh asks the token and nothing else: neither status nor password.
Refresh(w, p) ==
  /\ At(w, "idle")
  /\ RoomForPair
  /\ p \in tokens
  /\ Valid(p, RefreshTTL)
  /\ Goto(w, "roles")
  /\ Set(w, [NoRequest EXCEPT !.user = p.user, !.era = p.era])
  /\ UNCHANGED <<clock, accounts, tokens, history, overtaken>>

\* Variant of ReadRoles, in Refresh: the roles of the old token are signed again.
KeepRoles(w) ==
  /\ At(w, "roles")
  /\ Goto(w, "sign")
  /\ \E R \in {held[req[w].user]} \cup {p.roles : p \in {q \in tokens : q.user = req[w].user}} :
       Set(w, [req[w] EXCEPT !.roles = R, !.read = clock])
  /\ UNCHANGED <<clock, accounts, tokens, history, overtaken>>

\* SELECT r.code: no roles when the statement fails, which nobody notices.
ReadRoles(w) ==
  /\ At(w, "roles")
  /\ Goto(w, "sign")
  /\ \E R \in {held[req[w].user], {}} : Set(w, [req[w] EXCEPT !.roles = R, !.read = clock])
  /\ UNCHANGED <<clock, accounts, tokens, history, overtaken>>

\* CreateAccessToken and CreateRefreshToken, one after the other in memory.  Each
\* reads the clock; a tick of the model, the life of an access token, is much
\* longer than what is between them, so that the two have one iat.
Sign(w) ==
  /\ At(w, "sign")
  /\ Goto(w, "build")
  /\ Set(w, [req[w] EXCEPT !.iat = clock])
  /\ UNCHANGED <<clock, accounts, tokens, history, overtaken>>

NewPair(w) ==
  [user |-> req[w].user, roles |-> req[w].roles, iat |-> req[w].iat, read |-> req[w].read,
   era |-> req[w].era]

\* Variant of BuildUserDTO: the answer does without the account.
BuildAnyway(w) ==
  /\ At(w, "build")
  /\ tokens' = tokens \cup {NewPair(w)}
  /\ Answer(w)
  /\ UNCHANGED <<clock, accounts, history>>

\* buildUserDTO: without a row, and when a statement fails, the answer is 500
\* and the tokens are given to nobody.
BuildUserDTO(w) ==
  /\ At(w, "build")
  /\ \/ status[req[w].user] # Null /\ tokens' = tokens \cup {NewPair(w)}
     \/ UNCHANGED tokens
  /\ Answer(w)
  /\ UNCHANGED <<clock, accounts, history>>

-----------------------------------------------------------------------------
(* Requests that carry a token                                             *)

\* WithAuth lets a request in; what it may do there RequireRole decides by the
\* roles of the token.
WithAuth(w, p) ==
  /\ At(w, "idle")
  /\ p \in tokens
  /\ Valid(p, AccessTTL)
  /\ Goto(w, "inside")
  /\ Set(w, [NoRequest EXCEPT !.user = p.user, !.roles = p.roles, !.iat = p.iat,
                              !.read = p.read, !.at = clock])
  /\ UNCHANGED <<clock, accounts, tokens, history, overtaken>>

Leave(w) ==
  /\ At(w, "inside")
  /\ Answer(w)
  /\ UNCHANGED <<clock, accounts, tokens, history>>

RequireRole(w, r) == At(w, "inside") /\ r \in req[w].roles

\* UPDATE users SET status, in UpdateUser.
SetStatus(w, u, s) ==
  /\ RequireRole(w, Admin)
  /\ status[u] # Null
  /\ status' = [status EXCEPT ![u] = s]
  /\ IF s = "barred" /\ status[u] = "ACTIVE"
       THEN bars[u] < MaxBars /\ bars' = [bars EXCEPT ![u] = @ + 1]
       ELSE UNCHANGED bars
  /\ UNCHANGED <<clock, held, password, tokens, pc, req, until, gone, overtaken>>

\* INSERT INTO user_roles, in UpdateUser and AssignRole.
Grant(w, u, r) ==
  /\ RequireRole(w, Admin)
  /\ status[u] # Null
  /\ held' = [held EXCEPT ![u] = @ \cup {r}]
  /\ until' = [until EXCEPT ![u][r] = clock]
  /\ UNCHANGED <<clock, status, password, tokens, pc, req, gone, bars, overtaken>>

\* DELETE FROM user_roles, in UpdateUser and RemoveRole.
Revoke(w, u, r) ==
  /\ RequireRole(w, Admin)
  /\ held' = [held EXCEPT ![u] = @ \ {r}]
  /\ UNCHANGED <<clock, status, password, tokens, pc, req, history, overtaken>>

\* DELETE FROM users, in DeleteUser by an administrator and DeleteAccount by
\* the user.
DeleteUser(w, u) ==
  /\ \/ RequireRole(w, Admin)
     \/ At(w, "inside") /\ u = req[w].user
  /\ status[u] # Null
  /\ status' = [status EXCEPT ![u] = Null]
  /\ held' = [held EXCEPT ![u] = {}]
  /\ gone' = [gone EXCEPT ![u] = clock]
  /\ UNCHANGED <<clock, password, tokens, pc, req, until, bars, overtaken>>

\* Variant of CheckPassword: the current password is not asked for.
SkipPassword(w, old, new) ==
  /\ At(w, "inside")
  /\ status[req[w].user] # Null
  /\ Goto(w, "setPassword")
  /\ Set(w, [req[w] EXCEPT !.old = old, !.new = new])
  /\ UNCHANGED <<clock, accounts, tokens, history, overtaken>>

\* Variant of CheckPassword: a payload that does not decode is gone on with.
CheckUnread(w, old, new) ==
  /\ At(w, "inside")
  /\ status[req[w].user] # Null
  /\ old = password[req[w].user]
  /\ Goto(w, "setPassword")
  /\ \E p \in {new, Null} : Set(w, [req[w] EXCEPT !.old = old, !.new = p])
  /\ UNCHANGED <<clock, accounts, tokens, history, overtaken>>

\* ChangePassword: SELECT password_hash, and 401 unless the request names the
\* current password ...
CheckPassword(w, old, new) ==
  /\ At(w, "inside")
  /\ status[req[w].user] # Null
  /\ old = password[req[w].user]
  /\ Goto(w, "setPassword")
  /\ Set(w, [req[w] EXCEPT !.old = old, !.new = new])
  /\ UNCHANGED <<clock, accounts, tokens, history, overtaken>>

\* ... and UPDATE users SET password_hash, of a row that may be gone.
SetPassword(w) ==
  /\ At(w, "setPassword")
  /\ LET u == req[w].user
     IN /\ password' = IF status[u] = Null THEN password ELSE [password EXCEPT ![u] = req[w].new]
        /\ overtaken' = [v \in Workers |-> \/ v # w /\ overtaken[v]
                                           \/ v # w /\ At(v, "setPassword") /\ req[v].user = u]
  /\ Goto(w, "idle")
  /\ Set(w, NoRequest)
  /\ UNCHANGED <<clock, status, held, tokens, history>>

-----------------------------------------------------------------------------
\* A statement meets an error, or the process is killed and starts again: it
\* has no state of its own to lose.
Abort(w) ==
  /\ pc[w] \notin {"idle", "inside"}
  /\ Answer(w)
  /\ UNCHANGED <<clock, accounts, tokens, history>>

\* Time passes.  Tokens that are good for nothing any more are forgotten.
Tick ==
  /\ clock < MaxTime
  /\ clock' = clock + 1
  /\ tokens' = {p \in tokens : clock + 1 < p.iat + AccessTTL \/ clock + 1 < p.iat + RefreshTTL}
  /\ until' = [u \in Users |-> [r \in Roles |-> IF r \in held[u] THEN clock + 1 ELSE until[u][r]]]
  /\ UNCHANGED <<accounts, pc, req, gone, bars, overtaken>>

Administer(w) ==
  \E u \in Users :
    \/ \E s \in {"ACTIVE", "barred"} : SetStatus(w, u, s)
    \/ \E r \in Roles : Grant(w, u, r) \/ Revoke(w, u, r)
    \/ DeleteUser(w, u)

Step(w) ==
  \/ \E u \in Users, p \in Passwords : Login(w, u, p)
  \/ \E p \in tokens : Refresh(w, p) \/ WithAuth(w, p)
  \/ ReadRoles(w) \/ Sign(w) \/ BuildUserDTO(w)
  \/ Administer(w)
  \/ \E old, new \in Passwords : CheckPassword(w, old, new)
  \/ SetPassword(w) \/ Leave(w) \/ Abort(w)

Next == Tick \/ \E w \in Workers : Step(w)

Spec == Init /\ [][Next]_vars

-----------------------------------------------------------------------------
(* Properties                                                              *)

\* Every role that lets a request in was the user's when the last login or
\* refresh read the roles, and the token made of it was younger than AccessTTL
\* then: a role that is taken away stops opening routes that long after the
\* last answer that still carries it (auth.go:28), refreshed or not.
RolesAreRecent ==
  \A w \in Workers : pc[w] \in {"inside", "setPassword"} =>
    /\ \A r \in req[w].roles : until[req[w].user][r] >= req[w].read /\ req[w].read > 0
    /\ req[w].read <= req[w].iat /\ req[w].at < req[w].iat + AccessTTL

\* Nobody gets in AccessTTL after the account was deleted, however often the
\* session has been refreshed: its last tokens were signed before buildUserDTO
\* found the account (auth_handlers.go:140).
DeletedAreOut ==
  \A w \in Workers :
    pc[w] \in {"inside", "setPassword"} /\ gone[req[w].user] # 0
      => req[w].at < gone[req[w].user] + AccessTTL

\* Who is barred begins no session: those there are began before the account
\* was barred, and Refresh, which does not ask for the status
\* (auth_handlers.go:171), may carry them on for good.
BarredBeginNoSession ==
  \A p \in tokens : status[p.user] = "barred" => p.era < bars[p.user]

\* A password is replaced by a request that has named it, unless another change
\* came between the check and the UPDATE (me_handlers.go:94-107): then the
\* later one wins, and the password it has named is not the one it replaces.
PasswordsAreHandedOn ==
  [][\A u \in Users : password'[u] # password[u] =>
       \E w \in Workers :
         /\ At(w, "setPassword") /\ req[w].user = u
         /\ (req[w].old = password[u] \/ overtaken[w])]_vars
=============================================================================
