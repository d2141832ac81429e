------------------------ MODULE CategoryOrderProofs ------------------------
(***************************************************************************)
(* Proofs about CategoryOrder: its types, that lone requests find what     *)
(* they rely on, and what it takes to bring the list out of order.         *)
(***************************************************************************)
EXTENDS CategoryOrder, TLAPS

(* Types                                                                   *)

\* A table keeps its type, and who takes part in what.
LEMMA Tables ==
  ASSUME TypeOK
  PROVE  /\ \A c \in Live : rows[c] \in Rows /\ rows[c].group \in Groups
                            /\ rows[c].sort \in Nat /\ rows[c].order \in Nat
         /\ Live \subseteq Codes /\ \A g : In(g) \subseteq Live
         /\ GroupOrders \subseteq Nat /\ \A g : SortOrders(g) \subseteq Nat
         /\ Null \notin Nat /\ Null \notin Groups /\ Null \notin Codes /\ Null \notin Rows
<1>1. Orders \subseteq Nat
  BY CategoryOrderConstants DEF Orders
<1>2. \A c \in Live : rows[c] \in Rows
  BY DEF TypeOK, Live
<1>3. \A c \in Live : rows[c].group \in Groups /\ rows[c].sort \in Nat /\ rows[c].order \in Nat
  BY <1>1, <1>2 DEF Rows
<1> QED BY <1>2, <1>3, CategoryOrderConstants DEF Live, In, GroupOrders, SortOrders

\* The next order is a number that nothing in S has.
LEMMA NextIsNew ==
  ASSUME NEW S \in SUBSET Nat, NEW n \in Next1(S)
  PROVE  n \in Nat /\ n \notin S
<1>1. CASE S = {}
  BY <1>1 DEF Next1
<1>2. CASE S # {}
  <2>1. PICK m \in S : n = m + 1 /\ \A k \in S : k <= m
    BY <1>2 DEF Next1
  <2> QED BY <2>1
<1> QED BY <1>1, <1>2

LEMMA GoOnType ==
  ASSUME TypeOK, NEW w \in Workers, NEW r \in Requests, r.group \in Groups,
         NEW b \in BOOLEAN, GoOn(w, r, b)
  PROVE  TypeOK'
<1>1. Whither(r) \in ControlPoints
  BY DEF Whither, ControlPoints, Requests
<1>2. rows' \in [Codes -> Rows \cup {Null}]
  BY DEF GoOn, TypeOK
<1>3. pc' \in [Workers -> ControlPoints] /\ req' \in [Workers -> Requests]
      /\ disturbed' \in [Workers -> BOOLEAN]
  BY <1>1 DEF GoOn, TypeOK
<1>4. \A v \in Workers : pc'[v] # "idle" => req'[v].group \in Groups
  BY DEF GoOn, TypeOK
<1> QED BY <1>2, <1>3, <1>4 DEF TypeOK

\* What ends a request keeps the types, with a table that has its type.
LEMMA EndType ==
  ASSUME TypeOK, NEW w \in Workers
  PROVE  /\ Answer(w) => TypeOK'
         /\ \A t \in [Codes -> Rows \cup {Null}] : Write(w, t) => TypeOK'
<1>1. NoRequest \in Requests
  BY DEF NoRequest, Requests
<1> QED BY <1>1 DEF Answer, Write, Return, TypeOK, ControlPoints

LEMMA AskType ==
  ASSUME TypeOK, NEW w \in Workers, Ask(w)
  PROVE  TypeOK'
<1> SUFFICES ASSUME NEW g \in Groups, NEW order \in Named
             PROVE  /\ \A c \in Codes, sort \in Sorts :
                         Create(w, c, g, sort, order) \/ Update(w, c, g, sort, order) => TypeOK'
                    /\ \A new \in Groups : Rename(w, g, new, order) => TypeOK'
  BY DEF Ask
<1>0. Sorts \cup Named \subseteq Nat \cup {Null} /\ FALSE \in BOOLEAN
  BY CategoryOrderConstants
<1>1. ASSUME NEW c \in Codes, NEW sort \in Sorts, Create(w, c, g, sort, order)
      PROVE  TypeOK'
  <2> DEFINE r == [NoRequest EXCEPT !.code = c, !.group = g, !.sort = sort, !.order = order,
                                   !.goal = "insert", !.named = sort # Null \/ order # Null]
  <2>1. r \in Requests /\ r.group \in Groups
    BY <1>0 DEF NoRequest, Requests
  <2>2. GoOn(w, r, FALSE)
    BY <1>1 DEF Create
  <2> HIDE DEF r
  <2> QED BY <1>0, <2>1, <2>2, GoOnType
<1>2. ASSUME NEW c \in Codes, NEW sort \in Sorts, Update(w, c, g, sort, order)
      PROVE  TypeOK'
  <2> DEFINE moving == rows[c].group # g
             s == Default(sort, moving, rows[c].sort)
             o == Default(order, moving, rows[c].order)
             r == [NoRequest EXCEPT !.code = c, !.group = g, !.sort = s, !.order = o,
                                    !.goal = "update", !.named = sort # Null \/ order # Null]
  <2>1. s \in Nat \cup {Null} /\ o \in Nat \cup {Null}
    BY <1>0, <1>2, Tables DEF Update, Default
  <2>2. GoOn(w, r, FALSE)
    BY <1>2 DEF Update
  <2> HIDE DEF s, o
  <2>3. r \in Requests /\ r.group \in Groups
    BY <2>1 DEF NoRequest, Requests
  <2> HIDE DEF r
  <2> QED BY <1>0, <2>2, <2>3, GoOnType
<1>3. ASSUME NEW new \in Groups, Rename(w, g, new, order)
      PROVE  TypeOK'
  <2>1. PICK c \in In(g) :
          GoOn(w, [NoRequest EXCEPT !.group = new, !.sort = 0, !.goal = "rename",
                     !.order = IF order = Null THEN rows[c].order ELSE order,
                     !.named = order # Null, !.old = g, !.seen = In(g)], FALSE)
    BY <1>3 DEF Rename
  <2> DEFINE o == IF order = Null THEN rows[c].order ELSE order
             r == [NoRequest EXCEPT !.group = new, !.sort = 0, !.goal = "rename", !.order = o,
                                    !.named = order # Null, !.old = g, !.seen = In(g)]
  <2>2. o \in Nat /\ In(g) \in SUBSET Codes
    BY <1>0, <2>1, Tables
  <2> HIDE DEF o
  <2>3. r \in Requests /\ r.group \in Groups
    BY <2>2 DEF NoRequest, Requests
  <2>4. GoOn(w, r, FALSE)
    BY <2>1 DEF o
  <2> HIDE DEF r
  <2> QED BY <1>0, <2>3, <2>4, GoOnType
<1> QED BY <1>1, <1>2, <1>3

\* A request found one more of its orders.
LEMMA FoundType ==
  ASSUME TypeOK, NEW w \in Workers, ~At(w, "idle"), NEW n \in Nat, NEW b \in BOOLEAN
  PROVE  /\ GoOn(w, [req[w] EXCEPT !.order = n], b) => TypeOK'
         /\ GoOn(w, [req[w] EXCEPT !.sort = n], b) => TypeOK'
<1>1. req[w] \in Requests /\ req[w].group \in Groups
  BY DEF TypeOK, At
<1>2. /\ [req[w] EXCEPT !.order = n] \in Requests /\ [req[w] EXCEPT !.sort = n] \in Requests
      /\ [req[w] EXCEPT !.order = n].group = req[w].group
      /\ [req[w] EXCEPT !.sort = n].group = req[w].group
  BY <1>1 DEF Requests
<1> QED BY <1>1, <1>2, GoOnType

LEMMA StatementType ==
  ASSUME TypeOK, NEW w \in Workers, Statement(w)
  PROVE  TypeOK'
<1>0. TRUE \in BOOLEAN /\ FALSE \in BOOLEAN /\ 1 \in Nat
  OBVIOUS
<1>1. CASE FindGroupOrder(w)
  <2>1. ASSUME NEW c \in In(req[w].group), GoOn(w, [req[w] EXCEPT !.order = rows[c].order], FALSE)
        PROVE  TypeOK'
    BY <1>0, <1>1, <2>1, Tables, FoundType DEF FindGroupOrder, At
  <2>2. ASSUME NEW failed \in BOOLEAN,
               pc' = [pc EXCEPT ![w] = "maxGroup"],
               disturbed' = [disturbed EXCEPT ![w] = @ \/ failed],
               UNCHANGED <<rows, req>>
        PROVE  TypeOK'
    BY <1>1, <2>2 DEF FindGroupOrder, At, TypeOK, ControlPoints
  <2> QED BY <1>1, <2>1, <2>2 DEF FindGroupOrder
<1>2. CASE MaxGroupOrder(w)
  <2>1. ~At(w, "idle") /\ \A n \in Next1(GroupOrders) : n \in Nat
    BY <1>2, Tables, NextIsNew DEF MaxGroupOrder, At
  <2> QED BY <1>0, <1>2, <2>1, FoundType DEF MaxGroupOrder
<1>3. CASE MaxSortOrder(w)
  <2>1. ~At(w, "idle") /\ \A n \in Next1(SortOrders(req[w].group)) : n \in Nat
    BY <1>3, Tables, NextIsNew DEF MaxSortOrder, At
  <2> QED BY <1>0, <1>3, <2>1, FoundType DEF MaxSortOrder
<1>4. CASE Insert(w) \/ UpdateRow(w)
  <2>1. ASSUME Fits(req[w]) PROVE [rows EXCEPT ![req[w].code] = RowOf(w)] \in [Codes -> Rows \cup {Null}]
    <3>1. RowOf(w) \in Rows
      BY <1>4, <2>1 DEF RowOf, Rows, Fits, Insert, UpdateRow, At, TypeOK
    <3> QED BY <3>1 DEF TypeOK
  <2> QED BY <1>4, <2>1, EndType DEF Insert, UpdateRow
<1>5. CASE RenameRows(w)
  <2>1. ASSUME Fits(req[w]) PROVE Renamed(w) \in [Codes -> Rows \cup {Null}]
    <3>1. \A c \in In(req[w].old) :
            [rows[c] EXCEPT !.group = req[w].group, !.order = req[w].order] \in Rows
      BY <1>5, <2>1, Tables DEF Rows, Fits, RenameRows, At, TypeOK
    <3> QED BY <3>1 DEF Renamed, TypeOK
  <2> QED BY <1>5, <2>1, EndType DEF RenameRows
<1> QED BY <1>1, <1>2, <1>3, <1>4, <1>5 DEF Statement

LEMMA InitType == Init => TypeOK
<1>1. NoRequest \in Requests
  BY DEF NoRequest, Requests
<1> QED BY <1>1, CategoryOrderConstants DEF Init, TypeOK, ControlPoints

LEMMA NextType == TypeOK /\ [Next]_vars => TypeOK'
<1> SUFFICES ASSUME TypeOK, [Next]_vars PROVE TypeOK'
  OBVIOUS
<1>1. CASE UNCHANGED vars
  BY <1>1 DEF vars, TypeOK
<1>2. ASSUME NEW w \in Workers, Ask(w) \/ Statement(w) \/ Abort(w) PROVE TypeOK'
  BY <1>2, AskType, StatementType, EndType DEF Abort
<1>3. ASSUME NEW c \in Codes, Delete(c) PROVE TypeOK'
  BY <1>3 DEF Delete, TypeOK
<1> QED BY <1>1, <1>2, <1>3 DEF Next

\* The states have their types: no order that the column cannot hold is in it.
THEOREM CategoryOrderType == Spec => []TypeOK
BY InitType, NextType, PTL DEF Spec

-----------------------------------------------------------------------------
(* What undisturbed requests have found out                                *)

\* The order of the group is that of the group, or nobody's.
OrderIsRight(r) ==
  \/ r.order \notin GroupOrders /\ In(r.group) = {}
  \/ \E c \in In(r.group) : r.order = rows[c].order

\* The order in the group is nobody's, or the category has it already.
SortIsRight(r) ==
  \/ r.code \notin In(r.group) /\ r.sort \notin SortOrders(r.group)
  \/ r.code \in In(r.group) /\ r.sort = rows[r.code].sort

\* Where a request is, it has an order or not.
Progress(w) ==
  LET r == req[w]
  IN /\ pc[w] \in {"insert", "update", "rename"} => r.goal = pc[w]
     /\ pc[w] \in {"group", "maxGroup", "maxSort"} => r.goal \in {"insert", "update"}
     /\ pc[w] = "maxSort" => r.order # Null

\* What it has found holds.
Finding(w) ==
  LET r == req[w]
  IN /\ ~At(w, "idle") /\ r.goal = "insert" => r.code \in Codes \ Live
     /\ ~At(w, "idle") /\ r.goal = "update" => r.code \in Live
     /\ At(w, "rename") => /\ r.seen = In(r.old)
                           /\ r.named \/ \E c \in In(r.old) : r.order = rows[c].order
     /\ At(w, "maxGroup") => In(r.group) = {}
     /\ ~r.named =>
          /\ pc[w] \in {"maxSort", "insert", "update"} => OrderIsRight(r)
          /\ pc[w] \in {"insert", "update"} => SortIsRight(r)
          /\ pc[w] \in {"group", "maxGroup", "maxSort"} => r.sort = Null /\ r.code \notin In(r.group)

IInv ==
  /\ TypeOK
  /\ \A w \in Workers : Progress(w) /\ (disturbed[w] \/ Finding(w))

\* What a worker without a request has found out holds.
LEMMA IdleFinds ==
  ASSUME NEW w \in Workers, At(w, "idle")
  PROVE  Progress(w) /\ Finding(w)
BY DEF Progress, Finding, At

\* A step that leaves the table alone takes nothing from other requests.
LEMMA OthersFind ==
  ASSUME IInv, UNCHANGED rows, NEW v \in Workers,
         pc'[v] = pc[v], req'[v] = req[v], disturbed'[v] = disturbed[v]
  PROVE  Progress(v)' /\ (disturbed'[v] \/ Finding(v)')
<1>1. Live' = Live /\ GroupOrders' = GroupOrders /\ \A g : In(g)' = In(g) /\ SortOrders(g)' = SortOrders(g)
  BY DEF Live, In, GroupOrders, SortOrders
<1>2. Progress(v)'
  BY DEF IInv, Progress
<1>3. ASSUME Finding(v) PROVE Finding(v)'
  BY <1>1, <1>3 DEF Finding, OrderIsRight, SortIsRight, At
<1> QED BY <1>2, <1>3 DEF IInv

\* So a step that goes on with request r has to show what r has found.
LEMMA GoOnFinds ==
  ASSUME IInv, TypeOK', NEW w \in Workers, NEW r, NEW b \in BOOLEAN, GoOn(w, r, b),
         Progress(w)', disturbed'[w] \/ Finding(w)'
  PROVE  IInv'
<1>1. ASSUME NEW v \in Workers, v # w
      PROVE  Progress(v)' /\ (disturbed'[v] \/ Finding(v)')
  BY <1>1, OthersFind DEF GoOn, IInv, TypeOK
<1> QED BY <1>1 DEF IInv

\* A step that ends a request leaves nobody who has not found what holds.
LEMMA EndFinds ==
  ASSUME IInv, TypeOK', NEW w \in Workers
  PROVE  /\ Answer(w) => IInv'
         /\ \A t : Write(w, t) => IInv'
<1>1. ASSUME Answer(w) PROVE IInv'
  <2>1. At(w, "idle")'
    BY <1>1 DEF Answer, Return, At, IInv, TypeOK
  <2>2. Progress(w)' /\ Finding(w)'
    BY <2>1 DEF Progress, Finding, At
  <2>3. ASSUME NEW v \in Workers, v # w
        PROVE  Progress(v)' /\ (disturbed'[v] \/ Finding(v)')
    BY <1>1, <2>3, OthersFind DEF Answer, Return, IInv, TypeOK
  <2> QED BY <2>2, <2>3 DEF IInv
<1>2. ASSUME NEW t, Write(w, t) PROVE IInv'
  <2> SUFFICES ASSUME NEW v \in Workers PROVE Progress(v)' /\ (disturbed'[v] \/ Finding(v)')
    BY DEF IInv
  <2>1. CASE At(v, "idle")'
    BY <2>1 DEF Progress, Finding, At
  <2>2. CASE ~At(v, "idle")'
    <3>1. v # w /\ pc'[v] = pc[v] /\ req'[v] = req[v]
      BY <1>2, <2>2 DEF Write, Return, At, IInv, TypeOK
    <3>2. disturbed'[v]
      BY <1>2, <2>2, <3>1 DEF Write, At
    <3>3. Progress(v)'
      BY <3>1 DEF IInv, Progress
    <3> QED BY <3>2, <3>3
  <2> QED BY <2>1, <2>2
<1> QED BY <1>1, <1>2

\* A request that is asked has found what it has read.
LEMMA InvAsk ==
  ASSUME IInv, TypeOK', NEW w \in Workers, Ask(w)
  PROVE  IInv'
<1> USE DEF At
<1> SUFFICES ASSUME NEW g \in Groups, NEW order \in Named
             PROVE  /\ \A c \in Codes, sort \in Sorts :
                         Create(w, c, g, sort, order) \/ Update(w, c, g, sort, order) => IInv'
                    /\ \A new \in Groups : Rename(w, g, new, order) => IInv'
  BY DEF Ask
<1>0. FALSE \in BOOLEAN /\ TypeOK
  BY DEF IInv
<1>a. ASSUME UNCHANGED rows
      PROVE  /\ Live' = Live /\ GroupOrders' = GroupOrders
             /\ \A h : In(h)' = In(h) /\ SortOrders(h)' = SortOrders(h)
  BY <1>a DEF Live, In, GroupOrders, SortOrders
<1>1. ASSUME NEW c \in Codes, NEW sort \in Sorts, Create(w, c, g, sort, order)
      PROVE  IInv'
  <2> DEFINE r == [NoRequest EXCEPT !.code = c, !.group = g, !.sort = sort, !.order = order,
                                   !.goal = "insert", !.named = sort # Null \/ order # Null]
  <2>1. /\ r.code = c /\ r.group = g /\ r.sort = sort /\ r.order = order /\ r.goal = "insert"
        /\ r.named <=> sort # Null \/ order # Null
    BY DEF NoRequest
  <2>2. GoOn(w, r, FALSE) /\ c \notin Live
    BY <1>1 DEF Create
  <2> HIDE DEF r
  <2>3. pc'[w] = Whither(r) /\ req'[w] = r /\ UNCHANGED rows
    BY <1>0, <2>2 DEF GoOn, TypeOK
  <2>4. c \notin In(g)
    BY <2>2 DEF In
  <2>5. Progress(w)'
    BY <2>1, <2>3 DEF Progress, Whither
  <2>6. Finding(w)'
    BY <1>a, <2>1, <2>2, <2>3, <2>4 DEF Finding, Whither
  <2> QED BY <1>0, <2>2, <2>5, <2>6, GoOnFinds
<1>2. ASSUME NEW c \in Codes, NEW sort \in Sorts, Update(w, c, g, sort, order)
      PROVE  IInv'
  <2> DEFINE moving == rows[c].group # g
             s == Default(sort, moving, rows[c].sort)
             o == Default(order, moving, rows[c].order)
             r == [NoRequest EXCEPT !.code = c, !.group = g, !.sort = s, !.order = o,
                                    !.goal = "update", !.named = sort # Null \/ order # Null]
  <2>1. /\ r.code = c /\ r.group = g /\ r.sort = s /\ r.order = o /\ r.goal = "update"
        /\ r.named <=> sort # Null \/ order # Null
    BY DEF NoRequest
  <2>2. GoOn(w, r, FALSE) /\ c \in Live
    BY <1>2 DEF Update
  <2>3. pc'[w] = Whither(r) /\ req'[w] = r /\ UNCHANGED rows
    BY <1>0, <2>2 DEF GoOn, TypeOK
  <2>4. c \in In(g) <=> ~moving
    BY <2>2 DEF In
  <2>5. /\ rows[c].sort # Null /\ rows[c].order # Null
        /\ sort = Null /\ order = Null /\ moving => s = Null /\ o = Null
        /\ sort = Null /\ order = Null /\ ~moving => s = rows[c].sort /\ o = rows[c].order
    BY <1>0, <2>2, Tables DEF Default
  <2> HIDE DEF r, s, o, moving
  <2>6. Progress(w)'
    BY <2>1, <2>3 DEF Progress, Whither
  <2>7. Finding(w)'
    <3>1. CASE r.named
      BY <1>a, <2>1, <2>2, <2>3, <3>1 DEF Finding, Whither
    <3>2. CASE ~r.named /\ moving
      BY <1>a, <2>1, <2>2, <2>3, <2>4, <2>5, <3>2 DEF Finding, Whither
    <3>3. CASE ~r.named /\ ~moving
      <4>1. pc'[w] = "update" /\ c \in In(g) /\ r.sort = rows[c].sort /\ r.order = rows[c].order
        BY <2>1, <2>3, <2>4, <2>5, <3>3 DEF Whither
      <4> QED BY <1>a, <2>1, <2>2, <2>3, <4>1 DEF Finding, OrderIsRight, SortIsRight
    <3> QED BY <3>1, <3>2, <3>3
  <2> QED BY <1>0, <2>2, <2>6, <2>7, GoOnFinds
<1>3. ASSUME NEW new \in Groups, Rename(w, g, new, order)
      PROVE  IInv'
  <2>1. PICK c \in In(g) :
          GoOn(w, [NoRequest EXCEPT !.group = new, !.sort = 0, !.goal = "rename",
                     !.order = IF order = Null THEN rows[c].order ELSE order,
                     !.named = order # Null, !.old = g, !.seen = In(g)], FALSE)
    BY <1>3 DEF Rename
  <2> DEFINE o == IF order = Null THEN rows[c].order ELSE order
             r == [NoRequest EXCEPT !.group = new, !.sort = 0, !.goal = "rename", !.order = o,
                                    !.named = order # Null, !.old = g, !.seen = In(g)]
  <2>2. /\ r.goal = "rename" /\ r.order = o /\ r.sort = 0 /\ (r.named <=> order # Null)
        /\ r.old = g /\ r.seen = In(g)
    BY DEF NoRequest
  <2>3. GoOn(w, r, FALSE)
    BY <2>1
  <2>4. o # Null /\ 0 # Null /\ (order = Null => o = rows[c].order)
    BY <1>0, <2>1, Tables, CategoryOrderConstants
  <2> HIDE DEF r, o
  <2>5. pc'[w] = "rename" /\ req'[w] = r /\ UNCHANGED rows
    BY <1>0, <2>2, <2>3, <2>4 DEF GoOn, TypeOK, Whither
  <2>6. Progress(w)'
    BY <2>2, <2>5 DEF Progress
  <2>7. Finding(w)'
    BY <1>a, <2>1, <2>2, <2>4, <2>5 DEF Finding
  <2> QED BY <1>0, <2>3, <2>6, <2>7, GoOnFinds
<1> QED BY <1>1, <1>2, <1>3

\* A statement finds what it reads, or an error is passed over.
LEMMA InvStatement ==
  ASSUME IInv, TypeOK', NEW w \in Workers, Statement(w)
  PROVE  IInv'
<1> USE DEF At
<1>0. /\ FALSE \in BOOLEAN /\ TRUE \in BOOLEAN /\ TypeOK /\ req[w] \in Requests
      /\ Progress(w) /\ (disturbed[w] \/ Finding(w))
  BY DEF IInv, TypeOK
<1>a. ASSUME UNCHANGED rows
      PROVE  /\ Live' = Live /\ GroupOrders' = GroupOrders
             /\ \A h : In(h)' = In(h) /\ SortOrders(h)' = SortOrders(h)
  BY <1>a DEF Live, In, GroupOrders, SortOrders
<1>b. ASSUME NEW r, NEW b, GoOn(w, r, b)
      PROVE  /\ pc'[w] = Whither(r) /\ req'[w] = r /\ UNCHANGED rows
             /\ disturbed'[w] <=> disturbed[w] \/ b
  BY <1>0, <1>b DEF GoOn, TypeOK
\* A request that has found an order.
<1>c. ASSUME NEW n \in Nat, NEW b \in BOOLEAN, GoOn(w, [req[w] EXCEPT !.order = n], b),
             pc[w] \in {"group", "maxGroup"},
             b \/ disturbed[w] \/ OrderIsRight([req[w] EXCEPT !.order = n])
      PROVE  IInv'
  <2> DEFINE r == [req[w] EXCEPT !.order = n]
  <2>1. /\ r.code = req[w].code /\ r.group = req[w].group /\ r.sort = req[w].sort /\ r.order = n
        /\ r.goal = req[w].goal /\ r.named = req[w].named
    BY <1>0 DEF Requests
  <2>2. n # Null
    BY CategoryOrderConstants
  <2> HIDE DEF r
  <2>3. /\ pc'[w] = Whither(r) /\ req'[w] = r /\ UNCHANGED rows
        /\ disturbed'[w] <=> disturbed[w] \/ b
    BY <1>b, <1>c DEF r
  <2>4. pc'[w] \in {"maxSort", "insert", "update"} /\ (pc'[w] = "maxSort" <=> r.sort = Null)
        /\ (pc'[w] # "maxSort" => r.goal = pc'[w]) /\ r.goal \in {"insert", "update"}
    BY <1>0, <1>c, <2>1, <2>2, <2>3 DEF Whither, Progress
  <2>5. Progress(w)'
    BY <2>1, <2>2, <2>3, <2>4 DEF Progress
  <2>6. disturbed'[w] \/ Finding(w)'
    <3> SUFFICES ASSUME ~b, ~disturbed[w] PROVE Finding(w)'
      BY <2>3
    <3>1. OrderIsRight(r) /\ Finding(w)
      BY <1>0, <1>c DEF r
    <3>2. OrderIsRight(req[w])'
      BY <1>a, <2>3, <3>1 DEF OrderIsRight
    <3>3. ~r.named => r.sort = Null /\ r.code \notin In(r.group)
      BY <1>c, <2>1, <3>1 DEF Finding
    <3> QED BY <1>a, <1>c, <2>1, <2>3, <2>4, <3>1, <3>2, <3>3 DEF Finding, OrderIsRight
  <2> QED BY <1>c, <2>5, <2>6, GoOnFinds DEF r
<1>1. CASE FindGroupOrder(w)
  <2>1. ASSUME NEW c \in In(req[w].group), GoOn(w, [req[w] EXCEPT !.order = rows[c].order], FALSE)
        PROVE  IInv'
    <3>1. rows[c].order \in Nat /\ OrderIsRight([req[w] EXCEPT !.order = rows[c].order])
      BY <1>0, <2>1, Tables DEF OrderIsRight, Requests
    <3> QED BY <1>0, <1>1, <1>c, <2>1, <3>1 DEF FindGroupOrder
  <2>2. ASSUME NEW failed \in BOOLEAN, failed \/ In(req[w].group) = {},
               pc' = [pc EXCEPT ![w] = "maxGroup"],
               disturbed' = [disturbed EXCEPT ![w] = @ \/ failed],
               UNCHANGED <<rows, req>>
        PROVE  IInv'
    <3>1. pc'[w] = "maxGroup" /\ req'[w] = req[w] /\ (disturbed'[w] <=> disturbed[w] \/ failed)
      BY <1>0, <2>2 DEF TypeOK
    <3>2. Progress(w)' /\ (disturbed'[w] \/ Finding(w)')
      BY <1>0, <1>1, <1>a, <2>2, <3>1 DEF FindGroupOrder, Progress, Finding
    <3>3. ASSUME NEW v \in Workers, v # w
          PROVE  Progress(v)' /\ (disturbed'[v] \/ Finding(v)')
      BY <1>0, <2>2, <3>3, OthersFind DEF TypeOK
    <3> QED BY <3>2, <3>3 DEF IInv
  <2> QED BY <1>1, <2>1, <2>2 DEF FindGroupOrder
<1>2. CASE MaxGroupOrder(w)
  <2>1. ASSUME NEW n \in Next1(GroupOrders), GoOn(w, [req[w] EXCEPT !.order = n], FALSE)
        PROVE  IInv'
    <3>1. n \in Nat /\ n \notin GroupOrders
      BY <1>0, NextIsNew, Tables
    <3>2. disturbed[w] \/ OrderIsRight([req[w] EXCEPT !.order = n])
      BY <1>0, <1>2, <3>1 DEF OrderIsRight, Requests, Finding, MaxGroupOrder
    <3> QED BY <1>0, <1>2, <1>c, <2>1, <3>1, <3>2 DEF MaxGroupOrder
  <2>2. ASSUME GoOn(w, [req[w] EXCEPT !.order = 1], TRUE)
        PROVE  IInv'
    BY <1>0, <1>2, <1>c, <2>2 DEF MaxGroupOrder
  <2> QED BY <1>2, <2>1, <2>2 DEF MaxGroupOrder
<1>3. CASE MaxSortOrder(w)
  <2>1. PICK n \in Nat, b \in BOOLEAN :
          /\ GoOn(w, [req[w] EXCEPT !.sort = n], b)
          /\ b \/ n \notin SortOrders(req[w].group)
    BY <1>0, <1>3, NextIsNew, Tables DEF MaxSortOrder
  <2> DEFINE r == [req[w] EXCEPT !.sort = n]
  <2>2. /\ r.code = req[w].code /\ r.group = req[w].group /\ r.sort = n /\ r.order = req[w].order
        /\ r.goal = req[w].goal /\ r.named = req[w].named
    BY <1>0 DEF Requests
  <2>3. n # Null
    BY CategoryOrderConstants
  <2> HIDE DEF r
  <2>4. /\ pc'[w] = Whither(r) /\ req'[w] = r /\ UNCHANGED rows
        /\ disturbed'[w] <=> disturbed[w] \/ b
    BY <1>b, <2>1 DEF r
  <2>5. r.goal \in {"insert", "update"}
    BY <1>0, <1>3, <2>2 DEF Progress, MaxSortOrder
  <2>6. Progress(w)'
    BY <1>0, <1>3, <2>2, <2>3, <2>4, <2>5 DEF Progress, Whither, MaxSortOrder
  <2>7. disturbed'[w] \/ Finding(w)'
    <3> SUFFICES ASSUME ~b, ~disturbed[w] PROVE Finding(w)'
      BY <2>4
    <3>1. Finding(w) /\ pc[w] = "maxSort"
      BY <1>0, <1>3 DEF MaxSortOrder
    <3>2. ~r.named => OrderIsRight(req[w]) /\ r.code \notin In(r.group) /\ n \notin SortOrders(r.group)
      BY <2>1, <2>2, <3>1 DEF Finding
    <3>3. ~r.named => OrderIsRight(req[w])'
      BY <1>a, <2>2, <2>4, <3>2 DEF OrderIsRight
    <3>4. ~r.named => SortIsRight(req[w])'
      BY <1>a, <2>2, <2>4, <3>2 DEF SortIsRight
    <3>5. pc'[w] = r.goal
      BY <1>0, <1>3, <2>2, <2>3, <2>4 DEF Progress, Whither, MaxSortOrder
    <3> QED BY <1>a, <2>2, <2>4, <2>5, <3>1, <3>3, <3>4, <3>5 DEF Finding
  <2> QED BY <1>0, <2>1, <2>6, <2>7, GoOnFinds DEF r
<1>4. CASE Insert(w) \/ UpdateRow(w) \/ RenameRows(w)
  BY <1>4, EndFinds DEF Insert, UpdateRow, RenameRows
<1> QED BY <1>1, <1>2, <1>3, <1>4 DEF Statement

LEMMA InvInit == Init => IInv
BY InitType DEF Init, IInv, Progress, Finding, At

LEMMA InvNext == IInv /\ [Next]_vars => IInv'
<1> SUFFICES ASSUME IInv, [Next]_vars PROVE IInv'
  OBVIOUS
<1>1. TypeOK'
  BY NextType DEF IInv
<1>2. CASE UNCHANGED vars
  BY <1>1, <1>2, OthersFind DEF vars, IInv
<1>3. ASSUME NEW w \in Workers, Ask(w) \/ Statement(w) \/ Abort(w) PROVE IInv'
  BY <1>1, <1>3, InvAsk, InvStatement, EndFinds DEF Abort
<1>4. ASSUME NEW c \in Codes, Delete(c) PROVE IInv'
  <2> SUFFICES ASSUME NEW v \in Workers PROVE Progress(v)' /\ (disturbed'[v] \/ Finding(v)')
    BY <1>1 DEF IInv
  <2>1. Progress(v)'
    BY <1>4 DEF Delete, IInv, Progress
  <2>2. CASE At(v, "idle")'
    BY <2>1, <2>2 DEF Finding, At
  <2>3. CASE ~At(v, "idle")'
    BY <1>4, <2>1, <2>3 DEF Delete, At
  <2> QED BY <2>1, <2>2, <2>3
<1> QED BY <1>2, <1>3, <1>4 DEF Next

LEMMA Invariance == Spec => []IInv
BY InvInit, InvNext, PTL DEF Spec

-----------------------------------------------------------------------------
(* Theorems                                                                *)

\* Undisturbed, a creation finds its code free, a change its category, and a
\* rename is answered with the categories it renames.
THEOREM LoneRequestsAreRight == Spec => []LoneRequestsHold
<1>1. IInv => LoneRequestsHold
  BY DEF IInv, LoneRequestsHold, Progress, Finding, At
<1> QED BY <1>1, Invariance, PTL

\* A row that is added or changed with orders that are right keeps the order.
LEMMA RightRowKeepsOrder ==
  ASSUME TypeOK, Orderly, NEW w \in Workers, req[w].code \in Codes,
         OrderIsRight(req[w]), SortIsRight(req[w]),
         rows' = [rows EXCEPT ![req[w].code] = RowOf(w)]
  PROVE  Orderly'
<1> DEFINE x == req[w].code
           g == req[w].group
<1>1. /\ rows'[x].group = g /\ rows'[x].sort = req[w].sort /\ rows'[x].order = req[w].order
      /\ \A c \in Codes : c # x => rows'[c] = rows[c]
  BY DEF TypeOK, RowOf
<1>2. Live' \subseteq Live \cup {x} /\ Live' \subseteq Codes
  BY <1>1 DEF Live
<1>3. ASSUME NEW d \in Live, d # x
      PROVE  /\ g = rows[d].group <=> req[w].order = rows[d].order
             /\ g = rows[d].group => req[w].sort # rows[d].sort
  <2>1. g = rows[d].group <=> req[w].order = rows[d].order
    BY <1>3 DEF Orderly, OrderIsRight, In, GroupOrders
  <2>2. g = rows[d].group => req[w].sort # rows[d].sort
    BY <1>3 DEF Orderly, SortIsRight, In, SortOrders
  <2> QED BY <2>1, <2>2
<1> HIDE DEF x, g
<1>4. ASSUME NEW c \in Live', NEW d \in Live', c # d
      PROVE  /\ rows'[c].group = rows'[d].group <=> rows'[c].order = rows'[d].order
             /\ rows'[c].group = rows'[d].group => rows'[c].sort # rows'[d].sort
  <2>1. CASE c # x /\ d # x
    BY <1>1, <1>2, <1>4, <2>1 DEF Orderly
  <2>2. CASE c = x
    BY <1>1, <1>2, <1>3, <1>4, <2>2
  <2>3. CASE d = x
    BY <1>1, <1>2, <1>3, <1>4, <2>3
  <2> QED BY <2>1, <2>2, <2>3
<1> QED BY <1>4 DEF Orderly

\* So does a rename to a label nobody has.
LEMMA RenameKeepsOrder ==
  ASSUME TypeOK, Orderly, NEW w \in Workers, At(w, "rename"), ~Merges(w),
         \E c \in In(req[w].old) : req[w].order = rows[c].order,
         rows' = Renamed(w)
  PROVE  Orderly'
<1>1. Live' = Live /\ Live \subseteq Codes
  <2>1. req[w].group \in Groups
    BY DEF TypeOK, At
  <2>2. ASSUME NEW c \in In(req[w].old) PROVE rows'[c] # Null /\ rows[c] # Null
    <3>1. rows[c] \in Rows /\ c \in Codes /\ req[w].order \in Orders
      BY Tables DEF Rows, Orderly, In
    <3>2. rows'[c] \in Rows
      BY <2>1, <3>1 DEF Renamed, Rows
    <3> QED BY <3>1, <3>2, CategoryOrderConstants
  <2>3. \A c \in Codes : c \notin In(req[w].old) => rows'[c] = rows[c]
    BY DEF Renamed
  <2> QED BY <2>2, <2>3 DEF Live
<1>2. ASSUME NEW c \in In(req[w].old)
      PROVE  /\ rows'[c].group = req[w].group /\ rows'[c].order = rows[c].order
             /\ rows'[c].sort = rows[c].sort /\ c \in Live
  <2>1. rows[c] \in Rows /\ c \in Live /\ c \in Codes
    BY Tables
  <2>2. rows[c].order = req[w].order
    BY DEF Orderly, In
  <2> QED BY <2>1, <2>2 DEF Renamed, Rows
<1>3. ASSUME NEW c \in Live, c \notin In(req[w].old)
      PROVE  rows'[c] = rows[c] /\ rows[c].group # req[w].old /\ rows[c].group # req[w].group
  BY <1>1, <1>3 DEF Renamed, Merges, In
<1>4. ASSUME NEW c \in Live', NEW d \in Live', c # d
      PROVE  /\ rows'[c].group = rows'[d].group <=> rows'[c].order = rows'[d].order
             /\ rows'[c].group = rows'[d].group => rows'[c].sort # rows'[d].sort
  <2>1. /\ rows[c].group = rows[d].group <=> rows[c].order = rows[d].order
        /\ rows[c].group = rows[d].group => rows[c].sort # rows[d].sort
    BY <1>1, <1>4 DEF Orderly
  <2>2. \A e \in Live : e \in In(req[w].old) <=> rows[e].group = req[w].old
    BY DEF In
  <2> QED BY <1>1, <1>2, <1>3, <2>1, <2>2
<1> QED BY <1>4 DEF Orderly

\* The list gets out of order only through who names an order, merges groups or
\* was overtaken.
THEOREM DisorderHasExcuse == Spec => DisorderIsExcused
<1> DEFINE Excused(w) == Writes(w) /\ (req[w].named \/ Merges(w) \/ disturbed[w])
<1>1. IInv /\ [Next]_vars => [Orderly /\ ~Orderly' => \E w \in Workers : Excused(w)]_vars
  <2> SUFFICES ASSUME IInv, Next, Orderly, ~Orderly' PROVE \E w \in Workers : Excused(w)
    OBVIOUS
  <2>0. TypeOK
    BY DEF IInv
  <2>1. ~UNCHANGED rows
    BY DEF Orderly, Live
  <2>2. ASSUME NEW c \in Codes, Delete(c) PROVE FALSE
    <3>1. Live' \subseteq Live /\ \A d \in Live' : rows'[d] = rows[d]
      BY <2>0, <2>2 DEF Delete, Live, TypeOK
    <3> QED BY <3>1 DEF Orderly
  <2>3. PICK w \in Workers : Insert(w) \/ UpdateRow(w) \/ RenameRows(w)
    <3>1. ASSUME NEW w \in Workers, Ask(w) PROVE UNCHANGED rows
      <4>1. ASSUME NEW r, NEW p, GoOn(w, r, p) PROVE UNCHANGED rows
        BY <4>1 DEF GoOn
      <4>2. ASSUME NEW c, NEW g, NEW sort, NEW order,
                   Create(w, c, g, sort, order) \/ Update(w, c, g, sort, order)
            PROVE  UNCHANGED rows
        BY <4>1, <4>2 DEF Create, Update
      <4>3. ASSUME NEW g, NEW new, NEW order, Rename(w, g, new, order) PROVE UNCHANGED rows
        BY <4>1, <4>3 DEF Rename
      <4> QED BY <3>1, <4>2, <4>3 DEF Ask
    <3>2. ASSUME NEW w \in Workers, FindGroupOrder(w) \/ MaxGroupOrder(w) \/ MaxSortOrder(w)
          PROVE  UNCHANGED rows
      BY <3>2 DEF FindGroupOrder, MaxGroupOrder, MaxSortOrder, GoOn
    <3>3. ASSUME NEW w \in Workers, Abort(w) PROVE UNCHANGED rows
      BY <3>3 DEF Abort, Answer
    <3> QED BY <2>1, <2>2, <3>1, <3>2, <3>3 DEF Next, Statement
  <2>4. Writes(w)
    BY <2>0, <2>3 DEF Insert, UpdateRow, RenameRows, Write, Answer, Return, Writes, At, TypeOK
  <2>5. CASE ~req[w].named /\ ~Merges(w) /\ ~disturbed[w]
    <3>1. Progress(w) /\ Finding(w)
      BY <2>5 DEF IInv
    <3>2. CASE Insert(w) \/ UpdateRow(w)
      <4>1. rows' = [rows EXCEPT ![req[w].code] = RowOf(w)]
        BY <2>1, <3>2 DEF Insert, UpdateRow, Write, Answer
      <4>2. OrderIsRight(req[w]) /\ SortIsRight(req[w]) /\ req[w].code \in Codes
        BY <2>5, <3>1, <3>2 DEF Insert, UpdateRow, Finding, Progress, At, Live
      <4> QED BY <2>0, <4>1, <4>2, RightRowKeepsOrder
    <3>3. CASE RenameRows(w)
      <4>1. rows' = Renamed(w) /\ At(w, "rename")
        BY <2>1, <3>3 DEF RenameRows, Write, Answer
      <4>2. \E c \in In(req[w].old) : req[w].order = rows[c].order
        BY <2>5, <3>1, <4>1 DEF Finding
      <4> QED BY <2>0, <2>5, <4>1, <4>2, RenameKeepsOrder
    <3> QED BY <2>3, <3>2, <3>3
  <2> QED BY <2>4, <2>5
<1> QED BY <1>1, Invariance, PTL DEF Spec, DisorderIsExcused
=============================================================================
