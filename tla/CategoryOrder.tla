--------------------------- MODULE CategoryOrder ---------------------------
(***************************************************************************)
(* The groups of resource categories, and the order they are listed in     *)
(* (http/resource_categories).                                             *)
(*                                                                         *)
(* There is no table of groups: every category carries the label of its    *)
(* group and the order of that group, next to its own order within it.     *)
(* Each handler reads what it takes the orders from and writes them with   *)
(* the last of its statements, and no constraint stands behind it.         *)
(* Resources tells which categories may be deleted.                        *)
(***************************************************************************)
EXTENDS Integers, FiniteSets

CONSTANTS
  Codes,     \* the codes of categories, unique in the table
  Groups,    \* labels of groups
  Seeds,     \* the rows the migrations leave
  Sorts,     \* the orders in their group that requests name; Null for none
  Named,     \* the orders of groups that requests name; Null for none
  Workers,   \* the goroutines that serve requests
  Null,
  MaxOrder   \* the greatest INT of the column; a small bound in the instances

Orders == 0 .. MaxOrder
Rows   == [group : Groups, sort : Orders, order : Orders]

ASSUME CategoryOrderConstants ==
  /\ MaxOrder \in Nat
  /\ Seeds \in [Codes -> Rows \cup {Null}]
  /\ Sorts \cup Named \subseteq Nat \cup {Null}
  /\ Null \notin Codes \cup Groups \cup Rows \cup Int

VARIABLES
  rows,       \* resource_categories, by code
  pc,         \* the statement each worker runs next
  req,        \* what its request says and what it has read
  disturbed   \* history: another request wrote, or an error was passed over, since it began

vars == <<rows, pc, req, disturbed>>

Requests ==
  [code : Codes \cup {Null},             \* the category to create or to change
   group : Groups \cup {Null},           \* the label it, or the group, gets
   sort : Nat \cup {Null},
   order : Nat \cup {Null},
   goal : {"insert", "update", "rename", "idle"},   \* the statement that writes
   named : BOOLEAN,                      \* whether the request names an order
   old : Groups \cup {Null},             \* the group to rename
   seen : SUBSET Codes]                  \* the categories read of it

NoRequest ==
  [code |-> Null, group |-> Null, sort |-> Null, order |-> Null, goal |-> "idle", named |-> FALSE,
   old |-> Null, seen |-> {}]

ControlPoints == {"idle", "group", "maxGroup", "maxSort", "insert", "update", "rename"}

TypeOK ==
  /\ rows \in [Codes -> Rows \cup {Null}]
  /\ pc \in [Workers -> ControlPoints]
  /\ req \in [Workers -> Requests]
  /\ \A w \in Workers : pc[w] # "idle" => req[w].group \in Groups
  /\ disturbed \in [Workers -> BOOLEAN]

Init ==
  /\ rows = Seeds
  /\ pc = [w \in Workers |-> "idle"]
  /\ req = [w \in Workers |-> NoRequest]
  /\ disturbed = [w \in Workers |-> FALSE]

-----------------------------------------------------------------------------
At(w, label) == pc[w] = label

Live == {c \in Codes : rows[c] # Null}

In(g) == {c \in Live : rows[c].group = g}

\* COALESCE(MAX(...), 0) + 1 of the numbers in S.
Next1(S) == IF S = {} THEN {1} ELSE {n + 1 : n \in {m \in S : \A k \in S : k <= m}}

GroupOrders    == {rows[c].order : c \in Live}
SortOrders(g) == {rows[c].sort : c \in In(g)}

\* The statement that comes next for what a request has found out so far.
Whither(r) ==
  IF r.order = Null THEN "group" ELSE IF r.sort = Null THEN "maxSort" ELSE r.goal

GoOn(w, r, passedOver) ==
  /\ pc' = [pc EXCEPT ![w] = Whither(r)]
  /\ req' = [req EXCEPT ![w] = r]
  /\ disturbed' = [disturbed EXCEPT ![w] = @ \/ passedOver]
  /\ UNCHANGED rows

Return(w) ==
  /\ pc' = [pc EXCEPT ![w] = "idle"]
  /\ req' = [req EXCEPT ![w] = NoRequest]

\* The handler returns, and has written nothing.
Answer(w) ==
  /\ Return(w)
  /\ disturbed' = [disturbed EXCEPT ![w] = FALSE]
  /\ UNCHANGED rows

\* The handler writes, which disturbs the others, and returns.
Write(w, table) ==
  /\ rows' = table
  /\ Return(w)
  /\ disturbed' = [v \in Workers |-> v # w /\ ~At(v, "idle")]

Fits(r) == r.sort \in Orders /\ r.order \in Orders

-----------------------------------------------------------------------------
(* CreateCategory and UpdateCategory                                       *)

\* Variant of Create: the code is made of the label, whoever has it.
CreateUnresolved(w, c, g, sort, order) ==
  /\ At(w, "idle")
  /\ GoOn(w, [NoRequest EXCEPT !.code = c, !.group = g, !.sort = sort, !.order = order,
                               !.goal = "insert", !.named = sort # Null \/ order # Null], FALSE)

\* ResolveCategoryCode has found a code that nobody has.
Create(w, c, g, sort, order) ==
  /\ At(w, "idle")
  /\ c \notin Live
  /\ GoOn(w, [NoRequest EXCEPT !.code = c, !.group = g, !.sort = sort, !.order = order,
                               !.goal = "insert", !.named = sort # Null \/ order # Null], FALSE)

\* An order that is not named stays as it was read, unless the category moves
\* to another group.
Default(given, moving, read) == IF given = Null /\ ~moving THEN read ELSE given

\* SELECT group_label, group_order, sort_order.
Update(w, c, g, sort, order) ==
  /\ At(w, "idle")
  /\ c \in Live
  /\ LET moving == rows[c].group # g
     IN GoOn(w, [NoRequest EXCEPT !.code = c, !.group = g,
                   !.sort = Default(sort, moving, rows[c].sort),
                   !.order = Default(order, moving, rows[c].order),
                   !.goal = "update", !.named = sort # Null \/ order # Null], FALSE)

\* SELECT group_order ... LIMIT 1: that of any category of the group; a statement
\* that fails has found none.
FindGroupOrder(w) ==
  /\ At(w, "group")
  /\ \/ \E c \in In(req[w].group) : GoOn(w, [req[w] EXCEPT !.order = rows[c].order], FALSE)
     \/ \E failed \in BOOLEAN :
          /\ failed \/ In(req[w].group) = {}
          /\ pc' = [pc EXCEPT ![w] = "maxGroup"]
          /\ disturbed' = [disturbed EXCEPT ![w] = @ \/ failed]
          /\ UNCHANGED <<rows, req>>

\* Variant of MaxGroupOrder: the groups are counted.
CountGroups(w) ==
  /\ At(w, "maxGroup")
  /\ GoOn(w, [req[w] EXCEPT !.order = Cardinality(GroupOrders) + 1], FALSE)

\* SELECT COALESCE(MAX(group_order), 0); nothing counts as 0 when it fails.
MaxGroupOrder(w) ==
  /\ At(w, "maxGroup")
  /\ \/ \E n \in Next1(GroupOrders) : GoOn(w, [req[w] EXCEPT !.order = n], FALSE)
     \/ GoOn(w, [req[w] EXCEPT !.order = 1], TRUE)

\* SELECT COALESCE(MAX(sort_order), 0), of the group.
MaxSortOrder(w) ==
  /\ At(w, "maxSort")
  /\ \/ \E n \in Next1(SortOrders(req[w].group)) : GoOn(w, [req[w] EXCEPT !.sort = n], FALSE)
     \/ GoOn(w, [req[w] EXCEPT !.sort = 1], TRUE)

RowOf(w) == [group |-> req[w].group, sort |-> req[w].sort, order |-> req[w].order]

\* Variant of Insert: an order too great is not refused.
InsertAny(w) ==
  /\ At(w, "insert")
  /\ IF req[w].code \notin Live
       THEN Write(w, [rows EXCEPT ![req[w].code] = RowOf(w)])
       ELSE Answer(w)

\* INSERT: refused for a code that was taken meanwhile or an order too great.
Insert(w) ==
  /\ At(w, "insert")
  /\ IF Fits(req[w]) /\ req[w].code \notin Live
       THEN Write(w, [rows EXCEPT ![req[w].code] = RowOf(w)])
       ELSE Answer(w)

\* UPDATE ... WHERE code, which may have no row any more.
UpdateRow(w) ==
  /\ At(w, "update")
  /\ IF Fits(req[w]) /\ req[w].code \in Live
       THEN Write(w, [rows EXCEPT ![req[w].code] = RowOf(w)])
       ELSE Answer(w)

-----------------------------------------------------------------------------
(* UpdateGroupLabel, DeleteCategory                                        *)

\* SELECT ... WHERE group_label: 404 without rows; the order is that of the first.
\* (A rename has no order within the group; 0 stands for it.)
Rename(w, g, new, order) ==
  /\ At(w, "idle")
  /\ In(g) # {}
  /\ \E c \in In(g) :
       GoOn(w, [NoRequest EXCEPT !.group = new, !.sort = 0, !.goal = "rename",
                  !.order = IF order = Null THEN rows[c].order ELSE order,
                  !.named = order # Null, !.old = g, !.seen = In(g)], FALSE)

Renamed(w) ==
  [c \in Codes |-> IF c \in In(req[w].old)
                     THEN [rows[c] EXCEPT !.group = req[w].group, !.order = req[w].order]
                     ELSE rows[c]]

\* UPDATE ... WHERE group_label: of whatever has the label by now.  An error is
\* ignored and answered like a success, with the rows that were read.
RenameRows(w) ==
  /\ At(w, "rename")
  /\ IF Fits(req[w]) THEN Write(w, Renamed(w)) ELSE Answer(w)

\* The DELETE of DeleteCategory.
Delete(c) ==
  /\ c \in Live
  /\ rows' = [rows EXCEPT ![c] = Null]
  /\ disturbed' = [w \in Workers |-> ~At(w, "idle")]
  /\ UNCHANGED <<pc, req>>

\* A statement meets an error, or the process is killed and starts again.
Abort(w) == ~At(w, "idle") /\ Answer(w)

-----------------------------------------------------------------------------
Ask(w) ==
  \E g \in Groups, order \in Named :
    \/ \E c \in Codes, sort \in Sorts :
         Create(w, c, g, sort, order) \/ Update(w, c, g, sort, order)
    \/ \E new \in Groups : Rename(w, g, new, order)

Statement(w) ==
  \/ FindGroupOrder(w) \/ MaxGroupOrder(w) \/ MaxSortOrder(w)
  \/ Insert(w) \/ UpdateRow(w) \/ RenameRows(w)

Next ==
  \/ \E w \in Workers : Ask(w) \/ Statement(w) \/ Abort(w)
  \/ \E c \in Codes : Delete(c)

Spec == Init /\ [][Next]_vars

-----------------------------------------------------------------------------
(* Properties                                                              *)

\* The list shows every group in one piece, each at a place of its own, and
\* the categories of a group in a definite order.
Orderly ==
  \A c, d \in Live : c # d =>
    /\ rows[c].group = rows[d].group <=> rows[c].order = rows[d].order
    /\ rows[c].group = rows[d].group => rows[c].sort # rows[d].sort

\* The request renames a group to what another group is called.
Merges(w) == At(w, "rename") /\ req[w].group # req[w].old /\ In(req[w].group) # {}

Writes(w) == pc[w] \in {"insert", "update", "rename"} /\ pc'[w] = "idle"

\* An orderly list gets out of order only through a request that names an order
\* itself, that renames a group to the label of another
\* (resource_categories.go:221), or that another one overtook: two that count
\* up from the same maximum (resource_categories.go:78) get the same order.
DisorderIsExcused ==
  [][Orderly /\ ~Orderly' =>
       \E w \in Workers : Writes(w) /\ (req[w].named \/ Merges(w) \/ disturbed[w])]_vars

\* What a request relies on when it writes is still so, unless another one
\* wrote in between or an error was passed over: a new category finds its code
\* free, a change finds its category, and a rename is answered with exactly
\* the categories that it renames, which it read in another statement
\* (resource_categories.go:212-227).
LoneRequestsHold ==
  \A w \in Workers : ~disturbed[w] =>
    /\ At(w, "insert") => req[w].code \notin Live
    /\ At(w, "update") => req[w].code \in Live
    /\ At(w, "rename") => req[w].seen = In(req[w].old)
=============================================================================
