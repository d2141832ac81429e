----------------------------- MODULE Resources -----------------------------
(***************************************************************************)
(* The resources teachers publish and the categories they are filed under. *)
(*                                                                         *)
(* Every handler is a row of SQL statements without a transaction: it      *)
(* reads, decides, and ends with at most one statement that writes.  What  *)
(* it decided on may have changed when it writes (http/resources_teacher,  *)
(* http/resource_categories, http/resources_public, services/resources).   *)
(***************************************************************************)
EXTENDS Naturals, Sequences, FiniteSets

CONSTANTS
  Ids,            \* the UUIDs of resource entries
  Users,          \* teachers and administrators
  Admins,
  Words,          \* what slugs and codes are made of, besides numbers
  Titles,         \* the slugs of the titles requests bring
  Labels,         \* the slugs of the labels of categories
  Seeds,          \* the categories the migrations insert
  Asked,          \* the statuses requests name; Null for none
  Dates,          \* the values of time.Now(), no two alike
  Workers,        \* the goroutines that serve requests
  Null,
  MaxCategories   \* bound: no category is begun once there are so many

\* A slug or a code: words and numbers with dashes between them.
Slugs == Seq(Words \cup Nat)

ASSUME ResourcesConstants ==
  /\ IsFiniteSet(Ids)
  /\ Admins \subseteq Users
  /\ Titles \cup Labels \cup Seeds \subseteq Slugs
  /\ Null \notin Ids \cup Users \cup Slugs \cup Dates \cup {"PUBLISHED", "DRAFT"}
  /\ Asked \subseteq {"PUBLISHED", "DRAFT", Null}
  /\ MaxCategories \in Nat

VARIABLES
  users,       \* the rows of users
  categories,  \* resource_categories: the codes
  entry,       \* resource_entries
  issued,      \* the UUIDs drawn so far
  pc,          \* the statement each worker runs next
  req,         \* what its request says and what it has read
  disturbed    \* history: another request wrote, or an error was passed over, since it began

tables == <<users, categories, entry, issued>>
vars == <<users, categories, entry, issued, pc, req, disturbed>>

\* Any status but PUBLISHED counts as a draft.
Statuses == {"PUBLISHED", "DRAFT"}

Entries ==
  [category : Slugs, author : Users, slug : Slugs, status : Statuses, date : Dates \cup {Null}]

Requests ==
  [id : Ids \cup {Null},                 \* the entry to change
   user : Users \cup {Null},             \* the author of a new one
   category : Slugs \cup {Null},
   name : Slugs \cup {Null},             \* the slug of the title or label
   n : Nat,                              \* the number tried with it; the total of a list
   asked : Statuses \cup {Null},         \* the status; Null when the request names none
   seen : Entries \cup {Null},           \* the row read
   rows : SUBSET (Ids \X Slugs)]         \* entries to show, whose category is still to fetch

NoRequest ==
  [id |-> Null, user |-> Null, category |-> Null, name |-> Null, n |-> 0, asked |-> Null,
   seen |-> Null, rows |-> {}]

ControlPoints ==
  {"idle", "category", "slug", "insert", "update", "delete", "code", "insertCategory", "inUse",
   "drop", "rows", "fetch"}

TypeOK ==
  /\ users \subseteq Users
  /\ categories \subseteq Slugs
  /\ entry \in [Ids -> Entries \cup {Null}]
  /\ issued \subseteq Ids
  /\ pc \in [Workers -> ControlPoints]
  /\ req \in [Workers -> Requests]
  /\ disturbed \in [Workers -> BOOLEAN]

Init ==
  /\ users = Users
  /\ categories = Seeds
  /\ entry = [i \in Ids |-> Null]
  /\ issued = {}
  /\ pc = [w \in Workers |-> "idle"]
  /\ req = [w \in Workers |-> NoRequest]
  /\ disturbed = [w \in Workers |-> FALSE]

-----------------------------------------------------------------------------
At(w, label) == pc[w] = label

Goto(w, label) == pc' = [pc EXCEPT ![w] = label]

Begin(w, label, request) ==
  /\ At(w, "idle")
  /\ Goto(w, label)
  /\ req' = [req EXCEPT ![w] = request]
  /\ UNCHANGED <<tables, disturbed>>

Return(w) ==
  /\ Goto(w, "idle")
  /\ req' = [req EXCEPT ![w] = NoRequest]

\* The handler returns.
Answer(w) == Return(w) /\ disturbed' = [disturbed EXCEPT ![w] = FALSE]

\* It returns after the one statement of it that writes: this disturbs others.
AnswerWritten(w) ==
  /\ Return(w)
  /\ disturbed' = [v \in Workers |-> v # w /\ ~At(v, "idle")]

\* The handler goes on to the statement at label.
Continue(w, label) == Goto(w, label) /\ UNCHANGED <<req, disturbed>>

Live == {i \in Ids : entry[i] # Null}

TakenSlugs == {entry[i].slug : i \in Live}

Used(c) == \E i \in Live : entry[i].category = c

\* The published entries, of category c unless it is Null.
Published(c) ==
  {i \in Live : entry[i].status = "PUBLISHED" /\ (c = Null \/ entry[i].category = c)}

\* The times that time.Now() may return: none that was stored or read before.
Now ==
  Dates \ ({entry[i].date : i \in Live}
             \cup {req[w].seen.date : w \in {v \in Workers : req[v].seen # Null}})

\* The slug itself, then the slug with -2, -3 and so on behind it.
Candidate(name, n) == IF n = 1 THEN name ELSE Append(name, n)

\* One turn of the loops that look for a slug or a code nobody has: SELECT EXISTS.
Try(w, taken, found) ==
  /\ IF Candidate(req[w].name, req[w].n) \in taken
       THEN req' = [req EXCEPT ![w].n = @ + 1] /\ UNCHANGED <<pc, disturbed>>
       ELSE Continue(w, found)
  /\ UNCHANGED tables

-----------------------------------------------------------------------------
(* CreateResource                                                          *)

\* Bound: every creation that is begun finds a UUID.
UuidsLeft == Cardinality({w \in Workers : req[w].user # Null}) < Cardinality(Ids \ issued)

\* Variant of StartCreate: without the default.
StartCreateNoDefault(w, u, c, title, status) ==
  /\ UuidsLeft
  /\ Begin(w, "category",
           [NoRequest EXCEPT !.user = u, !.category = c, !.name = title, !.n = 1,
                             !.asked = status])

\* A request that names no status publishes.
StartCreate(w, u, c, title, status) ==
  /\ UuidsLeft
  /\ Begin(w, "category",
           [NoRequest EXCEPT !.user = u, !.category = c, !.name = title, !.n = 1,
                             !.asked = IF status = Null THEN "PUBLISHED" ELSE status])

\* SELECT EXISTS in resource_categories, for a new entry and for a change.
CheckCategory(w) ==
  /\ At(w, "category")
  /\ IF req[w].category \in categories
       THEN Continue(w, IF req[w].id = Null THEN "slug" ELSE "update")
       ELSE Answer(w)
  /\ UNCHANGED tables

\* Variant of TryResourceSlug: a SELECT that fails is taken for a slug that is taken.
TryAgain(w) ==
  /\ At(w, "slug")
  /\ req[w].n <= Cardinality(Ids) + 1
  /\ \E failed \in BOOLEAN :
       IF failed \/ Candidate(req[w].name, req[w].n) \in TakenSlugs
         THEN req' = [req EXCEPT ![w].n = @ + 1] /\ UNCHANGED <<pc, disturbed>>
         ELSE Continue(w, "insert")
  /\ UNCHANGED tables

\* ResolveResourceSlug.
TryResourceSlug(w) == At(w, "slug") /\ Try(w, TakenSlugs, "insert")

\* Variant of NewEntry: the date is always set.
NewEntryDated(w, now) ==
  [category |-> req[w].category, author |-> req[w].user,
   slug |-> Candidate(req[w].name, req[w].n), status |-> req[w].asked, date |-> now]

NewEntry(w, now) ==
  [category |-> req[w].category, author |-> req[w].user,
   slug |-> Candidate(req[w].name, req[w].n), status |-> req[w].asked,
   date |-> IF req[w].asked = "PUBLISHED" THEN now ELSE Null]

\* The constraints of resource_entries: a unique slug, a category and an author.
\* The picture of an entry, a media asset or NULL, is left out: an INSERT or
\* UPDATE that names an asset which is not there is refused, as in Abort.
Insertable(w) ==
  /\ Candidate(req[w].name, req[w].n) \notin TakenSlugs
  /\ req[w].category \in categories
  /\ req[w].user \in users

\* INSERT INTO resource_entries under a fresh UUID; 500 when it is refused.
InsertEntry(w, i, now) ==
  /\ At(w, "insert")
  /\ i \notin issued
  /\ issued' = issued \cup {i}
  /\ IF Insertable(w)
       THEN entry' = [entry EXCEPT ![i] = NewEntry(w, now)] /\ AnswerWritten(w)
       ELSE UNCHANGED entry /\ Answer(w)
  /\ UNCHANGED <<users, categories>>

-----------------------------------------------------------------------------
(* UpdateResource and DeleteResource                                       *)

\* The author and administrators may change an entry; others are told that
\* there is none.
MayChange(u, i) == entry[i] # Null /\ (u \in Admins \/ entry[i].author = u)

\* SELECT author_id, status, slug, published_at.
StartUpdate(w, u, i, c, status) ==
  /\ MayChange(u, i)
  /\ Begin(w, "category",
           [NoRequest EXCEPT !.id = i, !.category = c, !.asked = status, !.seen = entry[i]])

\* Variant of StatusOf: no status means what it means to CreateResource.
StatusOfCreate(w) == IF req[w].asked = Null THEN "PUBLISHED" ELSE req[w].asked

\* A request that names no status keeps the one it has read.
StatusOf(w) == IF req[w].asked = Null THEN req[w].seen.status ELSE req[w].asked

\* Variant of DateOf: the date of the last change.
DateOfChange(w, now) == IF StatusOf(w) # "PUBLISHED" THEN Null ELSE now

\* A published entry keeps the date it has read.
DateOf(w, now) ==
  IF StatusOf(w) # "PUBLISHED"
    THEN Null
    ELSE IF req[w].seen.date = Null THEN now ELSE req[w].seen.date

\* Variant of UpdateEntry: the slug is looked for anew, and taken by the entry itself.
UpdateMoves(w, now) ==
  /\ At(w, "update")
  /\ LET i == req[w].id  c == req[w].category
     IN IF entry[i] # Null /\ c \in categories
          THEN /\ entry' = [entry EXCEPT ![i] =
                              [@ EXCEPT !.category = c, !.status = StatusOf(w), !.slug = Append(@, 2),
                                        !.date = DateOf(w, now)]]
               /\ AnswerWritten(w)
          ELSE UNCHANGED entry /\ Answer(w)
  /\ UNCHANGED <<users, categories, issued>>

\* UPDATE resource_entries: the slug and the author stay.  The foreign key
\* refuses a category that is gone; an entry that is gone is no error.
UpdateEntry(w, now) ==
  /\ At(w, "update")
  /\ LET i == req[w].id  c == req[w].category
     IN IF entry[i] # Null /\ c \in categories
          THEN /\ entry' = [entry EXCEPT ![i] =
                              [@ EXCEPT !.category = c, !.status = StatusOf(w),
                                        !.date = DateOf(w, now)]]
               /\ AnswerWritten(w)
          ELSE UNCHANGED entry /\ Answer(w)
  /\ UNCHANGED <<users, categories, issued>>

\* SELECT author_id.
StartDelete(w, u, i) ==
  /\ MayChange(u, i)
  /\ Begin(w, "delete", [NoRequest EXCEPT !.id = i])

DeleteEntry(w) ==
  /\ At(w, "delete")
  /\ entry' = [entry EXCEPT ![req[w].id] = Null]
  /\ AnswerWritten(w)
  /\ UNCHANGED <<users, categories, issued>>

-----------------------------------------------------------------------------
(* CreateCategory and DeleteCategory                                       *)

StartCategory(w, label) ==
  /\ Cardinality(categories) < MaxCategories
  /\ Begin(w, "code", [NoRequest EXCEPT !.name = label, !.n = 1])

\* ResolveCategoryCode.
TryCategoryCode(w) == At(w, "code") /\ Try(w, categories, "insertCategory")

\* INSERT INTO resource_categories; the unique code refuses the second of two.
InsertCategory(w) ==
  /\ At(w, "insertCategory")
  /\ categories' = categories \cup {Candidate(req[w].name, req[w].n)}
  /\ AnswerWritten(w)
  /\ UNCHANGED <<users, entry, issued>>

\* SELECT EXISTS: an unknown category is answered 404.
StartDrop(w, c) ==
  /\ c \in categories
  /\ Begin(w, "inUse", [NoRequest EXCEPT !.category = c])

\* Variant of CheckInUse: only published entries count.
CheckPublishedUse(w) ==
  /\ At(w, "inUse")
  /\ IF Published(req[w].category) # {}
       THEN Answer(w)
       ELSE Continue(w, "drop")
  /\ UNCHANGED tables

\* SELECT EXISTS in resource_entries: 400 when there are any, and none when the
\* statement fails.
CheckInUse(w) ==
  /\ At(w, "inUse")
  /\ \/ Used(req[w].category) /\ Answer(w)
     \/ ~Used(req[w].category) /\ Continue(w, "drop")
     \/ /\ Goto(w, "drop")
        /\ disturbed' = [disturbed EXCEPT ![w] = TRUE]
        /\ UNCHANGED req
  /\ UNCHANGED tables

\* Variant of DropCategory: the foreign key is missing.
DropAnyCategory(w) ==
  /\ At(w, "drop")
  /\ categories' = categories \ {req[w].category}
  /\ AnswerWritten(w)
  /\ UNCHANGED <<users, entry, issued>>

\* DELETE FROM resource_categories: ON DELETE RESTRICT refuses one in use, the
\* error is ignored and the answer is 204 in any case.
DropCategory(w) ==
  /\ At(w, "drop")
  /\ categories' = IF Used(req[w].category) THEN categories ELSE categories \ {req[w].category}
  /\ AnswerWritten(w)
  /\ UNCHANGED <<users, entry, issued>>

-----------------------------------------------------------------------------
(* PublicResources and PublicResourceDetail                                *)

\* SELECT count(*), of one category or of all.
StartList(w, c) ==
  Begin(w, "rows", [NoRequest EXCEPT !.category = c, !.n = Cardinality(Published(c))])

\* SELECT ... the page, which holds all of them here.
SelectRows(w) ==
  /\ At(w, "rows")
  /\ IF Published(req[w].category) = {}
       THEN Answer(w)
       ELSE /\ Goto(w, "fetch")
            /\ req' = [req EXCEPT ![w] = [NoRequest EXCEPT !.rows =
                         {<<i, entry[i].category>> : i \in Published(req[w].category)}]]
            /\ UNCHANGED disturbed
  /\ UNCHANGED tables

\* SELECT ... by the slug; what is not published is answered 404.
StartDetail(w, i) ==
  /\ i \in Published(Null)
  /\ Begin(w, "fetch", [NoRequest EXCEPT !.rows = {<<i, entry[i].category>>}])

\* fetchCategory, for one row after the other; the card of a category that is
\* gone shows none.
FetchCategory(w, row) ==
  /\ At(w, "fetch")
  /\ row \in req[w].rows
  /\ IF req[w].rows = {row}
       THEN Answer(w)
       ELSE req' = [req EXCEPT ![w].rows = @ \ {row}] /\ UNCHANGED <<pc, disturbed>>
  /\ UNCHANGED tables

-----------------------------------------------------------------------------
(* What ends a request from outside, and what else writes                  *)

\* A statement meets an error, or the process is killed and starts again: a
\* request that has not written leaves nothing behind.
Abort(w) ==
  /\ ~At(w, "idle")
  /\ Answer(w)
  /\ UNCHANGED tables

\* DELETE FROM users takes the entries of the user along.
DeleteUser(u) ==
  /\ u \in users
  /\ users' = users \ {u}
  /\ entry' = [i \in Ids |-> IF entry[i] # Null /\ entry[i].author = u THEN Null ELSE entry[i]]
  /\ disturbed' = [w \in Workers |-> ~At(w, "idle")]
  /\ UNCHANGED <<categories, issued, pc, req>>

Start(w) ==
  \/ \E u \in Users, c \in categories, t \in Titles, s \in Asked :
       StartCreate(w, u, c, t, s)
  \/ \E u \in Users, i \in Ids, c \in categories, s \in Asked :
       StartUpdate(w, u, i, c, s)
  \/ \E u \in Users, i \in Ids : StartDelete(w, u, i)
  \/ \E l \in Labels : StartCategory(w, l)
  \/ \E c \in categories : StartDrop(w, c)
  \/ \E c \in categories \cup {Null} : StartList(w, c)
  \/ \E i \in Ids : StartDetail(w, i)

Statement(w) ==
  \/ CheckCategory(w)
  \/ TryResourceSlug(w)
  \/ \E i \in Ids, now \in Now : InsertEntry(w, i, now)
  \/ \E now \in Now : UpdateEntry(w, now)
  \/ DeleteEntry(w)
  \/ TryCategoryCode(w)
  \/ InsertCategory(w)
  \/ CheckInUse(w)
  \/ DropCategory(w)
  \/ SelectRows(w)
  \/ \E row \in req[w].rows : FetchCategory(w, row)

Next ==
  \/ \E w \in Workers : Start(w) \/ Statement(w) \/ Abort(w)
  \/ \E u \in Users : DeleteUser(u)

Spec == Init /\ [][Next]_vars

-----------------------------------------------------------------------------
(* Properties                                                              *)

\* However creations, changes and deletions overlap, no two entries share a
\* slug, and every entry has its category and its author: the constraints
\* decide where the checks of the handlers are late.
CatalogIsSound ==
  /\ \A i, j \in Live : entry[i].slug = entry[j].slug => i = j
  /\ \A i \in Live : entry[i].category \in categories /\ entry[i].author \in users

\* Public lists are ordered by published_at: an entry has that date exactly
\* while it is published, also when a change writes a status and a date that
\* it read before another change (resources_teacher.go:267-278).
PublishedHasDate ==
  \A i \in Live : entry[i].status = "PUBLISHED" <=> entry[i].date # Null

\* What a request has checked or counted holds when it acts on it, unless
\* another request wrote in between or an error was passed over.  So a lone
\* creation is refused only to a user whose token outlived the account, a lone
\* change writes over what it has read, a category that a lone request reports
\* as deleted is deleted, the total of a list counts its items and every card
\* shows a category.
LoneRequestsHold ==
  \A w \in Workers : ~disturbed[w] =>
    /\ At(w, "insert") => Insertable(w) \/ req[w].user \notin users
    /\ At(w, "update") => entry[req[w].id] = req[w].seen /\ req[w].category \in categories
    /\ At(w, "insertCategory") => Candidate(req[w].name, req[w].n) \notin categories
    /\ At(w, "drop") => ~Used(req[w].category)
    /\ At(w, "rows") => req[w].n = Cardinality(Published(req[w].category))
    /\ At(w, "fetch") => \A row \in req[w].rows : row[2] \in categories

\* Who changes entry i in this step, and what it was told about the status.
Writes(w, i) == At(w, "update") /\ req[w].id = i /\ ~At(w, "update")'

\* A draft is published only by a request that asks for it, or by a change
\* that read the entry while it was published and that another change
\* overtook: two teachers who edit at the same time can undo a retraction.
DraftsStayDrafts ==
  [][\A i \in Ids :
       entry[i] # Null /\ entry[i].status = "DRAFT" /\ entry'[i] # Null
         /\ entry'[i].status = "PUBLISHED"
       => \E w \in Workers :
            /\ Writes(w, i)
            /\ \/ req[w].asked = "PUBLISHED"
               \/ req[w].asked = Null /\ req[w].seen.status = "PUBLISHED" /\ disturbed[w]]_vars

\* While an entry stays published its date moves only when two changes
\* overlap, the later of which had read another date or none.
DatesStay ==
  [][\A i \in Ids :
       /\ entry[i] # Null /\ entry[i].status = "PUBLISHED"
       /\ entry'[i] # Null /\ entry'[i].status = "PUBLISHED"
       /\ entry'[i].date # entry[i].date
       => \E w \in Workers : Writes(w, i) /\ disturbed[w] /\ req[w].seen.date # entry[i].date]_vars

\* The search for a free slug ends, although others take slugs while it looks
\* (services/resources.go:63-79): every number it has passed over was the slug
\* of an entry of its own, so it looks at one number more than entries were
\* ever created, at most.
SearchIsBounded == \A w \in Workers : At(w, "slug") => req[w].n <= Cardinality(issued) + 1

\* What whoever links to a resource relies on: see Catalog.  Requests, UUIDs
\* and statuses are left out: a page is hidden as long as it has no date.
Page(i) ==
  [address |-> entry[i].slug, author |-> entry[i].author,
   topic |-> entry[i].category, since |-> entry[i].date]

Links == INSTANCE Catalog WITH
  pages    <- {Page(i) : i \in Live},
  authors  <- users,
  topics   <- categories,
  Founders <- Users,
  Topics   <- Seeds

\* Through every overlap of requests, a resource stays at its address and with
\* its author, and no other request's change ends up at it.
LinksHold == Links!Spec
=============================================================================
