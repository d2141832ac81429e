-------------------------- MODULE ResourcesProofs --------------------------
(***************************************************************************)
(* Theorems about Resources, for every set of entries, users, categories,  *)
(* dates and goroutines.                                                   *)
(***************************************************************************)
EXTENDS Resources, FiniteSetTheorems, TLAPS

-----------------------------------------------------------------------------
(* The parts of the inductive invariant                                    *)

\* What request r carries at statement l, d telling whether it was disturbed.
Complete(l, r, d) ==
  /\ l = "idle" => r = NoRequest /\ ~d
  /\ l \in {"category", "slug", "insert"} /\ r.id = Null =>
       r.user # Null /\ r.name # Null /\ r.category # Null /\ r.asked # Null
  /\ l \in {"slug", "insert"} => r.id = Null
  /\ l = "category" /\ r.id # Null => r.seen # Null /\ r.category # Null
  /\ l = "update" => r.id # Null /\ r.seen # Null /\ r.category # Null
  /\ l = "delete" => r.id # Null
  /\ l \in {"code", "insertCategory"} => r.name # Null
  /\ l \in {"inUse", "drop"} => r.category # Null

RequestsAreComplete == \A w \in Workers : Complete(pc[w], req[w], disturbed[w])

TablesOK ==
  /\ users \subseteq Users
  /\ categories \subseteq Slugs
  /\ entry \in [Ids -> Entries \cup {Null}]
  /\ issued \subseteq Ids
  /\ \A i \in Live : i \in issued

LocalsOK ==
  /\ pc \in [Workers -> ControlPoints]
  /\ req \in [Workers -> Requests]
  /\ disturbed \in [Workers -> BOOLEAN]

Typed == TablesOK /\ LocalsOK /\ RequestsAreComplete

\* A step of worker w leaves the other requests alone, but for disturbing them.
OthersKeep(w) ==
  \A v \in Workers \ {w} :
    /\ pc'[v] = pc[v]
    /\ req'[v] = req[v]
    /\ disturbed'[v] = disturbed[v] \/ pc[v] # "idle"

-----------------------------------------------------------------------------
(* Types                                                                   *)

LEMMA CandidateIsSlug ==
  ASSUME NEW s \in Slugs, NEW n \in Nat
  PROVE  Candidate(s, n) \in Slugs
  BY DEF Candidate, Slugs

LEMMA PublishedIsCounted ==
  ASSUME NEW c \in Slugs \cup {Null}
  PROVE  Cardinality(Published(c)) \in Nat
<1>1. Published(c) \subseteq Ids
  BY DEF Published, Live
<1> QED
  BY <1>1, ResourcesConstants, FS_Subset, FS_CardinalityType

LEMMA NoRequestIsRequest == NoRequest \in Requests
  BY DEF NoRequest, Requests

LEMMA TypedInit == Init => Typed
  BY ResourcesConstants
  DEF Init, Typed, TablesOK, LocalsOK, RequestsAreComplete, Complete, Live, NoRequest, Requests,
      ControlPoints

\* A step of worker w keeps the types when what it writes has them.
LEMMA WorkerStep ==
  \A w \in Workers :
    /\ Typed /\ OthersKeep(w) /\ TablesOK' /\ LocalsOK'
    /\ Complete(pc'[w], req'[w], disturbed'[w])
    => Typed'
<1> SUFFICES ASSUME NEW w \in Workers, Typed, OthersKeep(w), TablesOK', LocalsOK',
                    Complete(pc'[w], req'[w], disturbed'[w])
             PROVE  RequestsAreComplete'
  BY DEF Typed
<1> SUFFICES ASSUME NEW v \in Workers, v # w
             PROVE  Complete(pc'[v], req'[v], disturbed'[v])
  BY DEF RequestsAreComplete
<1>1. Complete(pc[v], req[v], disturbed[v])
  BY DEF Typed, RequestsAreComplete
<1>2. pc'[v] = pc[v] /\ req'[v] = req[v] /\ (disturbed'[v] = disturbed[v] \/ pc[v] # "idle")
  BY DEF OthersKeep
<1> QED
  BY <1>1, <1>2 DEF Complete

\* The requests that begin.
LEMMA BeginStep ==
  \A w \in Workers, l \in ControlPoints \ {"idle"}, r \in Requests :
    Typed /\ Begin(w, l, r) /\ Complete(l, r, FALSE) => Typed'
<1> SUFFICES ASSUME NEW w \in Workers, NEW l \in ControlPoints \ {"idle"}, NEW r \in Requests,
                    Typed, Begin(w, l, r), Complete(l, r, FALSE)
             PROVE  Typed'
  OBVIOUS
<1>1. TablesOK'
  BY DEF Begin, tables, Typed, TablesOK, Live
<1>2. LocalsOK' /\ OthersKeep(w)
  BY DEF Begin, Goto, Typed, LocalsOK, OthersKeep
<1>3. pc'[w] = l /\ req'[w] = r /\ disturbed'[w] = FALSE
  BY DEF Begin, Goto, At, Typed, LocalsOK, RequestsAreComplete, Complete
<1> QED
  BY <1>1, <1>2, <1>3, WorkerStep

\* The requests that end.
LEMMA ReturnKeeps ==
  \A w \in Workers :
    /\ Typed /\ Return(w) /\ disturbed' \in [Workers -> BOOLEAN] /\ ~disturbed'[w]
    /\ \A v \in Workers \ {w} : disturbed'[v] = disturbed[v] \/ pc[v] # "idle"
    => LocalsOK' /\ OthersKeep(w) /\ Complete(pc'[w], req'[w], disturbed'[w])
<1> SUFFICES ASSUME NEW w \in Workers, Typed, Return(w), disturbed' \in [Workers -> BOOLEAN],
                    ~disturbed'[w],
                    \A v \in Workers \ {w} : disturbed'[v] = disturbed[v] \/ pc[v] # "idle"
             PROVE  LocalsOK' /\ OthersKeep(w) /\ Complete(pc'[w], req'[w], disturbed'[w])
  OBVIOUS
<1>1. LocalsOK' /\ OthersKeep(w)
  BY NoRequestIsRequest DEF Return, Goto, Typed, LocalsOK, OthersKeep, ControlPoints
<1>2. pc'[w] = "idle" /\ req'[w] = NoRequest
  BY DEF Return, Goto, Typed, LocalsOK
<1> QED
  BY <1>1, <1>2 DEF Complete

LEMMA AnswerKeeps ==
  \A w \in Workers :
    Typed /\ (Answer(w) \/ AnswerWritten(w))
      => LocalsOK' /\ OthersKeep(w) /\ Complete(pc'[w], req'[w], disturbed'[w])
<1> SUFFICES ASSUME NEW w \in Workers, Typed, Answer(w) \/ AnswerWritten(w)
             PROVE  LocalsOK' /\ OthersKeep(w) /\ Complete(pc'[w], req'[w], disturbed'[w])
  OBVIOUS
<1>1. /\ Return(w) /\ disturbed' \in [Workers -> BOOLEAN] /\ ~disturbed'[w]
      /\ \A v \in Workers \ {w} : disturbed'[v] = disturbed[v] \/ pc[v] # "idle"
  BY DEF Answer, AnswerWritten, At, Typed, LocalsOK, RequestsAreComplete, Complete
<1> QED
  BY <1>1, ReturnKeeps

LEMMA TypedStep == Typed /\ [Next]_vars => Typed'
<1> SUFFICES ASSUME Typed, [Next]_vars PROVE Typed'
  OBVIOUS
<1>1. ASSUME NEW w \in Workers, NEW u \in Users, NEW c \in categories, NEW t \in Titles,
             NEW s \in Asked, StartCreate(w, u, c, t, s)
      PROVE  Typed'
  <2>1. [NoRequest EXCEPT !.user = u, !.category = c, !.name = t, !.n = 1,
                                  !.asked = IF s = Null THEN "PUBLISHED" ELSE s]
          \in Requests
    BY <1>1, ResourcesConstants DEF NoRequest, Requests, Typed, TablesOK, Statuses
  <2>2. Complete("category", [NoRequest EXCEPT !.user = u, !.category = c, !.name = t, !.n = 1,
                                  !.asked = IF s = Null THEN "PUBLISHED" ELSE s], FALSE)
    BY <1>1, ResourcesConstants DEF Complete, NoRequest, Statuses, Typed, TablesOK
  <2> QED
    BY <1>1, <2>1, <2>2, BeginStep DEF StartCreate, ControlPoints
<1>2. ASSUME NEW w \in Workers, NEW u \in Users, NEW i \in Ids, NEW c \in categories,
             NEW s \in Asked, StartUpdate(w, u, i, c, s)
      PROVE  Typed'
  <2>1. [NoRequest EXCEPT !.id = i, !.category = c, !.asked = s, !.seen = entry[i]]
          \in Requests
    BY <1>2, ResourcesConstants DEF NoRequest, Requests, Typed, TablesOK, Statuses, MayChange, StartUpdate
  <2>2. Complete("category", [NoRequest EXCEPT !.id = i, !.category = c, !.asked = s, !.seen = entry[i]], FALSE)
    BY <1>2, ResourcesConstants DEF Complete, NoRequest, Statuses, StartUpdate, MayChange, Typed, TablesOK
  <2> QED
    BY <1>2, <2>1, <2>2, BeginStep DEF StartUpdate, ControlPoints
<1>3. ASSUME NEW w \in Workers, NEW u \in Users, NEW i \in Ids, StartDelete(w, u, i)
      PROVE  Typed'
  <2>1. [NoRequest EXCEPT !.id = i]
          \in Requests
    BY <1>3, ResourcesConstants DEF NoRequest, Requests, Typed, TablesOK, Statuses, MayChange, StartDelete
  <2>2. Complete("delete", [NoRequest EXCEPT !.id = i], FALSE)
    BY <1>3, ResourcesConstants DEF Complete, NoRequest, Statuses, StartDelete, MayChange, Typed, TablesOK
  <2> QED
    BY <1>3, <2>1, <2>2, BeginStep DEF StartDelete, ControlPoints
<1>4. ASSUME NEW w \in Workers, NEW l \in Labels, StartCategory(w, l)
      PROVE  Typed'
  <2>1. [NoRequest EXCEPT !.name = l, !.n = 1]
          \in Requests
    BY <1>4, ResourcesConstants DEF NoRequest, Requests, Typed, TablesOK, Statuses
  <2>2. Complete("code", [NoRequest EXCEPT !.name = l, !.n = 1], FALSE)
    BY <1>4, ResourcesConstants DEF Complete, NoRequest, Statuses, Typed, TablesOK
  <2> QED
    BY <1>4, <2>1, <2>2, BeginStep DEF StartCategory, ControlPoints
<1>5. ASSUME NEW w \in Workers, NEW c \in categories, StartDrop(w, c)
      PROVE  Typed'
  <2>1. [NoRequest EXCEPT !.category = c]
          \in Requests
    BY <1>5, ResourcesConstants DEF NoRequest, Requests, Typed, TablesOK, Statuses
  <2>2. Complete("inUse", [NoRequest EXCEPT !.category = c], FALSE)
    BY <1>5, ResourcesConstants DEF Complete, NoRequest, Statuses, Typed, TablesOK
  <2> QED
    BY <1>5, <2>1, <2>2, BeginStep DEF StartDrop, ControlPoints
<1>6. ASSUME NEW w \in Workers, NEW c \in categories \cup {Null}, StartList(w, c)
      PROVE  Typed'
  <2>0. Cardinality(Published(c)) \in Nat
    BY PublishedIsCounted DEF Typed, TablesOK
  <2>1. [NoRequest EXCEPT !.category = c, !.n = Cardinality(Published(c))]
          \in Requests
    BY <1>6, <2>0, ResourcesConstants DEF NoRequest, Requests, Typed, TablesOK, Statuses
  <2>2. Complete("rows", [NoRequest EXCEPT !.category = c, !.n = Cardinality(Published(c))], FALSE)
    BY <1>6, ResourcesConstants DEF Complete, NoRequest, Statuses, Typed, TablesOK
  <2> QED
    BY <1>6, <2>1, <2>2, BeginStep DEF StartList, ControlPoints
<1>7. ASSUME NEW w \in Workers, NEW i \in Ids, StartDetail(w, i)
      PROVE  Typed'
  <2>1. [NoRequest EXCEPT !.rows = {<<i, entry[i].category>>}]
          \in Requests
    BY <1>7, ResourcesConstants DEF NoRequest, Requests, Typed, TablesOK, Statuses, StartDetail, Published, Live, Entries
  <2>2. Complete("fetch", [NoRequest EXCEPT !.rows = {<<i, entry[i].category>>}], FALSE)
    BY <1>7, ResourcesConstants DEF Complete, NoRequest, Statuses, Typed, TablesOK
  <2> QED
    BY <1>7, <2>1, <2>2, BeginStep DEF StartDetail, ControlPoints
<1>8. ASSUME NEW w \in Workers, CheckCategory(w)
      PROVE  Typed'
  <2>1. TablesOK'
    BY <1>8 DEF CheckCategory, Continue, tables, Typed, TablesOK, Live
  <2>2. LocalsOK' /\ OthersKeep(w) /\ Complete(pc'[w], req'[w], disturbed'[w])
    BY <1>8, AnswerKeeps DEF CheckCategory, Continue, Answer, Return, Goto, At, Typed, LocalsOK, OthersKeep, RequestsAreComplete, Complete, Requests, ControlPoints
  <2> QED
    BY <2>1, <2>2, WorkerStep
<1>9. ASSUME NEW w \in Workers, TryResourceSlug(w)
      PROVE  Typed'
  <2>1. TablesOK'
    BY <1>9 DEF TryResourceSlug, Try, tables, Typed, TablesOK, Live
  <2>2. LocalsOK' /\ OthersKeep(w) /\ Complete(pc'[w], req'[w], disturbed'[w])
    BY <1>9, AnswerKeeps DEF TryResourceSlug, Try, Continue, Goto, At, Typed, LocalsOK, OthersKeep, RequestsAreComplete, Complete, Requests, ControlPoints
  <2> QED
    BY <2>1, <2>2, WorkerStep
<1>10. ASSUME NEW w \in Workers, NEW i \in Ids, NEW now \in Now, InsertEntry(w, i, now)
      PROVE  Typed'
  <2>1. TablesOK'
    <3>1. CASE Insertable(w)
      <4>1. NewEntry(w, now) \in Entries
        <5>1. req[w] \in Requests /\ Complete("insert", req[w], disturbed[w])
          BY <1>10 DEF InsertEntry, At, Typed, LocalsOK, RequestsAreComplete
        <5>2. /\ req[w].name \in Slugs /\ req[w].n \in Nat /\ req[w].user \in Users
              /\ req[w].category \in Slugs /\ req[w].asked \in Statuses
          BY <5>1 DEF Complete, Requests
        <5>3. now \in Dates
          BY DEF Now
        <5> QED
          BY <5>2, <5>3, CandidateIsSlug DEF NewEntry, Entries
      <4>2. entry' = [entry EXCEPT ![i] = NewEntry(w, now)]
        BY <1>10, <3>1 DEF InsertEntry
      <4> QED
        BY <1>10, <4>1, <4>2 DEF InsertEntry, Typed, TablesOK, Live
    <3>2. CASE ~Insertable(w)
      BY <1>10, <3>2 DEF InsertEntry, Typed, TablesOK, Live
    <3> QED
      BY <3>1, <3>2
  <2>2. LocalsOK' /\ OthersKeep(w) /\ Complete(pc'[w], req'[w], disturbed'[w])
    BY <1>10, AnswerKeeps DEF InsertEntry
  <2> QED
    BY <2>1, <2>2, WorkerStep
<1>11. ASSUME NEW w \in Workers, NEW now \in Now, UpdateEntry(w, now)
      PROVE  Typed'
  <2>1. TablesOK'
    <3> DEFINE i == req[w].id
               new == [entry[i] EXCEPT !.category = req[w].category, !.status = StatusOf(w),
                                       !.date = DateOf(w, now)]
    <3>1. CASE entry[i] # Null /\ req[w].category \in categories
      <4>1. i \in Ids /\ entry' = [entry EXCEPT ![i] = new]
        BY <1>11, <3>1
        DEF UpdateEntry, At, Typed, LocalsOK, RequestsAreComplete, Complete, Requests
      <4>2. new \in Entries
        <5>1. req[w] \in Requests /\ req[w].seen # Null
          BY <1>11 DEF UpdateEntry, At, Typed, LocalsOK, RequestsAreComplete, Complete
        <5>2. StatusOf(w) \in Statuses
          BY <5>1 DEF StatusOf, Requests, Entries
        <5>3. DateOf(w, now) \in Dates \cup {Null}
          BY <5>1 DEF DateOf, Requests, Entries, Now
        <5>4. entry[i] \in Entries
          BY <3>1, <4>1 DEF Typed, TablesOK
        <5>5. req[w].category \in Slugs
          BY <3>1 DEF Typed, TablesOK
        <5> HIDE DEF i
        <5> QED
          BY <5>2, <5>3, <5>4, <5>5 DEF Entries
      <4> HIDE DEF new
      <4> QED
        BY <1>11, <3>1, <4>1, <4>2 DEF UpdateEntry, Typed, TablesOK, Live
    <3>2. CASE ~(entry[i] # Null /\ req[w].category \in categories)
      BY <1>11, <3>2 DEF UpdateEntry, Typed, TablesOK, Live
    <3> QED
      BY <3>1, <3>2
  <2>2. LocalsOK' /\ OthersKeep(w) /\ Complete(pc'[w], req'[w], disturbed'[w])
    BY <1>11, AnswerKeeps DEF UpdateEntry
  <2> QED
    BY <2>1, <2>2, WorkerStep
<1>12. ASSUME NEW w \in Workers, DeleteEntry(w)
      PROVE  Typed'
  <2>1. TablesOK'
    BY <1>12 DEF DeleteEntry, At, tables, Typed, TablesOK, Live
  <2>2. LocalsOK' /\ OthersKeep(w) /\ Complete(pc'[w], req'[w], disturbed'[w])
    BY <1>12, AnswerKeeps DEF DeleteEntry
  <2> QED
    BY <2>1, <2>2, WorkerStep
<1>13. ASSUME NEW w \in Workers, TryCategoryCode(w)
      PROVE  Typed'
  <2>1. TablesOK'
    BY <1>13 DEF TryCategoryCode, Try, tables, Typed, TablesOK, Live
  <2>2. LocalsOK' /\ OthersKeep(w) /\ Complete(pc'[w], req'[w], disturbed'[w])
    BY <1>13, AnswerKeeps DEF TryCategoryCode, Try, Continue, Goto, At, Typed, LocalsOK, OthersKeep, RequestsAreComplete, Complete, Requests, ControlPoints
  <2> QED
    BY <2>1, <2>2, WorkerStep
<1>14. ASSUME NEW w \in Workers, InsertCategory(w)
      PROVE  Typed'
  <2>1. TablesOK'
    <3>1. req[w].name \in Slugs /\ req[w].n \in Nat
      BY <1>14, ResourcesConstants
      DEF InsertCategory, At, Typed, LocalsOK, RequestsAreComplete, Complete, Requests
    <3> QED
      BY <1>14, <3>1, CandidateIsSlug DEF InsertCategory, Typed, TablesOK, Live
  <2>2. LocalsOK' /\ OthersKeep(w) /\ Complete(pc'[w], req'[w], disturbed'[w])
    BY <1>14, AnswerKeeps DEF InsertCategory
  <2> QED
    BY <2>1, <2>2, WorkerStep
<1>15. ASSUME NEW w \in Workers, CheckInUse(w)
      PROVE  Typed'
  <2>1. TablesOK'
    BY <1>15 DEF CheckInUse, Answer, tables, Typed, TablesOK, Live
  <2>2. LocalsOK' /\ OthersKeep(w) /\ Complete(pc'[w], req'[w], disturbed'[w])
    BY <1>15, AnswerKeeps DEF CheckInUse, Answer, Return, Continue, Goto, At, Typed, LocalsOK, OthersKeep, RequestsAreComplete, Complete, Requests, ControlPoints
  <2> QED
    BY <2>1, <2>2, WorkerStep
<1>16. ASSUME NEW w \in Workers, DropCategory(w)
      PROVE  Typed'
  <2>1. TablesOK'
    BY <1>16 DEF DropCategory, At, tables, Typed, TablesOK, Live
  <2>2. LocalsOK' /\ OthersKeep(w) /\ Complete(pc'[w], req'[w], disturbed'[w])
    BY <1>16, AnswerKeeps DEF DropCategory
  <2> QED
    BY <2>1, <2>2, WorkerStep
<1>17. ASSUME NEW w \in Workers, SelectRows(w)
      PROVE  Typed'
  <2>1. TablesOK'
    BY <1>17 DEF SelectRows, tables, Typed, TablesOK, Live
  <2>2. LocalsOK' /\ OthersKeep(w) /\ Complete(pc'[w], req'[w], disturbed'[w])
    <3>1. CASE Published(req[w].category) = {}
      BY <1>17, <3>1, AnswerKeeps DEF SelectRows
    <3>2. CASE Published(req[w].category) # {}
      <4> DEFINE new == [NoRequest EXCEPT !.rows =
                           {<<i, entry[i].category>> : i \in Published(req[w].category)}]
      <4>1. new \in Requests
        <5>1. \A i \in Published(req[w].category) : i \in Ids /\ entry[i].category \in Slugs
          BY DEF Published, Live, Typed, TablesOK, Entries
        <5> QED
          BY <5>1 DEF NoRequest, Requests
      <4>2. /\ pc' = [pc EXCEPT ![w] = "fetch"]
            /\ req' = [req EXCEPT ![w] = new]
            /\ UNCHANGED disturbed
        BY <1>17, <3>2 DEF SelectRows, Goto
      <4> HIDE DEF new
      <4> QED
        BY <4>1, <4>2 DEF Typed, LocalsOK, OthersKeep, Complete, ControlPoints
    <3> QED
      BY <3>1, <3>2
  <2> QED
    BY <2>1, <2>2, WorkerStep
<1>18. ASSUME NEW w \in Workers, NEW row \in req[w].rows, FetchCategory(w, row)
      PROVE  Typed'
  <2>1. TablesOK'
    BY <1>18 DEF FetchCategory, Answer, tables, Typed, TablesOK, Live
  <2>2. LocalsOK' /\ OthersKeep(w) /\ Complete(pc'[w], req'[w], disturbed'[w])
    BY <1>18, AnswerKeeps DEF FetchCategory, Answer, Return, Goto, At, Typed, LocalsOK, OthersKeep, RequestsAreComplete, Complete, Requests, ControlPoints
  <2> QED
    BY <2>1, <2>2, WorkerStep
<1>19. ASSUME NEW w \in Workers, Abort(w)
      PROVE  Typed'
  <2>1. TablesOK'
    BY <1>19 DEF Abort, Answer, tables, Typed, TablesOK, Live
  <2>2. LocalsOK' /\ OthersKeep(w) /\ Complete(pc'[w], req'[w], disturbed'[w])
    BY <1>19, AnswerKeeps DEF Abort, Answer, Return, Goto, At, Typed, LocalsOK, OthersKeep, RequestsAreComplete, Complete, Requests, ControlPoints
  <2> QED
    BY <2>1, <2>2, WorkerStep
<1>20. ASSUME NEW u \in Users, DeleteUser(u)
      PROVE  Typed'
  <2>1. TablesOK' /\ LocalsOK'
    BY <1>20 DEF DeleteUser, At, Typed, TablesOK, LocalsOK, Live
  <2>2. RequestsAreComplete'
    BY <1>20 DEF DeleteUser, At, Typed, RequestsAreComplete, Complete
  <2> QED
    BY <2>1, <2>2 DEF Typed
<1>21. CASE UNCHANGED vars
  BY <1>21 DEF vars, Typed, TablesOK, LocalsOK, RequestsAreComplete, Live
<1> QED
  BY <1>1, <1>2, <1>3, <1>4, <1>5, <1>6, <1>7, <1>8, <1>9, <1>10, <1>11, <1>12, <1>13, <1>14, <1>15, <1>16, <1>17, <1>18, <1>19, <1>20, <1>21
     DEF Next, Start, Statement

\* Every variable keeps its type.
THEOREM TypeCorrect == Spec => []TypeOK
<1>1. Typed => TypeOK
  BY DEF Typed, TablesOK, LocalsOK, TypeOK
<1> QED
  BY <1>1, TypedInit, TypedStep, PTL DEF Spec

-----------------------------------------------------------------------------
(* Which steps write                                                       *)

\* The statement of worker w that writes.
Write(w) ==
  \/ \E i \in Ids, now \in Now : InsertEntry(w, i, now)
  \/ \E now \in Now : UpdateEntry(w, now)
  \/ DeleteEntry(w)
  \/ InsertCategory(w)
  \/ DropCategory(w)

\* The other steps leave the tables as they are.
LEMMA StepsKeepTables ==
  [Next]_vars =>
    \/ \E w \in Workers : Write(w)
    \/ \E u \in Users : DeleteUser(u)
    \/ UNCHANGED tables
<1> SUFFICES ASSUME [Next]_vars
             PROVE  \/ \E w \in Workers : Write(w)
                    \/ \E u \in Users : DeleteUser(u)
                    \/ UNCHANGED tables
  OBVIOUS
<1> USE DEF tables
<1>1. ASSUME NEW w \in Workers, Start(w) PROVE UNCHANGED tables
  BY <1>1 DEF Start, StartCreate, StartUpdate, StartDelete, StartCategory, StartDrop, StartList,
              StartDetail, Begin
<1>2. ASSUME NEW w \in Workers, Statement(w) PROVE Write(w) \/ UNCHANGED tables
  BY <1>2 DEF Statement, Write, CheckCategory, TryResourceSlug, TryCategoryCode, Try, CheckInUse,
              SelectRows, FetchCategory
<1>3. ASSUME NEW w \in Workers, Abort(w) PROVE UNCHANGED tables
  BY <1>3 DEF Abort
<1>4. CASE UNCHANGED vars
  BY <1>4 DEF vars
<1> QED
  BY <1>1, <1>2, <1>3, <1>4 DEF Next

LEMMA StepsRead ==
  [Next]_vars =>
    \/ \E w \in Workers : Write(w)
    \/ \E u \in Users : DeleteUser(u)
    \/ UNCHANGED <<users, categories, entry>>
  BY StepsKeepTables DEF tables

-----------------------------------------------------------------------------
(* The constraints of the tables                                           *)

LEMMA CatalogStep == Typed /\ CatalogIsSound /\ [Next]_vars => CatalogIsSound'
<1> SUFFICES ASSUME Typed, CatalogIsSound, [Next]_vars PROVE CatalogIsSound'
  OBVIOUS
<1> USE DEF CatalogIsSound, Live
<1>1. ASSUME NEW w \in Workers, NEW i \in Ids, NEW now \in Now, InsertEntry(w, i, now)
      PROVE  CatalogIsSound'
  <2>1. CASE Insertable(w)
    <3>1. /\ entry' = [entry EXCEPT ![i] = NewEntry(w, now)]
          /\ UNCHANGED <<users, categories>>
      BY <1>1, <2>1 DEF InsertEntry
    <3>2. /\ NewEntry(w, now).slug \notin TakenSlugs
          /\ NewEntry(w, now).category \in categories
          /\ NewEntry(w, now).author \in users
      BY <2>1 DEF NewEntry, Insertable
    <3> QED
      BY <3>1, <3>2 DEF TakenSlugs, Typed, TablesOK
  <2>2. CASE ~Insertable(w)
    BY <1>1, <2>2 DEF InsertEntry
  <2> QED
    BY <2>1, <2>2
<1>2. ASSUME NEW w \in Workers, NEW now \in Now, UpdateEntry(w, now)
      PROVE  CatalogIsSound'
  <2> DEFINE i == req[w].id
             new == [entry[i] EXCEPT !.category = req[w].category, !.status = StatusOf(w),
                                     !.date = DateOf(w, now)]
  <2>1. CASE entry[i] # Null /\ req[w].category \in categories
    <3>1. i \in Ids /\ entry' = [entry EXCEPT ![i] = new] /\ UNCHANGED <<users, categories>>
      BY <1>2, <2>1
      DEF UpdateEntry, At, Typed, LocalsOK, RequestsAreComplete, Complete, Requests
    <3>2. entry[i] \in Entries
      BY <2>1, <3>1 DEF Typed, TablesOK
    <3>3. new.slug = entry[i].slug /\ new.author = entry[i].author /\ new.category \in categories
      BY <2>1, <3>2 DEF Entries
    <3> HIDE DEF new
    <3> QED
      BY <2>1, <3>1, <3>3 DEF Typed, TablesOK
  <2>2. CASE ~(entry[i] # Null /\ req[w].category \in categories)
    BY <1>2, <2>2 DEF UpdateEntry
  <2> QED
    BY <2>1, <2>2
<1>3. ASSUME NEW w \in Workers, DeleteEntry(w)
      PROVE  CatalogIsSound'
  BY <1>3 DEF DeleteEntry, Typed, TablesOK
<1>4. ASSUME NEW w \in Workers, InsertCategory(w)
      PROVE  CatalogIsSound'
  BY <1>4 DEF InsertCategory
<1>5. ASSUME NEW w \in Workers, DropCategory(w)
      PROVE  CatalogIsSound'
  BY <1>5 DEF DropCategory, Used
<1>6. ASSUME NEW u \in Users, DeleteUser(u)
      PROVE  CatalogIsSound'
  BY <1>6 DEF DeleteUser, Typed, TablesOK
<1>7. CASE UNCHANGED <<users, categories, entry>>
  BY <1>7
<1> QED
  BY <1>1, <1>2, <1>3, <1>4, <1>5, <1>6, <1>7, StepsRead DEF Write

\* No two entries share a slug, and every entry has its category and author.
THEOREM CatalogIsSoundAlways == Spec => []CatalogIsSound
<1>1. Init => CatalogIsSound
  BY DEF Init, CatalogIsSound, Live
<1> QED
  BY <1>1, TypedInit, TypedStep, CatalogStep, PTL DEF Spec

-----------------------------------------------------------------------------
(* Dates                                                                   *)

Dated(row) == row.status = "PUBLISHED" <=> row.date # Null

LEMMA DatedStep == Typed /\ PublishedHasDate /\ [Next]_vars => PublishedHasDate'
<1> SUFFICES ASSUME Typed, PublishedHasDate, [Next]_vars PROVE PublishedHasDate'
  OBVIOUS
<1> USE ResourcesConstants DEF PublishedHasDate, Live
<1>1. ASSUME NEW w \in Workers, NEW i \in Ids, NEW now \in Now, InsertEntry(w, i, now)
      PROVE  PublishedHasDate'
  <2>1. Dated(NewEntry(w, now))
    BY DEF Dated, NewEntry, Now
  <2>2. entry' = [entry EXCEPT ![i] = NewEntry(w, now)] \/ UNCHANGED entry
    BY <1>1 DEF InsertEntry
  <2> QED
    BY <2>1, <2>2 DEF Dated, Typed, TablesOK
<1>2. ASSUME NEW w \in Workers, NEW now \in Now, UpdateEntry(w, now)
      PROVE  PublishedHasDate'
  <2> DEFINE i == req[w].id
             new == [entry[i] EXCEPT !.category = req[w].category, !.status = StatusOf(w),
                                     !.date = DateOf(w, now)]
  <2>1. CASE entry[i] # Null /\ req[w].category \in categories
    <3>1. i \in Ids /\ entry' = [entry EXCEPT ![i] = new] /\ req[w].seen # Null
      BY <1>2, <2>1
      DEF UpdateEntry, At, Typed, LocalsOK, RequestsAreComplete, Complete, Requests
    <3>2. entry[i] \in Entries
      BY <2>1, <3>1 DEF Typed, TablesOK
    <3>3. new.status = StatusOf(w) /\ new.date = DateOf(w, now)
      BY <3>2 DEF Entries
    <3>4. StatusOf(w) = "PUBLISHED" <=> DateOf(w, now) # Null
      BY DEF DateOf, Now
    <3> HIDE DEF new
    <3> QED
      BY <3>1, <3>3, <3>4 DEF Typed, TablesOK
  <2>2. CASE ~(entry[i] # Null /\ req[w].category \in categories)
    BY <1>2, <2>2 DEF UpdateEntry
  <2> QED
    BY <2>1, <2>2
<1>3. ASSUME NEW w \in Workers, DeleteEntry(w) \/ InsertCategory(w) \/ DropCategory(w)
      PROVE  PublishedHasDate'
  BY <1>3 DEF DeleteEntry, InsertCategory, DropCategory, Typed, TablesOK
<1>4. ASSUME NEW u \in Users, DeleteUser(u)
      PROVE  PublishedHasDate'
  BY <1>4 DEF DeleteUser, Typed, TablesOK
<1>5. CASE UNCHANGED <<users, categories, entry>>
  BY <1>5
<1> QED
  BY <1>1, <1>2, <1>3, <1>4, <1>5, StepsRead DEF Write

\* An entry has a date of publication exactly while it is published.
THEOREM PublishedHasDateAlways == Spec => []PublishedHasDate
<1>1. Init => PublishedHasDate
  BY DEF Init, PublishedHasDate, Live
<1> QED
  BY <1>1, TypedInit, TypedStep, DatedStep, PTL DEF Spec

-----------------------------------------------------------------------------
(* Requests that nothing disturbs                                          *)

\* What the request of worker w has checked so far holds unless it was
\* disturbed.
Lone(w) ==
  ~disturbed[w] =>
    /\ pc[w] = "category" /\ req[w].id # Null => entry[req[w].id] = req[w].seen
    /\ pc[w] = "slug" => req[w].category \in categories
    /\ pc[w] = "insert" =>
         /\ req[w].category \in categories
         /\ Candidate(req[w].name, req[w].n) \notin TakenSlugs
    /\ pc[w] = "update" => entry[req[w].id] = req[w].seen /\ req[w].category \in categories
    /\ pc[w] = "insertCategory" => Candidate(req[w].name, req[w].n) \notin categories
    /\ pc[w] = "drop" => ~Used(req[w].category)
    /\ pc[w] = "rows" => req[w].n = Cardinality(Published(req[w].category))
    /\ pc[w] = "fetch" => \A row \in req[w].rows : row[2] \in categories

LInv == Typed /\ CatalogIsSound /\ \A w \in Workers : Lone(w)

LEMMA IdleIsLone ==
  \A v \in Workers : pc[v] = "idle" \/ disturbed[v] => Lone(v)
  BY DEF Lone

LEMMA LoneKept ==
  \A v \in Workers :
    /\ Lone(v)
    /\ UNCHANGED <<users, categories, entry>>
    /\ pc'[v] = pc[v] /\ req'[v] = req[v] /\ disturbed'[v] = disturbed[v]
    => Lone(v)'
<1> SUFFICES ASSUME NEW v \in Workers, Lone(v), UNCHANGED <<users, categories, entry>>,
                    pc'[v] = pc[v], req'[v] = req[v], disturbed'[v] = disturbed[v]
             PROVE  Lone(v)'
  OBVIOUS
<1>1. TakenSlugs' = TakenSlugs /\ \A c : Used(c)' = Used(c) /\ Published(c)' = Published(c)
  BY DEF TakenSlugs, Live, Used, Published
<1> QED
  BY <1>1 DEF Lone

\* A step of worker w leaves what v has checked, or disturbs v.
LEMMA OthersStayLone ==
  \A w \in Workers, v \in Workers :
    Typed /\ Lone(v) /\ v # w /\ (Start(w) \/ Statement(w) \/ Abort(w)) => Lone(v)'
<1> SUFFICES ASSUME NEW w \in Workers, NEW v \in Workers, Typed, Lone(v), v # w,
                    Start(w) \/ Statement(w) \/ Abort(w)
             PROVE  Lone(v)'
  OBVIOUS
<1> USE DEF Typed, LocalsOK, tables, At, Goto
<1>1. pc'[v] = pc[v] /\ req'[v] = req[v]
  <2>1. CASE Start(w)
    BY <2>1
    DEF Start, StartCreate, StartUpdate, StartDelete, StartCategory, StartDrop, StartList,
        StartDetail, Begin
  <2>2. CASE Statement(w) \/ Abort(w)
    BY <2>2
    DEF Statement, CheckCategory, TryResourceSlug, InsertEntry, UpdateEntry, DeleteEntry,
        TryCategoryCode, InsertCategory, CheckInUse, DropCategory, SelectRows, FetchCategory,
        Abort, Try, Continue, Answer, AnswerWritten, Return
  <2> QED
    BY <2>1, <2>2
<1>2. \/ UNCHANGED <<users, categories, entry>> /\ disturbed'[v] = disturbed[v]
      \/ disturbed'[v] \/ pc[v] = "idle"
  <2>1. CASE Start(w)
    BY <2>1
    DEF Start, StartCreate, StartUpdate, StartDelete, StartCategory, StartDrop, StartList,
        StartDetail, Begin
  <2>2. CASE AnswerWritten(w)
    BY <2>2 DEF AnswerWritten
  <2>3. CASE (Statement(w) \/ Abort(w)) /\ ~AnswerWritten(w)
    BY <2>3
    DEF Statement, CheckCategory, TryResourceSlug, InsertEntry, UpdateEntry, DeleteEntry,
        TryCategoryCode, InsertCategory, CheckInUse, DropCategory, SelectRows, FetchCategory,
        Abort, Try, Continue, Answer, Return
  <2> QED
    BY <2>1, <2>2, <2>3
<1>3. CASE UNCHANGED <<users, categories, entry>> /\ disturbed'[v] = disturbed[v]
  BY <1>1, <1>3, LoneKept
<1>4. CASE disturbed'[v] \/ pc[v] = "idle"
  BY <1>1, <1>4 DEF Lone
<1> QED
  BY <1>2, <1>3, <1>4

\* The step of worker w checks what w acts on next.
LEMMA OwnStaysLone ==
  \A w \in Workers :
    LInv /\ (Start(w) \/ Statement(w) \/ Abort(w)) => Lone(w)'
<1> SUFFICES ASSUME NEW w \in Workers, LInv, Start(w) \/ Statement(w) \/ Abort(w)
             PROVE  Lone(w)'
  OBVIOUS
<1> USE ResourcesConstants DEF LInv, Typed, LocalsOK, tables, At, Goto
<1>0. ASSUME pc'[w] = "idle" PROVE Lone(w)'
  BY <1>0 DEF Lone
<1>1. ASSUME NEW u \in Users, NEW c \in categories, NEW t \in Titles, NEW s \in Asked,
             StartCreate(w, u, c, t, s)
      PROVE  Lone(w)'
  BY <1>1 DEF StartCreate, Begin, NoRequest, Lone
<1>2. ASSUME NEW u \in Users, NEW i \in Ids, NEW c \in categories, NEW s \in Asked,
             StartUpdate(w, u, i, c, s)
      PROVE  Lone(w)'
  <2>1. pc'[w] = "category" /\ req'[w].id = i /\ req'[w].seen = entry[i] /\ entry' = entry
    BY <1>2 DEF StartUpdate, Begin, NoRequest
  <2> QED
    BY <2>1 DEF Lone
<1>3. ASSUME NEW u \in Users, NEW i \in Ids, StartDelete(w, u, i)
      PROVE  Lone(w)'
  BY <1>3 DEF StartDelete, Begin, Lone
<1>4. ASSUME NEW l \in Labels, StartCategory(w, l)
      PROVE  Lone(w)'
  BY <1>4 DEF StartCategory, Begin, Lone
<1>5. ASSUME NEW c \in categories, StartDrop(w, c)
      PROVE  Lone(w)'
  BY <1>5 DEF StartDrop, Begin, Lone
<1>6. ASSUME NEW c \in categories \cup {Null}, StartList(w, c)
      PROVE  Lone(w)'
  <2>1. /\ pc'[w] = "rows" /\ req'[w].category = c
        /\ req'[w].n = Cardinality(Published(c))
        /\ UNCHANGED entry
    BY <1>6 DEF StartList, Begin, NoRequest
  <2>2. Published(c)' = Published(c)
    BY <2>1 DEF Published, Live
  <2> QED
    BY <2>1, <2>2 DEF Lone
<1>7. ASSUME NEW i \in Ids, StartDetail(w, i)
      PROVE  Lone(w)'
  <2>1. pc'[w] = "fetch" /\ req'[w].rows = {<<i, entry[i].category>>} /\ UNCHANGED categories
    BY <1>7 DEF StartDetail, Begin, NoRequest
  <2>2. entry[i].category \in categories
    BY <1>7 DEF StartDetail, Published, CatalogIsSound
  <2> QED
    BY <2>1, <2>2 DEF Lone
<1>8. CASE CheckCategory(w)
  <2>1. CASE req[w].category \in categories
    <3>1. /\ pc'[w] \in {"slug", "update"} /\ (pc'[w] = "update" <=> req[w].id # Null)
          /\ UNCHANGED <<req, entry, categories, disturbed>>
          /\ pc[w] = "category"
      BY <1>8, <2>1 DEF CheckCategory, Continue
    <3> QED
      BY <2>1, <3>1 DEF Lone
  <2>2. CASE req[w].category \notin categories
    BY <1>8, <2>2, <1>0 DEF CheckCategory, Answer, Return
  <2> QED
    BY <2>1, <2>2
<1>9. CASE TryResourceSlug(w)
  <2>1. pc[w] = "slug" /\ UNCHANGED <<entry, categories, disturbed>>
    BY <1>9 DEF TryResourceSlug, Try, Continue
  <2>2. CASE Candidate(req[w].name, req[w].n) \in TakenSlugs
    <3>1. pc'[w] = "slug" /\ req'[w].category = req[w].category
      BY <1>9, <2>2 DEF TryResourceSlug, Try, Requests
    <3> QED
      BY <2>1, <3>1 DEF Lone
  <2>3. CASE Candidate(req[w].name, req[w].n) \notin TakenSlugs
    <3>1. pc'[w] = "insert" /\ UNCHANGED req
      BY <1>9, <2>3 DEF TryResourceSlug, Try, Continue
    <3>2. TakenSlugs' = TakenSlugs
      BY <2>1 DEF TakenSlugs, Live
    <3> QED
      BY <2>1, <2>3, <3>1, <3>2 DEF Lone, Candidate
  <2> QED
    BY <2>2, <2>3
<1>10. CASE TryCategoryCode(w)
  <2>1. pc[w] = "code" /\ UNCHANGED <<entry, categories, disturbed>>
    BY <1>10 DEF TryCategoryCode, Try, Continue
  <2>2. CASE Candidate(req[w].name, req[w].n) \in categories
    BY <1>10, <2>1, <2>2 DEF TryCategoryCode, Try, Lone
  <2>3. CASE Candidate(req[w].name, req[w].n) \notin categories
    <3>1. pc'[w] = "insertCategory" /\ UNCHANGED req
      BY <1>10, <2>3 DEF TryCategoryCode, Try, Continue
    <3> QED
      BY <2>1, <2>3, <3>1 DEF Lone, Candidate
  <2> QED
    BY <2>2, <2>3
<1>11. CASE CheckInUse(w)
  <2>1. CASE Used(req[w].category) /\ Answer(w)
    BY <2>1, <1>0 DEF Answer, Return
  <2>2. CASE ~Used(req[w].category) /\ Continue(w, "drop")
    <3>1. pc'[w] = "drop" /\ UNCHANGED <<req, entry>>
      BY <1>11, <2>2 DEF CheckInUse, Continue
    <3>2. Used(req[w].category)' = Used(req[w].category)
      BY <3>1 DEF Used, Live
    <3> QED
      BY <2>2, <3>1, <3>2 DEF Lone
  <2>3. CASE disturbed' = [disturbed EXCEPT ![w] = TRUE]
    BY <2>3 DEF Lone
  <2> QED
    BY <1>11, <2>1, <2>2, <2>3 DEF CheckInUse
<1>12. CASE SelectRows(w)
  <2>1. CASE Published(req[w].category) = {}
    BY <1>12, <2>1, <1>0 DEF SelectRows, Answer, Return
  <2>2. CASE Published(req[w].category) # {}
    <3>1. /\ pc'[w] = "fetch" /\ UNCHANGED categories
          /\ req'[w].rows = {<<i, entry[i].category>> : i \in Published(req[w].category)}
      BY <1>12, <2>2 DEF SelectRows, NoRequest
    <3>2. \A i \in Published(req[w].category) : entry[i].category \in categories
      BY DEF Published, CatalogIsSound
    <3> QED
      BY <3>1, <3>2 DEF Lone
  <2> QED
    BY <2>1, <2>2
<1>13. ASSUME NEW row \in req[w].rows, FetchCategory(w, row)
       PROVE  Lone(w)'
  <2>1. CASE req[w].rows = {row}
    BY <1>13, <2>1, <1>0 DEF FetchCategory, Answer, Return
  <2>2. CASE req[w].rows # {row}
    <3>1. /\ pc[w] = "fetch" /\ pc'[w] = "fetch" /\ UNCHANGED <<categories, disturbed>>
          /\ req'[w].rows \subseteq req[w].rows
      BY <1>13, <2>2 DEF FetchCategory, Requests
    <3> QED
      BY <3>1 DEF Lone
  <2> QED
    BY <2>1, <2>2
<1>14. CASE Write(w) \/ Abort(w)
  BY <1>14, <1>0
  DEF Write, InsertEntry, UpdateEntry, DeleteEntry, InsertCategory, DropCategory, Abort, Answer,
      AnswerWritten, Return
<1> QED
  BY <1>1, <1>2, <1>3, <1>4, <1>5, <1>6, <1>7, <1>8, <1>9, <1>10, <1>11, <1>12, <1>13, <1>14
     DEF Start, Statement, Write

LEMMA LInvStep == LInv /\ [Next]_vars => LInv'
<1> SUFFICES ASSUME LInv, [Next]_vars PROVE LInv'
  OBVIOUS
<1>1. Typed' /\ CatalogIsSound'
  BY TypedStep, CatalogStep DEF LInv
<1> SUFFICES ASSUME NEW v \in Workers PROVE Lone(v)'
  BY <1>1 DEF LInv
<1>2. ASSUME NEW w \in Workers, Start(w) \/ Statement(w) \/ Abort(w)
      PROVE  Lone(v)'
  BY <1>2, OthersStayLone, OwnStaysLone DEF LInv
<1>3. ASSUME NEW u \in Users, DeleteUser(u)
      PROVE  Lone(v)'
  BY <1>3 DEF DeleteUser, Lone, At
<1>4. CASE UNCHANGED vars
  BY <1>4, LoneKept DEF LInv, vars
<1> QED
  BY <1>2, <1>3, <1>4 DEF Next

LEMMA LInvInit == Init => LInv
  BY TypedInit DEF Init, LInv, CatalogIsSound, Live, Lone

\* What a request has checked holds when it acts on it, unless it was
\* disturbed.
THEOREM LoneRequestsHoldAlways == Spec => []LoneRequestsHold
<1>1. LInv => LoneRequestsHold
  BY DEF LInv, Lone, LoneRequestsHold, Insertable, At
<1> QED
  BY <1>1, LInvInit, LInvStep, PTL DEF Spec

-----------------------------------------------------------------------------
(* What a change may do to a published entry                               *)

\* Only UpdateResource changes an entry that stays.
LEMMA ChangesAreUpdates ==
  ASSUME Typed, [Next]_vars, NEW i \in Ids, entry[i] # Null, entry'[i] # Null,
         entry'[i] # entry[i]
  PROVE  \E w \in Workers, now \in Now :
           /\ Writes(w, i)
           /\ req[w].seen # Null
           /\ entry'[i].status = StatusOf(w)
           /\ entry'[i].date = DateOf(w, now)
<1>1. ASSUME NEW w \in Workers, Write(w)
      PROVE  \E now \in Now : UpdateEntry(w, now)
  <2>1. ASSUME NEW j \in Ids, NEW now \in Now, InsertEntry(w, j, now)
        PROVE  FALSE
    <3>1. j # i
      BY <2>1 DEF InsertEntry, Typed, TablesOK, Live
    <3> QED
      BY <2>1, <3>1 DEF InsertEntry, Typed, TablesOK
  <2>2. ~DeleteEntry(w)
    BY DEF DeleteEntry, Typed, TablesOK
  <2>3. ~InsertCategory(w) /\ ~DropCategory(w)
    BY DEF InsertCategory, DropCategory
  <2> QED
    BY <1>1, <2>1, <2>2, <2>3 DEF Write
<1>2. ASSUME NEW u \in Users, DeleteUser(u)
      PROVE  FALSE
  BY <1>2 DEF DeleteUser
<1>3. PICK w \in Workers, now \in Now : UpdateEntry(w, now)
  BY <1>1, <1>2, StepsRead
<1>4. /\ pc[w] = "update" /\ req[w].id \in Ids /\ req[w].seen # Null
      /\ entry[req[w].id] # Null /\ req[w].category \in categories
  BY <1>3 DEF UpdateEntry, At, Typed, LocalsOK, RequestsAreComplete, Complete, Requests
<1>5. entry' = [entry EXCEPT ![req[w].id] =
                  [@ EXCEPT !.category = req[w].category, !.status = StatusOf(w),
                            !.date = DateOf(w, now)]]
  BY <1>3, <1>4 DEF UpdateEntry
<1>6. req[w].id = i
  BY <1>4, <1>5 DEF Typed, TablesOK
<1>7. pc'[w] = "idle"
  BY <1>3, <1>4 DEF UpdateEntry, AnswerWritten, Return, Goto, Typed, LocalsOK
<1>8. entry[i] \in Entries
  BY DEF Typed, TablesOK
<1>9. entry'[i].status = StatusOf(w) /\ entry'[i].date = DateOf(w, now)
  BY <1>5, <1>6, <1>8 DEF Entries, Typed, TablesOK
<1> QED
  BY <1>4, <1>6, <1>7, <1>9 DEF Writes, At

\* A draft is published on request, or by an overtaken change.
THEOREM DraftsStayDraftsAlways == Spec => DraftsStayDrafts
<1>1. LInv /\ [Next]_vars =>
        [\A i \in Ids :
           entry[i] # Null /\ entry[i].status = "DRAFT" /\ entry'[i] # Null
             /\ entry'[i].status = "PUBLISHED"
           => \E w \in Workers :
                /\ Writes(w, i)
                /\ \/ req[w].asked = "PUBLISHED"
                   \/ req[w].asked = Null /\ req[w].seen.status = "PUBLISHED"
                        /\ disturbed[w]]_vars
  <2> SUFFICES ASSUME LInv, [Next]_vars, NEW i \in Ids,
                      entry[i] # Null, entry[i].status = "DRAFT", entry'[i] # Null,
                      entry'[i].status = "PUBLISHED"
               PROVE  \E w \in Workers :
                        /\ Writes(w, i)
                        /\ \/ req[w].asked = "PUBLISHED"
                           \/ req[w].asked = Null /\ req[w].seen.status = "PUBLISHED"
                                /\ disturbed[w]
    OBVIOUS
  <2>1. PICK w \in Workers : Writes(w, i) /\ entry'[i].status = StatusOf(w)
    BY ChangesAreUpdates DEF LInv
  <2>2. disturbed[w] \/ req[w].seen = entry[i]
    BY <2>1 DEF LInv, Lone, Writes, At
  <2> QED
    BY <2>1, <2>2 DEF StatusOf
<1> QED
  BY <1>1, LInvInit, LInvStep, PTL DEF Spec, DraftsStayDrafts

\* The date of an entry that stays published moves only when changes overlap.
THEOREM DatesStayAlways == Spec => DatesStay
<1> DEFINE Inv == LInv /\ PublishedHasDate
<1>1. Inv /\ [Next]_vars =>
        [\A i \in Ids :
           /\ entry[i] # Null /\ entry[i].status = "PUBLISHED"
           /\ entry'[i] # Null /\ entry'[i].status = "PUBLISHED"
           /\ entry'[i].date # entry[i].date
           => \E w \in Workers :
                Writes(w, i) /\ disturbed[w] /\ req[w].seen.date # entry[i].date]_vars
  <2> SUFFICES ASSUME Inv, [Next]_vars, NEW i \in Ids,
                      entry[i] # Null, entry[i].status = "PUBLISHED",
                      entry'[i] # Null, entry'[i].status = "PUBLISHED",
                      entry'[i].date # entry[i].date
               PROVE  \E w \in Workers :
                        Writes(w, i) /\ disturbed[w] /\ req[w].seen.date # entry[i].date
    OBVIOUS
  <2>1. PICK w \in Workers, now \in Now :
          Writes(w, i) /\ entry'[i].status = StatusOf(w) /\ entry'[i].date = DateOf(w, now)
    BY ChangesAreUpdates DEF LInv
  <2>2. entry[i].date # Null
    BY DEF PublishedHasDate, Live
  <2>3. req[w].seen.date # entry[i].date
    BY <2>1, <2>2 DEF DateOf
  <2>4. disturbed[w] \/ req[w].seen = entry[i]
    BY <2>1 DEF LInv, Lone, Writes, At
  <2> QED
    BY <2>1, <2>3, <2>4
<1>2. Init => PublishedHasDate
  BY DEF Init, PublishedHasDate, Live
<1>3. LInv => Typed
  BY DEF LInv
<1> QED
  BY <1>1, <1>2, <1>3, LInvInit, LInvStep, DatedStep, PTL DEF Spec, DatesStay

-----------------------------------------------------------------------------
(* The search for a slug                                                   *)

\* Entry i was given the number k behind name, for all that is left of it.
Bears(i, name, k) == entry[i] # Null => entry[i].slug = Candidate(name, k)

\* The numbers from 1 to m were taken from name, each by an entry of its own.
Taken(name, m) ==
  \E f \in [1..m -> issued] :
    /\ \A k \in 1..m : Bears(f[k], name, k)
    /\ \A k, l \in 1..m : f[k] = f[l] => k = l

\* Worker w has passed over the numbers that were taken, and over no other.
Searching(w) ==
  /\ pc[w] = "category" /\ req[w].id = Null => req[w].n = 1
  /\ pc[w] = "slug" => req[w].n \in Nat \ {0} /\ Taken(req[w].name, req[w].n - 1)

SInv == Typed /\ \A w \in Workers : Searching(w)

\* Two numbers make two slugs of one name.
LEMMA CandidatesDiffer ==
  ASSUME NEW s \in Slugs, NEW k \in Nat, NEW n \in Nat, Candidate(s, k) = Candidate(s, n)
  PROVE  k = n
<1>1. s \in Seq(Words \cup Nat)
  BY DEF Slugs
<1>2. /\ Append(s, k) # s /\ Append(s, n) # s
      /\ Append(s, k)[Len(s) + 1] = k /\ Append(s, n)[Len(s) + 1] = n
  BY <1>1
<1> QED
  BY <1>2 DEF Candidate

\* An entry that was issued keeps its slug until it is deleted, for good.
LEMMA SlugsStay ==
  Typed /\ [Next]_vars =>
    /\ issued \subseteq issued'
    /\ \A i \in issued : entry'[i] # Null => entry[i] # Null /\ entry'[i].slug = entry[i].slug
<1> DEFINE Stay ==
             /\ issued \subseteq issued'
             /\ \A i \in issued :
                  entry'[i] # Null => entry[i] # Null /\ entry'[i].slug = entry[i].slug
<1> SUFFICES ASSUME Typed, [Next]_vars PROVE Stay
  OBVIOUS
<1> USE DEF Typed, TablesOK
<1>1. ASSUME NEW w \in Workers, NEW i \in Ids, NEW now \in Now, InsertEntry(w, i, now)
      PROVE  Stay
  <2>1. i \notin issued /\ issued' = issued \cup {i} /\ \A j \in issued : entry'[j] = entry[j]
    BY <1>1 DEF InsertEntry
  <2> QED
    BY <2>1
<1>2. ASSUME NEW w \in Workers, NEW now \in Now, UpdateEntry(w, now)
      PROVE  Stay
  <2> DEFINE i == req[w].id
             new == [entry[i] EXCEPT !.category = req[w].category, !.status = StatusOf(w),
                                     !.date = DateOf(w, now)]
  <2>1. issued' = issued
    BY <1>2 DEF UpdateEntry
  <2>2. CASE entry[i] # Null /\ req[w].category \in categories
    <3>1. i \in Ids /\ entry' = [entry EXCEPT ![i] = new]
      BY <1>2, <2>2
      DEF UpdateEntry, At, LocalsOK, RequestsAreComplete, Complete, Requests
    <3>2. new.slug = entry[i].slug
      BY <2>2, <3>1 DEF Entries
    <3> HIDE DEF new
    <3> QED
      BY <2>1, <2>2, <3>1, <3>2
  <2>3. CASE ~(entry[i] # Null /\ req[w].category \in categories)
    BY <1>2, <2>1, <2>3 DEF UpdateEntry
  <2> QED
    BY <2>2, <2>3
<1>3. ASSUME NEW w \in Workers, DeleteEntry(w)
      PROVE  Stay
  BY <1>3 DEF DeleteEntry
<1>4. ASSUME NEW w \in Workers, InsertCategory(w) \/ DropCategory(w)
      PROVE  Stay
  BY <1>4 DEF InsertCategory, DropCategory
<1>5. ASSUME NEW u \in Users, DeleteUser(u)
      PROVE  Stay
  BY <1>5 DEF DeleteUser
<1>6. CASE UNCHANGED tables
  BY <1>6 DEF tables
<1> QED
  BY <1>1, <1>2, <1>3, <1>4, <1>5, <1>6, StepsKeepTables DEF Write

\* So a number that was taken remains so.
LEMMA TakenStays ==
  ASSUME Typed, [Next]_vars, NEW name, NEW m \in Nat, Taken(name, m)
  PROVE  Taken(name, m)'
<1>1. PICK f \in [1..m -> issued] :
        /\ \A k \in 1..m : Bears(f[k], name, k)
        /\ \A k, l \in 1..m : f[k] = f[l] => k = l
  BY DEF Taken
<1>2. f \in [1..m -> issued']
  BY SlugsStay
<1>3. \A k \in 1..m : Bears(f[k], name, k)'
  BY <1>1, SlugsStay DEF Bears
<1> QED
  BY <1>1, <1>2, <1>3 DEF Taken

\* A worker that passes over a number has found the entry that bears it.
LEMMA OneMoreTaken ==
  ASSUME Typed, NEW name \in Slugs, NEW n \in Nat \ {0}, Taken(name, n - 1),
         Candidate(name, n) \in TakenSlugs
  PROVE  Taken(name, n)
<1>1. PICK f \in [1..(n - 1) -> issued] :
        /\ \A k \in 1..(n - 1) : Bears(f[k], name, k)
        /\ \A k, l \in 1..(n - 1) : f[k] = f[l] => k = l
  BY DEF Taken
<1>2. PICK i \in Live : entry[i].slug = Candidate(name, n)
  BY DEF TakenSlugs
<1>3. i \in issued
  BY DEF Typed, TablesOK
<1>4. \A k \in 1..(n - 1) : f[k] # i
  <2> SUFFICES ASSUME NEW k \in 1..(n - 1), f[k] = i PROVE FALSE
    OBVIOUS
  <2>1. Candidate(name, k) = Candidate(name, n)
    BY <1>1, <1>2 DEF Bears, Live
  <2> QED
    BY <2>1, CandidatesDiffer
<1> DEFINE g == [k \in 1..n |-> IF k = n THEN i ELSE f[k]]
<1>5. g \in [1..n -> issued]
  BY <1>3
<1>6. \A k \in 1..n : Bears(g[k], name, k)
  BY <1>1, <1>2 DEF Bears
<1>7. \A k, l \in 1..n : g[k] = g[l] => k = l
  BY <1>1, <1>4
<1> HIDE DEF g
<1> QED
  BY <1>5, <1>6, <1>7 DEF Taken

\* What a step may do to the search of v.
LEMMA SearchSteps ==
  ASSUME Typed, [Next]_vars, NEW v \in Workers
  PROVE  \/ pc'[v] = pc[v] /\ req'[v] = req[v]
         \/ \E u \in Users, c \in categories, t \in Titles, s \in Asked :
              StartCreate(v, u, c, t, s)
         \/ \E u \in Users, i \in Ids, c \in categories, s \in Asked :
              StartUpdate(v, u, i, c, s)
         \/ CheckCategory(v)
         \/ TryResourceSlug(v)
         \/ pc'[v] \notin {"category", "slug"}
<1> USE DEF Typed, LocalsOK, At, Goto
<1>1. ASSUME NEW w \in Workers, w # v, Start(w) \/ Statement(w) \/ Abort(w)
      PROVE  pc'[v] = pc[v] /\ req'[v] = req[v]
  <2>1. CASE Start(w)
    BY <1>1, <2>1
    DEF Start, StartCreate, StartUpdate, StartDelete, StartCategory, StartDrop, StartList,
        StartDetail, Begin
  <2>2. CASE Statement(w) \/ Abort(w)
    BY <1>1, <2>2
    DEF Statement, CheckCategory, TryResourceSlug, InsertEntry, UpdateEntry, DeleteEntry,
        TryCategoryCode, InsertCategory, CheckInUse, DropCategory, SelectRows, FetchCategory,
        Abort, Try, Continue, Answer, AnswerWritten, Return
  <2> QED
    BY <1>1, <2>1, <2>2
<1>2. ASSUME Statement(v) \/ Abort(v), ~CheckCategory(v), ~TryResourceSlug(v)
      PROVE  pc'[v] \notin {"category", "slug"}
  BY <1>2
  DEF Statement, InsertEntry, UpdateEntry, DeleteEntry, TryCategoryCode, InsertCategory,
      CheckInUse, DropCategory, SelectRows, FetchCategory, Abort, Try, Continue, Answer,
      AnswerWritten, Return
<1>3. ASSUME NEW u \in Users, NEW i \in Ids, StartDelete(v, u, i)
      PROVE  pc'[v] \notin {"category", "slug"}
  BY <1>3 DEF StartDelete, Begin
<1>4. ASSUME NEW l \in Labels, StartCategory(v, l)
      PROVE  pc'[v] \notin {"category", "slug"}
  BY <1>4 DEF StartCategory, Begin
<1>5. ASSUME NEW c \in categories \cup {Null}, StartDrop(v, c) \/ StartList(v, c)
      PROVE  pc'[v] \notin {"category", "slug"}
  BY <1>5 DEF StartDrop, StartList, Begin
<1>6. ASSUME NEW i \in Ids, StartDetail(v, i)
      PROVE  pc'[v] \notin {"category", "slug"}
  BY <1>6 DEF StartDetail, Begin
<1>7. ASSUME NEW u \in Users, DeleteUser(u)
      PROVE  pc'[v] = pc[v] /\ req'[v] = req[v]
  BY <1>7 DEF DeleteUser
<1>8. CASE UNCHANGED vars
  BY <1>8 DEF vars
<1> QED
  BY <1>1, <1>2, <1>3, <1>4, <1>5, <1>6, <1>7, <1>8 DEF Next, Start

LEMMA SInvStep == SInv /\ [Next]_vars => SInv'
<1> SUFFICES ASSUME SInv, [Next]_vars PROVE SInv'
  OBVIOUS
<1> SUFFICES ASSUME NEW v \in Workers PROVE Searching(v)'
  BY TypedStep DEF SInv
<1> USE DEF SInv, Typed, LocalsOK, At, Goto
<1>1. CASE pc'[v] = pc[v] /\ req'[v] = req[v]
  BY <1>1, TakenStays DEF Searching
<1>2. ASSUME NEW u \in Users, NEW c \in categories, NEW t \in Titles, NEW s \in Asked,
             StartCreate(v, u, c, t, s)
      PROVE  Searching(v)'
  BY <1>2 DEF StartCreate, Begin, NoRequest, Searching
<1>3. ASSUME NEW u \in Users, NEW i \in Ids, NEW c \in categories, NEW s \in Asked,
             StartUpdate(v, u, i, c, s)
      PROVE  Searching(v)'
  BY <1>3, ResourcesConstants DEF StartUpdate, Begin, NoRequest, Searching
<1>4. CASE CheckCategory(v)
  <2>1. CASE pc'[v] = "slug"
    <3>1. pc[v] = "category" /\ req[v].id = Null /\ req'[v] = req[v]
      BY <1>4, <2>1 DEF CheckCategory, Continue, Answer, Return
    <3>2. req'[v].n = 1
      BY <3>1 DEF Searching
    <3>3. Taken(req[v].name, 0)'
      <4>1. [k \in {} |-> k] \in [1..0 -> issued']
        OBVIOUS
      <4> QED
        BY <4>1 DEF Taken
    <3> QED
      BY <2>1, <3>1, <3>2, <3>3 DEF Searching
  <2>2. CASE pc'[v] # "slug"
    BY <1>4, <2>2 DEF CheckCategory, Continue, Answer, Return, Searching
  <2> QED
    BY <2>1, <2>2
<1>5. CASE TryResourceSlug(v)
  <2>1. CASE Candidate(req[v].name, req[v].n) \in TakenSlugs
    <3>1. /\ pc'[v] = "slug" /\ pc[v] = "slug"
          /\ req'[v].name = req[v].name /\ req'[v].n = req[v].n + 1
      BY <1>5, <2>1 DEF TryResourceSlug, Try, Requests
    <3>2. req[v].name \in Slugs /\ req[v].n \in Nat \ {0} /\ Taken(req[v].name, req[v].n - 1)
      BY <3>1 DEF Searching, RequestsAreComplete, Complete, Requests
    <3>3. PICK name \in Slugs, n \in Nat \ {0} : name = req[v].name /\ n = req[v].n
      BY <3>2
    <3>4. Taken(name, n)
      BY <2>1, <3>2, <3>3, OneMoreTaken
    <3>5. Taken(name, n)'
      BY <3>4, TakenStays
    <3>6. req'[v].n \in Nat \ {0} /\ req'[v].n - 1 = n /\ req'[v].name = name
      BY <3>1, <3>3
    <3> QED
      BY <3>1, <3>5, <3>6 DEF Searching
  <2>2. CASE Candidate(req[v].name, req[v].n) \notin TakenSlugs
    BY <1>5, <2>2 DEF TryResourceSlug, Try, Continue, Searching
  <2> QED
    BY <2>1, <2>2
<1>6. CASE pc'[v] \notin {"category", "slug"}
  BY <1>6 DEF Searching
<1> QED
  BY <1>1, <1>2, <1>3, <1>4, <1>5, <1>6, SearchSteps

\* A number that was passed over has an entry of its own, so there are no
\* more of them than entries.
THEOREM SearchIsBoundedAlways == Spec => []SearchIsBounded
<1>1. Init => SInv
  BY TypedInit DEF Init, SInv, Searching
<1>2. SInv => SearchIsBounded
  <2> SUFFICES ASSUME SInv, NEW w \in Workers, pc[w] = "slug"
               PROVE  req[w].n <= Cardinality(issued) + 1
    BY DEF SearchIsBounded, At
  <2> DEFINE m == req[w].n - 1
  <2>1. m \in Nat /\ Taken(req[w].name, m)
    BY DEF SInv, Searching
  <2>2. PICK f \in [1..m -> issued] : \A k, l \in 1..m : f[k] = f[l] => k = l
    BY <2>1 DEF Taken
  <2>3. f \in Injection(1..m, issued)
    BY <2>2 DEF Injection, IsInjective
  <2>4. IsFiniteSet(issued) /\ Cardinality(issued) \in Nat
    BY ResourcesConstants, FS_Subset, FS_CardinalityType DEF SInv, Typed, TablesOK
  <2>5. Cardinality(1..m) <= Cardinality(issued)
    BY <2>3, <2>4, FS_Injection
  <2>6. Cardinality(1..m) = m
    BY <2>1, FS_Interval
  <2>7. req[w].n \in Nat
    BY DEF SInv, Searching
  <2> QED
    BY <2>4, <2>5, <2>6, <2>7
<1> QED
  BY <1>1, <1>2, SInvStep, PTL DEF Spec

-----------------------------------------------------------------------------
(* Resources implements Catalog                                            *)

Pages == {Page(i) : i \in Live}

\* What writing row as entry i does to the pages.
Others(i) == IF i \in Live THEN Pages \ {Page(i)} ELSE Pages

PageOf(row) ==
  [address |-> row.slug, author |-> row.author, topic |-> row.category, since |-> row.date]

LEMMA PagesAfter ==
  ASSUME Typed, CatalogIsSound, NEW i \in Ids, NEW row, entry' = [entry EXCEPT ![i] = row]
  PROVE  /\ row = Null => Pages' = Others(i)
         /\ row # Null => Pages' = Others(i) \cup {PageOf(row)}
<1>1. /\ entry'[i] = row /\ \A j \in Ids \ {i} : entry'[j] = entry[j]
      /\ \A j \in Ids \ {i} : Page(j)' = Page(j)
  BY DEF Typed, TablesOK, Page
<1>2. ASSUME NEW j \in Live \ {i} PROVE Page(j) \in Others(i) /\ Page(j) \in Pages'
  <2>1. Page(j) \in Pages /\ (i \in Live => Page(j) # Page(i))
    BY <1>2 DEF CatalogIsSound, Page, Pages
  <2>2. j \in Live' /\ Page(j)' = Page(j)
    BY <1>1, <1>2 DEF Live
  <2>3. Page(j)' \in Pages'
    BY <2>2 DEF Pages
  <2> QED BY <2>1, <2>2, <2>3 DEF Others
<1>3. \A p \in Others(i) : \E j \in Live \ {i} : p = Page(j)
  BY DEF Others, Pages
<1>4. Live' \subseteq Live \cup {i} /\ (i \in Live' <=> row # Null)
  BY <1>1 DEF Live
<1>5. \A p \in Pages' : (\E j \in Live \ {i} : p = Page(j)) \/ (row # Null /\ p = PageOf(row))
  BY <1>1, <1>4 DEF Pages, Page, PageOf
<1>6. row # Null => PageOf(row) \in Pages'
  BY <1>1, <1>4 DEF Pages, Page, PageOf
<1> QED BY <1>2, <1>3, <1>5, <1>6

LEMMA LinksInit == Init => Links!Init
<1> SUFFICES ASSUME Init PROVE Links!Init
  OBVIOUS
<1>1. Live = {}
  BY DEF Init, Live
<1> QED BY <1>1 DEF Init, Links!Init

\* InsertEntry opens a page, at an address that the unique index has let pass.
LEMMA InsertOpens ==
  ASSUME Typed, CatalogIsSound, NEW w \in Workers, NEW i \in Ids, NEW now \in Now,
         InsertEntry(w, i, now)
  PROVE  [Links!Next]_Links!vars
<1>1. CASE Insertable(w)
  <2> DEFINE row == NewEntry(w, now)
             q == PageOf(row)
  <2>1. /\ entry' = [entry EXCEPT ![i] = row]
        /\ UNCHANGED <<users, categories>>
        /\ Others(i) = Pages
    BY <1>1 DEF InsertEntry, Typed, TablesOK, Others
  <2>2. /\ q.address \notin TakenSlugs /\ q.author \in users /\ q.topic \in categories
    BY <1>1 DEF PageOf, NewEntry, Insertable
  <2>3. \A p \in Pages : p.address # q.address
    BY <2>2 DEF Pages, Page, TakenSlugs
  <2> HIDE DEF row
  <2>4. Pages' = Pages \/ Pages' = Pages \cup {q}
    BY <2>1, PagesAfter
  <2>5. CASE Pages' = Pages
    BY <2>1, <2>5 DEF Links!vars, Pages
  <2>6. CASE Pages' = Pages \cup {q}
    <3>1. Links!Open(q)
      BY <2>1, <2>2, <2>3, <2>6 DEF Links!Open, Pages
    <3> QED BY <3>1, <2>6 DEF Links!Next, Pages
  <2> QED BY <2>4, <2>5, <2>6
<1>2. CASE ~Insertable(w)
  <2>1. UNCHANGED <<entry, users, categories>>
    BY <1>2 DEF InsertEntry
  <2> QED BY <2>1 DEF Links!vars, Live, Page
<1> QED BY <1>1, <1>2

\* UpdateEntry changes the page of the entry, whatever it has read of it.
LEMMA UpdateChanges ==
  ASSUME Typed, CatalogIsSound, NEW w \in Workers, NEW now \in Now, UpdateEntry(w, now)
  PROVE  [Links!Next]_Links!vars
<1> DEFINE i == req[w].id
           row == [entry[i] EXCEPT !.category = req[w].category, !.status = StatusOf(w),
                                   !.date = DateOf(w, now)]
           p == Page(i)
           q == PageOf(row)
<1>1. CASE entry[i] # Null /\ req[w].category \in categories
  <2>1. i \in Live /\ entry' = [entry EXCEPT ![i] = row] /\ UNCHANGED <<users, categories>>
    BY <1>1 DEF UpdateEntry, At, Typed, LocalsOK, RequestsAreComplete, Complete, Requests, Live
  <2>2. entry[i] \in Entries
    BY <2>1 DEF Typed, TablesOK, Live
  <2>3. q.address = p.address /\ q.author = p.author /\ q.topic \in categories
    BY <1>1, <2>2 DEF Entries, Page, PageOf
  <2>4. p \in Pages /\ Others(i) = Pages \ {p}
    BY <2>1 DEF Pages, Others
  <2>5. i \in Ids
    BY <2>1 DEF Live
  <2> HIDE DEF i, row, p, q
  <2>6. Pages' = Pages \ {p} \/ Pages' = (Pages \ {p}) \cup {PageOf(row)}
    BY <2>1, <2>4, <2>5, PagesAfter
  <2>7. CASE Pages' = Pages \ {p}
    <3>1. Links!Remove(p)
      BY <2>1, <2>7 DEF Links!Remove, Pages
    <3> QED BY <2>4, <3>1 DEF Links!Next, Pages
  <2>8. CASE Pages' = (Pages \ {p}) \cup {q}
    <3>1. Links!Change(p, q)
      BY <2>1, <2>3, <2>8 DEF Links!Change, Pages
    <3>2. q \in Pages'
      BY <2>8
    <3> QED BY <2>4, <3>1, <3>2 DEF Links!Next, Pages
  <2> QED BY <2>6, <2>7, <2>8 DEF q
<1>2. CASE ~(entry[i] # Null /\ req[w].category \in categories)
  <2>1. UNCHANGED <<entry, users, categories>>
    BY <1>2 DEF UpdateEntry
  <2> QED BY <2>1 DEF Links!vars, Live, Page
<1> QED BY <1>1, <1>2

LEMMA DeleteRemoves ==
  ASSUME Typed, CatalogIsSound, NEW w \in Workers, DeleteEntry(w)
  PROVE  [Links!Next]_Links!vars
<1> DEFINE i == req[w].id
<1>1. i \in Ids /\ entry' = [entry EXCEPT ![i] = Null] /\ UNCHANGED <<users, categories>>
  BY DEF DeleteEntry, At, Typed, LocalsOK, RequestsAreComplete, Complete, Requests
<1> HIDE DEF i
<1>2. Pages' = Others(i)
  BY <1>1, PagesAfter
<1>3. CASE i \in Live
  <2>1. Page(i) \in Pages /\ Pages' = Pages \ {Page(i)}
    BY <1>2, <1>3 DEF Pages, Others
  <2>2. Links!Remove(Page(i))
    BY <1>1, <2>1 DEF Links!Remove, Pages
  <2> QED BY <2>1, <2>2 DEF Links!Next, Pages
<1>4. CASE i \notin Live
  BY <1>1, <1>2, <1>4 DEF Links!vars, Pages, Others
<1> QED BY <1>3, <1>4

\* The cascade of a deletion takes the pages of that author.
LEMMA DeleteUserLeaves ==
  ASSUME NEW u \in Users, DeleteUser(u)
  PROVE  Links!Next
<1>1. \A i \in Live : i \in Live' <=> entry[i].author # u
  BY DEF DeleteUser, Live
<1>2. Live' \subseteq Live /\ \A i \in Live' : entry'[i] = entry[i]
  BY DEF DeleteUser, Live
<1>3. Pages' = {p \in Pages : p.author # u}
  BY <1>1, <1>2 DEF Pages, Page
<1>4. Links!Leave(u)
  BY <1>3 DEF Links!Leave, DeleteUser, Pages
<1> QED BY <1>4 DEF Links!Next, DeleteUser

\* The writes to categories leave the pages alone; the foreign key refuses the
\* deletion of one in use.
LEMMA CategoriesChange ==
  ASSUME NEW w \in Workers, InsertCategory(w) \/ DropCategory(w)
  PROVE  [Links!Next]_Links!vars
<1>0. UNCHANGED <<users, entry>> /\ Pages' = Pages
  BY DEF InsertCategory, DropCategory, Pages, Page, Live
<1>1. CASE InsertCategory(w)
  <2> DEFINE t == Candidate(req[w].name, req[w].n)
  <2>1. categories' = categories \cup {t}
    BY <1>1 DEF InsertCategory
  <2>2. Links!AddTopic(t)
    BY <1>0, <2>1 DEF Links!AddTopic, Pages
  <2> QED BY <2>1, <2>2 DEF Links!Next
<1>2. CASE DropCategory(w) /\ req[w].category \in categories /\ ~Used(req[w].category)
  <2> DEFINE t == req[w].category
  <2>1. categories' = categories \ {t} /\ \A p \in Pages : p.topic # t
    BY <1>2 DEF DropCategory, Used, Pages, Page
  <2>2. Links!DropTopic(t)
    BY <1>0, <2>1 DEF Links!DropTopic, Pages
  <2> QED BY <1>2, <2>2 DEF Links!Next
<1>3. CASE DropCategory(w) /\ ~(req[w].category \in categories /\ ~Used(req[w].category))
  <2>1. categories' = categories
    BY <1>3 DEF DropCategory
  <2> QED BY <1>0, <2>1 DEF Links!vars, Pages
<1> QED BY <1>1, <1>2, <1>3

LEMMA LinksStep == Typed /\ CatalogIsSound /\ [Next]_vars => [Links!Next]_Links!vars
<1> SUFFICES ASSUME Typed, CatalogIsSound, [Next]_vars PROVE [Links!Next]_Links!vars
  OBVIOUS
<1>1. ASSUME NEW w \in Workers, Write(w) PROVE [Links!Next]_Links!vars
  BY <1>1, InsertOpens, UpdateChanges, DeleteRemoves, CategoriesChange DEF Write
<1>2. ASSUME NEW u \in Users, DeleteUser(u) PROVE [Links!Next]_Links!vars
  BY <1>2, DeleteUserLeaves
<1>3. CASE UNCHANGED tables
  BY <1>3 DEF tables, Links!vars, Live, Page
<1> QED BY <1>1, <1>2, <1>3, StepsKeepTables

\* However requests overlap, fail, or act on what they have read before, the
\* resources are a catalog: each statement that writes is one step of it, and
\* nothing else changes it.
THEOREM LinksHoldAlways == Spec => LinksHold
<1>1. Init => CatalogIsSound
  BY DEF Init, CatalogIsSound, Live
<1> QED
  BY <1>1, TypedInit, TypedStep, CatalogStep, LinksInit, LinksStep, PTL
  DEF Spec, LinksHold, Links!Spec

-----------------------------------------------------------------------------
(* What the catalog implies                                                *)

LEMMA SoundInit == Links!Init => Links!Sound
  BY DEF Links!Init, Links!Sound

LEMMA SoundStep == Links!Sound /\ [Links!Next]_Links!vars => Links!Sound'
<1> SUFFICES ASSUME Links!Sound, [Links!Next]_Links!vars PROVE Links!Sound'
  OBVIOUS
<1> USE DEF Links!Sound, Pages
<1>1. ASSUME NEW q \in Pages', Links!Open(q) PROVE Links!Sound'
  BY <1>1 DEF Links!Open
<1>2. ASSUME NEW p \in Pages, NEW q \in Pages', Links!Change(p, q) PROVE Links!Sound'
  BY <1>2 DEF Links!Change
<1>3. ASSUME NEW p \in Pages, Links!Remove(p) PROVE Links!Sound'
  BY <1>3 DEF Links!Remove
<1>4. ASSUME NEW a \in users, Links!Leave(a) PROVE Links!Sound'
  BY <1>4 DEF Links!Leave
<1>5. ASSUME NEW t, Links!AddTopic(t) \/ Links!DropTopic(t) PROVE Links!Sound'
  BY <1>5 DEF Links!AddTopic, Links!DropTopic
<1>6. CASE UNCHANGED Links!vars
  BY <1>6 DEF Links!vars
<1> QED BY <1>1, <1>2, <1>3, <1>4, <1>5, <1>6 DEF Links!Next

\* A link keeps leading to a page of the same author until the page is gone.
THEOREM AddressesStayAlways == Spec => Links!AddressesStay
<1>1. Links!Sound /\ [Links!Next]_Links!vars
      => [\A p \in Pages, q \in Pages' : p.address = q.address => p.author = q.author]_Links!vars
  <2> SUFFICES ASSUME Links!Sound, Links!Next, NEW p \in Pages, NEW q \in Pages',
                      p.address = q.address
               PROVE  p.author = q.author
    OBVIOUS
  <2> USE DEF Links!Sound, Pages
  <2>1. ASSUME NEW r \in Pages', Links!Open(r) PROVE p.author = q.author
    BY <2>1 DEF Links!Open
  <2>2. ASSUME NEW o \in Pages, NEW r \in Pages', Links!Change(o, r) PROVE p.author = q.author
    BY <2>2 DEF Links!Change
  <2>3. CASE Pages' \subseteq Pages
    BY <2>3
  <2> QED
    BY <2>1, <2>2, <2>3
    DEF Links!Next, Links!Remove, Links!Leave, Links!AddTopic, Links!DropTopic
<1> QED
  BY <1>1, LinksHoldAlways, SoundInit, SoundStep, PTL
  DEF LinksHold, Links!Spec, Links!AddressesStay, Pages
=============================================================================
