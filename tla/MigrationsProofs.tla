-------------------------- MODULE MigrationsProofs --------------------------
(***************************************************************************)
(* Theorems about Migrations, for every set of files and servers, every    *)
(* order of versions and any number of crashes.                            *)
(***************************************************************************)
EXTENDS Migrations, FiniteSetTheorems, TLAPS

-----------------------------------------------------------------------------
(* The inductive invariant                                                 *)

\* What a server has behind it and before it: it was started from an image, and
\* once it has read the journal, what it has no longer to run is in there.
Placed(p) ==
  /\ own[p] \in Images
  /\ todo[p] \subseteq own[p]
  /\ pc[p] \in {"run", "record", "up"} => \A f \in own[p] \ todo[p] : Recorded(f)
  /\ pc[p] \in {"down", "exists", "create", "applied"} => todo[p] = {}
  /\ At(p, "up") => todo[p] = {}
  /\ At(p, "record") => First(todo[p]) \subseteq ran

IInv ==
  /\ TypeOK
  /\ image \in Images
  /\ \A p \in Servers : Placed(p)
  /\ JournalLagsByOne

-----------------------------------------------------------------------------
(* Lemmas                                                                  *)

LEMMA NoneIsImage == {} \in Images
  BY DEF Images

\* A version that is recorded is that of one file.
LEMMA RecordedOnce ==
  ASSUME versions \subseteq Versions, NEW f \in Files, NEW g \in Files,
         names' = names \cup {f}, versions' = versions \cup ({Version[f]} \ {Null}),
         Recorded(g)'
  PROVE  Recorded(g) \/ g = f
  BY MigrationsConstants DEF Recorded, Versions

\* The order of files: no two precede each other.
LEMMA BeforeIsStrict ==
  ASSUME NEW f \in Files, NEW g \in Files, Before(f, g)
  PROVE  ~Before(g, f)
<1>1. Rank[f] \in Nat /\ Rank[g] \in Nat
  BY MigrationsConstants
<1>2. NumberOf(f) \in Nat \cup {Null} /\ NumberOf(g) \in Nat \cup {Null}
  BY MigrationsConstants DEF NumberOf, Versions
<1> QED BY <1>1, <1>2 DEF Before

LEMMA IInvInit == Init => IInv
<1> SUFFICES ASSUME Init PROVE IInv
  OBVIOUS
<1> PICK S \in Images :
      /\ image \in {T \in Images : S \subseteq T}
      /\ ran = S
      /\ schema = TablesAfter(S)
      /\ journal = (S # {})
      /\ names \in {{}, S}
      /\ versions \in {{}, {Version[f] : f \in S} \ {Null}}
      /\ \A f \in S : Recorded(f)
  BY DEF Init
<1>1. S \subseteq Files /\ image \subseteq Files /\ image \in Images
  BY DEF Images
<1>2. TypeOK
  <2>1. versions \subseteq Versions
    BY <1>1 DEF Versions
  <2>2. schema \subseteq Tables
    BY DEF TablesAfter
  <2>3. crashes \in 0 .. MaxCrashes
    BY MigrationsConstants DEF Init
  <2>4. names \subseteq Files /\ journal \in BOOLEAN /\ overlapped \in BOOLEAN
    BY <1>1 DEF Init
  <2>5. /\ pc \in [Servers -> {"down", "exists", "create", "applied", "run", "record", "up"}]
        /\ todo \in [Servers -> SUBSET Files]
        /\ own \in [Servers -> SUBSET Files]
    BY DEF Init
  <2> QED BY <1>1, <2>1, <2>2, <2>3, <2>4, <2>5 DEF TypeOK
<1>3. ASSUME NEW f \in Files, Recorded(f) PROVE f \in ran
  <2>1. CASE f \in names
    BY <2>1
  <2>2. CASE Version[f] \in versions
    <3>1. PICK g \in S : Version[g] = Version[f] /\ Version[f] # Null
      BY <2>2
    <3> QED BY <3>1, <1>1, MigrationsConstants
  <2> QED BY <1>3, <2>1, <2>2 DEF Recorded
<1>4. JournalLagsByOne
  BY <1>3 DEF JournalLagsByOne
<1>5. ASSUME NEW p \in Servers PROVE Placed(p)
  BY NoneIsImage DEF Init, Placed, At
<1> QED BY <1>1, <1>2, <1>4, <1>5 DEF IInv

\* A step of a server leaves the others where they are: what they rely on is
\* only ever added to.
LEMMA OthersPlaced ==
  ASSUME IInv, NEW p \in Servers, NEW q \in Servers \ {p},
         pc'[q] = pc[q], todo'[q] = todo[q], own'[q] = own[q],
         names \subseteq names', versions \subseteq versions', ran \subseteq ran'
  PROVE  Placed(q)'
  BY DEF IInv, Placed, At, Recorded, First

\* Apply has returned an error, or the process is killed.
LEMMA FatalPlaced ==
  ASSUME IInv, NEW p \in Servers, Fatal(p)
  PROVE  /\ pc' \in [Servers -> {"down", "exists", "create", "applied", "run", "record", "up"}]
         /\ todo' \in [Servers -> SUBSET Files]
         /\ own' \in [Servers -> SUBSET Files]
         /\ Placed(p)'
         /\ \A q \in Servers \ {p} : pc'[q] = pc[q] /\ todo'[q] = todo[q] /\ own'[q] = own[q]
  BY NoneIsImage DEF IInv, TypeOK, Fatal, Goto, Placed, At

LEMMA FatalKeeps ==
  ASSUME IInv, NEW p \in Servers, Fatal(p), journal' \in BOOLEAN, crashes' \in 0 .. MaxCrashes,
         UNCHANGED <<image, names, versions, schema, ran, overlapped>>
  PROVE  IInv'
<1>1. TypeOK'
  BY FatalPlaced DEF IInv, TypeOK
<1>2. \A q \in Servers : Placed(q)'
  BY FatalPlaced, OthersPlaced
<1>3. JournalLagsByOne'
  BY DEF IInv, JournalLagsByOne, Recorded
<1> QED BY <1>1, <1>2, <1>3 DEF IInv

\* ReadApplied.
LEMMA ReadKeeps ==
  ASSUME IInv, NEW p \in Servers, ReadApplied(p)
  PROVE  IInv'
<1> DEFINE files == {f \in own[p] : ~Recorded(f)}
<1>1. own[p] \subseteq Files /\ files \subseteq own[p]
  BY DEF IInv, TypeOK
<1>2. TypeOK'
  BY <1>1 DEF IInv, TypeOK, ReadApplied, Continue, Goto, database
<1>3. \A f \in own[p] \ files : Recorded(f)
  OBVIOUS
<1>4. Placed(p)'
  BY <1>1, <1>3 DEF IInv, TypeOK, ReadApplied, Continue, Goto, Placed, At, Recorded, database
<1>5. ASSUME NEW q \in Servers \ {p} PROVE Placed(q)'
  BY <1>5, OthersPlaced DEF IInv, TypeOK, ReadApplied, Continue, Goto, database
<1>6. JournalLagsByOne' /\ image' \in Images
  BY DEF IInv, JournalLagsByOne, Recorded, ReadApplied, database
<1> QED BY <1>2, <1>4, <1>5, <1>6 DEF IInv

\* RunFile: the files before this one are in the journal, for this server has
\* them behind it.
LEMMA RunKeeps ==
  ASSUME IInv, NEW p \in Servers, NEW f \in Files, RunFile(p, f)
  PROVE  IInv'
<1>1. CASE Needs[f] \subseteq schema
  <2>1. /\ f \in First(todo[p]) /\ ran' = ran \cup {f}
        /\ schema' = (schema \cup Creates[f]) \ Drops[f]
        /\ pc' = [pc EXCEPT ![p] = "record"]
        /\ UNCHANGED <<image, journal, names, versions, todo, own, crashes, overlapped>>
    BY <1>1 DEF RunFile, Goto
  <2>2. TypeOK'
    BY <2>1, MigrationsConstants DEF IInv, TypeOK
  <2>3. \A g \in First(todo[p]) : g = f \/ (Before(g, f) /\ Before(f, g))
    BY <2>1 DEF First
  <2>4. \A g \in Files : Before(g, f) => Recorded(g)
    <3> SUFFICES ASSUME NEW g \in Files, Before(g, f) PROVE Recorded(g)
      OBVIOUS
    <3>1. f \in own[p] /\ own[p] \in Images
      BY <2>1 DEF IInv, Placed, First
    <3>2. g \in own[p]
      BY <3>1 DEF Images
    <3>3. g \notin todo[p]
      BY <2>1, BeforeIsStrict DEF First
    <3> QED BY <3>2, <3>3 DEF IInv, Placed, RunFile, At
  <2>5. First(todo[p]) \subseteq {f}
    BY <2>3, BeforeIsStrict DEF IInv, TypeOK, First
  <2>6. Placed(p)'
    BY <2>1, <2>5 DEF IInv, TypeOK, Placed, At, Recorded, First
  <2>7. ASSUME NEW q \in Servers \ {p} PROVE Placed(q)'
    BY <2>1, <2>7, OthersPlaced DEF IInv, TypeOK
  <2>8. JournalLagsByOne'
    BY <2>1, <2>4 DEF IInv, JournalLagsByOne, Recorded
  <2> QED BY <2>1, <2>2, <2>6, <2>7, <2>8 DEF IInv
<1>2. CASE ~(Needs[f] \subseteq schema)
  <2>1. Fatal(p) /\ UNCHANGED <<image, journal, names, versions, schema, ran, crashes, overlapped>>
    BY <1>2 DEF RunFile
  <2> QED BY <2>1, FatalKeeps DEF IInv, TypeOK
<1> QED BY <1>1, <1>2

\* Record.
LEMMA RecordKeeps ==
  ASSUME IInv, NEW p \in Servers, NEW f \in Files, Record(p, f)
  PROVE  IInv'
<1>1. CASE Recorded(f)
  <2>1. Fatal(p) /\ UNCHANGED <<image, journal, names, versions, schema, ran, crashes, overlapped>>
    BY <1>1 DEF Record
  <2> QED BY <2>1, FatalKeeps DEF IInv, TypeOK
<1>2. CASE ~Recorded(f)
  <2>1. /\ f \in First(todo[p]) /\ At(p, "record")
        /\ names' = names \cup {f} /\ versions' = versions \cup ({Version[f]} \ {Null})
        /\ Continue(p, todo[p] \ {f})
        /\ UNCHANGED <<image, journal, schema, own, crashes, ran, overlapped>>
    BY <1>2 DEF Record
  <2>2. TypeOK'
    BY <2>1 DEF IInv, TypeOK, Continue, Goto, Versions
  <2>3. f \in ran /\ Recorded(f)'
    BY <2>1 DEF IInv, Placed, Recorded
  <2>4. \A g \in Files : Recorded(g)' <=> Recorded(g) \/ g = f
    BY <2>1, <2>3, RecordedOnce DEF IInv, TypeOK, Recorded
  <2>5. Placed(p)'
    <3>1. own'[p] \in Images /\ todo'[p] \subseteq own'[p]
      BY <2>1 DEF IInv, TypeOK, Placed, Continue
    <3>2. \A g \in own'[p] \ todo'[p] : Recorded(g)'
      BY <2>1, <2>4 DEF IInv, TypeOK, Placed, Continue, At
    <3>3. pc'[p] = (IF todo'[p] = {} THEN "up" ELSE "run")
      BY <2>1 DEF IInv, TypeOK, Continue, Goto
    <3> QED BY <3>1, <3>2, <3>3 DEF Placed, At
  <2>6. ASSUME NEW q \in Servers \ {p} PROVE Placed(q)'
    BY <2>1, <2>6, OthersPlaced DEF IInv, TypeOK, Continue, Goto
  <2>7. JournalLagsByOne'
    <3>1. ASSUME NEW g \in Files, Recorded(g)' PROVE g \in ran'
      BY <3>1, <2>1, <2>3, <2>4 DEF IInv, JournalLagsByOne
    <3>2. ASSUME NEW g \in ran', ~Recorded(g)', NEW h \in Files, Before(h, g) PROVE Recorded(h)'
      <4>1. g \in ran /\ g \in Files /\ ~Recorded(g)
        BY <3>2, <2>1, <2>4 DEF IInv, TypeOK
      <4>2. Recorded(h)
        BY <4>1, <3>2 DEF IInv, JournalLagsByOne
      <4> QED BY <4>2, <2>4
    <3> QED BY <3>1, <3>2 DEF JournalLagsByOne, Before, NumberOf
  <2> QED BY <2>1, <2>2, <2>5, <2>6, <2>7 DEF IInv
<1> QED BY <1>1, <1>2

-----------------------------------------------------------------------------
(* The invariant and what it says                                          *)

LEMMA IInvStep == IInv /\ [Next]_vars => IInv'
<1> SUFFICES ASSUME IInv, [Next]_vars PROVE IInv'
  OBVIOUS
<1>0. ASSUME NEW p \in Servers, Start(p) PROVE IInv'
  <2>1. /\ pc[p] = "down" /\ pc' = [pc EXCEPT ![p] = "exists"]
        /\ own' = [own EXCEPT ![p] = image]
        /\ overlapped' \in BOOLEAN
        /\ UNCHANGED <<image, journal, names, versions, schema, todo, crashes, ran>>
    BY <1>0 DEF IInv, TypeOK, Start, Goto, At, database
  <2>2. TypeOK'
    BY <2>1 DEF IInv, TypeOK
  <2>3. Placed(p)'
    BY <2>1 DEF IInv, TypeOK, Placed, At
  <2>4. ASSUME NEW q \in Servers \ {p} PROVE Placed(q)'
    BY <2>1, <2>4, OthersPlaced DEF IInv, TypeOK
  <2>5. JournalLagsByOne'
    BY <2>1 DEF IInv, JournalLagsByOne, Recorded
  <2> QED BY <2>1, <2>2, <2>3, <2>4, <2>5 DEF IInv
<1>1. ASSUME NEW p \in Servers, FindJournal(p) PROVE IInv'
  <2>1. /\ pc' \in [Servers -> {"down", "exists", "create", "applied", "run", "record", "up"}]
        /\ pc[p] = "exists" /\ pc'[p] \in {"create", "applied"}
        /\ \A q \in Servers \ {p} : pc'[q] = pc[q]
        /\ overlapped' \in BOOLEAN
        /\ UNCHANGED <<image, journal, names, versions, schema, todo, own, crashes, ran>>
    BY <1>1 DEF IInv, TypeOK, FindJournal, Goto, At, database
  <2>2. TypeOK'
    BY <2>1 DEF IInv, TypeOK
  <2>3. Placed(p)'
    BY <2>1 DEF IInv, Placed, At, Recorded
  <2>4. ASSUME NEW q \in Servers \ {p} PROVE Placed(q)'
    BY <2>1, <2>4, OthersPlaced
  <2>5. JournalLagsByOne'
    BY <2>1 DEF IInv, JournalLagsByOne, Recorded
  <2> QED BY <2>1, <2>2, <2>3, <2>4, <2>5 DEF IInv
<1>2. ASSUME NEW p \in Servers, CreateJournal(p) PROVE IInv'
  <2>1. CASE journal
    <3>1. Fatal(p) /\ journal' = TRUE
            /\ UNCHANGED <<image, names, versions, schema, crashes, ran, overlapped>>
      BY <1>2, <2>1 DEF CreateJournal
    <3> QED BY <3>1, FatalKeeps DEF IInv, TypeOK
  <2>2. CASE ~journal
    <3>1. /\ pc[p] = "create" /\ pc' = [pc EXCEPT ![p] = "applied"] /\ journal' = TRUE
          /\ UNCHANGED <<image, names, versions, schema, todo, own, crashes, ran, overlapped>>
      BY <1>2, <2>2 DEF CreateJournal, Goto, At
    <3>2. TypeOK'
      BY <3>1 DEF IInv, TypeOK
    <3>3. Placed(p)'
      BY <3>1 DEF IInv, TypeOK, Placed, At, Recorded
    <3>4. ASSUME NEW q \in Servers \ {p} PROVE Placed(q)'
      BY <3>1, <3>4, OthersPlaced DEF IInv, TypeOK
    <3>5. JournalLagsByOne'
      BY <3>1 DEF IInv, JournalLagsByOne, Recorded
    <3> QED BY <3>1, <3>2, <3>3, <3>4, <3>5 DEF IInv
  <2> QED BY <2>1, <2>2
<1>3. ASSUME NEW p \in Servers, Crash(p) PROVE IInv'
  BY <1>3, FatalKeeps, MigrationsConstants DEF Crash, database, IInv, TypeOK
<1>4. ASSUME NEW S \in Images, Deploy(S) PROVE IInv'
  <2>1. image' \in Images /\ image' \subseteq Files
    BY <1>4 DEF Deploy, Images
  <2> QED BY <1>4, <2>1 DEF Deploy, database, IInv, TypeOK, Placed, At, Recorded, First, JournalLagsByOne
<1>5. CASE UNCHANGED vars
  BY <1>5 DEF vars, database, IInv, TypeOK, Placed, At, Recorded, First, JournalLagsByOne
<1> QED
  BY <1>0, <1>1, <1>2, <1>3, <1>4, <1>5, ReadKeeps, RunKeeps, RecordKeeps DEF Next, Step

LEMMA IInvAlways == Spec => []IInv
  BY IInvInit, IInvStep, PTL DEF Spec

\* Every variable keeps its type, for any number of servers, files and
\* crashes.
THEOREM TypeCorrect == Spec => []TypeOK
<1>1. IInv => TypeOK
  BY DEF IInv
<1> QED BY <1>1, IInvAlways, PTL

\* At most one file has run that the journal does not hold, and it is the next
\* one: a crash, or a second server, makes no other run again out of its turn.
THEOREM JournalLagsByOneAlways == Spec => []JournalLagsByOne
<1>1. IInv => JournalLagsByOne
  BY DEF IInv
<1> QED BY <1>1, IInvAlways, PTL

\* A server that serves has the migrations of its image behind it.
THEOREM UpIsMigratedAlways == Spec => []UpIsMigrated
<1>1. IInv => UpIsMigrated
  BY DEF IInv, TypeOK, Placed, UpIsMigrated, At, JournalLagsByOne
<1> QED BY <1>1, IInvAlways, PTL

-----------------------------------------------------------------------------
(* The tables                                                              *)

\* What SchemaIsMade needs besides: the journal holds a prefix of the files,
\* nothing has run that is not in the newest image, and as long as servers
\* start one at a time the one that starts knows all that has run.
Prefix == \A f, g \in Files : Recorded(f) /\ Before(g, f) => Recorded(g)

InImage == ran \subseteq image /\ \A p \in Servers : own[p] \subseteq image

Starts(p) == pc[p] \notin {"down", "up"}

OneByOne ==
  /\ \A p, q \in Servers : Starts(p) /\ Starts(q) => p = q
  /\ \A p \in Servers : Starts(p) => ran \subseteq own[p]
  /\ \A p \in Servers : pc[p] \in {"run", "record"} => \A f \in todo[p] : ~Recorded(f)
  /\ schema = TablesAfter(ran)

SchemaInv == IInv /\ Prefix /\ InImage /\ (~overlapped => OneByOne)

\* No file creates a table that an earlier one drops.
NoTableReturns ==
  \A f, g \in Files : Drops[f] \cap Creates[g] # {} => ~Before(f, g)

\* Two files are always in order.
LEMMA BeforeIsTotal ==
  ASSUME NEW f \in Files, NEW g \in Files, f # g
  PROVE  Before(f, g) \/ Before(g, f)
<1>1. Rank[f] \in Nat /\ Rank[g] \in Nat /\ Rank[f] # Rank[g]
  BY MigrationsConstants
<1>2. NumberOf(f) \in Nat \cup {Null} /\ NumberOf(g) \in Nat \cup {Null}
  BY MigrationsConstants DEF NumberOf, Versions
<1>3. CASE NumberOf(f) = NumberOf(g)
  BY <1>1, <1>3 DEF Before
<1>4. CASE NumberOf(f) # NumberOf(g) /\ NumberOf(f) # Null /\ NumberOf(g) # Null
  <2>1. NumberOf(f) < NumberOf(g) \/ NumberOf(g) < NumberOf(f)
    BY <1>2, <1>4
  <2> QED BY <1>4, <2>1 DEF Before
<1>5. CASE NumberOf(f) # NumberOf(g) /\ (NumberOf(f) = Null \/ NumberOf(g) = Null)
  BY <1>5 DEF Before
<1> QED BY <1>3, <1>4, <1>5

\* A file that runs after all others, for the first time or again, makes the
\* tables that all of them make.
LEMMA LastFileMakes ==
  ASSUME ran \subseteq Files, NEW f \in Files, \A g \in ran \ {f} : Before(g, f)
  PROVE  TablesAfter(ran \cup {f}) = (TablesAfter(ran) \cup Creates[f]) \ Drops[f]
<1>1. ~Before(f, f) /\ \A g \in ran : ~Before(f, g)
  BY BeforeIsStrict
<1>2. Creates[f] \subseteq Tables
  BY MigrationsConstants
<1>3. ASSUME NEW t \in TablesAfter(ran \cup {f})
      PROVE  t \in (TablesAfter(ran) \cup Creates[f]) \ Drops[f]
  <2>1. PICK h \in ran \cup {f} :
          t \in Creates[h] /\ \A g \in ran \cup {f} : t \in Drops[g] => Before(g, h)
    BY DEF TablesAfter
  <2>2. t \notin Drops[f]
    BY <1>1, <2>1
  <2>3. t \in TablesAfter(ran) \cup Creates[f]
    BY <2>1 DEF TablesAfter
  <2> QED BY <2>2, <2>3
<1>4. ASSUME NEW t \in Tables, t \in TablesAfter(ran), t \notin Drops[f]
      PROVE  t \in TablesAfter(ran \cup {f})
  BY <1>4 DEF TablesAfter
<1>5. ASSUME NEW t \in Creates[f], t \notin Drops[f]
      PROVE  t \in TablesAfter(ran \cup {f})
  BY <1>2, <1>5 DEF TablesAfter
<1> QED BY <1>3, <1>4, <1>5 DEF TablesAfter

LEMMA SchemaInvInit == Init => SchemaInv
<1> SUFFICES ASSUME Init PROVE SchemaInv
  OBVIOUS
<1>1. IInv
  BY IInvInit
<1>2. /\ ran \in Images /\ ran \subseteq image /\ schema = TablesAfter(ran)
      /\ \A f \in ran : Recorded(f)
  BY DEF Init
<1>3. Prefix
  BY <1>1, <1>2 DEF IInv, JournalLagsByOne, Prefix, Images
<1>4. InImage /\ OneByOne
  BY <1>2 DEF Init, InImage, OneByOne, Starts
<1> QED BY <1>1, <1>3, <1>4 DEF SchemaInv

\* RunFile: the file is the last of those that have run, if the server knows
\* all of them.
LEMMA RunKeepsSchema ==
  ASSUME SchemaInv, IInv', NEW p \in Servers, NEW f \in Files, RunFile(p, f)
  PROVE  SchemaInv'
<1>1. CASE Needs[f] \subseteq schema
  <2>1. /\ f \in First(todo[p]) /\ f \in todo[p] /\ pc[p] = "run" /\ ran' = ran \cup {f}
        /\ schema' = (schema \cup Creates[f]) \ Drops[f]
        /\ pc' = [pc EXCEPT ![p] = "record"]
        /\ UNCHANGED <<image, journal, names, versions, todo, own, crashes, overlapped>>
    BY <1>1 DEF RunFile, Goto, At, First
  <2>2. Prefix'
    BY <2>1 DEF SchemaInv, Prefix, Recorded
  <2>3. f \in own[p] /\ InImage'
    BY <2>1 DEF SchemaInv, IInv, Placed, InImage
  <2>4. ASSUME ~overlapped' PROVE OneByOne'
    <3>1. OneByOne
      BY <2>1, <2>4 DEF SchemaInv
    <3>2. \A g \in ran \ {f} : Before(g, f)
      <4> SUFFICES ASSUME NEW g \in ran \ {f} PROVE ~Before(f, g)
        BY <2>1, BeforeIsTotal DEF SchemaInv, IInv, TypeOK
      <4>1. g \in own[p] /\ g \in Files /\ ~Recorded(f)
        BY <2>1, <3>1 DEF OneByOne, Starts, SchemaInv, IInv, TypeOK
      <4>2. CASE g \in todo[p]
        \* g has run and is not recorded: all before it is, and f is not.
        BY <2>1, <3>1, <4>1, <4>2 DEF OneByOne, SchemaInv, IInv, JournalLagsByOne
      <4>3. CASE g \notin todo[p]
        BY <2>1, <4>1, <4>3 DEF SchemaInv, IInv, Placed, Prefix
      <4> QED BY <4>2, <4>3
    <3>3. schema' = TablesAfter(ran')
      BY <2>1, <3>1, <3>2, LastFileMakes DEF OneByOne, SchemaInv, IInv, TypeOK
    <3>4. \A q \in Servers : pc'[q] # pc[q] => q = p
      BY <2>1 DEF SchemaInv, IInv, TypeOK
    <3>5. Starts(p) /\ \A q \in Servers : Starts(q)' <=> Starts(q)
      BY <2>1 DEF Starts, SchemaInv, IInv, TypeOK
    <3>6. ASSUME NEW q \in Servers, Starts(q)' PROVE q = p /\ ran' \subseteq own'[q]
      <4>1. q = p
        BY <3>1, <3>5, <3>6 DEF OneByOne
      <4> QED BY <2>1, <2>3, <3>1, <3>5, <4>1 DEF OneByOne
    <3>7. ASSUME NEW q \in Servers, pc'[q] \in {"run", "record"}
          PROVE  \A g \in todo'[q] : ~Recorded(g)'
      <4>1. q = p
        BY <3>6, <3>7 DEF Starts
      <4> QED BY <2>1, <3>1, <4>1 DEF OneByOne, Recorded
    <3> QED BY <3>1, <3>3, <3>5, <3>6, <3>7 DEF OneByOne
  <2> QED BY <2>2, <2>3, <2>4 DEF SchemaInv
<1>2. CASE ~(Needs[f] \subseteq schema)
  BY <1>2 DEF RunFile, Fatal, Goto, SchemaInv, Prefix, Recorded, InImage, OneByOne, Starts,
              IInv, TypeOK
<1> QED BY <1>1, <1>2

LEMMA RecordKeepsSchema ==
  ASSUME SchemaInv, IInv', NEW p \in Servers, NEW f \in Files, Record(p, f)
  PROVE  SchemaInv'
<1>1. CASE Recorded(f)
  BY <1>1 DEF Record, Fatal, Goto, SchemaInv, Prefix, Recorded, InImage, OneByOne, Starts,
              IInv, TypeOK
<1>2. CASE ~Recorded(f)
  <2>1. /\ f \in First(todo[p]) /\ pc[p] = "record"
        /\ names' = names \cup {f} /\ versions' = versions \cup ({Version[f]} \ {Null})
        /\ todo' = [todo EXCEPT ![p] = todo[p] \ {f}] /\ pc' = [pc EXCEPT ![p] = pc'[p]]
        /\ UNCHANGED <<image, journal, schema, own, crashes, ran, overlapped>>
    BY <1>2 DEF Record, Continue, Goto, At, SchemaInv, IInv, TypeOK
  <2>2. \A g \in Files : Recorded(g)' <=> (Recorded(g) \/ g = f)
    BY <2>1, RecordedOnce DEF SchemaInv, IInv, TypeOK, Recorded
  <2>3. ASSUME NEW g \in Files, Before(g, f) PROVE Recorded(g)
    <3>1. f \in own[p] /\ own[p] \in Images /\ g \notin todo[p]
      BY <2>1, <2>3, BeforeIsStrict DEF SchemaInv, IInv, Placed, First
    <3> QED BY <2>1, <2>3, <3>1 DEF SchemaInv, IInv, Placed, Images
  <2>4. Prefix'
    BY <2>2, <2>3 DEF SchemaInv, Prefix, Before, NumberOf
  <2>5. InImage'
    BY <2>1 DEF SchemaInv, InImage
  <2>6. ASSUME ~overlapped' PROVE OneByOne'
    <3>1. OneByOne /\ Starts(p)
      BY <2>1, <2>6 DEF SchemaInv, Starts
    <3>2. \A q \in Servers : Starts(q)' => Starts(q)
      BY <2>1, <3>1 DEF Starts, SchemaInv, IInv, TypeOK
    <3>3. ASSUME NEW q \in Servers, pc'[q] \in {"run", "record"}
          PROVE  \A g \in todo'[q] : ~Recorded(g)'
      <4>1. q = p
        BY <3>1, <3>2, <3>3 DEF OneByOne, Starts
      <4>2. todo'[p] = todo[p] \ {f} /\ todo[p] \subseteq Files
        BY <2>1 DEF SchemaInv, IInv, TypeOK
      <4> QED BY <2>1, <2>2, <3>1, <4>1, <4>2 DEF OneByOne
    <3> QED BY <2>1, <3>1, <3>2, <3>3 DEF OneByOne
  <2> QED BY <2>4, <2>5, <2>6 DEF SchemaInv
<1> QED BY <1>1, <1>2

LEMMA SchemaInvStep == SchemaInv /\ [Next]_vars => SchemaInv'
<1> SUFFICES ASSUME SchemaInv, [Next]_vars PROVE SchemaInv'
  OBVIOUS
<1>0. IInv /\ IInv'
  BY IInvStep DEF SchemaInv
<1>1. ASSUME NEW p \in Servers, Start(p) \/ FindJournal(p) \/ CreateJournal(p) PROVE SchemaInv'
  <2>1. Prefix' /\ InImage'
    BY <1>0, <1>1 DEF Start, FindJournal, CreateJournal, Fatal, Goto, database, SchemaInv, Prefix,
                      Recorded, InImage, IInv, TypeOK
  <2>2. ASSUME ~overlapped' PROVE OneByOne'
    <3>1. OneByOne
      BY <1>1, <2>2 DEF Start, FindJournal, CreateJournal, SchemaInv
    <3>2. ASSUME NEW q \in Servers, NEW r \in Servers, Starts(q)', Starts(r)' PROVE q = r
      BY <1>0, <1>1, <2>2, <3>1, <3>2
         DEF Start, FindJournal, CreateJournal, Fatal, Goto, At, OneByOne, Starts, IInv, TypeOK
    <3>3. ASSUME NEW q \in Servers, pc'[q] \in {"run", "record"}
          PROVE  \A g \in todo'[q] : ~Recorded(g)'
      BY <1>0, <1>1, <3>1, <3>3
         DEF Start, FindJournal, CreateJournal, Fatal, Goto, database, OneByOne, Recorded, IInv,
             TypeOK
    <3>4. schema' = TablesAfter(ran)'
      BY <1>1, <3>1 DEF Start, FindJournal, CreateJournal, database, OneByOne, TablesAfter
    <3>5. ASSUME NEW q \in Servers, Starts(q)' PROVE ran' \subseteq own'[q]
      BY <1>0, <1>1, <3>1, <3>5
         DEF Start, FindJournal, CreateJournal, Fatal, Goto, At, database, OneByOne, Starts, SchemaInv,
             InImage, IInv, TypeOK
    <3> QED BY <3>2, <3>3, <3>4, <3>5 DEF OneByOne
  <2> QED BY <1>0, <2>1, <2>2 DEF SchemaInv
<1>2. ASSUME NEW p \in Servers, ReadApplied(p) PROVE SchemaInv'
  BY <1>0, <1>2 DEF ReadApplied, Continue, Goto, At, database, SchemaInv, Prefix, Recorded,
                    InImage, OneByOne, Starts, TablesAfter, IInv, TypeOK
<1>3. ASSUME NEW p \in Servers, Crash(p) PROVE SchemaInv'
  BY <1>0, <1>3 DEF Crash, Fatal, Goto, database, SchemaInv, Prefix, Recorded, InImage, OneByOne,
                    Starts, TablesAfter, IInv, TypeOK
<1>4. ASSUME NEW S \in Images, Deploy(S) PROVE SchemaInv'
  BY <1>0, <1>4 DEF Deploy, database, SchemaInv, Prefix, Recorded, InImage, OneByOne, Starts,
                    TablesAfter
<1>5. CASE UNCHANGED vars
  BY <1>0, <1>5 DEF vars, database, SchemaInv, Prefix, Recorded, InImage, OneByOne, Starts,
                    TablesAfter
<1> QED
  BY <1>0, <1>1, <1>2, <1>3, <1>4, <1>5, RunKeepsSchema, RecordKeepsSchema DEF Next, Step

\* A file that runs out of its turn takes no table away that a later one has
\* made, since none makes a table that an earlier one drops.
LEMMA TablesStay ==
  ASSUME NoTableReturns, IInv, [Next]_vars, TablesAfter(ran) \subseteq schema
  PROVE  TablesAfter(ran)' \subseteq schema'
<1>1. ASSUME NEW p \in Servers, NEW f \in Files, RunFile(p, f), Needs[f] \subseteq schema
      PROVE  TablesAfter(ran)' \subseteq schema'
  <2> SUFFICES ASSUME NEW t \in TablesAfter(ran \cup {f})
               PROVE  t \in (schema \cup Creates[f]) \ Drops[f]
    BY <1>1 DEF RunFile, TablesAfter
  <2>1. PICK h \in ran \cup {f} :
          t \in Creates[h] /\ \A g \in ran \cup {f} : t \in Drops[g] => Before(g, h)
    BY DEF TablesAfter
  <2>2. t \notin Drops[f]
    BY <2>1 DEF NoTableReturns, IInv, TypeOK
  <2>3. t \in TablesAfter(ran) \cup Creates[f]
    BY <2>1 DEF TablesAfter
  <2> QED BY <2>2, <2>3
<1>2. CASE UNCHANGED <<ran, schema>>
  BY <1>2 DEF TablesAfter
<1>3. ASSUME NEW p \in Servers, Step(p) PROVE TablesAfter(ran)' \subseteq schema'
  BY <1>1, <1>2, <1>3 DEF Step, Start, FindJournal, CreateJournal, ReadApplied, RunFile, Record,
                          database
<1> QED BY <1>2, <1>3 DEF Next, Crash, Deploy, vars, database

\* Servers that start one at a time leave the database with just the tables the
\* migrations make of it, whatever is killed.
THEOREM OneByOneSchemaIsMade == Spec => [](~overlapped => schema = TablesAfter(ran))
<1>1. SchemaInv => (~overlapped => schema = TablesAfter(ran))
  BY DEF SchemaInv, OneByOne
<1> QED BY <1>1, SchemaInvInit, SchemaInvStep, PTL DEF Spec

\* If they start at the same time no table is missing, provided that no
\* migration creates a table which an earlier one drops.
THEOREM SchemaIsMadeAlways == NoTableReturns => (Spec => []SchemaIsMade)
<1> SUFFICES ASSUME NoTableReturns PROVE Spec => []SchemaIsMade
  OBVIOUS
<1>1. Init => TablesAfter(ran) \subseteq schema
  BY SchemaInvInit DEF Init
<1>2. SchemaInv /\ TablesAfter(ran) \subseteq schema => SchemaIsMade
  BY DEF SchemaInv, OneByOne, SchemaIsMade
<1>3. SchemaInv /\ TablesAfter(ran) \subseteq schema /\ [Next]_vars
      => (TablesAfter(ran) \subseteq schema)'
  BY TablesStay DEF SchemaInv
<1> QED BY <1>1, <1>2, <1>3, SchemaInvInit, SchemaInvStep, PTL DEF Spec
-----------------------------------------------------------------------------
(* The order of the files                                                  *)

\* Files run for the first time in their order, whatever is killed and however
\* many servers start at a time: what has run is always what some image holds.
THEOREM RunInOrder == Spec => [](ran \in Images)
<1>1. SchemaInv => ran \in Images
  <2> SUFFICES ASSUME SchemaInv, NEW f \in ran, NEW g \in Files, Before(g, f) PROVE g \in ran
    BY DEF SchemaInv, IInv, TypeOK, Images
  <2>1. Recorded(g)
    BY DEF SchemaInv, IInv, TypeOK, JournalLagsByOne, Prefix
  <2> QED BY <2>1 DEF SchemaInv, IInv, JournalLagsByOne
<1> QED BY <1>1, SchemaInvInit, SchemaInvStep, PTL DEF Spec

LEMMA BeforeIsTransitive ==
  ASSUME NEW f \in Files, NEW g \in Files, NEW h \in Files, Before(f, g), Before(g, h)
  PROVE  Before(f, h)
<1>1. Rank[f] \in Nat /\ Rank[g] \in Nat /\ Rank[h] \in Nat
  BY MigrationsConstants
<1>2. NumberOf(f) \in Nat \cup {Null} /\ NumberOf(g) \in Nat \cup {Null}
      /\ NumberOf(h) \in Nat \cup {Null}
  BY MigrationsConstants DEF NumberOf, Versions
<1> QED BY <1>1, <1>2 DEF Before

\* What listMigrations gives to sort.Slice is a strict total order, also where some
\* files have no number and others share theirs: their order is the same on every
\* start (migrations/migrations.go:106).
THEOREM FilesAreOrdered ==
  /\ \A f \in Files : ~Before(f, f)
  /\ \A f, g \in Files : f = g \/ Before(f, g) \/ Before(g, f)
  /\ \A f, g, h \in Files : Before(f, g) /\ Before(g, h) => Before(f, h)
BY BeforeIsStrict, BeforeIsTotal, BeforeIsTransitive

\* So of any two images one holds what the other does and more: two databases
\* differ at most in how far their migrations have come.
THEOREM ImagesAreNested ==
  \A S, T \in Images : S \subseteq T \/ T \subseteq S
<1> SUFFICES ASSUME NEW S \in Images, NEW T \in Images,
                    NEW f \in S, f \notin T, NEW g \in T, g \notin S
             PROVE  FALSE
  OBVIOUS
<1>1. f \in Files /\ g \in Files /\ f # g
  BY DEF Images
<1>2. Before(f, g) \/ Before(g, f)
  BY <1>1, BeforeIsTotal
<1> QED BY <1>1, <1>2 DEF Images

\* Of some subsets of a finite set there is one that holds no other of them.
LEMMA MinimalSet ==
  ASSUME NEW U, IsFiniteSet(U), NEW T, T \subseteq SUBSET U, T # {}
  PROVE  \E S \in T : \A R \in T : R \subseteq S => R = S
<1>1. FiniteSubsetsOf(U) = SUBSET U
  BY FS_FiniteSubsetsOfFinite
<1>2. IsWellFoundedOn(StrictSubsetOrdering(U), SUBSET U)
  BY <1>1, FS_StrictSubsetOrderingWellFounded
<1>3. \E S \in T : \A R \in T : <<R, S>> \notin StrictSubsetOrdering(U)
  BY <1>2, WFMin
<1> QED BY <1>3 DEF StrictSubsetOrdering

\* Of any files there is one that comes first.
LEMMA FirstExists ==
  ASSUME IsFiniteSet(Files), NEW S, S \subseteq Files, S # {}
  PROVE  \E f \in S : f \in First(S)
<1> DEFINE Ahead(f) == {g \in S : Before(g, f)}
           T == {Ahead(f) : f \in S}
<1>1. T \subseteq SUBSET Files /\ T # {}
  OBVIOUS
<1>2. PICK f \in S : \A g \in S : Ahead(g) \subseteq Ahead(f) => Ahead(g) = Ahead(f)
  <2> HIDE DEF Ahead
  <2>1. PICK R \in T : \A Q \in T : Q \subseteq R => Q = R
    <3> HIDE DEF T
    <3> QED BY <1>1, MinimalSet
  <2> QED BY <2>1
<1>3. ASSUME NEW g \in S, Before(g, f) PROVE FALSE
  <2>1. Ahead(g) \subseteq Ahead(f)
    BY <1>3, BeforeIsTransitive
  <2>2. g \in Ahead(f) /\ g \notin Ahead(g)
    BY <1>3, BeforeIsStrict
  <2> QED BY <1>2, <2>1, <2>2
<1> QED BY <1>2, <1>3, BeforeIsTotal DEF First

-----------------------------------------------------------------------------
(* A server that starts alone                                              *)

\* Each file finds the tables it cannot do without when those before it have
\* run, and again when it has run itself, but has not been recorded.
Earlier(f) == {g \in Files : Before(g, f)}

FilesFollow ==
  \A f \in Files : /\ Needs[f] \subseteq TablesAfter(Earlier(f))
                   /\ Needs[f] \subseteq TablesAfter(Earlier(f) \cup {f})

\* The statement that a server runs next finds what it needs.
Unhindered(p) ==
  /\ At(p, "create") => ~journal
  /\ At(p, "run") => \A f \in First(todo[p]) : Needs[f] \subseteq schema
  /\ At(p, "record") => \A f \in First(todo[p]) : ~Recorded(f)

\* What this needs besides SchemaInv: nobody else creates the journal, and a
\* server that runs files has files to run.
AloneInv ==
  /\ SchemaInv
  /\ ~overlapped => \A p \in Servers : At(p, "create") => ~journal
  /\ \A p \in Servers : pc[p] \in {"run", "record"} => todo[p] # {}

LEMMA AloneInvInit == Init => AloneInv
<1>1. Init => SchemaInv
  BY SchemaInvInit
<1>2. Init => \A p \in Servers : pc[p] = "down"
  BY DEF Init
<1> QED BY <1>1, <1>2 DEF AloneInv, At

LEMMA AloneInvStep == AloneInv /\ [Next]_vars => AloneInv'
<1> SUFFICES ASSUME AloneInv, [Next]_vars PROVE AloneInv'
  OBVIOUS
<1>0. SchemaInv /\ SchemaInv' /\ TypeOK /\ TypeOK'
  BY SchemaInvStep DEF AloneInv, SchemaInv, IInv
<1>1. ASSUME NEW q \in Servers, pc'[q] \in {"run", "record"} PROVE todo'[q] # {}
  <2>1. ASSUME NEW p \in Servers, Step(p) \/ Crash(p) PROVE todo'[q] # {}
    <3>1. CASE q # p
      <4>1. pc'[q] = pc[q] /\ todo'[q] = todo[q]
        BY <2>1, <3>1, <1>0
           DEF Step, Start, FindJournal, CreateJournal, ReadApplied, RunFile, Record, Crash,
               Continue, Fatal, Goto, TypeOK
      <4> QED BY <1>1, <4>1 DEF AloneInv
    <3>2. CASE q = p
      BY <1>0, <1>1, <2>1, <3>2
         DEF Step, Start, FindJournal, CreateJournal, ReadApplied, RunFile, Record, Crash,
             Continue, Fatal, Goto, At, First, TypeOK, AloneInv
    <3> QED BY <3>1, <3>2
  <2>2. CASE UNCHANGED <<pc, todo>>
    BY <1>1, <2>2 DEF AloneInv
  <2> QED BY <2>1, <2>2 DEF Next, Deploy, vars
<1>2. ASSUME ~overlapped', NEW q \in Servers, pc'[q] = "create" PROVE ~journal'
  <2>1. ASSUME NEW p \in Servers, Step(p) \/ Crash(p) PROVE ~journal'
    <3>1. CASE FindJournal(p) /\ q = p
      BY <1>0, <1>2, <3>1 DEF FindJournal, Goto, database, TypeOK
    <3>2. CASE CreateJournal(p)
      <4>1. ~overlapped /\ pc[p] = "create" /\ pc'[p] \in {"down", "applied"}
        BY <1>0, <1>2, <3>2 DEF CreateJournal, Fatal, Goto, At, TypeOK
      <4>2. q # p /\ pc[q] = "create"
        BY <1>0, <1>2, <3>2, <4>1 DEF CreateJournal, Fatal, Goto, TypeOK
      <4> QED BY <1>0, <4>1, <4>2 DEF SchemaInv, OneByOne, Starts
    <3>3. CASE ~(FindJournal(p) /\ q = p) /\ ~CreateJournal(p)
      <4>1. pc[q] = "create" /\ ~overlapped /\ journal' = journal
        BY <1>0, <1>2, <2>1, <3>3
           DEF Step, Start, FindJournal, ReadApplied, RunFile, Record, Crash, Continue, Fatal,
               Goto, At, database, TypeOK
      <4> QED BY <4>1 DEF AloneInv, At
    <3> QED BY <3>1, <3>2, <3>3
  <2>2. CASE UNCHANGED <<pc, journal, overlapped>>
    BY <1>2, <2>2 DEF AloneInv, At
  <2> QED BY <2>1, <2>2 DEF Next, Deploy, vars, database
<1> QED BY <1>0, <1>1, <1>2 DEF AloneInv, At

\* Alone, a server that runs a file next has just the files before it behind
\* it, and perhaps the file itself.
LEMMA RanBefore ==
  ASSUME AloneInv, ~overlapped, NEW p \in Servers, At(p, "run"), NEW f \in First(todo[p])
  PROVE  ran = Earlier(f) \/ ran = Earlier(f) \cup {f}
<1>1. /\ TypeOK /\ f \in Files /\ f \in todo[p] /\ ~Recorded(f)
      /\ own[p] \in Images /\ f \in own[p]
  BY DEF AloneInv, SchemaInv, IInv, TypeOK, OneByOne, Placed, At, First
<1>2. ASSUME NEW g \in Files, Before(g, f) PROVE g \in ran
  <2>1. g \in own[p] \ todo[p]
    BY <1>1, <1>2, BeforeIsStrict DEF Images, First
  <2> QED BY <2>1 DEF At, AloneInv, SchemaInv, IInv, Placed, JournalLagsByOne
<1>3. ASSUME NEW g \in ran, g # f PROVE Before(g, f)
  <2> SUFFICES ASSUME Before(f, g) PROVE FALSE
    BY <1>1, <1>3, BeforeIsTotal DEF TypeOK
  <2> QED BY <1>1 DEF AloneInv, SchemaInv, IInv, TypeOK, JournalLagsByOne, Prefix
<1> QED BY <1>1, <1>2, <1>3 DEF Earlier, TypeOK

LEMMA AloneIsUnhindered ==
  ASSUME FilesFollow, AloneInv, ~overlapped, NEW p \in Servers
  PROVE  Unhindered(p)
<1>1. At(p, "create") => ~journal
  BY DEF AloneInv
<1>2. ASSUME At(p, "run"), NEW f \in First(todo[p]) PROVE Needs[f] \subseteq schema
  <2>1. f \in Files /\ schema = TablesAfter(ran)
    BY <1>2 DEF AloneInv, SchemaInv, IInv, TypeOK, OneByOne, First
  <2> QED BY <1>2, <2>1, RanBefore DEF FilesFollow
<1>3. At(p, "record") => \A f \in First(todo[p]) : ~Recorded(f)
  BY DEF AloneInv, SchemaInv, OneByOne, At, First
<1> QED BY <1>1, <1>2, <1>3 DEF Unhindered

\* As long as servers start one at a time, none of them ends unless it is
\* killed: no statement of Apply fails, also when an earlier start was cut off
\* anywhere, provided that every file can be repeated.
THEOREM AloneNeverFails ==
  FilesFollow => (Spec => [][\A p \in Servers :
    ~overlapped /\ ~At(p, "down") /\ At(p, "down")' => Crash(p)]_vars)
<1> SUFFICES ASSUME FilesFollow
             PROVE  Spec => [][\A p \in Servers :
                      ~overlapped /\ ~At(p, "down") /\ At(p, "down")' => Crash(p)]_vars
  OBVIOUS
<1>1. AloneInv /\ [Next]_vars
      => [\A p \in Servers : ~overlapped /\ ~At(p, "down") /\ At(p, "down")' => Crash(p)]_vars
  <2> SUFFICES ASSUME AloneInv, Next, NEW p \in Servers, ~overlapped, pc[p] # "down",
                      pc'[p] = "down"
               PROVE  Crash(p)
    BY DEF At
  <2>1. TypeOK /\ Unhindered(p)
    BY AloneIsUnhindered DEF AloneInv, SchemaInv, IInv
  <2>2. PICK q \in Servers : Step(q) \/ Crash(q)
    BY DEF Next, Deploy
  <2>3. q = p
    BY <2>1, <2>2 DEF Step, Start, FindJournal, CreateJournal, ReadApplied, RunFile, Record, Crash,
                      Continue, Fatal, Goto, TypeOK
  <2>4. ~Step(p)
    BY <2>1 DEF Step, Start, FindJournal, CreateJournal, ReadApplied, RunFile, Record, Continue,
                Goto, At, Unhindered, TypeOK
  <2> QED BY <2>2, <2>3, <2>4
<1> QED BY <1>1, AloneInvInit, AloneInvStep, PTL DEF Spec

-----------------------------------------------------------------------------
(* What is left of ComesUp without fairness                                *)

\* A server that runs or records a file has just one to run or record: whatever
\* others do, and whenever it was cut off before, it is never left without a
\* next statement.
THEOREM NextFileExists ==
  IsFiniteSet(Files) =>
    (Spec => [](\A p \in Servers :
       pc[p] \in {"run", "record"} => \E f \in todo[p] : First(todo[p]) = {f}))
<1> SUFFICES ASSUME IsFiniteSet(Files)
             PROVE  Spec => [](\A p \in Servers :
                      pc[p] \in {"run", "record"} => \E f \in todo[p] : First(todo[p]) = {f})
  OBVIOUS
<1>1. AloneInv => \A p \in Servers :
        pc[p] \in {"run", "record"} => \E f \in todo[p] : First(todo[p]) = {f}
  <2> SUFFICES ASSUME AloneInv, NEW p \in Servers, pc[p] \in {"run", "record"}
               PROVE  \E f \in todo[p] : First(todo[p]) = {f}
    OBVIOUS
  <2>1. todo[p] \subseteq Files /\ todo[p] # {}
    BY DEF AloneInv, SchemaInv, IInv, TypeOK
  <2>2. PICK f \in todo[p] : f \in First(todo[p])
    BY <2>1, FirstExists
  <2>3. \A g \in First(todo[p]) : g = f
    BY <2>1, <2>2, BeforeIsStrict DEF First
  <2> QED BY <2>2, <2>3
<1> QED BY <1>1, AloneInvInit, AloneInvStep, PTL DEF Spec

\* How many statements a server is from serving, at most.
Left(p) ==
  LET n == Cardinality(todo[p])  all == Cardinality(Files)
  IN CASE pc[p] = "down" -> 2 * all + 5
       [] pc[p] = "exists" -> 2 * all + 4
       [] pc[p] = "create" -> 2 * all + 3
       [] pc[p] = "applied" -> 2 * all + 2
       [] pc[p] = "run" -> 2 * n + 1
       [] pc[p] = "record" -> 2 * n
       [] pc[p] = "up" -> 0

\* As long as servers start one at a time, every statement of one brings it
\* nearer to serving: unless it is killed it serves after a number of
\* statements that is known when it starts.
THEOREM AloneAdvances ==
  IsFiniteSet(Files) /\ FilesFollow =>
    (Spec => [][\A p \in Servers :
       Step(p) /\ ~overlapped' => Left(p)' \in Nat /\ Left(p)' < Left(p)]_vars)
<1> SUFFICES ASSUME IsFiniteSet(Files), FilesFollow
             PROVE  Spec => [][\A p \in Servers :
                      Step(p) /\ ~overlapped' => Left(p)' \in Nat /\ Left(p)' < Left(p)]_vars
  OBVIOUS
<1>1. AloneInv /\ [Next]_vars
      => [\A p \in Servers :
            Step(p) /\ ~overlapped' => Left(p)' \in Nat /\ Left(p)' < Left(p)]_vars
  <2> SUFFICES ASSUME AloneInv, AloneInv', NEW p \in Servers, Step(p), ~overlapped'
               PROVE  Left(p)' \in Nat /\ Left(p)' < Left(p)
    BY AloneInvStep
  <2> DEFINE n == Cardinality(todo[p])  all == Cardinality(Files)
  <2>1. TypeOK /\ TypeOK'
    BY DEF AloneInv, SchemaInv, IInv
  <2>2. n \in Nat /\ n' \in Nat /\ all \in Nat /\ n <= all /\ n' <= all
    <3>1. todo[p] \subseteq Files /\ todo'[p] \subseteq Files
      BY <2>1 DEF TypeOK
    <3> QED BY <3>1, FS_Subset, FS_CardinalityType
  <2>3. ~overlapped /\ Unhindered(p)
    <3>1. ~overlapped
      BY DEF Step, Start, FindJournal, CreateJournal, ReadApplied, RunFile, Record
    <3> QED BY <3>1, AloneIsUnhindered
  <2>4. ASSUME NEW f \in Files, Record(p, f) PROVE Left(p)' < Left(p)
    <3>1. /\ pc[p] = "record" /\ f \in todo[p] /\ todo'[p] = todo[p] \ {f}
          /\ pc'[p] \in {"up", "run"}
      BY <2>1, <2>3, <2>4 DEF Record, Unhindered, Continue, Goto, At, First, TypeOK
    <3>2. n' = n - 1
      BY <2>1, <3>1, FS_RemoveElement, FS_Subset DEF TypeOK
    <3>3. n >= 1
      BY <2>2, <3>2
    <3> HIDE DEF n
    <3>4. Left(p) = 2 * n /\ Left(p)' \in {0, 2 * n' + 1}
      BY <3>1 DEF Left, n
    <3> QED BY <2>2, <3>2, <3>3, <3>4
  <2>5. ASSUME NEW f \in Files, RunFile(p, f) PROVE Left(p)' < Left(p)
    <3>1. pc[p] = "run" /\ pc'[p] = "record" /\ todo' = todo
      BY <2>1, <2>3, <2>5 DEF RunFile, Unhindered, Goto, At, TypeOK
    <3>2. Left(p) = 2 * n + 1 /\ Left(p)' = 2 * n
      BY <3>1 DEF Left
    <3> QED BY <2>2, <3>2
  <2>6. ASSUME ReadApplied(p) PROVE Left(p)' < Left(p)
    <3>1. pc[p] = "applied" /\ pc'[p] \in {"up", "run"}
      BY <2>1, <2>6 DEF ReadApplied, Continue, Goto, At, TypeOK
    <3>2. Left(p) = 2 * all + 2 /\ Left(p)' \in {0, 2 * n' + 1}
      BY <3>1 DEF Left
    <3> QED BY <2>2, <3>2
  <2>7. ASSUME Start(p) \/ FindJournal(p) \/ CreateJournal(p) PROVE Left(p)' < Left(p)
    <3>1. \/ pc[p] = "down" /\ pc'[p] = "exists"
          \/ pc[p] = "exists" /\ pc'[p] \in {"create", "applied"}
          \/ pc[p] = "create" /\ pc'[p] = "applied"
      BY <2>1, <2>3, <2>7 DEF Start, FindJournal, CreateJournal, Unhindered, Goto, At, TypeOK
    <3> QED BY <2>2, <3>1 DEF Left
  <2>8. Left(p)' \in Nat
    <3>1. pc'[p] \in {"down", "exists", "create", "applied", "run", "record", "up"}
      BY <2>1 DEF TypeOK
    <3> QED BY <2>2, <3>1 DEF Left
  <2> QED BY <2>4, <2>5, <2>6, <2>7, <2>8 DEF Step
<1> QED BY <1>1, AloneInvInit, AloneInvStep, PTL DEF Spec
=============================================================================
