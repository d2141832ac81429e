----------------------------- MODULE Migrations -----------------------------
(***************************************************************************)
(* The migrations a server applies before it serves                        *)
(* (internal/migrations/migrations.go, called by cmd/server/main.go).      *)
(*                                                                         *)
(* Each start reads which files the journal schema_migrations holds, runs  *)
(* the others in order and writes each into the journal after it has run:  *)
(* two statements.  Nothing keeps two servers from starting at once on one *)
(* database.  Of what a file does to the database the model keeps the      *)
(* tables it creates unless they exist, drops and cannot do without.       *)
(***************************************************************************)
EXTENDS Naturals

CONSTANTS
  Files,      \* the migration files
  Rank,       \* the place of each file in the order of their names
  Version,    \* what parseVersion makes of its name, Null for nothing
  Number,     \* the number parseVersionNumber makes of a version, Null for none
  Tables, Creates, Drops, Needs,
  Servers,    \* processes on the same database
  Null,
  MaxCrashes  \* bound: how often a server is killed or replaced

Versions == {Version[f] : f \in Files} \ {Null}

ASSUME MigrationsConstants ==
  /\ Rank \in [Files -> Nat] /\ \A f, g \in Files : Rank[f] = Rank[g] => f = g
  /\ DOMAIN Version = Files
  /\ \A f, g \in Files : Version[f] = Version[g] /\ Version[f] # Null => f = g
  /\ Number \in [Versions -> Nat \cup {Null}]
  /\ Creates \in [Files -> SUBSET Tables]
  /\ Drops \in [Files -> SUBSET Tables]
  /\ Needs \in [Files -> SUBSET Tables]
  /\ MaxCrashes \in Nat

VARIABLES
  image,       \* the files of the image that servers are started from
  journal,     \* whether the table schema_migrations exists
  names,       \* its column name
  versions,    \* its column version
  schema,      \* the tables there are
  pc,          \* the statement each server runs next
  todo,        \* the files it has still to run
  own,         \* the files of the image it was started from
  crashes,
  ran,         \* history: the files that have run
  overlapped   \* history: two servers have been starting at the same time

database == <<journal, names, versions, schema>>
vars == <<image, journal, names, versions, schema, pc, todo, own, crashes, ran, overlapped>>

TypeOK ==
  /\ image \subseteq Files
  /\ journal \in BOOLEAN
  /\ names \subseteq Files
  /\ versions \subseteq Versions
  /\ schema \subseteq Tables
  /\ pc \in [Servers -> {"down", "exists", "create", "applied", "run", "record", "up"}]
  /\ todo \in [Servers -> SUBSET Files]
  /\ own \in [Servers -> SUBSET Files]
  /\ crashes \in 0 .. MaxCrashes
  /\ ran \subseteq Files
  /\ overlapped \in BOOLEAN

-----------------------------------------------------------------------------
NumberOf(f) == IF Version[f] = Null THEN Null ELSE Number[Version[f]]

\* The order listMigrations sorts the files in: those with a number before
\* those without, by number, and by name where that does not decide.
Before(f, g) ==
  LET m == NumberOf(f)  n == NumberOf(g)
  IN \/ m # Null /\ n = Null
     \/ m # Null /\ n # Null /\ m < n
     \/ m = n /\ Rank[f] < Rank[g]

First(S) == {f \in S : \A g \in S \ {f} : Before(f, g)}

\* The files that an image may hold: migrations are only ever added at the end.
Images == {S \in SUBSET Files : \A f \in S, g \in Files : Before(g, f) => g \in S}

At(p, label) == pc[p] = label
Goto(p, label) == pc' = [pc EXCEPT ![p] = label]

\* What the journal holds under its name or its version.
Recorded(f) == f \in names \/ Version[f] \in versions

\* Apply returns an error, log.Fatalf ends the process.
Fatal(p) ==
  /\ Goto(p, "down")
  /\ todo' = [todo EXCEPT ![p] = {}]
  /\ own' = [own EXCEPT ![p] = {}]

-----------------------------------------------------------------------------
\* A server starts; it runs the files of the image it is started from.
Start(p) ==
  /\ At(p, "down")
  /\ Goto(p, "exists")
  /\ own' = [own EXCEPT ![p] = image]
  /\ overlapped' = (overlapped \/ \E q \in Servers \ {p} : pc[q] \notin {"down", "up"})
  /\ UNCHANGED <<image, database, todo, crashes, ran>>

\* ensureTable looks for the journal ...
FindJournal(p) ==
  /\ At(p, "exists")
  /\ Goto(p, IF journal THEN "applied" ELSE "create")
  /\ UNCHANGED <<image, database, todo, own, crashes, ran, overlapped>>

\* ... and creates it, which fails when another server has.  The unique indexes
\* follow in two statements of their own; a server that finds the table makes
\* those that a crash between them has left out (lines 71 to 84), so each has them
\* before it reads the journal.
CreateJournal(p) ==
  /\ At(p, "create")
  /\ IF journal THEN Fatal(p) ELSE Goto(p, "applied") /\ UNCHANGED <<todo, own>>
  /\ journal' = TRUE
  /\ UNCHANGED <<image, names, versions, schema, crashes, ran, overlapped>>

\* Where a server goes with these files still to run.
Continue(p, files) ==
  /\ todo' = [todo EXCEPT ![p] = files]
  /\ Goto(p, IF files = {} THEN "up" ELSE "run")

\* Variant of ReadApplied: the names in the journal are not looked at.
ReadVersions(p) ==
  /\ At(p, "applied")
  /\ Continue(p, {f \in own[p] : Version[f] \notin versions})
  /\ UNCHANGED <<image, database, own, crashes, ran, overlapped>>

\* Variant of ReadApplied: files without a version are not listed.
ReadNumbered(p) ==
  /\ At(p, "applied")
  /\ Continue(p, {f \in own[p] : Version[f] # Null /\ ~Recorded(f)})
  /\ UNCHANGED <<image, database, own, crashes, ran, overlapped>>

\* listMigrations and appliedMigrations: the files of the server's image that
\* are not in the journal.
ReadApplied(p) ==
  /\ At(p, "applied")
  /\ Continue(p, {f \in own[p] : ~Recorded(f)})
  /\ UNCHANGED <<image, database, own, crashes, ran, overlapped>>

\* Variant of RunFile: the next file runs before this one is in the journal.
RunUnrecorded(p, f) ==
  /\ At(p, "run")
  /\ f \in First(todo[p])
  /\ schema' = (schema \cup Creates[f]) \ Drops[f]
  /\ ran' = ran \cup {f}
  /\ Continue(p, todo[p] \ {f})
  /\ UNCHANGED <<image, journal, names, versions, own, crashes, overlapped>>

\* applyMigration runs the file, whole or not at all.
RunFile(p, f) ==
  /\ At(p, "run")
  /\ f \in First(todo[p])
  /\ IF Needs[f] \subseteq schema
       THEN /\ schema' = (schema \cup Creates[f]) \ Drops[f]
            /\ ran' = ran \cup {f}
            /\ Goto(p, "record")
            /\ UNCHANGED <<todo, own>>
       ELSE Fatal(p) /\ UNCHANGED <<schema, ran>>
  /\ UNCHANGED <<image, journal, names, versions, crashes, overlapped>>

\* Variant of Record: a file without a version is written with an empty one.
RecordEmptyVersion(p, f) ==
  /\ At(p, "record")
  /\ f \in First(todo[p])
  /\ names' = names \cup {f}
  /\ versions' = versions \cup {Version[f]}
  /\ Continue(p, todo[p] \ {f})
  /\ UNCHANGED <<image, journal, schema, own, crashes, ran, overlapped>>

\* It writes the file into the journal, which refuses a second row of the name
\* or the version.
Record(p, f) ==
  /\ At(p, "record")
  /\ f \in First(todo[p])
  /\ IF Recorded(f)
       THEN Fatal(p) /\ UNCHANGED <<names, versions>>
       ELSE /\ names' = names \cup {f}
            /\ versions' = versions \cup ({Version[f]} \ {Null})
            /\ Continue(p, todo[p] \ {f})
            /\ UNCHANGED own
  /\ UNCHANGED <<image, journal, schema, crashes, ran, overlapped>>

\* The process is killed, or stopped to be replaced.
Crash(p) ==
  /\ pc[p] # "down"
  /\ crashes < MaxCrashes
  /\ crashes' = crashes + 1
  /\ Fatal(p)
  /\ UNCHANGED <<image, database, ran, overlapped>>

\* A new image, for the servers that start from now on.
Deploy(S) ==
  /\ image \subseteq S
  /\ image # S
  /\ image' = S
  /\ UNCHANGED <<database, pc, todo, own, crashes, ran, overlapped>>

\* The tables after the files in S have run once each, in their order.
TablesAfter(S) ==
  {t \in Tables : \E f \in S : /\ t \in Creates[f]
                               /\ \A g \in S : t \in Drops[g] => Before(g, f)}

\* A database that is empty, or that the files in S have made; an older journal
\* has the name or the version of each only.
Init ==
  /\ \E S \in Images :
       /\ image \in {T \in Images : S \subseteq T}
       /\ ran = S
       /\ schema = TablesAfter(S)
       /\ journal = (S # {})
       /\ names \in {{}, S}
       /\ versions \in {{}, {Version[f] : f \in S} \ {Null}}
       /\ \A f \in S : Recorded(f)
  /\ pc = [p \in Servers |-> "down"]
  /\ todo = [p \in Servers |-> {}]
  /\ own = [p \in Servers |-> {}]
  /\ crashes = 0
  /\ overlapped = FALSE

Step(p) ==
  \/ Start(p) \/ FindJournal(p) \/ CreateJournal(p) \/ ReadApplied(p)
  \/ \E f \in Files : RunFile(p, f) \/ Record(p, f)

Next == (\E p \in Servers : Step(p) \/ Crash(p)) \/ \E S \in Images : Deploy(S)

Spec == Init /\ [][Next]_vars

\* Servers run, and are started again when they end (deploy/docker-compose.yml,
\* restart: unless-stopped).
FairSpec == Spec /\ \A p \in Servers : WF_vars(Step(p))

-----------------------------------------------------------------------------
(* Properties                                                              *)

\* A server that serves has every migration of its image behind it, whatever
\* has crashed, met another server or been started again.
UpIsMigrated ==
  \A p \in Servers : At(p, "up") => own[p] \subseteq ran

\* At most the next file has run without being in the journal: a crash between
\* the two statements of applyMigration (migrations.go:154-175) makes one file
\* run again, and no other.
JournalLagsByOne ==
  /\ \A f \in Files : Recorded(f) => f \in ran
  /\ \A f \in ran : ~Recorded(f) => \A g \in Files : Before(g, f) => Recorded(g)

\* The database has the tables its migrations make of it; it may have tables
\* that a migration has dropped only if servers have been starting at the same
\* time, since one that has read the journal before another writes it runs old
\* files after new ones (migrations.go:28-40).
SchemaIsMade ==
  /\ TablesAfter(ran) \subseteq schema
  /\ ~overlapped => schema = TablesAfter(ran)

\* A server that has been killed, or has failed because another was faster,
\* serves in the end.
ComesUp ==
  \A p \in Servers : At(p, "down") ~> At(p, "up")
=============================================================================
