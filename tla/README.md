# FizicaMD backend: TLA+ specifications and proofs

The program is an HTTP server in Go (chi, sqlx, PostgreSQL 16) for a physics
portal: teachers publish resources, users have accounts with roles, avatars
and groups, administrators watch the server's metrics over a websocket. It is
small, has no tests, and is written in one style: a handler runs a few SQL
statements one after another **without a transaction**, looks at something in
one statement, acts on it in another, and passes over most errors. Each request
runs in a goroutine of its own and the process may be killed between any two
statements. What the program guarantees is therefore decided by the order of
statements, by the constraints of the schema, and by nothing else; that is what
these modules state, check and prove.

All paths are relative to the repository root, line numbers are those of the
commit modelled. Run the tools in this directory:

    tlc -config MCMedia_safety.cfg MCMedia      # any run of the table below
    tlapm MediaProofs.tla                       # any *Proofs module

## The system

| Component | State | Operations | Hard behaviour | Correct when | Modelled in |
|---|---|---|---|---|---|
| Media and avatars (`services/media.go`, `http/me_handlers.go`) | `media_assets`, `user_profiles.avatar_media_id`, files under `storage/media` | UploadAvatar, UploadResource, MediaContent, DeleteAccount, DeleteUser | file and row written in two steps, crash between them, two uploads of a user, ignored errors | a row has its whole file; a shown avatar can be fetched; a replaced one goes | `Media`, `AvatarStore`, `MediaLeftovers` |
| Accounts and roles (`http/auth_handlers.go`, `http/admin_users.go`) | `users`, `user_roles` | Register, CreateUser, UpdateUser, AssignRole, RemoveRole, DeleteUser | look up, then insert; a difference computed from roles read before; a grant and a membership in two statements | one account per address; what overlapping requests agree on happens; a role comes with its group | `Accounts` |
| Role groups (`services/groups.go`) | groups named `Role: ...` | EnsureRoleGroups at start, EnsureMembership after a grant | found by name, which teachers may change | as above | `Accounts`, `Groups` |
| Groups (`http/groups.go`, `services/groups.go`) | `groups`, `group_members` | thirteen requests of administrators, teachers, students | permission asked for in one statement, used in later ones | no teacher appoints a teacher; a request acts only on what its checks were about | `Groups` |
| Sessions (`services/auth.go`, `http/auth.go`, `http/auth_handlers.go`, `http/me_handlers.go`) | none; signed tokens | Login, Refresh, WithAuth, RequireRole, ChangePassword | a token outlives the account and its roles; Refresh asks for no status; the password is checked in one statement and set in another | a role that was taken away opens routes for a known time only; deleted accounts get out; barred ones begin no session | `Sessions` |
| Resources (`http/resources_*.go`, `services/resources.go`) | `resource_entries` | CreateResource, UpdateResource, DeleteResource, public list and detail | free slug looked up before the INSERT; status and date written from a row read before | slugs unique, published means dated, drafts stay drafts; an address once given out leads to its entry | `Resources`, `Catalog` |
| Resource categories (`http/resource_categories.go`) | `resource_categories` | CreateCategory, UpdateCategory, UpdateGroupLabel, DeleteCategory | "in use" asked before the DELETE, whose error is ignored; orders are `max + 1`, read before they are written; groups exist in their labels only | every entry has its category; each group in one piece and at one place | `Resources`, `CategoryOrder` |
| Server metrics (`services/metrics.go`, `http/metrics.go`, `metricsLoop`) | `server_metric_samples`, a channel of 16, a map of clients | CaptureMetrics, Broadcast, Run, Add, Remove, MetricsSocket | a map nobody locks, writes without a deadline, drops when full | samples in order, none twice, no gap but the drops | `MetricsHub`, `LossyBroadcast` |
| Migrations (`internal/migrations`) | `schema_migrations`, the schema | Apply when a server starts | a file is run and recorded in two statements; two servers start at once; crash loops | a server that serves is migrated; one file at most runs twice | `Migrations` |
| Log files (`cmd/server/main.go`) | `storage/logs` | setupLogger, rotation, cleanupOldLogs | retention counted in days with a time of day | — | — |
| Visits, search, text rules (`http/public.go`, `services/resources.go`) | `site_visits` | TrackVisit, VisitCount, PublicSearch, Slugify, CleanTags, ValidateBlocks | texts cut at bytes | — | — |
| Router, logger, configuration, data objects | — | dispatch, JSON, environment | the recorder of the logger hides what the writer can do | — | the recorder, in `MetricsHub` |

Components interact only through the database, the file system, and, for
metrics, a channel and a map. A deletion of a user cascades into profiles,
roles, memberships and resources (`migrations/V1__init.sql`,
`V4__resources.sql`); role grants call into groups; resources are filed under
categories; a start of the server runs migrations, then makes the role groups,
then serves.

## Modules

Every module has one action per statement (or file operation, or access to the
map), a worker for each goroutine that serves requests, and `pc`, `job` or
`req` for where its request is and what it has read. A request that has been
answered leaves its worker idle. Reads that decide nothing are left out; a
failed statement is an action where the handler goes on differently.

* **`Media`** – `SaveMediaAsset` is `StartUpload` (UUID and `os.Create`),
  `CopyBody`, `InsertAsset`, `DiscardFile`; `UploadAvatar` goes on with
  `SelectAvatar`, `InsertProfile`, `SetAvatar` and, for the previous avatar,
  `DeleteAsset` = `LookupAsset`, `DeleteRow`, `RemoveFile`. Deleting an account
  reads the avatar, runs `DeleteAsset` and then `DeleteUser`. `Failing` names the
  statements that may fail in an instance, `Crash` kills every request at once.
* **`AvatarStore`** – the promise: an avatar that is shown can be fetched, is
  nobody else's, changes only to one that can be fetched, and goes only with its
  account. `Media` implements it under the mapping at the end of `Media`.
* **`MediaLeftovers`** – `Media` with a history of which assets had something go
  wrong while a request held them, to say precisely what *does* go wrong.
* **`Accounts`** – `CheckEmail`/`InsertUser` for the two registrations,
  `FindUser`, `ReadRoles`, then `Grant`/`Join`/`Revoke` one by one in any order
  (Go's range over a map) for `UpdateUser`. Any of their statements may fail, whenever it
  runs. `CheckEmail`, `InsertUser`, `FailInsert` and `FindUser` then answer (`FindUser`
  tells "not found" of a user who is there); after the others the handler goes on:
  `ReadRoles` with the roles it got, or none, so that the others are not revoked
  (`admin_users.go:246`), `Grant` and `Revoke` to the next role (lines 190, 263, 273)
  or, after a failed INSERT, to `Join` all the same (191, 264, 313), `Join` without the
  membership (192, 265, 314). `missed` is the history of the roles that an error kept a
  request from granting or revoking and no later statement made good, `excused` that
  of the memberships that were lost.
* **`Groups`** – administrators' requests are single statements; those of
  teachers and students are a check (`MayTeach`, `MayRead`), for removals
  `ReadMemberRole`, and an act (`TeacherUpdate`, `TeacherAdd`, `TeacherRemove`,
  `SelectGroup`/`SelectMembers`). `StartEnsure`, `FindGroup`, `CheckMember`,
  `Join` are `EnsureMembership`; `Restart` runs `EnsureRoleGroups`. `past` and
  `appointed` are histories. A text keeps what the handlers do to it: whether it
  has blanks around it and whether it is in capitals.
* **`Resources`** – `StartCreate`, `CheckCategory`, `TryResourceSlug` (the loop
  of `ResolveResourceSlug`), `InsertEntry`; `StartUpdate`, `CheckCategory`,
  `UpdateEntry`; `StartDrop`, `CheckInUse`, `DropCategory`; lists and details
  fetch the category after the rows. A slug is a sequence of words and numbers,
  so that the title "a 2" meets the second entry titled "a".
* **`Catalog`** – what those rely on who keep a link: a page appears under an address
  that no other page has, keeps its address and author, is filed under a topic there
  is, and goes by a deletion or with its author. `Resources` implements it under the mapping
  `Links`, where a page is an entry known by its slug.
* **`CategoryOrder`** – `Create` and `Update` begin the two requests that resolve
  orders, `FindGroupOrder`, `MaxGroupOrder` and `MaxSortOrder` are the SELECTs of
  `resolveGroupOrder` and `resolveSortOrder`, each run only where the request leaves the
  order open, `Insert` and `UpdateRow` the writes. `Rename` counts the categories of
  a group, `RenameRows` moves them. `Delete` is what `Resources` allows. An order
  beyond `MaxOrder` is refused, as an INT column does. `disturbed` is the history of
  which requests were overtaken, or passed over an error.
* **`Sessions`** – `Login` checks status and password, `Refresh` the token only; both go on
  with `ReadRoles` (whose error is passed over), `Sign` and `BuildUserDTO`, which
  fails when the account is gone and hands the pair out otherwise. `WithAuth` looks
  at signature and clock; `RequireRole` at the roles in the token. A request that is
  inside may be an administrator's `SetStatus`, `Grant`, `Revoke`, `DeleteUser`, or a
  `ChangePassword` (`CheckPassword`, `SetPassword`). A pair carries the moment its
  roles were read and the `era` of its login; `until`, `gone`, `bars` and
  `overtaken` are histories. Time moves in ticks of the access token's life.
* **`MetricsHub`** – `CaptureMetrics`, `Broadcast`; `Take`, `NextClient`,
  `WriteJSON`, `EndRange` are `Run`; `BeginAdd`/`EndAdd` and
  `BeginRemove`/`EndRemove` are the writes to the unguarded map, which take time.
  An access that meets a write (`Meeting`) is a data race: the writes may be lost,
  or the runtime may end the process (`Die`). `buffered` is what the system holds
  between hub and client; when it is full, `WriteJSON` waits. `Logged` says
  whether the logger's recorder is in front of the handler.
* **`LossyBroadcast`** – what the clients are promised; `MetricsHub` implements it.
* **`Migrations`** – `FindJournal`/`CreateJournal` are `ensureTable`,
  `ReadApplied` lists and reads, `RunFile` and `Record` are the two statements of
  `applyMigration`. The journal and its two unique indexes are made in one step: a server
  that finds the table without an index makes it (`migrations.go:71-84`), so that each has them
  before it reads the journal; only that two servers make one at the same moment and one of
  them fails and starts again is not distinguished from their meeting at the table.
  A server keeps the files of the image it was started from (`own`), whatever is
  deployed while it starts. A file stands for the tables it creates if they are missing,
  drops, and cannot do without; the real files repeat without error when these
  are right. `Deploy` is a new image with more files, `Crash` a kill, `Start`
  the restart that `deploy/docker-compose.yml` asks for (`unless-stopped`).
  It assumes that no two files have the same version: the second would be taken
  for the first and never run.

`MC*.tla` and the `.cfg` files are the instances for TLC.

## Runs

| Run | Instance | What it shows |
|---|---|---|
| `media_safety` | 2 users, 3 assets, 2 requests at a time, 1 crash, all tolerated failures | `RowHasFile`, `ServedWhole`, `RemovesOnlyReplaced`; `Media` implements `AvatarStore` (243 140 states) |
| `media_leftovers` | the same with every statement failing at will | an avatar left behind, or a row without its file, is the trace of a failure, a crash or an overlap that met that very asset (1 095 034) |
| `accounts` | 2 users, 1 address, 2 roles and an unknown code, 2 requests, 1 crash | `OneAccountPerEmail`, `AgreementWins`, `HoldersAreMembers`, with every statement failing at will (1 808 922) |
| `groups` | 2 groups, 2 users, 3 spellings of a role, 1 request | `TeachersAreAppointed`, `ActsAreJustified` (161 885) |
| `groups_removal` | the same | **violated**: a teacher removes a teacher, see Findings |
| `resources_safety` | 2 entries, 2 titles of which one looks like the other's second slug, 1 user, 1 category, 4 dates, 2 requests | `CatalogIsSound`, `PublishedHasDate`, `LoneRequestsHold`, `DraftsStayDrafts`, `DatesStay`; `SearchIsBounded`: the loop for a free slug has tried one slug for each entry and one more at most, so that it ends; `LinksHold`: `Resources` implements `Catalog` (458 520) |
| `categories` | 3 codes, 2 groups, requests that name an order and that do not, greatest order 2, 2 requests | `LoneRequestsHold`, `DisorderIsExcused`: an orderly list gets out of order only by a named order, a rename to another group's label, or an overlap (1 438 265) |
| `sessions` | 2 users, 2 passwords, the administrator's role, access tokens of 1 tick and refresh tokens of 2, 2 ticks, 2 pairs, 2 requests | `RolesAreRecent`, `DeletedAreOut`, `BarredBeginNoSession`, `PasswordsAreHandedOn` (932 746) |
| `hub_safety` | 2 clients, channel of 1, buffer of 1, 3 samples | `NoSilentGap`; the hub implements `LossyBroadcast` (1 843 529) |
| `hub_liveness` | 1 client and 1 refused request | `QueueDrains`, `GoneAreForgotten` (29 208) |
| `hub_routed` | 1 client, behind the logger | **violated**: no request is ever upgraded, see Findings |
| `migrations` | 2 servers, 5 files, 2 kills, new and old databases | `UpIsMigrated`, `JournalLagsByOne`, `SchemaIsMade`, `ComesUp` (101 537) |

**Why these bounds are enough.** A hazard here needs two actors and one object:
one request that has checked, another that changes what was checked. Three assets
are what two overlapping avatar uploads need beside the avatar they both
replace; two ids are what one address needs to be taken twice; one category and two entries are a
slug conflict, a deleted category and an overtaken update. In `groups` one worker is
enough: whatever a second request could do to the tables an administrator
does in one statement at any moment, so that the single worker's statements
interleave with every change there is; the history variables only look at
one request at a time. Channel and buffer have room for 1 so that both fill up;
three samples pass, one is dropped while one waits and one is being served. `categories` starts from an
empty table, as after a deletion of the seeds, so that the three codes are all that the
list ever holds; the greatest order is 2 so that counting up meets it. In
`sessions` two pairs are a stolen and a fresh one, and two ticks let a pair expire
and be refreshed once. Migrations
take the five kinds of files there are: one that creates, one that needs what
another created, one that drops, one whose name sorts before an older one
(`V10`), and one without a version (there is none in the repository; the
code orders and records it differently). The proofs below hold without bounds.

Symmetry is used in runs without liveness, over sets whose members the module treats
alike. Deadlock is off for the hub, whose process may end, and for migrations,
where servers that all serve have nothing left to do.

**Fairness.** Go schedules every runnable goroutine, and a statement ends with its
own result or with the error of its connection: weak fairness of each server's
steps (`Migrations`, with the restarts of the deployment), and of the hub and
the handlers (`MetricsHub`). `MetricsHub!FairSpec` also takes for granted that a
client which has not hung up reads: **nothing in the code makes it**. A client that
stops reading stops the hub, everybody's samples with it (`WriteJSON` has no
deadline, the channel overflows and later samples are dropped without a trace).
The liveness of the hub is shown only under that assumption. The other modules
state no liveness: each of their requests is a list of statements that ends by
its shape, but for the loop over slugs, of which `SearchIsBounded` says more than that it
ends, and the loops over roles, whose end is proved (`RequestsEnd`). What has to be cleaned up in the end (`LeftoversAreExcused`, `DeletedAreOut`)
is stated as an invariant of the moments when it has to be done.

## Findings

* **The metrics socket serves nobody** (`hub_routed`). `RequestLogger`, which
  `Router` puts in front of every route (`src/internal/http/server.go:40`), hands the
  handlers a `statusRecorder` (`src/internal/http/middleware.go:9`) with the
  methods `Header`, `Write` and `WriteHeader` only. `Upgrade` needs
  `http.Hijacker` and answers 500. The README documents the endpoint (`README.md:28`).
  The other runs of the hub set `Logged = FALSE`: they say what the hub does once
  the recorder passes hijacking on, and so does the race on its map, which the recorder
  hides today.
* **A teacher may remove a teacher** (`groups_removal`). Between
  `memberRole` (`src/internal/http/groups.go:201`) and `RemoveMember` (line 206) an
  administrator may promote the student; "Teacher can remove only students"
  (line 203) then does not hold.

What the passing properties put into words is also worth knowing: two
overlapping uploads of a user leave the first one's avatar behind, row and file
(`LeftoversAreExcused`); a failed `DELETE` or `UPDATE` whose error is dropped costs
the file of a row that stays (`RowsTrusted`, `AvatarsTrusted`); nothing but a new grant repairs a
role whose membership was lost (`HoldersAreMembers`), also when `EnsureMembership` just failed; an
update of roles whose SELECT fails answers 200 and leaves the user with roles nobody asked for, and
a grant or revocation that fails does the same for its role (`AgreementWins`: for no other role); a session that a barred user has
begun before can be refreshed for good (`BarredBeginNoSession`), and of two
changes of a password that overlap the later one replaces a password it has not named
(`PasswordsAreHandedOn`); two categories that are created at the same time get the same
order, and a group renamed to another's label becomes part of it under two orders
(`DisorderIsExcused`), while the answer is a success even if the UPDATE failed; an edit that overlaps
another can republish what was retracted (`DraftsStayDrafts`); and two servers
that start at the same time can bring dropped tables back (`SchemaIsMade`).

## Proofs

TLAPS proves, for every value of the constants and without bounds:

| Module | Theorems | Assumptions beyond the module's own |
|---|---|---|
| `MediaProofs` | `TypeOK`; `RowHasFile`, `ServedWhole`; `RemovesOnlyReplaced`, `AvatarsAreKept` (the refinement), and `ShownIsStored` of the abstract store; `LossesAreExcused`, `LeftoversAreExcused` of `MediaLeftovers`, which is `Media` when its history is left out (`HistoryChangesNothing`) | `RowsTrusted` for `RowHasFile`, `ServedWhole` and `ShownIsStored`, `AvatarsTrusted` for `RemovesOnlyReplaced` and `AvatarsAreKept`: that the statements whose failure the code takes for something else do not fail. None for `MediaLeftovers`, where every statement may |
| `AccountsProofs` | `TypeOK`, `OneAccountPerEmail`, `HoldersAreMembers`, `AgreementWins`; who is updated by one request at a time holds what it asked for and nothing else, up to the roles whose statement failed (`LastWordCounts`); every statement brings a request nearer to its answer (`RequestsEnd`) | roles are finite for `RequestsEnd` |
| `ResourcesProofs` | `TypeOK`, `CatalogIsSound`, `PublishedHasDate`, `LoneRequestsHold`, `SearchIsBounded`, `DraftsStayDrafts`, `DatesStay`; `LinksHold` (the refinement of `Catalog`), and `AddressesStay` of the abstract catalog | none |
| `CategoryOrderProofs` | `TypeOK`, `LoneRequestsHold`, `DisorderIsExcused` | none |
| `GroupsProofs` | `TypeOK`, `TeachersAreAppointed`, `ActsAreJustified` | none |
| `SessionsProofs` | `TypeOK`, `RolesAreRecent`, `DeletedAreOut`, `BarredBeginNoSession`, `PasswordsAreHandedOn`; once nobody has the role ADMIN, in a row, a token or a request, nobody ever gets it (`PowerIsNotMade`) | none |
| `MetricsHubProofs` | `TypeOK`, `NoSilentGap`, `IsLossyBroadcast` (the refinement), and `InOrder` of the abstract broadcast; the map has who has been added and not removed (`MapIsKept`); every step of the hub brings each sample nearer to being taken, and nobody puts it off (`TurnsEnd`) | connections are finite for `TurnsEnd` |
| `MigrationsProofs` | `TypeOK`, `JournalLagsByOne`, `UpIsMigrated`; the tables are right when servers start one at a time; `SchemaIsMade`; the order of the files is a strict total one (`FilesAreOrdered`), so that images are nested (`ImagesAreNested`) and files run for the first time in it (`RunInOrder`); a server that starts alone always has a next file (`NextFileExists`), ends only if it is killed (`AloneNeverFails`) and comes nearer to serving with each statement (`AloneAdvances`) | `NoTableReturns` for `SchemaIsMade`: no migration creates a table that an earlier one drops. `FilesFollow` for `AloneNeverFails` and `AloneAdvances`: each file finds its tables when the files before it have run, and again when it is repeated. Finitely many files for `NextFileExists` and `AloneAdvances`. The files of `migrations/` keep to both: only V5 and V6 drop tables, no later one makes them again, and none needs a table that it drops |

The arguments:

* **Media.** `RowHasFile` is not inductive: a step that removes a file must know
  that its row is gone, one that inserts a row that its file is complete and that no
  other request is about it. `IInv` adds that an asset has a row or a file only
  after its UUID was drawn (`IssuedFirst`), that an upload works on an asset nobody
  else knows (`SavesItsOwn`), that two profiles never show one asset
  (`OneProfileEach`), that what a request is about to remove is or was its own
  user's (`OldIsTheUsers`) and that `RemoveFile` comes after the row
  (`RowGoesFirst`). `ReplacedFirst` – who removes an avatar has replaced it – rests
  on `SetAvatar` not failing unnoticed, and gives `RemovesOnlyReplaced`; together
  they give the refinement, one lemma per step of `AvatarStore`.
* **What media leaves behind.** `HInv` is the same invariant without the trust in
  statements, for the assets that are not `disturbed`. `LInv` adds what makes sure
  that somebody is there to clean up: rivals – two requests that change the avatar of one
  user – have been noted (`RivalsAreDisturbed`), so that whoever is not noted finds its
  user and profile (`UploadFindsProfile`) and has read the avatar that is shown
  (`UploadKnowsPrevious`, `DeletionKnowsAvatar`); hence a row is shown or held
  (`RowIsHeld`), and a file without a row is held (`FileIsHeld`).
* **Accounts.** `OneAccountPerEmail` follows from the unique index alone, so with
  types it is inductive, and so is `HoldersAreMembers`: a pair of a user and a role is
  excused by the very step that leaves the role without its group. `AgreementWins` needs
  `PlansAreAsked` – what a request is still to grant or revoke was asked for in
  this overlap – and `AgreementIsUnderWay` – a role on which all requests agree
  is in its final state, or one of them is still to bring it there, or an error has met the
  very statement that should have (`missed`). Statements about other roles neither add to
  `missed` nor change the role, which is what keeps an error from costing more than the role it
  met. With one request the agreement is all it wants, so that the difference between the roles held
  and the roles wanted is within `missed`: `LastWordCounts`. For `RequestsEnd`, a request is a
  number of statements away from its loops (`Phase`), and these have the roles left that they
  have not gone through (`Work`), sets which nobody else changes.
* **Resources.** Soundness rests on the constraints; `LoneRequestsHold` on
  `LInv`, which says of every request that nobody has disturbed that what it has
  read is still so. The two action properties follow from it: an update writes
  an old status or date only over a row that has changed since it was read.
  For `LinksHold`, every write is one step of the catalog or none: after it the pages are
  those of the entries that are left, with one opened, changed or removed (`PagesAfter`). The
  UUID of an entry is hidden by the mapping, and nothing is lost by that since slugs are unique
  (`CatalogIsSound`); that an edit keeps the slug is what makes it a change of the same page.
  For `SearchIsBounded`, the numbers that a search has passed over are mapped one-to-one
  to entries that were issued, each of which bears that number as long as it is there
  (`Taken`). Slugs never change (`SlugsStay`), so the map stays one as others write, and
  the entry that takes the next number is not in it yet: two numbers never make the same slug.
* **Groups.** `IInv` joins the types, `Justified(w)` – each label a request
  has reached implies what its checks saw, at some time since it began – and
  `TeachersAreAppointed`. The second is needed for the third: `TeacherAdd`
  writes a role that is not TEACHER because `AskAdd` refused that one, and `Join` writes
  TEACHER only into a group that has borne the name.
* **Categories.** `Finding(w)` – what a request that nobody has disturbed has
  read still holds: its code is free or taken as it found it, the order of its group is
  that of the group, or nobody's, and its place in the group is nobody's. Such a write
  keeps `Orderly`; the other writes are the excuses.
* **Sessions.** `Recent` – a role in a token was held when the roles were read – is
  carried from `ReadRoles` to the pair and from the pair to the request it lets in.
  `DeletedAreOut` rests on the order of `Sign` and `BuildUserDTO`: a pair that is handed out
  was signed before the account was found, so nobody who is gone holds one signed later
  (`GoneAreGone`), and Refresh cannot make one. `Begun` says the same of the era.
  `Powerless` is inductive as it stands: roles come into tokens from rows, into requests
  from tokens, and into rows from requests that have power.
* **Metrics hub.** Samples are in order along their way: what a client was sent is older
  than the one in the hub, or the same if the hub has served it, which is older than those
  in the channel, which are older than the one `metricsLoop` has in hand (`SentInOrder`,
  `QueueInOrder`). That is the refinement. For `NoSilentGap`: who was in the map when the
  hub took a sample is `due`, and who came later was told only of later samples
  (`DueIsKnown`). `TurnsEnd` is what is left of `QueueDrains` without fairness: the samples
  that are ahead of one in the channel never grow more, since the channel is in order
  (`QueueInOrder`), and a turn has two steps at most for each connection the hub has not
  served (`Turn`), which no client that comes or goes meanwhile prolongs. It does not say that
  the hub takes a step: it waits for a client that reads nothing.
* **Migrations.** `Placed(p)`: a server was started from an image, and what it has
  no longer to run is in the journal. An image holds whatever comes before its
  files, so all that comes before the file a server runs next is recorded:
  this is `JournalLagsByOne`, and with `todo` empty it gives `UpIsMigrated`. That
  two servers run the same file, or one dies between the two statements, does not
  disturb it, since the journal only grows.

  For the tables: the journal holds a prefix of the files (`Prefix`), and as long as
  servers start one at a time the image of the one that starts has all that has run
  (`OneByOne`), so that the file it runs is the last (`LastFileMakes`). If they overlap, a
  file may run again after later ones; it takes no table away that should be there only if
  none comes back.

  What is left of `ComesUp` without fairness is proved of servers that start one at a time. Such
  a server runs a file only when all before it have run and none after it has (`RanBefore`),
  so that it finds its tables (`AloneIsUnhindered`), and `Left(p)` – statements, and two for each
  file to do – gets smaller. That there is a next file, the first of those left, needs a
  minimum of a finite set; the library's induction over finite sets takes an operator as its
  parameter, so the minimum is taken from the well-founded order of strict subsets, of the
  sets of files before each one (`FirstExists`).

Only model-checked: liveness (`QueueDrains`, `GoneAreForgotten`, `ComesUp`), which is
beyond the prover. What each of them needs beside fairness and the readiness of actions to run
is proved: `TurnsEnd` for the first, `MapIsKept` for the second – a connection whose
`Remove` has ended is not in the map – and `AloneAdvances` for the third as long as servers do
not overlap. When they do, one may find its table gone and end, and starts again: that this
ends is model-checked only.

## Not modelled

* **Log files** (`cmd/server/main.go`): one goroutine, a timer and the names of files. What
  there is to get wrong is a date: the cutoff has a time of day and the date in the name
  has none, so that *n* days of retention keep *n* − 1 files, today's among
  them, and one day keeps none: the file that was just opened is removed
  (`main.go:156`). Nothing else depends on it.
* **Visits and search** (`http/public.go`): single SELECTs and INSERTs whose result no
  other step reads. So are ListUsers, TeacherListResources and MetricsHistory.
* **Text rules** (Slugify, CleanTags, trimString, NormalizeRequired): functions over
  characters. `Resources` takes from Slugify that titles have words, that a suffix is a
  number and that different titles may have one slug; a text cut inside a character
  (`public.go:107`) is refused by the database and the visit is lost, nothing more.
* **Configuration and database pool**: read and opened once. An interval of 0 seconds
  for metrics makes `NewTicker` panic (`main.go:177`).
* **Router, responses, data objects**: dispatch and JSON without state. The recorder is in
  `MetricsHub`, the middleware for tokens and roles in `Sessions`.
* Bytes of files, hashes of passwords, contents of resources and the wording of errors.
  `CopyMigrations` and `EnsureUserMemberships`, which nothing calls.

## Plan

Every component whose requests have more than one statement is modelled, and every
invariant, action property and refinement that the runs check is proved. What is left, in this
order:

1. The promise of `Groups` as a module of its own – a roster, its teachers and who appointed
   them – and its refinement by `Groups`, as for `Media`, `Resources` and `MetricsHub`.
2. Composition: `Sessions` with `Groups`, since the roles of tokens open the routes
   of teachers, so that "a teacher acts" is "who held the role when the token was made".
3. `LogRotation` – days, files, the open file and the cutoff, against "the last
   n days are kept".
4. `TextRules` – Slugify, CleanTags and trimString as functions over short texts, against
   reference definitions; slugs are fixed points of Slugify.
