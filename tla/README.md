# A TLA+ verification of refleks-api

refleks-api is a Go HTTP service to which game clients upload `.refleks` run
files. It keeps the metadata of every run in PostgreSQL, the raw file in
Cloudflare R2, and answers lists, details, downloads, leaderboards and
benchmarks. This directory holds models of the parts where several actors,
two stores or a failure can disagree, TLC configurations that check them on
small instances, and TLAPS proofs for every value of the constants.

Source locations below are relative to `src/`.

## 1. The system

### Components

| Component | State | Operations |
|---|---|---|
| Run repository (`internal/runs/adapters/postgres_repository.go`) | tables `runs`, `players`, `scenarios` | `InsertRun` (one transaction: player upsert, scenario upsert, insert of the run, `run_count + 1`), `ExistingHashes`, `RunByHash`, `RunDetail`, `ListRuns` |
| Run service and handlers (`internal/runs/service.go`, `handler.go`) | none but the key prefix | `SyncOne`, `HandleSync`, `HandleBulkSync`, `MissingHashes`, `DownloadRaw`, `DownloadRawURL`, `ListRuns` |
| Upload settings (`internal/runs/config.go`) | table `run_sync_config` | `Load`, before every request and before every file |
| R2 store (`internal/runs/adapters/r2_store.go`) | the objects of a bucket | `Put`, `Get`, `GetDownloadURL` (HEAD, then presign or public URL), `Delete` |
| Parser (`internal/runs/refleks_format.go`) | none | checks header and checksum, reads sections |
| Players and scenarios (`internal/players`, `internal/scenarios`) | reads the tables of the run repository | lists and single reads |
| Leaderboards (`internal/leaderboards`) | reads tables that a separate worker fills | two endpoints: resolve the target, read when it was refreshed, read a page |
| Benchmarks (`internal/benchmarks`) | reads tables that the worker fills | one list: six statements, assembled to a hierarchy, served with an ETag |
| Process (`cmd/api/main.go`, `internal/config`, `internal/httpserver`, `internal/httpapi`, `internal/postgres`) | configuration, pool, routes, listener | start, wiring by tiers, serving, drain, close |
| Stats, status, auth stubs | start time | one query or a constant answer |

### How they interact

* Every request runs in a goroutine of its own. Requests share the pool of
  connections and the two stores; there is no lock and no queue in the program.
* An upload calls, in this order: settings (is sync on?), parser,
  `ExistingHashes`, settings again (may the raw file be kept?), `Put`,
  `InsertRun`, and `Delete` if `InsertRun` did not insert. No transaction
  spans PostgreSQL and R2.
* A download reads the row, then asks R2 with the key it read. The URL that it
  hands out is used after the request is over.
* The lists read what uploads write, one page per request.
* A client asks which of its hashes are missing and uploads those files in later
  requests.
* Benchmarks and leaderboards take several statements for one answer, without a
  transaction; the worker may replace the tables between them.
* All calls use the context of the request: a client that goes away cancels
  what is in progress, the compensating `Delete` included.

### What is hard, and what must hold

* Concurrent `InsertRun` calls on the same player, scenario and hash: counts
  and players must match the runs, a duplicate must leave nothing, nobody must
  wait forever, a username must not be lost.
* Two stores without a common transaction, with crashes, errors that hide a
  success, cancelled compensation, and settings that change in between: a
  recorded run must keep its raw file, an answer must be true, the storage
  policy must hold.
* Uploads of the same file at the same time.
* Downloads and lists that overlap with uploads.
* A parser that reads a stream of sections and cannot go back: one section that
  is not read to its end puts it out of step with the rest, and the readers of
  fields must survive whatever the bytes of a section spell.
* Answers put together from tables of different instants, by pointers into
  slices that still grow and by lookups whose keys may collide.
* What a client was told and acts on later: missing hashes, `next_offset`, ETag.
* Start in every combination of settings, stop with requests in flight.

`PROJECT.json` lists each hazard at its line, with the properties that cover it
or the reason why none does.

## 2. The modules

| Module | Models | Built on |
|---|---|---|
| `RunFile` | what a file says of its player, username and scenario; how usernames merge | |
| `RunTable` | what `InsertRun` promises: one atomic insert into three tables | `RunFile` |
| `RunRepository` | `InsertRun`, one action per statement | `RunFile`, refines `RunTable` |
| `RunRepository_proofs` | proofs about it | `RunRepository`, TLAPS |
| `RunArchive` | what database and bucket together promise: a run, with its raw file or without, appears at once and stays | |
| `RunSync` | `SyncOne` and the upload handlers, one action per call to a store | refines `RunArchive` |
| `RunSync_proofs` | proofs about it | `RunSync`, TLAPS |
| `RunDownload` | downloads that run beside the uploads | extends `RunSync` |
| `SyncClient` | a client that asks for missing hashes and uploads them, beside another one, with a bounded number of faults | extends `RunSync` |
| `RunSyncUsers_proofs` | proofs about downloads and the client | `RunDownload`, `SyncClient`, `RunSync_proofs` |
| `RefleksFormat` | the `.refleks` parser, and files that arrive whole or damaged | |
| `RefleksFormat_proofs` | proofs about it | `RefleksFormat`, TLAPS |
| `Browse` | the three lists, and clients that page through them while uploads go on | `RunTable` |
| `Browse_proofs` | proofs about it | `Browse`, TLAPS |
| `WorkerTables` | the tables that only the worker writes | |
| `Benchmarks` | the benchmark list and a client that asks again with If-None-Match | extends `WorkerTables` |
| `Leaderboard` | both leaderboards and a client that follows `next_offset` | extends `WorkerTables` |
| `Leaderboard_proofs` | proofs about it | `Leaderboard`, TLAPS |
| `Projections` | benchmarks and leaderboards over the same tables | extends both |
| `Projections_proofs` | proofs about benchmarks and about both together | `Projections`, `Leaderboard_proofs` |
| `ApiServer` | `run()` of `cmd/api` from start to exit, with requests in flight | |
| `ApiServer_proofs` | proofs about it | `ApiServer`, TLAPS |
| `MC...` | values for TLC | the module of the same name |

The layers meet at `RunTable!Insert`. `RunRepository` shows that the
transaction behaves like this one step. `RunSync` therefore takes `InsertRun`
as one step, and `Browse` uses `RunTable!Insert` as the upload. `SyncClient`
adds a client to `RunSync` and is proved to be an instance of it. What
`RunFile` calls the metadata of a file is what `RefleksFormat` reads from it.

Definitions marked `Slip` are plausible mistakes in the code. Nothing in the
models uses them; `PROJECT.json` names them as the replacements under which a
property must fail.

### RunRepository

`pc[c]` is the next statement of caller `c`. The writes of an open transaction
are staged in `name` and `count` and reach `players`, `runCount` and `runs` when
it commits. Row locks are those of PostgreSQL at READ COMMITTED: an upsert
waits for the open transaction that wrote the same unique key, and holds the
row until the transaction ends. They need no variable: which rows a caller
holds follows from its `pc` and its file. `Fail` stands for every error return
and a cancelled wait; `CommitLost` for a commit whose reply is lost.

### RunSync

`rows[f]` is the object key in the row of file `f`, `objects` the bucket. A
file is its content, since the hash names it; a key is the prefix of the running
process and the file. `pc[r]` is the call that request `r` makes next:

    lookup -> policy -> put -> insert -> (undo) -> answered

A bulk request goes from `answered` to the next file while `left` lasts. The
constant `Faults` says what may go wrong, and `Overlap` whether two requests may
be at one file together, so that each property is stated with exactly the
assumptions it needs. A call with a cancelled context fails; `Put` and a commit
may take effect and report an error all the same; a crash forgets every
request and may bring a new key prefix. Settings change at any time.

### RunDownload

A download resolves the row, then fetches the object, or asks whether it is
there and hands out a URL that is followed by a later step.

### SyncClient

`todo` is what the last answer of `POST /v1/runs/sync/missing` named and the
client has not sent since; `unasked` is the rest of its round. Between the
answer and the upload anything may happen: the other request carries the same
files, the switch is thrown, a fault strikes. `RunSync` allows any number of
faults, under which nothing need ever arrive; here at most `MaxFaults` happen,
each of its own kind, kept in `spent`. Only such a bound makes it meaningful to
say what becomes of a run in the end.

### RefleksFormat

The decoded payload is a sequence of atoms: words (lengths and counts),
protobuf fields, mouse points and single bytes. `rest` is what the parser has
not read and `stage` the section it is about to read, so that being out of step
is visible: `rest` begins in the middle of something. A length that is read
where there is no word may be any number, and fields that are read where there
are none may be any of `Garbled`. A field is whole, of another wire type than
its reader expects, cut short, malformed, or has a bad tag; `ReadField` tells
what the loop of the code does with each. What arrives is what a client wrote,
or the same shortened, extended, or with another header; the checksum is stale
or was computed afterwards.

### WorkerTables, Benchmarks, Leaderboard

The worker is another program; all that is assumed of it is that it replaces
the tables in one transaction, so that each statement sees one of `TableStates`
(`Publish`). `version` counts the replacements and serves as `updated_at`.

`Benchmarks` has one action per statement of `ListBenchmarks`. A slice is its
owner's set of children; a pointer into it leads to the element that is served
as long as the capacity sufficed or the element was the last to be appended
(`Reachable`). The lookups are `CategoryFits` and `SubcategoryFits`; of equal
keys the last one wins. `Hierarchy` is the reference: it reads one state of the
tables from the top down, without pointers or lookups. The ETag is the body
itself, since its hash has no collisions. Categories of two difficulties may come
in any order from the map `difficultyByID`; their keys differ, so the order does
not matter.

Siblings are sets in the hierarchy. Benchmarks, difficulties, categories and
subcategories are listed by an `ORDER BY` that ends in the id, so their order
follows from the rows. That of ranks ends in `sort_order` and that of links in
the name of the scenario (`benchmarks/adapters/postgres_repository.go:243`, `416`),
so rows of equal keys may come in another order each time. The order in which
the ranks and links of a request came is the variable `order`, any of those that
the keys permit (`RankOrders`, `LinkOrders`), and the body is the hierarchy with
this order.

`Leaderboard` has one action per statement of a page. `Orders` are the orders
that `ORDER BY rank` permits and `Matches` the targets that `LIMIT 1` may take.
A walk is a client that asks for `next_offset` as long as there is one.

`Projections` puts both over the same tables. They only read, so requests do not
disturb one another, and a behaviour follows one client of either kind.

### Browse

One request is one SELECT, so it sees the tables of one instant; the walk of a
client is many. `Before` is the ORDER BY of the lists, `Select` their LIMIT and
OFFSET, `HasMore` and `NextOffset` what the services compute from the row they
ask for beyond the limit. Players and scenarios change their place when a run
is uploaded, runs do not.

### ApiServer

`main` is where `run()` is; the deferred calls run in the step `Close`.
`listener` is the goroutine of `ListenAndServe` and what it left in the channel
`serverErr`. A signal is caught between `NotifyContext` and `stop()`, and kills
at other times. Closing the pool waits for the connections that are lent.
Requests arrive as long as there is a connection to bring them (`Connected`): also
while `Shutdown` drains, which serves the first request of a connection that was
new when it began, and after an error or a timeout until the process ends.

## 3. The runs

| Run | Instance | Shows |
|---|---|---|
| `repository_safety` | 3 callers, pool of 2, 4 files that share players and scenarios | counts, players, usernames and results are right; the transaction is atomic |
| `repository_liveness` | 3 callers, pool of 2, a file of a player and an anonymous one, both of the scenario "unknown" | every call returns, also when one waits for the scenario while it holds the player that the third waits for |
| `sync_any_fault` | 2 requests of up to 2 files, all faults, overlap, 3 settings, 2 prefixes | answers are true and "stored" is said once, the policy holds |
| `sync_client` | a client of 2 files beside another one, bulks of 2, any two of six kinds of faults, sync switched on and off | every run arrives, an orphan object has a cause, switching off drains |
| `download_exclusive` | uploads that do not overlap, crashes, errors, cancelled requests, raw storage on and off, one reader | the stores implement the archive; the file of a row with a key is found |
| `download_overlap` | two uploads of one file, no fault | violation: the raw file of a recorded run is deleted |
| `download_lost_commit` | uploads that do not overlap, one lost commit reply | violation: the raw file of a recorded run is deleted |
| `download_no_raw` | a run without raw file | violation: its download answers 500 and not 404 |
| `browse` | 4 runs, 2 players, 3 scenarios, limits 1, default and too large | steady rows are listed, pages fit, has_more is kept, walks end |
| `parser` | files with every form of field in every position, mouse sections that are exact, short, long or empty; every cut and every stray atom | sections are read in step, what is accepted is what was written, good files are taken, only malformed fields panic |
| `projections` | 5 states of the tables, 2 replacements at any time; duplicate category names, links without a home, equal `sort_order`, equal ranks, ambiguous names, limits and offsets around every edge | quiet answers are exact, disturbed ones lose no link and are not dated ahead of their rows, a client with the current body is told so where its order is settled, walks end |
| `server_lifecycle` | 3 requests, pool of 2, all 18 environments | tiers as documented, clean exit cuts nothing, no statement is cut, a signal ends the process |

### Why the bounds are enough

* Three callers on two connections are the least with which somebody waits for
  a connection while others wait for rows. For liveness the two files differ in
  their player and share a scenario row, so that a caller waits for the row while
  it holds a player and a connection; with files of one player the player's row
  would order all callers before that. The four files share a player
  with and without username, a scenario by name and by being blank, and an
  anonymous run.
* Two requests show every race of `SyncOne`: all of its steps test or change
  one file. Two files per request show that a bulk goes on after a failure, and
  that a change of settings reaches the later file only. Two prefixes show a
  restart with another one. The proofs cover other numbers.
* In `download_exclusive` the setting for raw files changes at any time, so that
  one reading of it may be used for the object and another be in force at the row.
* `browse` has lists longer than a page, equal scores, a missing score, and ids
  that do not follow the order of insertion.
* Two faults in `sync_client` allow one while the other is being compensated,
  such as a lost commit in a request whose `Delete` then fails. Each kind happens
  once, because a second one of the same kind in the same request would be the
  first one of the next. The proof of `OrphansHaveACause` covers every number.
* Summaries and environments in `parser` have up to two fields of every form, so
  that one field overwrites, ends or follows another; mouse sections have up to
  four points. `Half` is 4 instead of 2^31 and counts range beyond it.
* `projections` replaces the tables twice, so that three statements may see three
  states. The five states are chosen so that each early return is taken and each
  lookup hits, misses and collides; in two of them ranks or links have equal
  keys, and in one the keys run against the ids. With a default limit of 1 and a maximum of 2,
  three players make a walk of up to three pages; the last page is full, short or
  empty. The proofs about leaderboards cover every board, limit and offset.
* The number of uploads in `browse` and of requests in `server_lifecycle` is
  finite; a list that grows faster than it is read need not end.

### Fairness

* `RunRepository`: a statement that can run is run (WF). Waiting for a
  connection, for a player and for a scenario is served when what is waited for
  becomes free again and again (SF): pgxpool serves its waiters in turn, and so
  does the lock queue of PostgreSQL. Nothing is assumed of `Fail`.
* `RunSync`: a handler goes on (WF on its steps taken together); that a call
  succeeds rather than fails is not assumed. `SwitchOffDrains` speaks of
  settings that stay off, and is checked while they can be read.
* `SyncClient`: each handler goes on, and the client keeps asking and uploading
  (WF). `EveryRunArrives` is about behaviours in which sync is enabled from some
  point on; faults are limited by their bound and not by fairness.
* `Projections`: a walk goes on with its statements and its next page (WF). That a
  statement succeeds is not assumed; an error ends the walk as well.
* `Browse`: a client asks for the page it was promised (WF).
* `ApiServer`: `run()` goes on and its deadline passes (WF), a statement ends
  (WF, which `repository_liveness` supports). Calls to R2 may hang, since the
  program gives them no timeout.

## 4. What is proved

TLAPS checks the following for any number of callers, requests, files,
players, scenarios and connections, from the assumptions on the constants that
the modules state (`MetadataAssumption`, `CallersAssumption`,
`SyncAssumption`, `ClientAssumption`, `FormatAssumption`, `BrowseAssumption`,
`WorkerAssumption`, `BenchmarksAssumption`, `LeaderboardAssumption`,
`ServerAssumption`). Every safety and action property that a passing run checks
is stated by one of the theorems.

`RunRepository_proofs`. The inductive invariant `IInv` adds to the types that
open transactions hold disjoint rows (`LocksAreExclusive`) and that what they
staged still fits the tables (`StagedIsCurrent`): the staged count is one more
than the committed one, because nobody else can have committed to the scenario
since. `CountMatchesRuns` and `PlayersHaveRuns` are not inductive without these.
From `IInv`:
`TypeCorrect`, `CountsAreExact`, `NoStrayPlayer`, `UsernamesSurvive`,
`ResultsAreTrue`, `StagedStaysCurrent`, and `Refinement`: every step is an insert of `RunTable` or
changes no table, since committing staged writes that are current is the
abstract insert (`ApplyTxIsInsert`).

`RunSync_proofs`.

* `TypeCorrect`, `AnswersAreTrue` and `PolicyHolds` under every fault and with
  overlapping uploads. The answer "stored" or "duplicate" is kept true because
  no step takes a row away, and "stored" is said once because it is said by the
  step that makes the row appear; the policy needs that the key a request holds was
  chosen under some settings.
* `RecordedRunsKeepTheirObject` and `Refinement` (of `RunArchive`) from
  `~Overlap` and `"commit" \notin Faults`: `ExclusiveInv` says that a file in
  work has no row, so that the compensation can only delete an object no row
  names. `download_overlap` shows that the first assumption cannot be dropped,
  and `download_lost_commit` that the second cannot (findings 1 and 2).
* `NoOrphans` with overlap, from the absence of R2 errors, cancellation and
  crashes.

`RunSyncUsers_proofs`. A download or a client step is a step of `RunSync` or
leaves it alone, so its invariants carry over; `UploadsStayExclusive` is
`ExclusiveInv` beside any number of readers.

* `StoredFilesAreFound`, from `~Overlap` and `"commit" \notin Faults`. Uploads never
  change or remove a row (`RowsStay`), so the key that a download found is still
  the key of its run (`FoundIsCurrent`), and `ExclusiveInv` keeps the object under
  it. `AnswersAtItsEnd` is needed because a download that looks again must not
  carry an older answer.
* `ClientRefinesSync`: dropping `unasked`, `todo` and `spent` leaves a behaviour
  of `RunSync`.
* `OrphansHaveACause` is the stronger form of `NoOrphans` for a system in which
  faults do happen: until the first one that may prevent the compensation, every
  object without a row belongs to a request that is still between `Put` and its
  end. The invariant says which stage that is.

`RefleksFormat_proofs`. For files of any length, with any fields and points:
`AcceptedIsWritten`, `InStep`, `VerdictsAreDue` and `ParserTypeCorrect`.

* What the loops compute. `FieldsAreRead`: of the fields before the one that ends
  the loop, each slot holds the last value that fits it. `SummaryIsTaken` and
  `StatsAreRead` put this into the words of `Metadata`, and `SpeedIsAverage` does
  so for the loop over mouse points and a sum over a set (`SumsUp`). Induction is
  out of the prover's reach; these lemmas take the least round at which a loop
  would fail (`LeastNatural`) and show that there is none.
* What the reader has before it. The payload is what the client wrote, broken off
  or with something behind it (`Matches`); from one section to the next, the reader
  lacks exactly what the payload lacks (`StreamInv`, by `SectionInFront`). So what
  is read where a section is whole is the section (`SectionIsRead`), and a reader
  that finds the end where it should be has read everything.
* What the parser knows. `FoundInv` says of each stage which metadata are already
  those of the file. `ParserInv` joins all of this; TLC has checked it too.
* `VerdictsAreDue` says in addition that no guard of an error path can hold in
  front of a file that arrived whole (`NothingBreaksOff`).

`FormatAssumption` says only what files consist of: sequences of words, fields,
points and bytes.

`Leaderboard_proofs`. `PagesAreNotAhead` needs no more than types: the time is
read before the rows, and `version` only grows. `QuietWalksAreTheBoard` needs
that a walk through one board always sees the same order of rows: when ranks
differ, the place of a player is one more than the number of players with a lower
rank (`PlaceIsCount`, by counting), so there is only one order
(`OrderIsUnique`). The invariant `QuietInv` says that what the client has so far
is the part of that order between its first and its next offset; `NextPage`
shows that a page extends it, for every length of the board.

`Projections_proofs`. `LinksAreServed` states `LinksAreNeverLost`, whatever the
worker does between the statements. The capacity of a slice is the number of
siblings that go into it, so every pointer stays good (`AllAreReachable`); of the
categories or subcategories that a lookup key fits, exactly one is not
overwritten by a later one (`HomeIsUnique`, from the order of the keys). The
invariant `ListInv` adds that no link is read before the rest of the hierarchy
is in place, and that categories are never replaced under subcategories that are
already attached.

`QuietListsAreExact` compares with `Hierarchy`, which looks nothing up. While
`version` is what it was when the request began, the parts attached so far are
those of the hierarchy of the tables (`BuiltInv`); for the links this takes that
the last home that fits is the one the hierarchy names (`HomeIsPlace`).
The order that a request found is one that the keys of its tables permit
(`OrderInv`). `UnchangedIsReported` is the action property of the ETag: what the
request assembled in quiet is the hierarchy in a permitted order, and the client
holds one body at most (`ListTypes`). The property assumes that the keys settle
the order (`OrderIsSettled`: the ranks of a difficulty differ in `sort_order`, and
so do its links of one scenario). Then only one order is permitted (`OneOrder`),
so if the body of the client is the hierarchy the answer is 304. Nothing in the
repository makes `sort_order` unique, and without the assumption the property
fails (section 5).

`Projections` runs both side by side. `ListsRunUndisturbed` and
`WalksRunUndisturbed` show that each is then still a behaviour of its own
module, so that `ProjectionsKeepTheirPromises` and `ProjectionsTypeCorrect`
follow from the theorems about the parts.

`Browse_proofs`. For tables of any size, all limits and any number of uploads.
ORDER BY is a strict order of a finite set (`RowsAreOrdered`), so the places of
its n rows are 0 to n - 1, each taken once (`PlacesAreTaken`), and a page is the
segment of places from its offset on (`SelectIsSegment`). Between two pages of a
walk (`PagesInv`):

* every steady row before the offset was listed. An upload can move a row that it
  does not touch only towards the end, in the orders of `MovesForward`
  (`StaysBehind`); hence `SteadyRowsStayListed`;
* without uploads the rows seen are the first `offset` ones; hence
  `QuietPagesStayApart`;
* the offset that has_more promised is a place, since tables only grow; hence
  `PromisedPageStaysThere`.

`ApiServer_proofs`. `ServerInv` strengthens `CleanExitCutsNothing` and
`NoStatementIsCut`: there are no requests before the listener is up, none is cut
before the process has exited, and the exit code is set exactly from the moment
`run()` returns. `TiersHold` rests on `WiringInv`, what each step of the start
has wired so far, for every environment.

Only model-checked: the liveness properties (`EveryCallReturns`,
`SwitchOffDrains`, `EveryRunArrives`, `WalkEnds`, `ShutdownEnds`), which are
beyond the prover, as they need fairness and ENABLED. The runs that expect a
violation are counterexamples of TLC.

## 5. Findings

1. Two uploads of the same file at once can delete the raw file of the run that
   was recorded (`service.go:130-133`): both use the same key, and the loser of
   the insert removes it. Later uploads are duplicates, so it never comes back.
   (`download_overlap`)
2. A commit whose reply is lost ends in the same way (`service.go:123-127`):
   `InsertRun` returns the error of `Commit`, and the object of the run that was
   recorded is removed. (`download_lost_commit`)
3. A run without raw file has a NULL `object_key`, which `RunByHash` cannot scan
   (`postgres_repository.go:167`): its download is 500 instead of 404.
   (`download_no_raw`)

Met while reading, without a run: README.md:421 says that uploads are
deduplicated by the game's own hash as well, which no code does; the access log
has no line for a request that panics, because `Recoverer` is outside of it.
`GET /v1/players?q=` names a table alias `a` that its query does not have
(`players/adapters/postgres_repository.go:37`, `52-53`), so PostgreSQL rejects every
search that README.md:729 documents, as `SearchPlayers` has it; that takes no more
than reading, so no run is spent on it. The
codes by which the protobuf library reports a broken field are tested for -1
only (`refleks_format.go:220`, `384`): a malformed field makes the parser panic
and the upload answer 500, where a broken file is otherwise answered as invalid
or read without the field; `PanicsOnMalformedOnly` says that nothing else does.
A mouse section that is longer than its count says is not read to its end
(`refleks_format.go:306`, `357`), and what is left of it is taken for the
environment; the properties of the parser are therefore stated for exact mouse
sections. Rows of equal rank have no defined order between two pages of a
leaderboard (`leaderboards/adapters/postgres_repository.go:51`, `128`), and a
scenario name that differs only in case from another may resolve to either
(line 203); the promises of `QuietWalkIsTheBoard` exclude both. Ranks of a
difficulty with equal `sort_order`, and links of one scenario with equal
`sort_order`, have no defined order in the list of benchmarks
(`benchmarks/adapters/postgres_repository.go:243`, `416`): if the worker writes
such rows, a hierarchy that did not change may be sent again with another ETag,
where README.md:262 promises a 304. `UnchangedIsNotModified` excludes such tables.
A download whose row has no key is not found by intent, but see finding 3;
`StoredFileIsFound` therefore speaks of rows with a key.

## 6. What is not modelled

* In the parser: the time of the run, which is copied from the header; the second
  coordinate of points, which is treated like the first; the bits of floats; the
  wrap of the 64-bit difference of two time stamps (`refleks_format.go:338`), which
  needs times 2^63 ms apart. If something else stands where the count of mouse
  points should be, the code reads four bytes of it as a count and may go on
  (`refleks_format.go:301`), while `ReadMouse` lets such a section be rejected only;
  no property promises anything of such a section.
* In `InsertRun`, the time between the end of a call and the end of its
  transaction: with a cancelled context `Rollback` closes the connection and the
  server frees the rows a little later, while `Fail` gives back both at once.
  Others then wait longer, and what they see when they go on is the same.
* In benchmarks and leaderboards: columns that are only copied, the parsing of
  numbers in parameters, the replacement of nil slices by empty ones, and the JOIN
  with `players`, whose rows the tables reference. Rows of `players` and
  `scenarios` that uploads add between two statements do not change a target that
  is resolved, nor rows that are joined.
* Sizes and counts of bodies: they reject a request, or end a bulk early, as
  `Finish` may at any file.
* The order of scenarios by `updated_at` and filters on usernames in the lists,
  as an upload may change what they see; the clock in general.
* Single reads: one statement each.
* HTTP deadlines on connections. A client that lost its answer uploads again,
  which `RunSync` allows at any time.
* `.env` files, logging, JSON.

## 7. Plan

What is left, in this order:

1. The order of scenarios by `updated_at`, with a clock that transactions read
   when they start, in `RunRepository`.
2. The safety halves of the liveness properties as theorems: what decreases
   with each step of a walk, and that no waiting call can be blocked by a cycle
   of locks.
