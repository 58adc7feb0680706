----------------------------- MODULE Leaderboard -----------------------------
(***************************************************************************)
(* GET /v1/leaderboards/scenario and /v1/leaderboards/benchmark-difficulty *)
(* with a client that follows next_offset.  A page takes three statements: *)
(* resolve the target, read when it was refreshed, read its rows; the      *)
(* worker may replace the tables before each of them.  The two endpoints   *)
(* differ in the tables they read.                                         *)
(*                                                                         *)
(* A board maps players to ranks.  Rows are ordered by rank alone, so the  *)
(* rows of one rank come in any order; a name or Kovaak's id that several  *)
(* targets have resolves to any of them.                                   *)
(***************************************************************************)
EXTENDS WorkerTables, Sequences

CONSTANTS
    Players,
    Requests,               \* what clients ask for
    DefaultLimit, MaxLimit

Kinds == {"scenario", "difficulty"}

\* An absent parameter is an empty set.
ASSUME LeaderboardAssumption ==
    /\ DefaultLimit \in Nat \ {0} /\ MaxLimit \in Nat /\ DefaultLimit <= MaxLimit
    /\ \A r \in Requests :
        /\ r.kind \in Kinds
        /\ r.limit \in Int /\ r.offset \in Int
        /\ r.id \subseteq Int
    /\ Requests # {}
    /\ \A t \in TableStates, kind \in Kinds : \A x \in DOMAIN t.boards[kind] :
        /\ DOMAIN t.boards[kind][x] \subseteq Players
        /\ IsFiniteSet(DOMAIN t.boards[kind][x])
        /\ \A p \in DOMAIN t.boards[kind][x] : t.boards[kind][x][p] \in Int

VARIABLE walk   \* the client's walk through a board, with the request in progress

leaderboardVars == <<tables, version, walk>>

\* MAX(updated_at) of no rows.
Null == -1

NoWalk ==
    [stage |-> "idle", code |-> 0, request |-> CHOOSE r \in Requests : TRUE,
     since |-> 0, limit |-> DefaultLimit, offset |-> 0, target |-> 0,
     refreshedAt |-> Null, rows |-> <<>>, drawn |-> 0, got |-> <<>>]

LeaderboardInit == walk = NoWalk

-----------------------------------------------------------------------------
(* Requests and tables.                                                    *)

\* Slip: the cap is forgotten.
UncappedLimit(limit) == IF limit <= 0 THEN DefaultLimit ELSE limit

NormalLimit(limit) ==
    IF limit <= 0 THEN DefaultLimit ELSE IF limit > MaxLimit THEN MaxLimit ELSE limit

NormalOffset(offset) == IF offset < 0 THEN 0 ELSE offset

\* A Kovaak's id must be positive as well; a scenario name must not be blank.
Refused(r) ==
    \/ \E id \in r.id : id <= 0
    \/ r.kind = "difficulty" /\ \E name \in r.name : name <= 0
    \/ r.id = {} /\ r.name = {}

\* The rows of scenarios, or of difficulties joined with benchmarks.
Targets(kind) ==
    IF kind = "scenario" THEN DOMAIN tables.scenarios
    ELSE {d \in DOMAIN tables.difficulties :
            tables.difficulties[d].under \in DOMAIN tables.benchmarks}

NameOf(kind, t) ==
    IF kind = "scenario" THEN tables.scenarios[t] ELSE tables.difficulties[t].kovaaks

\* The id counts when both are given.
Matches(r) ==
    {t \in Targets(r.kind) :
        IF r.id # {} THEN t \in r.id ELSE NameOf(r.kind, t) \in r.name}

Board(kind, t) ==
    IF t \in DOMAIN tables.boards[kind] THEN tables.boards[kind][t] ELSE [p \in {} |-> 0]

\* ORDER BY rank.
Orders(board) ==
    {s \in [1 .. Cardinality(DOMAIN board) -> DOMAIN board] :
        /\ \A i, j \in DOMAIN s : i # j => s[i] # s[j]
        /\ \A i, j \in DOMAIN s : i < j => board[s[i]] <= board[s[j]]}

\* LIMIT n OFFSET offset.
Slice(s, offset, n) ==
    SubSeq(s, offset + 1, IF offset + n < Len(s) THEN offset + n ELSE Len(s))

\* Slip: the time is read after the rows.
DateAfterRows(statement) ==
    CASE statement = "resolve" -> "page"
      [] statement = "page" -> "date"
      [] statement = "date" -> "respond"

Then(statement) ==
    CASE statement = "resolve" -> "date"
      [] statement = "date" -> "page"
      [] statement = "page" -> "respond"

-----------------------------------------------------------------------------
(* The walk.                                                               *)

AskBoard(r) ==
    /\ walk.stage = "idle"
    /\ walk' = [walk EXCEPT
            !.stage = IF Refused(r) THEN "done" ELSE "resolve",
            !.code = IF Refused(r) THEN 400 ELSE 0,
            !.request = r,
            !.limit = NormalLimit(r.limit), !.offset = NormalOffset(r.offset),
            !.since = version, !.got = <<>>]

Resolve ==
    /\ walk.stage = "resolve"
    /\ \E t \in Matches(walk.request) :
            walk' = [walk EXCEPT !.stage = Then("resolve"), !.target = t]

NoTarget ==
    /\ walk.stage = "resolve"
    /\ Matches(walk.request) = {}
    /\ walk' = [walk EXCEPT !.stage = "done", !.code = 404]

\* updated_at is set on every row when the worker replaces the tables.
FetchRefreshedAt ==
    /\ walk.stage = "date"
    /\ walk' = [walk EXCEPT !.stage = Then("date"),
            !.refreshedAt = IF DOMAIN Board(walk.request.kind, walk.target) = {}
                            THEN Null ELSE version]

\* One row more than the limit.
FetchRows ==
    /\ walk.stage = "page"
    /\ \E order \in Orders(Board(walk.request.kind, walk.target)) :
            walk' = [walk EXCEPT !.stage = Then("page"), !.drawn = version,
                        !.rows = Slice(order, walk.offset, walk.limit + 1)]

\* Slip: the comparison is turned round.
ShortHasMore == Len(walk.rows) <= walk.limit

HasMore == Len(walk.rows) > walk.limit

Entries == Slice(walk.rows, 0, walk.limit)

\* Slip: the extra row is counted.
NextOffsetPastExtra == walk.offset + Len(walk.rows)

NextOffset == walk.offset + Len(Entries)

\* The answer, and a client that asks for the next page when there is one.
RespondPage ==
    /\ walk.stage = "respond"
    /\ walk' = [walk EXCEPT
            !.stage = IF HasMore THEN "resolve" ELSE "done",
            !.code = IF HasMore THEN 0 ELSE 200,
            !.offset = IF HasMore THEN NextOffset ELSE walk.offset,
            !.rows = <<>>, !.got = walk.got \o Entries]

BoardFails ==
    /\ walk.stage \in {"resolve", "date", "page"}
    /\ walk' = [walk EXCEPT !.stage = "done", !.code = 500]

Leave ==
    /\ walk.stage = "done"
    /\ walk' = NoWalk

Step == Resolve \/ NoTarget \/ FetchRefreshedAt \/ FetchRows \/ RespondPage

LeaderboardStep == (\E r \in Requests : AskBoard(r)) \/ Step \/ BoardFails \/ Leave

LeaderboardNext ==
    \/ Publish /\ UNCHANGED walk
    \/ LeaderboardStep /\ UNCHANGED workerVars

LeaderboardSpec == WorkerInit /\ LeaderboardInit /\ [][LeaderboardNext]_leaderboardVars

-----------------------------------------------------------------------------
(* What the boards promise.                                                *)

\* The type invariant: every page that is read has a limit between 1 and the
\* maximum and an offset that is not negative.
LeaderboardTypeOK ==
    /\ walk.stage \in {"idle", "resolve", "date", "page", "respond", "done"}
    /\ walk.code \in {0, 200, 400, 404, 500}
    /\ walk.request \in Requests
    /\ walk.limit \in 1 .. MaxLimit /\ walk.offset \in Nat
    /\ walk.refreshedAt \in {Null} \cup 0 .. version
    /\ walk.since \in 0 .. version /\ walk.drawn \in 0 .. version
    /\ walk.rows \in Seq(Players) /\ walk.got \in Seq(Players)

\* ScenarioLeaderboard and BenchmarkDifficultyLeaderboard: whatever the worker
\* does between the statements, a page never claims to be newer than its rows.
RefreshedAtIsNotAhead == walk.stage = "respond" => walk.refreshedAt <= walk.drawn

\* Paging: when the worker publishes nothing meanwhile, all ranks of a board
\* differ and its name is unique, the pages joined are the board in the order of
\* its ranks from the first offset on, each player once, dated by its refresh.
QuietWalkIsTheBoard ==
    (walk.stage = "done" /\ walk.code = 200 /\ walk.since = version) =>
        \A t \in Matches(walk.request) :
            LET board == Board(walk.request.kind, t)
                from == NormalOffset(walk.request.offset)
            IN  (/\ Matches(walk.request) = {t}
                 /\ \A p, q \in DOMAIN board : p # q => board[p] # board[q])
                => /\ \A order \in Orders(board) :
                            walk.got = SubSeq(order, from + 1, Len(order))
                   /\ walk.refreshedAt = IF DOMAIN board = {} THEN Null ELSE version

\* A client that follows next_offset comes to an end, whatever the worker does.
WalkEnds == walk.stage \in {"resolve", "date", "page", "respond"} ~> walk.stage = "done"

=============================================================================
