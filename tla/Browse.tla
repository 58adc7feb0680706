-------------------------------- MODULE Browse --------------------------------
(***************************************************************************)
(* GET /v1/runs, /v1/players and /v1/scenarios: each answers one page of a *)
(* sorted table, cut out by LIMIT and OFFSET, and names the offset of the  *)
(* next page.  A client walks through a list page by page while uploads go *)
(* on.  The tables are those of RunTable, whose Insert is what an upload   *)
(* does to them.  The three services normalise the request and cut the     *)
(* page in the same way and differ in the table, the orders and the        *)
(* search, so they share the operators here.                               *)
(*                                                                         *)
(* The score stands for every column of runs that the list sorts by:       *)
(* played_at, uploaded_at, accuracy and avg_ttk never change either.  The  *)
(* order of scenarios by updated_at is left out, and so are filters on     *)
(* usernames, which an upload may change.                                  *)
(***************************************************************************)
EXTENDS RunTable, FiniteSets, Integers

CONSTANTS
    Walkers,        \* clients that walk through a list
    Asked,          \* values of the limit parameter, 0 when it is missing
    DefaultLimit, MaxLimit,
    ScoreOf,        \* the score of a run, or NullScore
    NullScore,
    NamePlace,      \* the place of a username or scenario name in the alphabet
    RowId,          \* the id of each runs, players and scenarios row
    Filters,        \* the runs a filter on score, trace or scenario lets through
    FoundTitles     \* the scenarios whose name matches the searched text

ASSUME BrowseAssumption ==
    /\ Asked \subseteq Int
    /\ DefaultLimit \in Nat \ {0} /\ MaxLimit \in Nat /\ DefaultLimit <= MaxLimit
    /\ Filters \subseteq SUBSET Files
    /\ FoundTitles \subseteq Titles
    /\ NullScore \notin Int
    /\ \A f \in Files : ScoreOf[f] \in Int \cup {NullScore}
    /\ \A n \in Names \cup Titles : NamePlace[n] \in Int
    /\ \A table \in {Files, SteamIDs, Titles} : \A x, y \in table :
        RowId[x] \in Int /\ (RowId[x] = RowId[y] => x = y)

VARIABLE walk   \* the walk of each client

browseVars == <<runs, players, runCount, walk>>

Orders ==
    [runs |-> {"score_desc", "score_asc"},
     players |-> {"run_count_desc", "run_count_asc", "name_asc"},
     scenarios |-> {"run_count_desc", "run_count_asc", "name_asc", "name_desc"}]

Rows == Files \cup SteamIDs \cup Titles

Walk ==
    [state : {"idle", "asking", "done", "failed"},
     list : DOMAIN Orders, order : UNION {Orders[l] : l \in DOMAIN Orders},
     filter : SUBSET Rows,      \* the rows that satisfy the WHERE clause
     limit : 1 .. MaxLimit, offset : Nat,
     seen : SUBSET Rows,        \* the rows of the pages so far
     start : SUBSET Rows,       \* the rows of the list when the walk began
     touched : SUBSET Rows]     \* players and scenarios with an upload since

\* The type invariant of the lists: every request the services pass on has a
\* limit between 1 and the maximum, and an order of its own list.
BrowseTypeOK ==
    /\ walk \in [Walkers -> Walk]
    /\ \A c \in Walkers :
        walk[c].state \in {"asking", "done"} => walk[c].order \in Orders[walk[c].list]

-----------------------------------------------------------------------------
(* One request.                                                            *)

Table(list) ==
    CASE list = "runs" -> runs
      [] list = "players" -> {p \in SteamIDs : players[p] # Absent}
      [] list = "scenarios" -> {s \in Titles : runCount[s] > 0}

\* The column a list is sorted by.  Players are counted from the runs table,
\* scenarios carry their run_count.
SortKey(list, order, x) ==
    CASE list = "runs" -> ScoreOf[x]
      [] list = "players" /\ order = "name_asc" ->
            IF players[x] = NoName THEN NullScore ELSE NamePlace[players[x]]
      [] list = "players" /\ order # "name_asc" -> Cardinality({f \in runs : SteamOf[f] = x})
      [] list = "scenarios" /\ order \in {"name_asc", "name_desc"} -> NamePlace[x]
      [] list = "scenarios" /\ order \notin {"name_asc", "name_desc"} -> runCount[x]

Descends(order) == order \in {"score_desc", "run_count_desc", "name_desc"}

\* ORDER BY, with NULLS LAST.  Equal keys are ordered by id, downwards only in
\* the descending orders of runs.
Before(list, order, x, y) ==
    LET kx == SortKey(list, order, x)
        ky == SortKey(list, order, y)
    IN  \/ kx # NullScore /\ ky = NullScore
        \/ kx # NullScore /\ ky # NullScore /\ IF Descends(order) THEN kx > ky ELSE kx < ky
        \/ kx = ky /\ IF order = "score_desc" THEN RowId[x] > RowId[y] ELSE RowId[x] < RowId[y]

\* How many rows of T come before x.
Place(w, T, x) == Cardinality({y \in T : Before(w.list, w.order, y, x)})

\* LIMIT n OFFSET w.offset over the rows that satisfy the filter.
Select(w, n) ==
    LET T == Table(w.list) \cap w.filter
    IN  {x \in T : Place(w, T, x) \in w.offset .. w.offset + n - 1}

\* Slip: the cap is forgotten.
UncappedLimit(asked) == IF asked <= 0 THEN DefaultLimit ELSE asked

NormalLimit(asked) ==
    IF asked <= 0 THEN DefaultLimit ELSE IF asked > MaxLimit THEN MaxLimit ELSE asked

\* Slip: a full page promises another.
FullPageHasMore(w) == Cardinality(Select(w, w.limit)) >= w.limit

\* One row more than the limit is selected, to know whether there is more.
HasMore(w) == Cardinality(Select(w, w.limit + 1)) > w.limit

\* Slips: the limit is the enlarged one; the next page starts where this one did.
NextOffsetPastLimit(w) == w.offset + w.limit + 1
NextOffsetStuck(w) == w.offset

NextOffset(w) == w.offset + w.limit

-----------------------------------------------------------------------------
(* The clients and the uploads.                                            *)

NoWalk ==
    [state |-> "idle", list |-> "runs", order |-> "score_desc", filter |-> {}, limit |-> 1,
     offset |-> 0, seen |-> {}, start |-> {}, touched |-> {}]

BrowseInit ==
    /\ Empty
    /\ walk = [c \in Walkers |-> NoWalk]

Begin(c, list, order, filter, asked) ==
    /\ walk[c].state = "idle"
    /\ walk' = [walk EXCEPT ![c] =
            [NoWalk EXCEPT !.state = "asking", !.list = list, !.order = order,
                           !.filter = filter, !.limit = NormalLimit(asked),
                           !.start = Table(list) \cap filter]]
    /\ UNCHANGED tableVars

ListRuns(c) ==
    \E order \in Orders.runs, filter \in Filters, asked \in Asked :
        Begin(c, "runs", order, filter, asked)

ListScenarios(c) ==
    \E order \in Orders.scenarios, filter \in {Titles, FoundTitles}, asked \in Asked :
        Begin(c, "scenarios", order, filter, asked)

ListPlayers(c) ==
    \E order \in Orders.players, asked \in Asked :
        Begin(c, "players", order, SteamIDs, asked)

\* The query joins players p with runs r; its WHERE clause, there only when q is
\* given, names the alias a, and PostgreSQL rejects names it cannot resolve.
JoinedAliases == {"p", "r"}
SearchedAliases == {"a"}

SearchPlayers(c) ==
    /\ walk[c].state = "idle"
    /\ ~(SearchedAliases \subseteq JoinedAliases)
    /\ walk' = [walk EXCEPT ![c] = [NoWalk EXCEPT !.state = "failed", !.list = "players"]]
    /\ UNCHANGED tableVars

\* The service answers a page, and the client goes on at next_offset if there
\* is one.
Page(c) ==
    LET w == walk[c]
        next == [w EXCEPT !.seen = w.seen \cup Select(w, w.limit)]
    IN  /\ w.state = "asking"
        /\ walk' = [walk EXCEPT ![c] =
                IF HasMore(w) THEN [next EXCEPT !.offset = NextOffset(w)]
                ELSE [next EXCEPT !.state = "done"]]
        /\ UNCHANGED tableVars

Leave(c) ==
    /\ walk[c].state \in {"done", "failed"}
    /\ walk' = [walk EXCEPT ![c] = NoWalk]
    /\ UNCHANGED tableVars

\* An upload is recorded; its player and its scenario may move in their lists.
Upload(f) ==
    /\ Insert(f)
    /\ walk' = [c \in Walkers |->
            IF walk[c].state = "asking"
            THEN [walk[c] EXCEPT !.touched = @ \cup ({SteamOf[f]} \cap SteamIDs) \cup {ScenarioOf(f)}]
            ELSE walk[c]]

BrowseNext ==
    \/ \E c \in Walkers :
        ListRuns(c) \/ ListScenarios(c) \/ ListPlayers(c) \/ SearchPlayers(c) \/ Page(c) \/ Leave(c)
    \/ \E f \in Files : Upload(f)

\* A client that was given a next offset asks for it.
BrowseSpec == BrowseInit /\ [][BrowseNext]_browseVars /\ \A c \in Walkers : WF_browseVars(Page(c))

-----------------------------------------------------------------------------
(* Properties.                                                             *)

\* The orders in which an upload moves rows only towards the front of a list.
\* In the others a row that moves back lets another slip through between pages.
MovesForward(w) ==
    /\ w.order # "run_count_asc"
    /\ ~(w.list = "players" /\ w.order = "name_asc")

\* A finished walk over ListRuns, ListPlayers or ListScenarios listed every row
\* that was there when it began and had no upload since, although LIMIT and
\* OFFSET count over a table that grows.
SteadyRowsAreListed ==
    \A c \in Walkers :
        walk[c].state = "done" /\ MovesForward(walk[c]) =>
            walk[c].start \ walk[c].touched \subseteq walk[c].seen

\* Pages of the services neither overlap nor leave a gap while the list stands
\* still: before its next page a walk has seen exactly offset rows.
QuietPagesDoNotOverlap ==
    \A c \in Walkers :
        LET w == walk[c] IN
        w.state = "asking" /\ w.touched = {} /\ Table(w.list) \cap w.filter = w.start
            => Cardinality(w.seen) = w.offset

\* has_more is a promise: the page at next_offset has a row, whatever is
\* uploaded before it is asked for, since no row ever leaves a list.
PromisedPageIsThere ==
    \A c \in Walkers :
        LET w == walk[c] IN
        w.state = "asking" /\ w.offset > 0 => Select(w, w.limit) # {}

\* Following next_offset comes to an end, once uploads pause: every page moves
\* the offset of the three services on.
WalkEnds == \A c \in Walkers : walk[c].state = "asking" ~> walk[c].state # "asking"

=============================================================================
