------------------------------ MODULE Benchmarks ------------------------------
(***************************************************************************)
(* GET /v1/benchmarks: up to six statements, without a transaction, from   *)
(* which ListBenchmarks assembles a hierarchy, and a client that keeps the *)
(* answer and asks again with If-None-Match.  The ETag is the hash of the  *)
(* body, so it is modelled by the hierarchy itself.                        *)
(*                                                                         *)
(* The children of a node are appended to a slice of the node, and later   *)
(* statements reach them by pointers into that slice.  An append beyond    *)
(* the capacity moves the slice: what is attached through an older pointer *)
(* is then not served.                                                     *)
(*                                                                         *)
(* Siblings are sets.  Where ORDER BY ends in a key of the table, their    *)
(* order is a matter of the rows.  It does not for ranks, nor for links:   *)
(* rows of equal keys may change places from one request to the next.  The *)
(* order in which they came is kept beside the tree and is part of the     *)
(* body.                                                                   *)
(***************************************************************************)
EXTENDS WorkerTables

CONSTANTS
    Queries,        \* search texts, "" when there is none
    Folded          \* a name trimmed and lowered

ASSUME BenchmarksAssumption == Folded \in [Names -> STRING]

VARIABLES
    list,       \* the request in progress, or the last one
    order,      \* the order of its ranks and of its links, as sets of pairs
    held        \* the last body the client got, as a set of at most one

listVars == <<list, order, held>>

Views == {"full", "progress"}

Statements ==
    {"benchmarks", "difficulties", "ranks", "categories", "subcategories", "links"}

NoRows == [x \in {} |-> 0]

Bare ==
    [benchmarks |-> {}, difficulties |-> NoRows, ranks |-> NoRows, categories |-> NoRows,
     subcategories |-> NoRows, links |-> NoRows]

Unordered == [ranks |-> {}, links |-> {}]

BenchmarksInit ==
    /\ list = [stage |-> "idle", query |-> "", view |-> "full", sends |-> "none",
               since |-> 0, code |-> 0, read |-> NoRows, tree |-> Bare]
    /\ order = Unordered
    /\ held = {}

-----------------------------------------------------------------------------
(* Pieces of the assembly.                                                 *)

\* WHERE parent = ANY(parents).
Children(rows, parents) ==
    [x \in {y \in DOMAIN rows : rows[y].under \in parents} |-> rows[x]]

\* Slip: the slice starts empty and grows.
CapacityUnknown(siblings) == 0

\* The rows are counted before the slice of their parent is made.
Capacity(siblings) == Cardinality(siblings)

\* The rows whose pointer still leads to the element that is served.
Reachable(rows) ==
    {x \in DOMAIN rows :
        LET siblings == {y \in DOMAIN rows : rows[y].under = rows[x].under}
        IN  Cardinality(siblings) <= Capacity(siblings) \/ \A y \in siblings : y <= x}

\* attachRanks skips placeholders.
IsRank(name) == Folded[name] \notin {"", "no rank"}

\* The columns of a rank that are served.
Shown(rank) == [under |-> rank.under, name |-> rank.name]

\* Ways to list rows that come together: one of two first, and those that are
\* earlier by the keys of ORDER BY before the others.
Listings(together, earlier) ==
    {o \in SUBSET together :
        /\ earlier \subseteq o
        /\ \A p \in together : p \in o <=> <<p[2], p[1]>> \notin o
        /\ \A p, q \in o : p[2] = q[1] => <<p[1], q[2]>> \in o}

\* ORDER BY difficulty_id, sort_order.
RankOrders(ranks, ids) ==
    LET together == {p \in ids \X ids : p[1] # p[2] /\ ranks[p[1]].under = ranks[p[2]].under}
    IN  Listings(together, {p \in together : ranks[p[1]].sort < ranks[p[2]].sort})

\* ORDER BY difficulty_id, sort_order, scenario_name, among the links that are
\* appended to one slice.
LinkOrders(links, homes) ==
    LET together == {p \in (DOMAIN homes) \X (DOMAIN homes) :
                        /\ p[1] # p[2] /\ homes[p[1]] = homes[p[2]]
                        /\ links[p[1]].under = links[p[2]].under}
    IN  Listings(together,
            {p \in together :
                \/ links[p[1]].sort < links[p[2]].sort
                \/ /\ links[p[1]].sort = links[p[2]].sort
                   /\ links[p[1]].scenario < links[p[2]].scenario})

\* Slip: the key of a category lacks the difficulty.
CategoryOfAnyDifficulty(tree, link, c) ==
    Folded[tree.categories[c].name] = Folded[link.category]

CategoryFits(tree, link, c) ==
    /\ tree.categories[c].under = link.under
    /\ Folded[tree.categories[c].name] = Folded[link.category]

\* The lookups are filled category by category: of equal keys the last one wins.
LaterCategories(tree, link, c) ==
    {o \in DOMAIN tree.categories : CategoryFits(tree, link, o) /\ o > c}

SubcategoryFits(tree, link, s) ==
    /\ CategoryFits(tree, link, tree.subcategories[s].under)
    /\ Folded[tree.subcategories[s].name] = Folded[link.subcategory]

LaterSubcategories(tree, link, s) ==
    {o \in DOMAIN tree.subcategories :
        /\ SubcategoryFits(tree, link, o)
        /\ \/ tree.subcategories[o].under > tree.subcategories[s].under
           \/ tree.subcategories[o].under = tree.subcategories[s].under /\ o > s}

\* Where a link is appended: the subcategory it names, else the category, else
\* the difficulty; nowhere if the pointer to its difficulty is stale.
Homes(tree, link) ==
    LET subs == {s \in DOMAIN tree.subcategories :
                    SubcategoryFits(tree, link, s) /\ LaterSubcategories(tree, link, s) = {}}
        cats == {c \in DOMAIN tree.categories :
                    CategoryFits(tree, link, c) /\ LaterCategories(tree, link, c) = {}}
    IN  IF subs # {} THEN {<<"subcategory", s>> : s \in subs}
        ELSE IF cats # {} THEN {<<"category", c>> : c \in cats}
        ELSE {<<"difficulty", d>> : d \in Reachable(tree.difficulties) \cap {link.under}}

Awaits(stage) == list.stage = stage

Continue(stage, tree) == [list EXCEPT !.stage = stage, !.tree = tree]

\* Links are read for the full view only.
Onward == IF list.view = "progress" THEN "respond" ELSE "links"

-----------------------------------------------------------------------------
(* The request.                                                            *)

\* HandleList and the service: a missing view is the full one, others are 400.
AskList(query, view, sends) ==
    /\ list.stage = "idle"
    /\ sends # "none" => held # {}
    /\ list' = [stage |-> IF view \in Views \cup {""} THEN "benchmarks" ELSE "idle",
                query |-> query, view |-> IF view = "" THEN "full" ELSE view, sends |-> sends,
                since |-> version, code |-> IF view \in Views \cup {""} THEN 0 ELSE 400,
                read |-> NoRows, tree |-> Bare]
    /\ order' = Unordered
    /\ UNCHANGED held

ListBenchmarkRows ==
    LET found == {b \in DOMAIN tables.benchmarks :
                    list.query = "" \/ list.query \in tables.benchmarks[b]}
    IN  /\ Awaits("benchmarks")
        /\ list' = Continue(IF found = {} THEN "respond" ELSE "difficulties",
                            [list.tree EXCEPT !.benchmarks = found])
        /\ UNCHANGED <<order, held>>

AttachDifficulties ==
    LET rows == Children(tables.difficulties, list.tree.benchmarks)
    IN  /\ Awaits("difficulties")
        /\ list' = Continue(IF DOMAIN rows = {} THEN "respond" ELSE "ranks",
                            [list.tree EXCEPT !.difficulties = rows])
        /\ UNCHANGED <<order, held>>

AttachRanks ==
    LET rows == Children(tables.ranks, Reachable(list.tree.difficulties))
        ids == {r \in DOMAIN rows : IsRank(rows[r].name)}
    IN  /\ Awaits("ranks")
        /\ list' = Continue("categories",
                [list.tree EXCEPT !.ranks = [r \in ids |-> Shown(rows[r])]])
        /\ \E o \in RankOrders(tables.ranks, ids) : order' = [order EXCEPT !.ranks = o]
        /\ UNCHANGED held

\* Without categories there is no statement for subcategories.
AttachCategories ==
    LET rows == Children(tables.categories, Reachable(list.tree.difficulties))
    IN  /\ Awaits("categories")
        /\ list' = Continue(IF DOMAIN rows = {} THEN Onward ELSE "subcategories",
                            [list.tree EXCEPT !.categories = rows])
        /\ UNCHANGED <<order, held>>

AttachSubcategories ==
    /\ Awaits("subcategories")
    /\ list' = Continue(Onward, [list.tree EXCEPT !.subcategories =
                    Children(tables.subcategories, Reachable(list.tree.categories))])
    /\ UNCHANGED <<order, held>>

\* The link rows of the difficulties, joined with scenarios.
LinkRows ==
    LET rows == Children(tables.links, DOMAIN list.tree.difficulties)
    IN  [l \in {l \in DOMAIN rows : rows[l].scenario \in DOMAIN tables.scenarios} |-> rows[l]]

LinkHomes == [l \in DOMAIN LinkRows |-> Homes(list.tree, LinkRows[l])]

AttachScenarioLinks ==
    /\ Awaits("links")
    /\ \A l \in DOMAIN LinkRows : LinkRows[l].sound
    /\ list' = [list EXCEPT !.stage = "respond", !.read = LinkRows,
                    !.tree.links = LinkHomes]
    /\ \E o \in LinkOrders(tables.links, LinkHomes) : order' = [order EXCEPT !.links = o]
    /\ UNCHANGED held

\* rank_thresholds of one row are not an array of numbers.
LinkUnsound ==
    /\ Awaits("links")
    /\ \E l \in DOMAIN LinkRows : ~LinkRows[l].sound
    /\ list' = [list EXCEPT !.stage = "idle", !.sends = "none", !.code = 500, !.tree = Bare]
    /\ order' = Unordered
    /\ UNCHANGED held

ListFails ==
    /\ list.stage \in Statements
    /\ list' = [list EXCEPT !.stage = "idle", !.sends = "none", !.code = 500, !.tree = Bare]
    /\ order' = Unordered
    /\ UNCHANGED held

HoldsTheBody == \E h \in held : h.tree = list.tree /\ h.order = order

\* Slip: a tag that a proxy has made weak is not recognised.
StrongTagMatches == list.sends = "strong" /\ HoldsTheBody

\* The star is skipped, and a leading W/ is ignored.
EtagMatches == list.sends \in {"strong", "weak"} /\ HoldsTheBody

\* The answer.  A client that gets 304 goes on with the body it has.
RespondList ==
    LET body == IF EtagMatches THEN CHOOSE h \in held : TRUE
                ELSE [tree |-> list.tree, order |-> order]
    IN  /\ Awaits("respond")
        /\ list' = [list EXCEPT !.stage = "idle", !.sends = "none", !.tree = Bare,
                        !.read = NoRows, !.code = IF EtagMatches THEN 304 ELSE 200]
        /\ order' = Unordered
        /\ held' = {[query |-> list.query, view |-> list.view,
                     tree |-> body.tree, order |-> body.order]}

AskAny ==
    \E query \in Queries, view \in Views \cup {"", "compact"},
       sends \in {"none", "star", "strong", "weak"} : AskList(query, view, sends)

Advance ==
    \/ ListBenchmarkRows \/ AttachDifficulties \/ AttachRanks \/ AttachCategories
    \/ AttachSubcategories \/ AttachScenarioLinks \/ LinkUnsound \/ RespondList

ListStep == AskAny \/ Advance \/ ListFails

BenchmarksNext ==
    \/ Publish /\ UNCHANGED listVars
    \/ ListStep /\ UNCHANGED workerVars

BenchmarksSpec ==
    WorkerInit /\ BenchmarksInit /\ [][BenchmarksNext]_<<workerVars, listVars>>

-----------------------------------------------------------------------------
(* What the list promises.  The reference reads one state of the tables    *)
(* from the top down.                                                      *)

Select(rows, Test(_)) == [x \in {y \in DOMAIN rows : Test(rows[y])} |-> rows[x]]

Last(S) == CHOOSE x \in S : \A y \in S : y <= x

Place(t, link) ==
    LET cats == {c \in DOMAIN t.categories :
                    /\ t.categories[c].under = link.under
                    /\ Folded[t.categories[c].name] = Folded[link.category]}
        subs(c) == {s \in DOMAIN t.subcategories :
                    /\ t.subcategories[s].under = c
                    /\ Folded[t.subcategories[s].name] = Folded[link.subcategory]}
        split == {c \in cats : subs(c) # {}}
    IN  IF split # {} THEN <<"subcategory", Last(subs(Last(split)))>>
        ELSE IF cats # {} THEN <<"category", Last(cats)>>
        ELSE <<"difficulty", link.under>>

Hierarchy(t, query, view) ==
    LET bs == {b \in DOMAIN t.benchmarks : query \in t.benchmarks[b] \cup {""}}
        ds == Select(t.difficulties, LAMBDA d : d.under \in bs)
        cs == Select(t.categories, LAMBDA c : c.under \in DOMAIN ds)
        ls == Select(t.links, LAMBDA l : /\ view = "full"
                                         /\ l.under \in DOMAIN ds
                                         /\ l.scenario \in DOMAIN t.scenarios)
    IN  [benchmarks |-> bs,
         difficulties |-> ds,
         ranks |-> [r \in {r \in DOMAIN t.ranks :
                                /\ t.ranks[r].under \in DOMAIN ds
                                /\ Folded[t.ranks[r].name] \notin {"", "no rank"}}
                        |-> [under |-> t.ranks[r].under, name |-> t.ranks[r].name]],
         categories |-> cs,
         subcategories |-> Select(t.subcategories, LAMBDA s : s.under \in DOMAIN cs),
         links |-> [l \in DOMAIN ls |-> {Place(t, ls[l])}]]

\* The orders in which the ranks and links of a hierarchy may be served.
TreeOrders(t, tree) ==
    [ranks : RankOrders(t.ranks, DOMAIN tree.ranks), links : LinkOrders(t.links, tree.links)]

\* The tables leave no order open: the ranks of a difficulty differ in their
\* sort_order, and so do its links of one scenario.
OrderIsSettled(t) ==
    /\ \A r, o \in {r \in DOMAIN t.ranks : IsRank(t.ranks[r].name)} :
        r # o /\ t.ranks[r].under = t.ranks[o].under => t.ranks[r].sort # t.ranks[o].sort
    /\ \A l, o \in DOMAIN t.links :
        l # o /\ t.links[l].under = t.links[o].under /\ t.links[l].scenario = t.links[o].scenario
            => t.links[l].sort # t.links[o].sort

CategoryOf(tree, c) == <<tree.categories[c].under, Folded[tree.categories[c].name]>>

\* The type invariant: only statements of a request in progress are awaited, a
\* request in progress has a known view, and a progress body has no links.
BenchmarksTypeOK ==
    /\ list.stage \in Statements \cup {"idle", "respond"}
    /\ list.stage # "idle" => list.view \in Views /\ list.code = 0
    /\ list.code \in {0, 200, 304, 400, 500}
    /\ list.since \in 0 .. version
    /\ \A h \in held : h.view \in Views /\ (h.view = "progress" => h.tree.links = NoRows)

\* ListBenchmarks: when the worker published nothing during a request that was
\* answered, the client has exactly the hierarchy of the tables, be it from a
\* 200 or from a 304, with ranks and links in the order of their keys: no early
\* return, skipped statement, lookup or pointer loses or misplaces a row.
QuietListIsExact ==
    (list.stage = "idle" /\ list.code \in {200, 304} /\ list.since = version)
        => LET H == Hierarchy(tables, list.query, list.view)
           IN  \E o \in TreeOrders(tables, H) :
                held = {[query |-> list.query, view |-> list.view, tree |-> H, order |-> o]}

\* attachScenarioLinks and appendScenarioToHierarchy: even when the statements of
\* one request saw different states of the tables, every link row that was read
\* is served once, within its own difficulty, and under no name but its own.
LinksAreNeverLost ==
    list.stage = "respond" =>
        \A l \in DOMAIN list.read :
            LET link == list.read[l]
                tree == list.tree
            IN  \E home \in tree.links[l] :
                /\ tree.links[l] = {home}
                /\ home[1] = "difficulty" => home[2] = link.under
                /\ home[1] = "category" => CategoryOf(tree, home[2]) = <<link.under, Folded[link.category]>>
                /\ home[1] = "subcategory" =>
                    /\ CategoryOf(tree, tree.subcategories[home[2]].under)
                            = <<link.under, Folded[link.category]>>
                    /\ Folded[tree.subcategories[home[2]].name] = Folded[link.subcategory]

\* encodeJSONWithETag and etagMatches, README.md:262: a client that has the
\* current body and asks again is told so, also when a proxy made its tag weak.
\* Where ORDER BY leaves an order open, the same rows may make another body.
UnchangedIsNotModified ==
    [][(/\ list.stage = "respond" /\ list'.stage = "idle"
        /\ list.since = version
        /\ OrderIsSettled(tables)
        /\ list.sends \in {"strong", "weak"}
        /\ \E h \in held : /\ h.tree = Hierarchy(tables, list.query, list.view)
                            /\ h.order \in TreeOrders(tables, h.tree))
            => list'.code = 304]_listVars

=============================================================================
