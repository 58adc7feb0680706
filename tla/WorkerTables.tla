---------------------------- MODULE WorkerTables ----------------------------
(***************************************************************************)
(* The tables that the worker fills and the API only reads: benchmarks and *)
(* precomputed leaderboards.  The worker is another program; all that is   *)
(* assumed of it is that it replaces the tables in one transaction, so     *)
(* that a statement sees one of the states in TableStates and two          *)
(* statements may see two of them.                                         *)
(*                                                                         *)
(* An id is a number.  For difficulties, categories and subcategories the  *)
(* order of the ids of siblings is that of ORDER BY sort_order, id, and    *)
(* for scenarios it is that of their names.  Ranks and links have their    *)
(* sort_order in the field sort, which need not be unique.  A row of a     *)
(* table below benchmarks names its parent in the field under; an id       *)
(* stands for the columns left out.                                        *)
(***************************************************************************)
EXTENDS Integers, FiniteSets

CONSTANTS
    TableStates,    \* the states of the tables
    MaxPublishes,   \* bound on how often the worker replaces them
    Names           \* names of categories, subcategories, ranks and scenarios

\* Every field but boards maps the ids of a table to its rows; benchmarks maps
\* an id to the search texts that find it, scenarios an id to its lowered name,
\* boards an id of either kind to the ranks of the players on its leaderboard.
ASSUME WorkerAssumption ==
    /\ MaxPublishes \in Nat
    /\ TableStates # {}
    /\ \A t \in TableStates :
        /\ DOMAIN t.difficulties \subseteq Int /\ IsFiniteSet(DOMAIN t.difficulties)
        /\ DOMAIN t.categories \subseteq Int /\ IsFiniteSet(DOMAIN t.categories)
        /\ DOMAIN t.subcategories \subseteq Int /\ IsFiniteSet(DOMAIN t.subcategories)
        /\ DOMAIN t.scenarios \subseteq Int
        /\ \A c \in DOMAIN t.categories : t.categories[c].name \in Names
        /\ \A s \in DOMAIN t.subcategories : t.subcategories[s].name \in Names
        /\ \A r \in DOMAIN t.ranks : t.ranks[r].name \in Names /\ t.ranks[r].sort \in Int
        /\ \A l \in DOMAIN t.links :
            /\ t.links[l].category \in Names /\ t.links[l].subcategory \in Names
            /\ t.links[l].sound \in BOOLEAN /\ t.links[l].sort \in Int
        /\ DOMAIN t.boards = {"scenario", "difficulty"}

VARIABLES
    tables,     \* the committed tables
    version     \* how often the worker has replaced them, the clock of updated_at

workerVars == <<tables, version>>

WorkerInit == tables \in TableStates /\ version = 0

Publish ==
    /\ version < MaxPublishes
    /\ version' = version + 1
    /\ tables' \in TableStates

=============================================================================
