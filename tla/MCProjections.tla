---------------------------- MODULE MCProjections ----------------------------
(***************************************************************************)
(* Values for Projections.  In every state benchmark 1 has difficulties    *)
(* 11 and 12, which both have a category "Static", one of them twice and   *)
(* with and without capitals.  The worker adds and moves rows, empties and *)
(* refills boards, and publishes one state with a broken link row.  It     *)
(* changes sort_order with and without changing the order of ranks, and in *)
(* one state two ranks and two links have equal keys.  Numbers stand for   *)
(* the names of scenarios.                                                 *)
(***************************************************************************)
EXTENDS Projections, TLC

CONSTANTS ann, bob, cid

MCNames == {"", "Static", " static", "Wide", "Gold", "Silver", "No Rank"}

MCFolded ==
    [n \in MCNames |->
        CASE n \in {"Static", " static"} -> "static" [] n = "Wide" -> "wide"
          [] n = "Gold" -> "gold" [] n = "Silver" -> "silver"
          [] n = "No Rank" -> "no rank" [] n = "" -> ""]

Row(parent, name) == [under |-> parent, name |-> name]

Rank(difficulty, name, sort) == [under |-> difficulty, name |-> name, sort |-> sort]

Link(difficulty, category, subcategory, scenario, sort) ==
    [under |-> difficulty, category |-> category, subcategory |-> subcategory,
     scenario |-> scenario, sort |-> sort, sound |-> TRUE]

Full ==
    [benchmarks |-> (1 :> {"vt"}) @@ (2 :> {}),
     difficulties |-> (11 :> [under |-> 1, kovaaks |-> 70]) @@ (12 :> [under |-> 1, kovaaks |-> 71]),
     ranks |-> (1 :> Rank(11, "Gold", 3)) @@ (2 :> Rank(11, "No Rank", 1)) @@ (3 :> Rank(12, "", 1))
                 @@ (4 :> Rank(11, "Silver", 2)),
     categories |-> (21 :> Row(11, "Static")) @@ (22 :> Row(11, " static"))
                        @@ (23 :> Row(12, "Static")),
     subcategories |-> (31 :> Row(21, "Wide")) @@ (32 :> Row(22, "")) @@ (33 :> Row(23, "")),
     links |-> (41 :> Link(11, " static", "Wide", 5, 3)) @@ (42 :> Link(11, "Static", "Gold", 5, 2))
                 @@ (43 :> Link(12, "Wide", "Gold", 6, 1)) @@ (44 :> Link(12, "Static", "", 7, 1))
                 @@ (45 :> Link(11, "Static", "Gold", 6, 1)),
     scenarios |-> (5 :> 1) @@ (6 :> 1),
     boards |-> [scenario |-> (5 :> ((ann :> 1) @@ (bob :> 2) @@ (cid :> 3)))
                                @@ (6 :> ((bob :> 1) @@ (cid :> 1))),
                 difficulty |-> (11 :> ((cid :> 1) @@ (bob :> 2)))]]

\* The second difficulty loses its category, and the boards their rows.
Thinned ==
    [Full EXCEPT !.categories = (21 :> Row(11, "Static")),
                 !.subcategories = (31 :> Row(21, "Wide")),
                 !.ranks[1].sort = 9,
                 !.scenarios = (5 :> 1),
                 !.boards = [scenario |-> (5 :> (bob :> 1)), difficulty |-> <<>>]]

\* The categories move to the other difficulty, which shares its Kovaak's id.
\* Ranks 1 and 4 may come in either order, and so may links 41 and 42.
Moved ==
    [Full EXCEPT !.categories = (21 :> Row(12, "Static")) @@ (23 :> Row(11, "Wide")),
                 !.difficulties = (11 :> [under |-> 1, kovaaks |-> 70])
                                    @@ (12 :> [under |-> 2, kovaaks |-> 70]),
                 !.ranks[4].sort = 3,
                 !.links[42].sort = 3, !.links[45].sort = 3,
                 !.scenarios = (5 :> 1) @@ (6 :> 2) @@ (7 :> 3),
                 !.boards = [scenario |-> (5 :> ((cid :> 1) @@ (ann :> 2) @@ (bob :> 3))),
                             difficulty |-> (12 :> ((ann :> 1) @@ (bob :> 2) @@ (cid :> 3)))]]

\* Benchmarks without difficulties; difficulties without categories, with ranks
\* in another order and with a link row that cannot be read.
Bald == [Full EXCEPT !.difficulties = <<>>]
Flat ==
    [Full EXCEPT !.categories = <<>>, !.subcategories = <<>>, !.ranks[4].sort = 9,
                 !.links[42].sound = FALSE]

MCTableStates == {Full, Thinned, Moved, Bald, Flat}

Request(kind, id, name, limit, offset) ==
    [kind |-> kind, id |-> id, name |-> name, limit |-> limit, offset |-> offset]

MCRequests ==
    {Request("scenario", {5}, {}, limit, offset) : limit \in {0, 2, 9}, offset \in {-1, 1, 7}}
    \cup {Request("scenario", {}, {1}, 0, 0), Request("difficulty", {}, {70}, 0, 0),
          Request("difficulty", {11}, {71}, 2, 0), Request("scenario", {6}, {}, 0, 0),
          Request("scenario", {}, {}, 0, 0), Request("scenario", {0}, {1}, 0, 0),
          Request("difficulty", {}, {0}, 0, 0)}
=============================================================================
