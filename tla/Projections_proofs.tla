-------------------------- MODULE Projections_proofs --------------------------
(***************************************************************************)
(* The benchmark list and the leaderboards, and the two over the tables    *)
(* they share.                                                             *)
(*                                                                         *)
(* Links are served once, in their own difficulty and under their own      *)
(* names, whatever the worker does between the statements.  Two things are *)
(* behind it: a slice never outgrows the capacity it was made with, so     *)
(* every pointer into it stays good; and of the categories or              *)
(* subcategories that a lookup key fits, exactly one is the last.          *)
(*                                                                         *)
(* While the worker publishes nothing, the statements of a request build   *)
(* the hierarchy of the tables part by part.                               *)
(***************************************************************************)
EXTENDS Projections, Leaderboard_proofs

TreeFields ==
    {"benchmarks", "difficulties", "ranks", "categories", "subcategories", "links"}

\* What the assembly needs of a hierarchy in the making.
IsTree(t) ==
    /\ DOMAIN t = TreeFields
    /\ DOMAIN t.difficulties \subseteq Int /\ IsFiniteSet(DOMAIN t.difficulties)
    /\ DOMAIN t.categories \subseteq Int
    /\ DOMAIN t.subcategories \subseteq Int
    /\ \A s \in DOMAIN t.subcategories : t.subcategories[s].under \in DOMAIN t.categories

\* The place where a link is served is its own.
IsOwnHome(t, link, home) ==
    /\ home[1] = "difficulty" => home[2] = link.under
    /\ home[1] = "category" => CategoryOf(t, home[2]) = <<link.under, Folded[link.category]>>
    /\ home[1] = "subcategory" =>
        /\ CategoryOf(t, t.subcategories[home[2]].under) = <<link.under, Folded[link.category]>>
        /\ Folded[t.subcategories[home[2]].name] = Folded[link.subcategory]

LEMMA ChildrenAreRows ==
  ASSUME NEW rows, NEW parents
  PROVE  /\ DOMAIN Children(rows, parents) \subseteq DOMAIN rows
         /\ \A x \in DOMAIN Children(rows, parents) :
                /\ Children(rows, parents)[x] = rows[x]
                /\ Children(rows, parents)[x].under \in parents
BY DEF Children

\* No slice is moved: its capacity is the number of its elements.
LEMMA AllAreReachable ==
  ASSUME NEW rows, IsFiniteSet(DOMAIN rows)
  PROVE  Reachable(rows) = DOMAIN rows
<1> SUFFICES ASSUME NEW x \in DOMAIN rows
             PROVE  LET siblings == {y \in DOMAIN rows : rows[y].under = rows[x].under}
                    IN  Cardinality(siblings) <= Capacity(siblings)
  BY DEF Reachable
<1> DEFINE siblings == {y \in DOMAIN rows : rows[y].under = rows[x].under}
<1>1. IsFiniteSet(siblings)
  BY FS_Subset
<1>2. Cardinality(siblings) \in Nat
  BY <1>1, FS_CardinalityType
<1> HIDE DEF siblings
<1>3. Cardinality(siblings) <= Capacity(siblings)
  BY <1>2 DEF Capacity
<1> QED
  BY <1>3 DEF siblings

\* A link of a difficulty in the hierarchy has one home, and that is its own.
LEMMA HomeIsUnique ==
  ASSUME NEW t, IsTree(t), NEW link, link.under \in DOMAIN t.difficulties
  PROVE  \E home \in Homes(t, link) : Homes(t, link) = {home} /\ IsOwnHome(t, link, home)
<1> DEFINE subs == {s \in DOMAIN t.subcategories :
                        SubcategoryFits(t, link, s) /\ LaterSubcategories(t, link, s) = {}}
           cats == {c \in DOMAIN t.categories :
                        CategoryFits(t, link, c) /\ LaterCategories(t, link, c) = {}}
<1>1. ASSUME NEW s \in subs, NEW o \in subs PROVE s = o
  <2>1. s \in Int /\ o \in Int
    BY DEF IsTree
  <2>2. t.subcategories[s].under \in Int /\ t.subcategories[o].under \in Int
    BY DEF IsTree
  <2>3. /\ ~(t.subcategories[o].under > t.subcategories[s].under)
        /\ ~(t.subcategories[o].under = t.subcategories[s].under /\ o > s)
    BY DEF LaterSubcategories
  <2>4. /\ ~(t.subcategories[s].under > t.subcategories[o].under)
        /\ ~(t.subcategories[s].under = t.subcategories[o].under /\ s > o)
    BY DEF LaterSubcategories
  <2>5. t.subcategories[s].under = t.subcategories[o].under
    BY <2>2, <2>3, <2>4
  <2> QED
    BY <2>1, <2>3, <2>4, <2>5
<1>2. ASSUME NEW c \in cats, NEW o \in cats PROVE c = o
  <2>1. c \in Int /\ o \in Int
    BY DEF IsTree
  <2>2. ~(o > c) /\ ~(c > o)
    BY DEF LaterCategories
  <2> QED
    BY <2>1, <2>2
<1>3. \A s \in subs :
        /\ CategoryOf(t, t.subcategories[s].under) = <<link.under, Folded[link.category]>>
        /\ Folded[t.subcategories[s].name] = Folded[link.subcategory]
  BY DEF SubcategoryFits, CategoryFits, CategoryOf
<1>4. \A c \in cats : CategoryOf(t, c) = <<link.under, Folded[link.category]>>
  BY DEF CategoryFits, CategoryOf
<1>5. Homes(t, link) =
        IF subs # {} THEN {<<"subcategory", s>> : s \in subs}
        ELSE IF cats # {} THEN {<<"category", c>> : c \in cats}
        ELSE {<<"difficulty", d>> : d \in Reachable(t.difficulties) \cap {link.under}}
  BY DEF Homes
<1> HIDE DEF subs, cats
<1>6. CASE subs # {}
  <2>1. PICK s \in subs : TRUE
    BY <1>6
  <2>2. Homes(t, link) = {<<"subcategory", s>>}
    BY <1>1, <1>5, <1>6, <2>1
  <2>3. IsOwnHome(t, link, <<"subcategory", s>>)
    BY <1>3, <2>1 DEF IsOwnHome
  <2> QED
    BY <2>2, <2>3
<1>7. CASE subs = {} /\ cats # {}
  <2>1. PICK c \in cats : TRUE
    BY <1>7
  <2>2. Homes(t, link) = {<<"category", c>>}
    BY <1>2, <1>5, <1>7, <2>1
  <2>3. IsOwnHome(t, link, <<"category", c>>)
    BY <1>4, <2>1 DEF IsOwnHome
  <2> QED
    BY <2>2, <2>3
<1>8. CASE subs = {} /\ cats = {}
  <2>1. Reachable(t.difficulties) = DOMAIN t.difficulties
    BY AllAreReachable DEF IsTree
  <2>2. Homes(t, link) = {<<"difficulty", link.under>>}
    BY <1>5, <1>8, <2>1
  <2>3. IsOwnHome(t, link, <<"difficulty", link.under>>)
    BY DEF IsOwnHome
  <2> QED
    BY <2>2, <2>3
<1> QED
  BY <1>6, <1>7, <1>8

-----------------------------------------------------------------------------
(* The invariant.                                                          *)

ListFields == {"stage", "query", "view", "sends", "since", "code", "read", "tree"}

Early == {"benchmarks", "difficulties", "ranks", "categories"}

\* Until links are attached none were read, and until the subcategories are
\* attached there are none whose category could be replaced.
ListInv ==
    /\ tables \in TableStates
    /\ DOMAIN list = ListFields
    /\ IsTree(list.tree)
    /\ list.stage # "respond" => DOMAIN list.read = {}
    /\ list.stage \in Early => DOMAIN list.tree.subcategories = {}

LEMMA BareIsTree == IsTree(Bare) /\ DOMAIN Bare.subcategories = {}
BY FS_EmptySet DEF Bare, NoRows, IsTree, TreeFields

LEMMA ListInit ==
  ASSUME WorkerInit, BenchmarksInit
  PROVE  ListInv /\ LinksAreNeverLost
BY BareIsTree DEF WorkerInit, BenchmarksInit, ListInv, ListFields, LinksAreNeverLost, NoRows

\* Every step but the attachment of links leaves no links behind that were read.
LEMMA ListStepKeeps ==
  ASSUME ListInv, ListStep, UNCHANGED workerVars
  PROVE  ListInv' /\ LinksAreNeverLost'
<1> USE DEF ListFields, TreeFields
<1>0. tables' = tables /\ tables \in TableStates
  BY DEF workerVars, ListInv
<1>1. DOMAIN list = ListFields /\ IsTree(list.tree)
  BY DEF ListInv
<1>2. list.stage # "respond" => DOMAIN list.read = {}
  BY DEF ListInv
<1>3. list.stage \in Early => DOMAIN list.tree.subcategories = {}
  BY DEF ListInv
<1>4. ASSUME NEW query, NEW view, NEW sends, AskList(query, view, sends)
      PROVE  ListInv' /\ LinksAreNeverLost'
  <2>1. /\ DOMAIN list' = ListFields /\ list'.tree = Bare /\ list'.read = NoRows
        /\ list'.stage # "respond"
    BY <1>4 DEF AskList
  <2> QED
    BY <1>0, <2>1, BareIsTree DEF ListInv, LinksAreNeverLost, NoRows
<1>5. ASSUME NEW stage, NEW tree, list' = Continue(stage, tree), IsTree(tree),
             list.stage # "respond",
             stage \in Early => DOMAIN tree.subcategories = {}
      PROVE  ListInv' /\ LinksAreNeverLost'
  <2>1. /\ DOMAIN list' = ListFields /\ list'.tree = tree /\ list'.stage = stage
        /\ list'.read = list.read
    BY <1>1, <1>5 DEF Continue
  <2>2. DOMAIN list'.read = {}
    BY <1>2, <1>5, <2>1
  <2> QED
    BY <1>0, <1>5, <2>1, <2>2 DEF ListInv, LinksAreNeverLost
<1>6. CASE ListBenchmarkRows
  <2>1. PICK found : list' = Continue(IF found = {} THEN "respond" ELSE "difficulties",
                                      [list.tree EXCEPT !.benchmarks = found])
    BY <1>6 DEF ListBenchmarkRows
  <2>2. list.stage = "benchmarks"
    BY <1>6 DEF ListBenchmarkRows, Awaits
  <2> DEFINE tree == [list.tree EXCEPT !.benchmarks = found]
  <2>3. IsTree(tree) /\ tree.subcategories = list.tree.subcategories
    BY <1>1 DEF IsTree
  <2>4. DOMAIN tree.subcategories = {}
    BY <1>3, <2>2, <2>3 DEF Early
  <2> HIDE DEF tree
  <2>5. list' = Continue(IF found = {} THEN "respond" ELSE "difficulties", tree)
    BY <2>1 DEF tree
  <2> QED
    BY <1>5, <2>2, <2>3, <2>4, <2>5
<1>7. CASE AttachDifficulties
  <2> DEFINE rows == Children(tables.difficulties, list.tree.benchmarks)
             tree == [list.tree EXCEPT !.difficulties = rows]
  <2>1. list.stage = "difficulties"
        /\ list' = Continue(IF DOMAIN rows = {} THEN "respond" ELSE "ranks", tree)
    BY <1>7 DEF AttachDifficulties, Awaits
  <2>2. DOMAIN rows \subseteq DOMAIN tables.difficulties
    BY ChildrenAreRows
  <2>3. DOMAIN rows \subseteq Int /\ IsFiniteSet(DOMAIN rows)
    BY <1>0, <2>2, WorkerAssumption, FS_Subset
  <2> HIDE DEF rows
  <2>4. IsTree(tree) /\ tree.subcategories = list.tree.subcategories
    BY <1>1, <2>3 DEF IsTree
  <2>5. DOMAIN tree.subcategories = {}
    BY <1>3, <2>1, <2>4 DEF Early
  <2> HIDE DEF tree
  <2> QED
    BY <1>5, <2>1, <2>4, <2>5
<1>8. CASE AttachRanks
  <2>1. PICK ranks : list' = Continue("categories", [list.tree EXCEPT !.ranks = ranks])
    BY <1>8 DEF AttachRanks
  <2>2. list.stage = "ranks"
    BY <1>8 DEF AttachRanks, Awaits
  <2> DEFINE tree == [list.tree EXCEPT !.ranks = ranks]
  <2>3. IsTree(tree) /\ tree.subcategories = list.tree.subcategories
    BY <1>1 DEF IsTree
  <2>4. DOMAIN tree.subcategories = {}
    BY <1>3, <2>2, <2>3 DEF Early
  <2> HIDE DEF tree
  <2>5. list' = Continue("categories", tree)
    BY <2>1 DEF tree
  <2> QED
    BY <1>5, <2>2, <2>3, <2>4, <2>5
<1>9. CASE AttachCategories
  <2> DEFINE rows == Children(tables.categories, Reachable(list.tree.difficulties))
             tree == [list.tree EXCEPT !.categories = rows]
             next == IF DOMAIN rows = {} THEN Onward ELSE "subcategories"
  <2>1. list.stage = "categories" /\ list' = Continue(next, tree)
    BY <1>9 DEF AttachCategories, Awaits
  <2>2. DOMAIN rows \subseteq DOMAIN tables.categories
    BY ChildrenAreRows
  <2>3. DOMAIN rows \subseteq Int
    BY <1>0, <2>2, WorkerAssumption
  <2> HIDE DEF rows
  <2>4. DOMAIN list.tree.subcategories = {}
    BY <1>3, <2>1 DEF Early
  <2>5. IsTree(tree) /\ DOMAIN tree.subcategories = {}
    BY <1>1, <2>3, <2>4 DEF IsTree
  <2> HIDE DEF tree, next
  <2> QED
    BY <1>5, <2>1, <2>5
<1>10. CASE AttachSubcategories
  <2> DEFINE rows == Children(tables.subcategories, Reachable(list.tree.categories))
             tree == [list.tree EXCEPT !.subcategories = rows]
  <2>1. list.stage = "subcategories" /\ list' = Continue(Onward, tree)
    BY <1>10 DEF AttachSubcategories, Awaits
  <2>2. /\ DOMAIN rows \subseteq DOMAIN tables.subcategories
        /\ \A x \in DOMAIN rows : rows[x].under \in Reachable(list.tree.categories)
    BY ChildrenAreRows
  <2>3. DOMAIN rows \subseteq Int
    BY <1>0, <2>2, WorkerAssumption
  <2>4. Reachable(list.tree.categories) \subseteq DOMAIN list.tree.categories
    BY DEF Reachable
  <2> HIDE DEF rows
  <2>5. IsTree(tree)
    BY <1>1, <2>2, <2>3, <2>4 DEF IsTree
  <2>6. Onward \notin Early
    BY DEF Onward, Early
  <2> HIDE DEF tree
  <2> QED
    BY <1>5, <2>1, <2>5, <2>6
<1>11. CASE AttachScenarioLinks
  <2> DEFINE links == [l \in DOMAIN LinkRows |-> Homes(list.tree, LinkRows[l])]
  <2>1. list' = [list EXCEPT !.stage = "respond", !.read = LinkRows, !.tree.links = links]
    BY <1>11 DEF AttachScenarioLinks, LinkHomes
  <2>2. \A l \in DOMAIN LinkRows : LinkRows[l].under \in DOMAIN list.tree.difficulties
    BY ChildrenAreRows DEF LinkRows
  <2>3. \A l \in DOMAIN LinkRows : \E home \in links[l] :
            links[l] = {home} /\ IsOwnHome(list.tree, LinkRows[l], home)
    BY <1>1, <2>2, HomeIsUnique
  <2> HIDE DEF links
  <2>4. /\ DOMAIN list' = ListFields /\ list'.stage = "respond" /\ list'.read = LinkRows
        /\ list'.tree = [list.tree EXCEPT !.links = links]
    BY <1>1, <2>1
  <2>5. /\ DOMAIN list'.tree = TreeFields /\ list'.tree.links = links
        /\ list'.tree.difficulties = list.tree.difficulties
        /\ list'.tree.categories = list.tree.categories
        /\ list'.tree.subcategories = list.tree.subcategories
    BY <1>1, <2>4 DEF IsTree
  <2>6. IsTree(list'.tree)
    BY <1>1, <2>5 DEF IsTree
  <2>7. \A l \in DOMAIN list'.read : \E home \in list'.tree.links[l] :
            list'.tree.links[l] = {home} /\ IsOwnHome(list'.tree, list'.read[l], home)
    <3> SUFFICES ASSUME NEW l \in DOMAIN LinkRows
                 PROVE  \E home \in links[l] :
                            links[l] = {home} /\ IsOwnHome(list'.tree, LinkRows[l], home)
      BY <2>4, <2>5
    <3>1. PICK home \in links[l] : links[l] = {home} /\ IsOwnHome(list.tree, LinkRows[l], home)
      BY <2>3
    <3>2. IsOwnHome(list'.tree, LinkRows[l], home)
      BY <2>5, <3>1 DEF IsOwnHome, CategoryOf
    <3> QED
      BY <3>1, <3>2
  <2>8. LinksAreNeverLost'
    BY <2>7 DEF LinksAreNeverLost, IsOwnHome, CategoryOf
  <2> QED
    BY <1>0, <2>4, <2>6, <2>8 DEF ListInv, Early
<1>12. ASSUME list' = [list EXCEPT !.stage = "idle", !.sends = "none", !.code = 500, !.tree = Bare],
              list.stage # "respond"
       PROVE  ListInv' /\ LinksAreNeverLost'
  <2>1. /\ DOMAIN list' = ListFields /\ list'.tree = Bare /\ list'.read = list.read
        /\ list'.stage = "idle"
    BY <1>1, <1>12
  <2> QED
    BY <1>0, <1>2, <1>12, <2>1, BareIsTree DEF ListInv, LinksAreNeverLost, Early
<1>13. CASE LinkUnsound
  BY <1>12, <1>13 DEF LinkUnsound, Awaits
<1>14. CASE ListFails
  BY <1>12, <1>14 DEF ListFails, Statements
<1>15. CASE RespondList
  <2>1. /\ DOMAIN list' = ListFields /\ list'.tree = Bare /\ list'.read = NoRows
        /\ list'.stage = "idle"
    BY <1>1, <1>15 DEF RespondList
  <2> QED
    BY <1>0, <2>1, BareIsTree DEF ListInv, LinksAreNeverLost, Early, NoRows
<1> QED
  BY <1>4, <1>6, <1>7, <1>8, <1>9, <1>10, <1>11, <1>13, <1>14, <1>15 DEF ListStep, AskAny, Advance

\* Every link row that a request read is served once, within its own difficulty
\* and under its own names, for every content of the tables and although the
\* worker may replace them between any two of the statements.
THEOREM LinksAreServed == BenchmarksSpec => []LinksAreNeverLost
<1>1. WorkerInit /\ BenchmarksInit => ListInv /\ LinksAreNeverLost
  BY ListInit
<1>2. ListInv /\ LinksAreNeverLost /\ [BenchmarksNext]_<<workerVars, listVars>>
        => (ListInv /\ LinksAreNeverLost)'
  <2> SUFFICES ASSUME ListInv, LinksAreNeverLost, [BenchmarksNext]_<<workerVars, listVars>>
               PROVE  (ListInv /\ LinksAreNeverLost)'
    OBVIOUS
  <2>1. CASE Publish /\ UNCHANGED listVars
    BY <2>1 DEF Publish, listVars, ListInv, LinksAreNeverLost, CategoryOf
  <2>2. CASE ListStep /\ UNCHANGED workerVars
    BY <2>2, ListStepKeeps
  <2>3. CASE UNCHANGED <<workerVars, listVars>>
    BY <2>3 DEF workerVars, listVars, ListInv, LinksAreNeverLost, CategoryOf
  <2> QED
    BY <2>1, <2>2, <2>3 DEF BenchmarksNext
<1> QED
  BY <1>1, <1>2, PTL DEF BenchmarksSpec

-----------------------------------------------------------------------------
(* Where the reference places a link.                                      *)

LEMMA LeastNatural ==
  ASSUME NEW S \in SUBSET Nat, S # {}
  PROVE  \E m \in S : \A k \in S : m <= k
<1>1. PICK m \in S : \A k \in S : <<k, m>> \notin OpToRel(<, Nat)
  BY NatLessThanWellFounded, WFMin
<1>2. \A k \in S : ~(k < m)
  BY <1>1 DEF OpToRel
<1> QED
  BY <1>2

\* A finite set of numbers has a last one.
LEMMA LastIsLast ==
  ASSUME NEW S \in SUBSET Int, IsFiniteSet(S), S # {}
  PROVE  Last(S) \in S /\ \A y \in S : y <= Last(S)
<1> DEFINE above(x) == {y \in S : y > x}
           counts == {Cardinality(above(x)) : x \in S}
<1>1. \A x \in S : IsFiniteSet(above(x)) /\ Cardinality(above(x)) \in Nat
  BY FS_Subset, FS_CardinalityType
<1>2. counts \in SUBSET Nat /\ counts # {}
  BY <1>1
<1>3. PICK m \in counts : \A k \in counts : m <= k
  BY <1>2, LeastNatural
<1>4. PICK x \in S : m = Cardinality(above(x))
  OBVIOUS
<1>5. ASSUME NEW y \in S, y > x PROVE FALSE
  <2>1. above(y) \in SUBSET (above(x) \ {y})
    <3> SUFFICES ASSUME NEW z \in S, z > y PROVE z > x /\ z # y
      OBVIOUS
    <3>1. x \in Int /\ y \in Int /\ z \in Int
      OBVIOUS
    <3> QED
      BY <1>5, <3>1
  <2>2. y \in above(x)
    BY <1>5
  <2>3. IsFiniteSet(above(x) \ {y}) /\ Cardinality(above(x) \ {y}) = Cardinality(above(x)) - 1
    BY <1>1, <2>2, FS_RemoveElement
  <2>4. Cardinality(above(y)) <= Cardinality(above(x) \ {y})
    BY <2>1, <2>3, FS_Subset
  <2>5. Cardinality(above(x)) <= Cardinality(above(y))
    BY <1>3, <1>4
  <2>6. Cardinality(above(x)) \in Nat /\ Cardinality(above(y)) \in Nat
    BY <1>1
  <2> HIDE DEF above
  <2> QED
    BY <2>3, <2>4, <2>5, <2>6
<1>6. \A y \in S : y <= x
  BY <1>5
<1> QED
  BY <1>6 DEF Last

\* The lookups of attachScenarioLinks, which know the attached categories and
\* subcategories only, find the place that the tables give a link.
LEMMA HomeIsPlace ==
  ASSUME NEW tree, IsTree(tree), NEW t \in TableStates, NEW link, link.under \in DOMAIN tree.difficulties,
         tree.categories = Children(t.categories, DOMAIN tree.difficulties),
         tree.subcategories = Children(t.subcategories, DOMAIN tree.categories)
  PROVE  Homes(tree, link) = {Place(t, link)}
<1> DEFINE cats == {c \in DOMAIN t.categories :
                      /\ t.categories[c].under = link.under
                      /\ Folded[t.categories[c].name] = Folded[link.category]}
           subs(c) == {s \in DOMAIN t.subcategories :
                      /\ t.subcategories[s].under = c
                      /\ Folded[t.subcategories[s].name] = Folded[link.subcategory]}
           split == {c \in cats : subs(c) # {}}
           homeSubs == {s \in DOMAIN tree.subcategories :
                          SubcategoryFits(tree, link, s) /\ LaterSubcategories(tree, link, s) = {}}
           homeCats == {c \in DOMAIN tree.categories :
                          CategoryFits(tree, link, c) /\ LaterCategories(tree, link, c) = {}}
<1>1. Homes(tree, link) =
        IF homeSubs # {} THEN {<<"subcategory", s>> : s \in homeSubs}
        ELSE IF homeCats # {} THEN {<<"category", c>> : c \in homeCats}
        ELSE {<<"difficulty", d>> : d \in Reachable(tree.difficulties) \cap {link.under}}
  BY DEF Homes
<1>2. Place(t, link) =
        IF split # {} THEN <<"subcategory", Last(subs(Last(split)))>>
        ELSE IF cats # {} THEN <<"category", Last(cats)>>
        ELSE <<"difficulty", link.under>>
  BY DEF Place
<1>3. PICK home : Homes(tree, link) = {home}
  BY HomeIsUnique
<1>4. /\ DOMAIN tree.categories \subseteq DOMAIN t.categories
      /\ \A c \in DOMAIN tree.categories : tree.categories[c] = t.categories[c]
      /\ \A c \in DOMAIN t.categories :
            t.categories[c].under = link.under => c \in DOMAIN tree.categories
  BY DEF Children
<1>5. /\ DOMAIN tree.subcategories \subseteq DOMAIN t.subcategories
      /\ \A s \in DOMAIN tree.subcategories :
            tree.subcategories[s] = t.subcategories[s] /\ tree.subcategories[s].under \in DOMAIN tree.categories
      /\ \A s \in DOMAIN t.subcategories :
            t.subcategories[s].under \in DOMAIN tree.categories => s \in DOMAIN tree.subcategories
  BY DEF Children
<1>6. \A c : c \in cats <=> c \in DOMAIN tree.categories /\ CategoryFits(tree, link, c)
  BY <1>4 DEF CategoryFits
<1>7. \A s : (s \in DOMAIN tree.subcategories /\ SubcategoryFits(tree, link, s))
               <=> \E c \in cats : s \in subs(c)
  <2> SUFFICES ASSUME NEW s
               PROVE  (s \in DOMAIN tree.subcategories /\ SubcategoryFits(tree, link, s))
                        <=> \E c \in cats : s \in subs(c)
    OBVIOUS
  <2>1. ASSUME s \in DOMAIN tree.subcategories, SubcategoryFits(tree, link, s)
        PROVE  t.subcategories[s].under \in cats /\ s \in subs(t.subcategories[s].under)
    BY <1>5, <1>6, <2>1 DEF SubcategoryFits
  <2>2. ASSUME NEW c \in cats, s \in subs(c)
        PROVE  s \in DOMAIN tree.subcategories /\ SubcategoryFits(tree, link, s)
    BY <1>5, <1>6, <2>2 DEF SubcategoryFits
  <2> QED
    BY <2>1, <2>2
<1>8. cats \in SUBSET Int /\ IsFiniteSet(cats) /\ split \in SUBSET Int /\ IsFiniteSet(split)
  <2>1. DOMAIN t.categories \subseteq Int /\ IsFiniteSet(DOMAIN t.categories)
    BY WorkerAssumption
  <2> QED
    BY <2>1, FS_Subset
<1>9. \A c : subs(c) \in SUBSET Int /\ IsFiniteSet(subs(c))
  <2>1. DOMAIN t.subcategories \subseteq Int /\ IsFiniteSet(DOMAIN t.subcategories)
    BY WorkerAssumption
  <2> QED
    BY <2>1, FS_Subset
<1>10. \A c, s : s \in subs(c) => s \in DOMAIN t.subcategories /\ t.subcategories[s].under = c
  OBVIOUS
<1>11. \A c : c \in split <=> c \in cats /\ subs(c) # {}
  OBVIOUS
<1> HIDE DEF cats, subs, split
<1>12. CASE split # {}
  <2> DEFINE c == Last(split)
             s == Last(subs(c))
  <2>1. c \in split /\ c \in cats /\ subs(c) # {} /\ \A o \in split : o <= c
    BY <1>8, <1>11, <1>12, LastIsLast
  <2>2. s \in subs(c) /\ \A o \in subs(c) : o <= s
    BY <1>9, <2>1, LastIsLast
  <2> HIDE DEF c, s
  <2>3. s \in DOMAIN tree.subcategories /\ SubcategoryFits(tree, link, s)
        /\ tree.subcategories[s].under = c
    BY <1>5, <1>7, <1>10, <2>1, <2>2
  <2>4. ASSUME NEW o \in LaterSubcategories(tree, link, s) PROVE FALSE
    <3>1. /\ o \in DOMAIN tree.subcategories /\ SubcategoryFits(tree, link, o)
          /\ \/ tree.subcategories[o].under > c
             \/ tree.subcategories[o].under = c /\ o > s
      BY <2>3 DEF LaterSubcategories
    <3>2. PICK d \in cats : o \in subs(d)
      BY <1>7, <3>1
    <3>3. d = tree.subcategories[o].under /\ d \in split
      BY <1>5, <1>10, <1>11, <3>1, <3>2
    <3>4. d <= c /\ d \in Int /\ c \in Int
      BY <1>8, <2>1, <3>3
    <3>5. d = c /\ o > s
      BY <3>1, <3>3, <3>4
    <3>6. o <= s /\ o \in Int /\ s \in Int
      BY <1>9, <2>2, <3>2, <3>5
    <3> QED
      BY <3>5, <3>6
  <2>5. s \in homeSubs
    BY <2>3, <2>4
  <2>6. <<"subcategory", s>> \in Homes(tree, link)
    BY <1>1, <2>5
  <2>7. Place(t, link) = <<"subcategory", s>>
    BY <1>2, <1>12 DEF c, s
  <2> QED
    BY <1>3, <2>6, <2>7
<1>13. CASE split = {} /\ cats # {}
  <2>1. homeSubs = {}
    BY <1>7, <1>11, <1>13
  <2> DEFINE c == Last(cats)
  <2>2. c \in cats /\ \A o \in cats : o <= c
    BY <1>8, <1>13, LastIsLast
  <2> HIDE DEF c
  <2>3. LaterCategories(tree, link, c) = {}
    <3> SUFFICES ASSUME NEW o \in LaterCategories(tree, link, c) PROVE FALSE
      OBVIOUS
    <3>1. o \in cats /\ o > c
      BY <1>6 DEF LaterCategories
    <3> QED
      BY <1>8, <2>2, <3>1
  <2>4. c \in homeCats
    BY <1>6, <2>2, <2>3
  <2>5. <<"category", c>> \in Homes(tree, link)
    BY <1>1, <2>1, <2>4
  <2>6. Place(t, link) = <<"category", c>>
    BY <1>2, <1>13 DEF c
  <2> QED
    BY <1>3, <2>5, <2>6
<1>14. CASE split = {} /\ cats = {}
  <2>1. homeSubs = {} /\ homeCats = {}
    BY <1>6, <1>7, <1>14
  <2>2. Reachable(tree.difficulties) = DOMAIN tree.difficulties
    BY AllAreReachable DEF IsTree
  <2>3. Homes(tree, link) = {<<"difficulty", link.under>>}
    BY <1>1, <2>1, <2>2
  <2> QED
    BY <1>2, <1>14, <2>3
<1> QED
  BY <1>12, <1>13, <1>14

-----------------------------------------------------------------------------
(* The hierarchy, part by part.                                            *)

IsWhole(t) ==
    t = [benchmarks |-> t.benchmarks, difficulties |-> t.difficulties, ranks |-> t.ranks,
         categories |-> t.categories, subcategories |-> t.subcategories, links |-> t.links]

\* The reference in terms of the pieces of the assembly.
IsHierarchy(t, query, view, H) ==
    /\ IsWhole(H)
    /\ H.benchmarks = {b \in DOMAIN t.benchmarks : query = "" \/ query \in t.benchmarks[b]}
    /\ H.difficulties = Children(t.difficulties, H.benchmarks)
    /\ H.ranks = LET rows == Children(t.ranks, DOMAIN H.difficulties)
                 IN  [r \in {r \in DOMAIN rows : IsRank(rows[r].name)} |-> Shown(rows[r])]
    /\ H.categories = Children(t.categories, DOMAIN H.difficulties)
    /\ H.subcategories = Children(t.subcategories, DOMAIN H.categories)
    /\ H.links = LET ls == [l \in {l \in DOMAIN t.links : /\ view = "full"
                                                        /\ t.links[l].under \in DOMAIN H.difficulties
                                                        /\ t.links[l].scenario \in DOMAIN t.scenarios}
                              |-> t.links[l]]
                 IN  [l \in DOMAIN ls |-> {Place(t, ls[l])}]

LEMMA HierarchyParts ==
  ASSUME NEW t, NEW query, NEW view, NEW H, H = Hierarchy(t, query, view)
  PROVE  IsHierarchy(t, query, view, H)
<1> DEFINE bs == {b \in DOMAIN t.benchmarks : query \in t.benchmarks[b] \cup {""}}
           ds == Children(t.difficulties, bs)
           cs == Children(t.categories, DOMAIN ds)
           rs == [x \in {y \in DOMAIN t.ranks : /\ t.ranks[y].under \in DOMAIN ds
                                                /\ Folded[t.ranks[y].name] \notin {"", "no rank"}}
                    |-> Shown(t.ranks[x])]
           ls == [x \in {y \in DOMAIN t.links : /\ view = "full"
                                                /\ t.links[y].under \in DOMAIN ds
                                                /\ t.links[y].scenario \in DOMAIN t.scenarios}
                    |-> t.links[x]]
<1>1. H = [benchmarks |-> bs, difficulties |-> ds, ranks |-> rs, categories |-> cs,
           subcategories |-> Children(t.subcategories, DOMAIN cs),
           links |-> [l \in DOMAIN ls |-> {Place(t, ls[l])}]]
  BY DEF Hierarchy, Select, Children, Shown
<1>2. /\ H.benchmarks = bs /\ H.difficulties = ds /\ H.ranks = rs /\ H.categories = cs
      /\ H.subcategories = Children(t.subcategories, DOMAIN cs)
      /\ H.links = [l \in DOMAIN ls |-> {Place(t, ls[l])}]
  <2> HIDE DEF bs, ds, cs, rs, ls
  <2> QED
    BY <1>1
<1>3. bs = {b \in DOMAIN t.benchmarks : query = "" \/ query \in t.benchmarks[b]}
  OBVIOUS
<1>4. rs = LET rows == Children(t.ranks, DOMAIN ds)
           IN  [r \in {r \in DOMAIN rows : IsRank(rows[r].name)} |-> Shown(rows[r])]
  <2> DEFINE rows == Children(t.ranks, DOMAIN ds)
             kept == {r \in DOMAIN rows : IsRank(rows[r].name)}
  <2>1. /\ DOMAIN rows = {y \in DOMAIN t.ranks : t.ranks[y].under \in DOMAIN ds}
        /\ \A r \in DOMAIN rows : rows[r] = t.ranks[r]
    BY DEF Children
  <2>2. kept = {y \in DOMAIN t.ranks : /\ t.ranks[y].under \in DOMAIN ds
                                      /\ Folded[t.ranks[y].name] \notin {"", "no rank"}}
    <3> HIDE DEF rows, ds
    <3> QED
      BY <2>1 DEF IsRank
  <2> HIDE DEF rows, ds
  <2>3. [r \in kept |-> Shown(rows[r])] = [r \in kept |-> Shown(t.ranks[r])]
    BY <2>1
  <2> QED
    BY <2>2, <2>3 DEF rows
<1> QED
  <2>1. IsWhole(H)
    <3> HIDE DEF bs, ds, cs, rs, ls
    <3> QED
      BY <1>1, <1>2 DEF IsWhole
  <2>2. H.ranks = LET rows == Children(t.ranks, DOMAIN H.difficulties)
                  IN  [r \in {r \in DOMAIN rows : IsRank(rows[r].name)} |-> Shown(rows[r])]
    <3> HIDE DEF rs, ds
    <3> QED
      BY <1>2, <1>4, Zenon
  <2>3. H.links = LET us == [l \in {l \in DOMAIN t.links : /\ view = "full"
                                                         /\ t.links[l].under \in DOMAIN H.difficulties
                                                         /\ t.links[l].scenario \in DOMAIN t.scenarios}
                                |-> t.links[l]]
                  IN  [l \in DOMAIN us |-> {Place(t, us[l])}]
    <3> HIDE DEF ds
    <3> QED
      BY <1>2, Zenon
  <2>4. /\ H.difficulties = Children(t.difficulties, H.benchmarks)
        /\ H.categories = Children(t.categories, DOMAIN H.difficulties)
        /\ H.subcategories = Children(t.subcategories, DOMAIN H.categories)
    BY <1>2, Zenon
  <2>5. H.benchmarks = {b \in DOMAIN t.benchmarks : query = "" \/ query \in t.benchmarks[b]}
    BY <1>2, <1>3, Zenon
  <2> QED
    BY <2>1, <2>2, <2>3, <2>4, <2>5, Zenon DEF IsHierarchy

-----------------------------------------------------------------------------
(* The types of the list, and the body the client holds.                   *)

ListTypes ==
    /\ version \in Nat
    /\ BenchmarksTypeOK
    /\ list.stage = "links" => list.view = "full"
    /\ list.stage # "respond" \/ list.view = "progress" => list.tree.links = NoRows
    /\ \A g, h \in held : g = h

\* After a 200 as after a 304 the client holds the body that was assembled.
LEMMA ClientHoldsTheBody ==
  ASSUME \A g, h \in held : g = h, RespondList
  PROVE  held' = {[query |-> list.query, view |-> list.view, tree |-> list.tree, order |-> order]}
<1> DEFINE body == IF EtagMatches THEN CHOOSE h \in held : TRUE
                   ELSE [tree |-> list.tree, order |-> order]
<1>1. held' = {[query |-> list.query, view |-> list.view, tree |-> body.tree, order |-> body.order]}
  BY DEF RespondList
<1>2. ASSUME EtagMatches PROVE body.tree = list.tree /\ body.order = order
  <2>1. PICK h \in held : h.tree = list.tree /\ h.order = order
    BY <1>2 DEF EtagMatches, HoldsTheBody
  <2>2. (CHOOSE g \in held : TRUE) \in held
    BY <2>1
  <2> QED
    BY <1>2, <2>1, <2>2
<1>3. ASSUME ~EtagMatches PROVE body.tree = list.tree /\ body.order = order
  BY <1>3
<1> HIDE DEF body
<1> QED
  BY <1>1, <1>2, <1>3

\* What each step of a request makes of its fields.
LEMMA ListStepFields ==
  ASSUME ListInv, ListStep
  PROVE  \/ /\ list.stage = "idle" /\ list'.tree = Bare /\ list'.since = version /\ held' = held
            /\ \/ list'.stage = "benchmarks" /\ list'.view \in Views /\ list'.code = 0
               \/ list'.stage = "idle" /\ list'.code = 400
         \/ /\ list.stage \in Statements /\ held' = held
            /\ list'.query = list.query /\ list'.view = list.view /\ list'.since = list.since
            /\ \/ /\ list'.code = list.code
                  /\ ListBenchmarkRows \/ AttachDifficulties \/ AttachRanks \/ AttachCategories
                        \/ AttachSubcategories \/ AttachScenarioLinks
               \/ list'.stage = "idle" /\ list'.code = 500 /\ list'.tree = Bare
         \/ /\ list.stage = "respond" /\ RespondList /\ list'.stage = "idle" /\ list'.tree = Bare
            /\ list'.query = list.query /\ list'.view = list.view /\ list'.since = list.since
            /\ list'.code = IF EtagMatches THEN 304 ELSE 200
<1> USE DEF ListFields
<1>0. DOMAIN list = ListFields
  BY DEF ListInv
<1>1. ASSUME NEW query, NEW view \in Views \cup {"", "compact"}, NEW sends, AskList(query, view, sends)
      PROVE  /\ list.stage = "idle" /\ list'.tree = Bare /\ list'.since = version /\ held' = held
             /\ \/ list'.stage = "benchmarks" /\ list'.view \in Views /\ list'.code = 0
                \/ list'.stage = "idle" /\ list'.code = 400
  BY <1>1 DEF AskList, Views
<1>2. ASSUME NEW stage, NEW tree, list' = Continue(stage, tree)
      PROVE  /\ list'.query = list.query /\ list'.view = list.view /\ list'.since = list.since
             /\ list'.code = list.code
  BY <1>0, <1>2 DEF Continue
<1>3. CASE ListBenchmarkRows
  <2>1. \E stage, tree : list' = Continue(stage, tree)
    BY <1>3 DEF ListBenchmarkRows
  <2>2. list.stage = "benchmarks" /\ held' = held
    BY <1>3 DEF ListBenchmarkRows, Awaits
  <2> QED
    BY <1>2, <1>3, <2>1, <2>2 DEF Statements
<1>4. CASE AttachDifficulties
  BY <1>2, <1>4 DEF AttachDifficulties, Awaits, Statements
<1>5. CASE AttachRanks
  BY <1>2, <1>5 DEF AttachRanks, Awaits, Statements
<1>6. CASE AttachCategories
  BY <1>2, <1>6 DEF AttachCategories, Awaits, Statements
<1>7. CASE AttachSubcategories
  BY <1>2, <1>7 DEF AttachSubcategories, Awaits, Statements
<1>8. CASE AttachScenarioLinks
  BY <1>0, <1>8 DEF AttachScenarioLinks, Awaits, Statements
<1>9. CASE LinkUnsound
  BY <1>0, <1>9 DEF LinkUnsound, Awaits, Statements
<1>10. CASE ListFails
  BY <1>0, <1>10 DEF ListFails
<1>11. CASE RespondList
  BY <1>0, <1>11 DEF RespondList, Awaits
<1>12. CASE AskAny
  <2>1. PICK query \in Queries, view \in Views \cup {"", "compact"},
             sends \in {"none", "star", "strong", "weak"} : AskList(query, view, sends)
    BY <1>12 DEF AskAny
  <2> QED
    BY <1>1, <2>1
<1> QED
  BY <1>3, <1>4, <1>5, <1>6, <1>7, <1>8, <1>9, <1>10, <1>11, <1>12 DEF ListStep, Advance

LEMMA ListStepTypes ==
  ASSUME ListInv, ListTypes, ListStep, UNCHANGED workerVars
  PROVE  ListTypes'
<1> USE DEF ListFields, TreeFields
<1>1. DOMAIN list = ListFields /\ DOMAIN list.tree = TreeFields
  BY DEF ListInv, IsTree
<1>2. version' = version /\ version \in Nat /\ list.since \in 0 .. version /\ \A g, h \in held : g = h
  BY DEF workerVars, ListTypes, BenchmarksTypeOK
<1>3. Bare.links = NoRows
  BY DEF Bare
<1>4. CASE /\ list.stage = "idle" /\ list'.tree = Bare /\ list'.since = version /\ held' = held
           /\ \/ list'.stage = "benchmarks" /\ list'.view \in Views /\ list'.code = 0
              \/ list'.stage = "idle" /\ list'.code = 400
  BY <1>2, <1>3, <1>4 DEF ListTypes, BenchmarksTypeOK, Statements
<1>5. CASE list'.stage = "idle" /\ list'.code = 500 /\ list'.tree = Bare /\ held' = held
           /\ list'.since = list.since
  BY <1>2, <1>3, <1>5 DEF ListTypes, BenchmarksTypeOK
<1>6. ASSUME list.stage \in Statements, held' = held, list'.view = list.view,
             list'.since = list.since, list'.code = list.code
      PROVE  /\ list'.view \in Views /\ list'.code = 0 /\ list'.since \in 0 .. version'
             /\ \A h \in held' : h.view \in Views /\ (h.view = "progress" => h.tree.links = NoRows)
  BY <1>2, <1>6 DEF ListTypes, BenchmarksTypeOK, Statements
<1>7. ASSUME NEW stage \in (Statements \ {"links"}) \cup {"respond", Onward}, NEW tree,
             list' = Continue(stage, tree), tree.links = list.tree.links,
             list.stage \in Statements, held' = held
      PROVE  ListTypes'
  <2>1. /\ list'.stage = stage /\ list'.tree = tree /\ list'.view = list.view
        /\ list'.since = list.since /\ list'.code = list.code
    BY <1>1, <1>7 DEF Continue
  <2>2. stage \in Statements \cup {"respond"} /\ (stage = "links" => list.view = "full")
    BY <1>6, <1>7, <2>1 DEF Onward, Statements, Views
  <2>3. tree.links = NoRows
    BY <1>7 DEF ListTypes, Statements
  <2> QED
    BY <1>2, <1>6, <1>7, <2>1, <2>2, <2>3 DEF ListTypes, BenchmarksTypeOK
<1>8. CASE ListBenchmarkRows
  <2>1. PICK found : list' = Continue(IF found = {} THEN "respond" ELSE "difficulties",
                                      [list.tree EXCEPT !.benchmarks = found])
    BY <1>8 DEF ListBenchmarkRows
  <2>2. list.stage \in Statements /\ held' = held
    BY <1>8 DEF ListBenchmarkRows, Awaits, Statements
  <2>3. [list.tree EXCEPT !.benchmarks = found].links = list.tree.links
    BY <1>1
  <2> QED
    BY <1>7, <2>1, <2>2, <2>3 DEF Statements
<1>9. CASE AttachDifficulties
  <2>1. PICK rows : list' = Continue(IF DOMAIN rows = {} THEN "respond" ELSE "ranks",
                                     [list.tree EXCEPT !.difficulties = rows])
    BY <1>9 DEF AttachDifficulties
  <2>2. list.stage \in Statements /\ held' = held
    BY <1>9 DEF AttachDifficulties, Awaits, Statements
  <2>3. [list.tree EXCEPT !.difficulties = rows].links = list.tree.links
    BY <1>1
  <2> QED
    BY <1>7, <2>1, <2>2, <2>3 DEF Statements
<1>10. CASE AttachRanks
  <2>1. PICK rows : list' = Continue("categories", [list.tree EXCEPT !.ranks = rows])
    BY <1>10 DEF AttachRanks
  <2>2. list.stage \in Statements /\ held' = held
    BY <1>10 DEF AttachRanks, Awaits, Statements
  <2>3. [list.tree EXCEPT !.ranks = rows].links = list.tree.links
    BY <1>1
  <2> QED
    BY <1>7, <2>1, <2>2, <2>3 DEF Statements
<1>11. CASE AttachCategories
  <2>1. PICK rows : list' = Continue(IF DOMAIN rows = {} THEN Onward ELSE "subcategories",
                                     [list.tree EXCEPT !.categories = rows])
    BY <1>11 DEF AttachCategories
  <2>2. list.stage \in Statements /\ held' = held
    BY <1>11 DEF AttachCategories, Awaits, Statements
  <2>3. [list.tree EXCEPT !.categories = rows].links = list.tree.links
    BY <1>1
  <2> QED
    BY <1>7, <2>1, <2>2, <2>3 DEF Statements
<1>12. CASE AttachSubcategories
  <2>1. PICK rows : list' = Continue(Onward, [list.tree EXCEPT !.subcategories = rows])
    BY <1>12 DEF AttachSubcategories
  <2>2. list.stage \in Statements /\ held' = held
    BY <1>12 DEF AttachSubcategories, Awaits, Statements
  <2>3. [list.tree EXCEPT !.subcategories = rows].links = list.tree.links
    BY <1>1
  <2> QED
    BY <1>7, <2>1, <2>2, <2>3 DEF Statements
<1>13. CASE AttachScenarioLinks
  <2>1. /\ list.stage = "links" /\ list'.stage = "respond" /\ list'.view = list.view
        /\ list'.since = list.since /\ list'.code = list.code /\ held' = held
    BY <1>1, <1>13 DEF AttachScenarioLinks, Awaits
  <2>2. list.view = "full"
    BY <2>1 DEF ListTypes
  <2> QED
    BY <1>2, <1>6, <2>1, <2>2 DEF ListTypes, BenchmarksTypeOK, Statements
<1>14. CASE /\ list.stage = "respond" /\ RespondList /\ list'.stage = "idle" /\ list'.tree = Bare
            /\ list'.view = list.view /\ list'.since = list.since
            /\ list'.code = IF EtagMatches THEN 304 ELSE 200
  <2>1. held' = {[query |-> list.query, view |-> list.view, tree |-> list.tree, order |-> order]}
    BY <1>2, <1>14, ClientHoldsTheBody
  <2>2. list.view \in Views /\ (list.view = "progress" => list.tree.links = NoRows)
    BY <1>14 DEF ListTypes, BenchmarksTypeOK
  <2> QED
    BY <1>2, <1>3, <1>14, <2>1, <2>2 DEF ListTypes, BenchmarksTypeOK
<1> QED
  BY <1>4, <1>5, <1>8, <1>9, <1>10, <1>11, <1>12, <1>13, <1>14, ListStepFields

-----------------------------------------------------------------------------
(* The order of ranks and links.                                           *)

\* While the worker publishes nothing, ranks and links come in an order that
\* their keys permit.
OrderInv ==
    list.stage # "idle" /\ list.since = version => order \in TreeOrders(tables, list.tree)

LEMMA NothingToOrder == ASSUME NEW t PROVE Unordered \in TreeOrders(t, Bare)
<1>1. Bare.ranks = NoRows /\ Bare.links = NoRows /\ DOMAIN NoRows = {}
  BY DEF Bare, NoRows
<1>2. {} \in RankOrders(t.ranks, {})
  BY DEF RankOrders, Listings
<1>3. {} \in LinkOrders(t.links, NoRows)
  BY <1>1 DEF LinkOrders, Listings
<1> QED
  BY <1>1, <1>2, <1>3 DEF Unordered, TreeOrders

\* Where one of two rows is always earlier, they come in one order only.
LEMMA OneListing ==
  ASSUME NEW together, NEW earlier,
         \A p \in together : p \in earlier \/ <<p[2], p[1]>> \in earlier,
         NEW o \in Listings(together, earlier), NEW q \in Listings(together, earlier)
  PROVE  o = q
<1>1. /\ o \subseteq together /\ earlier \subseteq o
      /\ \A p \in together : p \in o <=> <<p[2], p[1]>> \notin o
  BY DEF Listings
<1>2. /\ q \subseteq together /\ earlier \subseteq q
      /\ \A p \in together : p \in q <=> <<p[2], p[1]>> \notin q
  BY DEF Listings
<1>3. ASSUME NEW p \in together PROVE p \in o <=> p \in q
  <2>1. CASE p \in earlier
    BY <1>1, <1>2, <2>1
  <2>2. CASE <<p[2], p[1]>> \in earlier
    BY <1>1, <1>2, <2>2
  <2> QED
    BY <2>1, <2>2
<1> QED
  BY <1>1, <1>2, <1>3

\* Tables that leave no order open determine the order of every hierarchy.
LEMMA OneOrder ==
  ASSUME NEW t \in TableStates, OrderIsSettled(t), NEW ranks, NEW homes,
         ranks \subseteq {r \in DOMAIN t.ranks : IsRank(t.ranks[r].name)},
         DOMAIN homes \subseteq {l \in DOMAIN t.links : t.links[l].scenario \in DOMAIN t.scenarios}
  PROVE  /\ \A o, q \in RankOrders(t.ranks, ranks) : o = q
         /\ \A o, q \in LinkOrders(t.links, homes) : o = q
<1>1. \A o, q \in RankOrders(t.ranks, ranks) : o = q
  <2> DEFINE together == {p \in ranks \X ranks : p[1] # p[2] /\ t.ranks[p[1]].under = t.ranks[p[2]].under}
             earlier == {p \in together : t.ranks[p[1]].sort < t.ranks[p[2]].sort}
  <2>1. RankOrders(t.ranks, ranks) = Listings(together, earlier)
    BY DEF RankOrders
  <2>2. ASSUME NEW p \in together PROVE p \in earlier \/ <<p[2], p[1]>> \in earlier
    <3>1. /\ p = <<p[1], p[2]>> /\ p[1] \in ranks /\ p[2] \in ranks
          /\ p[1] # p[2] /\ t.ranks[p[1]].under = t.ranks[p[2]].under
      OBVIOUS
    <3>2. <<p[2], p[1]>> \in together
      BY <3>1
    <3>3. t.ranks[p[1]].sort \in Int /\ t.ranks[p[2]].sort \in Int
      BY <3>1, WorkerAssumption
    <3>4. t.ranks[p[1]].sort # t.ranks[p[2]].sort
      BY <3>1 DEF OrderIsSettled
    <3> QED
      BY <3>2, <3>3, <3>4
  <2> HIDE DEF together, earlier
  <2> QED
    BY <2>1, <2>2, OneListing
<1>2. \A o, q \in LinkOrders(t.links, homes) : o = q
  <2> DEFINE together == {p \in (DOMAIN homes) \X (DOMAIN homes) :
                            /\ p[1] # p[2] /\ homes[p[1]] = homes[p[2]]
                            /\ t.links[p[1]].under = t.links[p[2]].under}
             earlier == {p \in together :
                            \/ t.links[p[1]].sort < t.links[p[2]].sort
                            \/ /\ t.links[p[1]].sort = t.links[p[2]].sort
                               /\ t.links[p[1]].scenario < t.links[p[2]].scenario}
  <2>1. LinkOrders(t.links, homes) = Listings(together, earlier)
    BY DEF LinkOrders
  <2>2. ASSUME NEW p \in together PROVE p \in earlier \/ <<p[2], p[1]>> \in earlier
    <3>1. /\ p = <<p[1], p[2]>> /\ p[1] \in DOMAIN homes /\ p[2] \in DOMAIN homes
          /\ p[1] # p[2] /\ homes[p[1]] = homes[p[2]] /\ t.links[p[1]].under = t.links[p[2]].under
      OBVIOUS
    <3>2. <<p[2], p[1]>> \in together
      BY <3>1
    <3>3. /\ t.links[p[1]].sort \in Int /\ t.links[p[2]].sort \in Int
          /\ t.links[p[1]].scenario \in Int /\ t.links[p[2]].scenario \in Int
      BY <3>1, WorkerAssumption
    <3>4. t.links[p[1]].scenario # t.links[p[2]].scenario \/ t.links[p[1]].sort # t.links[p[2]].sort
      BY <3>1 DEF OrderIsSettled
    <3> QED
      BY <3>2, <3>3, <3>4
  <2> HIDE DEF together, earlier
  <2> QED
    BY <2>1, <2>2, OneListing
<1> QED
  BY <1>1, <1>2

LEMMA OrderStep ==
  ASSUME ListInv, OrderInv, ListStep, UNCHANGED workerVars
  PROVE  OrderInv'
<1> USE DEF ListFields, TreeFields
<1>1. /\ DOMAIN list = ListFields /\ DOMAIN list.tree = TreeFields
      /\ tables' = tables /\ version' = version
  BY DEF ListInv, IsTree, workerVars
<1>2. ASSUME list.stage # "idle", list.since = version
      PROVE  /\ order = [ranks |-> order.ranks, links |-> order.links]
             /\ order.ranks \in RankOrders(tables.ranks, DOMAIN list.tree.ranks)
             /\ order.links \in LinkOrders(tables.links, list.tree.links)
  BY <1>2 DEF OrderInv, TreeOrders
<1>3. ASSUME NEW stage, NEW tree, list' = Continue(stage, tree), list.stage # "idle", order' = order,
             tree.ranks = list.tree.ranks, tree.links = list.tree.links
      PROVE  OrderInv'
  <2>1. list'.tree = tree /\ list'.since = list.since
    BY <1>1, <1>3 DEF Continue
  <2> QED
    BY <1>1, <1>2, <1>3, <2>1 DEF OrderInv, TreeOrders
<1>4. ASSUME list'.stage = "idle" PROVE OrderInv'
  BY <1>4 DEF OrderInv
<1>5. CASE AskAny
  <2>1. ASSUME NEW query, NEW view, NEW sends, AskList(query, view, sends)
        PROVE  list'.tree = Bare /\ order' = Unordered
    BY <2>1 DEF AskList
  <2>2. list'.tree = Bare /\ order' = Unordered
    BY <1>5, <2>1 DEF AskAny
  <2> QED
    BY <2>2, NothingToOrder DEF OrderInv
<1>6. CASE ListBenchmarkRows
  <2>1. PICK found : list' = Continue(IF found = {} THEN "respond" ELSE "difficulties",
                                      [list.tree EXCEPT !.benchmarks = found])
    BY <1>6 DEF ListBenchmarkRows
  <2>2. list.stage # "idle" /\ order' = order
    BY <1>6 DEF ListBenchmarkRows, Awaits
  <2> QED
    BY <1>1, <1>3, <2>1, <2>2
<1>7. CASE AttachDifficulties
  <2>1. PICK rows : list' = Continue(IF DOMAIN rows = {} THEN "respond" ELSE "ranks",
                                     [list.tree EXCEPT !.difficulties = rows])
    BY <1>7 DEF AttachDifficulties
  <2>2. list.stage # "idle" /\ order' = order
    BY <1>7 DEF AttachDifficulties, Awaits
  <2> QED
    BY <1>1, <1>3, <2>1, <2>2
<1>8. CASE AttachRanks
  <2> DEFINE rows == Children(tables.ranks, Reachable(list.tree.difficulties))
             ids == {r \in DOMAIN rows : IsRank(rows[r].name)}
             ranks == [r \in ids |-> Shown(rows[r])]
  <2>1. PICK o \in RankOrders(tables.ranks, ids) : order' = [order EXCEPT !.ranks = o]
    BY <1>8 DEF AttachRanks
  <2>2. list.stage # "idle" /\ list' = Continue("categories", [list.tree EXCEPT !.ranks = ranks])
    BY <1>8 DEF AttachRanks, Awaits
  <2>3. DOMAIN ranks = ids
    OBVIOUS
  <2> HIDE DEF ranks, ids, rows
  <2>4. list'.tree.ranks = ranks /\ list'.tree.links = list.tree.links /\ list'.since = list.since
    BY <1>1, <2>2 DEF Continue
  <2>5. ASSUME list.since = version PROVE order' \in TreeOrders(tables, list'.tree)
    <3>1. order' = [ranks |-> o, links |-> order.links]
      BY <1>2, <2>1, <2>2, <2>5
    <3> QED
      BY <1>2, <2>2, <2>3, <2>4, <2>5, <3>1 DEF TreeOrders
  <2> QED
    BY <1>1, <2>4, <2>5 DEF OrderInv
<1>9. CASE AttachCategories
  <2>1. PICK rows : list' = Continue(IF DOMAIN rows = {} THEN Onward ELSE "subcategories",
                                     [list.tree EXCEPT !.categories = rows])
    BY <1>9 DEF AttachCategories
  <2>2. list.stage # "idle" /\ order' = order
    BY <1>9 DEF AttachCategories, Awaits
  <2> QED
    BY <1>1, <1>3, <2>1, <2>2
<1>10. CASE AttachSubcategories
  <2>1. PICK rows : list' = Continue(Onward, [list.tree EXCEPT !.subcategories = rows])
    BY <1>10 DEF AttachSubcategories
  <2>2. list.stage # "idle" /\ order' = order
    BY <1>10 DEF AttachSubcategories, Awaits
  <2> QED
    BY <1>1, <1>3, <2>1, <2>2
<1>11. CASE AttachScenarioLinks
  <2>1. PICK o \in LinkOrders(tables.links, LinkHomes) : order' = [order EXCEPT !.links = o]
    BY <1>11 DEF AttachScenarioLinks
  <2>2. /\ list.stage # "idle" /\ list'.since = list.since
        /\ list'.tree.ranks = list.tree.ranks /\ list'.tree.links = LinkHomes
    BY <1>1, <1>11 DEF AttachScenarioLinks, Awaits
  <2>3. ASSUME list.since = version PROVE order' \in TreeOrders(tables, list'.tree)
    <3>1. order' = [ranks |-> order.ranks, links |-> o]
      BY <1>2, <2>1, <2>2, <2>3
    <3> QED
      BY <1>2, <2>2, <2>3, <3>1 DEF TreeOrders
  <2> QED
    BY <1>1, <2>2, <2>3 DEF OrderInv
<1>12. CASE LinkUnsound \/ ListFails \/ RespondList
  <2>1. list'.stage = "idle"
    BY <1>1, <1>12 DEF LinkUnsound, ListFails, RespondList
  <2> QED
    BY <1>4, <2>1
<1> QED
  BY <1>5, <1>6, <1>7, <1>8, <1>9, <1>10, <1>11, <1>12 DEF ListStep, Advance

-----------------------------------------------------------------------------
(* A request while the worker publishes nothing.                           *)

\* The parts that are attached before a stage are those of H, the others are empty.
Built(stage, t, H) ==
    /\ t.benchmarks = IF stage = "benchmarks" THEN {} ELSE H.benchmarks
    /\ t.difficulties = IF stage \in {"benchmarks", "difficulties"} THEN NoRows ELSE H.difficulties
    /\ t.ranks = IF stage \in {"benchmarks", "difficulties", "ranks"} THEN NoRows ELSE H.ranks
    /\ t.categories = IF stage \in Early THEN NoRows ELSE H.categories
    /\ t.subcategories = IF stage \in Early \cup {"subcategories"} THEN NoRows ELSE H.subcategories
    /\ t.links = IF stage # "respond" THEN NoRows ELSE H.links

Reference == Hierarchy(tables, list.query, list.view)

BuiltInv ==
    /\ IsWhole(list.tree)
    /\ list.stage # "idle" /\ list.since = version => Built(list.stage, list.tree, Reference)
    /\ QuietListIsExact

\* Without parents there are no rows.
LEMMA NoParentsNoRows ==
  ASSUME NEW rows
  PROVE  Children(rows, {}) = NoRows
BY DEF Children, NoRows

LEMMA EmptyRows ==
  ASSUME NEW rows, NEW parents, DOMAIN Children(rows, parents) = {}
  PROVE  Children(rows, parents) = NoRows
BY DEF Children, NoRows

\* Without benchmarks, and without difficulties, every part is empty; so are
\* the subcategories without categories and the links of the progress view.
LEMMA EmptyParts ==
  ASSUME NEW t, NEW query, NEW view, NEW H, IsHierarchy(t, query, view, H)
  PROVE  /\ H.benchmarks = {} => H.difficulties = NoRows
         /\ DOMAIN H.difficulties = {} =>
                H.difficulties = NoRows /\ H.ranks = NoRows /\ H.categories = NoRows
                /\ H.subcategories = NoRows /\ H.links = NoRows
         /\ DOMAIN H.categories = {} => H.categories = NoRows /\ H.subcategories = NoRows
         /\ view = "progress" => H.links = NoRows
<1>1. /\ H.difficulties = Children(t.difficulties, H.benchmarks)
      /\ H.categories = Children(t.categories, DOMAIN H.difficulties)
      /\ H.subcategories = Children(t.subcategories, DOMAIN H.categories)
  BY DEF IsHierarchy
<1>2. DOMAIN NoRows = {}
  BY DEF NoRows
<1>3. H.benchmarks = {} => H.difficulties = NoRows
  BY <1>1, NoParentsNoRows
<1>4. DOMAIN H.difficulties = {} => H.difficulties = NoRows /\ H.categories = NoRows
  BY <1>1, NoParentsNoRows, EmptyRows
<1>5. DOMAIN H.categories = {} => H.categories = NoRows /\ H.subcategories = NoRows
  BY <1>1, NoParentsNoRows, EmptyRows
<1>6. DOMAIN H.difficulties = {} => H.ranks = NoRows
  <2> DEFINE rows == Children(t.ranks, DOMAIN H.difficulties)
  <2>1. H.ranks = [r \in {r \in DOMAIN rows : IsRank(rows[r].name)} |-> Shown(rows[r])]
    BY DEF IsHierarchy
  <2>2. DOMAIN H.difficulties = {} => rows = NoRows
    BY NoParentsNoRows
  <2> HIDE DEF rows
  <2> QED
    BY <1>2, <2>1, <2>2 DEF NoRows
<1>7. (DOMAIN H.difficulties = {} \/ view = "progress") => H.links = NoRows
  <2> DEFINE ids == {l \in DOMAIN t.links : /\ view = "full"
                                            /\ t.links[l].under \in DOMAIN H.difficulties
                                            /\ t.links[l].scenario \in DOMAIN t.scenarios}
             ls == [l \in ids |-> t.links[l]]
  <2>1. H.links = [l \in DOMAIN ls |-> {Place(t, ls[l])}]
    BY DEF IsHierarchy
  <2>2. (DOMAIN H.difficulties = {} \/ view = "progress") => ids = {}
    OBVIOUS
  <2>3. DOMAIN ls = ids
    OBVIOUS
  <2> HIDE DEF ids, ls
  <2> QED
    BY <2>1, <2>2, <2>3 DEF NoRows
<1> QED
  BY <1>2, <1>3, <1>4, <1>5, <1>6, <1>7

\* The links, where the parts before them are those of the tables.
LEMMA LinksArePlaced ==
  ASSUME ListInv, list.view = "full", list.stage = "links", Built("links", list.tree, Reference)
  PROVE  [l \in DOMAIN LinkRows |-> Homes(list.tree, LinkRows[l])] = Reference.links
<1> DEFINE H == Reference
           ids == {l \in DOMAIN tables.links : /\ list.view = "full"
                                               /\ tables.links[l].under \in DOMAIN H.difficulties
                                               /\ tables.links[l].scenario \in DOMAIN tables.scenarios}
           ls == [l \in ids |-> tables.links[l]]
<1>1. tables \in TableStates /\ IsTree(list.tree)
  BY DEF ListInv
<1>2. /\ list.tree.difficulties = H.difficulties /\ list.tree.categories = H.categories
      /\ list.tree.subcategories = H.subcategories
  BY DEF Built, Early
<1>3. /\ H.categories = Children(tables.categories, DOMAIN H.difficulties)
      /\ H.subcategories = Children(tables.subcategories, DOMAIN H.categories)
      /\ H.links = [l \in DOMAIN ls |-> {Place(tables, ls[l])}]
  <2>1. IsHierarchy(tables, list.query, list.view, H)
    BY HierarchyParts DEF Reference
  <2> HIDE DEF H
  <2> QED
    BY <2>1, Zenon DEF IsHierarchy
<1> HIDE DEF H
<1>4. LinkRows = ls
  <2> DEFINE rows == Children(tables.links, DOMAIN H.difficulties)
  <2>1. LinkRows = [l \in {l \in DOMAIN rows : rows[l].scenario \in DOMAIN tables.scenarios} |-> rows[l]]
    BY <1>2 DEF LinkRows
  <2>2. /\ DOMAIN rows = {l \in DOMAIN tables.links : tables.links[l].under \in DOMAIN H.difficulties}
        /\ \A l \in DOMAIN rows : rows[l] = tables.links[l]
    BY DEF Children
  <2> HIDE DEF rows
  <2>3. {l \in DOMAIN rows : rows[l].scenario \in DOMAIN tables.scenarios} = ids
    BY <2>2
  <2> QED
    BY <2>1, <2>2, <2>3
<1>5. ASSUME NEW l \in ids PROVE Homes(list.tree, ls[l]) = {Place(tables, ls[l])}
  <2>1. ls[l].under \in DOMAIN list.tree.difficulties
    BY <1>2
  <2> HIDE DEF ls
  <2> QED
    BY <1>1, <1>2, <1>3, <2>1, HomeIsPlace
<1>6. DOMAIN ls = ids
  OBVIOUS
<1> HIDE DEF ls, ids
<1> QED
  BY <1>3, <1>4, <1>5, <1>6 DEF H

\* Ranks of a hierarchy are no placeholders, and its links have scenarios.
LEMMA ShownRows ==
  ASSUME NEW t, NEW query, NEW view, NEW H, IsHierarchy(t, query, view, H)
  PROVE  /\ DOMAIN H.ranks \subseteq {r \in DOMAIN t.ranks : IsRank(t.ranks[r].name)}
         /\ DOMAIN H.links \subseteq {l \in DOMAIN t.links : t.links[l].scenario \in DOMAIN t.scenarios}
<1>1. DOMAIN H.ranks \subseteq {r \in DOMAIN t.ranks : IsRank(t.ranks[r].name)}
  <2> DEFINE rows == Children(t.ranks, DOMAIN H.difficulties)
  <2>1. H.ranks = [r \in {r \in DOMAIN rows : IsRank(rows[r].name)} |-> Shown(rows[r])]
    BY DEF IsHierarchy
  <2>2. DOMAIN rows \subseteq DOMAIN t.ranks /\ \A r \in DOMAIN rows : rows[r] = t.ranks[r]
    BY ChildrenAreRows
  <2> HIDE DEF rows
  <2> QED
    BY <2>1, <2>2
<1>2. DOMAIN H.links \subseteq {l \in DOMAIN t.links : t.links[l].scenario \in DOMAIN t.scenarios}
  <2> DEFINE ids == {l \in DOMAIN t.links : /\ view = "full"
                                            /\ t.links[l].under \in DOMAIN H.difficulties
                                            /\ t.links[l].scenario \in DOMAIN t.scenarios}
             ls == [l \in ids |-> t.links[l]]
  <2>1. H.links = [l \in DOMAIN ls |-> {Place(t, ls[l])}]
    BY DEF IsHierarchy
  <2>2. DOMAIN H.links = ids
    BY <2>1
  <2> QED
    BY <2>2
<1> QED
  BY <1>1, <1>2

LEMMA BuiltStep ==
  ASSUME ListInv, ListTypes, OrderInv, BuiltInv, ListStep, UNCHANGED workerVars
  PROVE  BuiltInv'
<1> DEFINE H == Reference
           tree == list.tree
<1> USE DEF ListFields, TreeFields
<1>1. /\ DOMAIN list = ListFields /\ DOMAIN tree = TreeFields /\ IsWhole(tree)
      /\ tables' = tables /\ version' = version /\ tables \in TableStates
      /\ IsFiniteSet(DOMAIN tree.difficulties)
  BY DEF ListInv, IsTree, BuiltInv, workerVars
<1>2. IsHierarchy(tables, list.query, list.view, H)
  BY HierarchyParts DEF Reference
<1>3. IsWhole(Bare)
  BY DEF IsWhole, Bare
<1>4. list.stage # "idle" /\ list.since = version => Built(list.stage, tree, H)
  BY DEF BuiltInv
<1>5. /\ H.benchmarks = {} => H.difficulties = NoRows
      /\ DOMAIN H.difficulties = {} =>
                H.difficulties = NoRows /\ H.ranks = NoRows /\ H.categories = NoRows
                /\ H.subcategories = NoRows /\ H.links = NoRows
      /\ DOMAIN H.categories = {} => H.categories = NoRows /\ H.subcategories = NoRows
      /\ list.view = "progress" => H.links = NoRows
  BY <1>2, EmptyParts
<1>6. DOMAIN NoRows = {}
  BY DEF NoRows
<1>7. ASSUME list.query = list'.query, list.view = list'.view PROVE Reference' = H
  BY <1>1, <1>7 DEF Reference
<1>8. CASE /\ list'.tree = Bare
           /\ \/ list'.stage = "benchmarks"
              \/ list'.stage = "idle" /\ list'.code \in {400, 500}
  <2>1. \A R : Built("benchmarks", Bare, R)
    BY DEF Built, Bare, Early
  <2> QED
    BY <1>3, <1>8, <2>1 DEF BuiltInv, QuietListIsExact
<1>9. ASSUME NEW stage, stage # "idle", NEW next, list' = Continue(stage, next), IsWhole(next),
             list.since = version => Built(stage, next, H)
      PROVE  BuiltInv'
  <2>1. /\ list'.stage = stage /\ list'.tree = next /\ list'.query = list.query
        /\ list'.view = list.view /\ list'.since = list.since
    BY <1>1, <1>9 DEF Continue
  <2>2. Reference' = H
    BY <1>7, <2>1
  <2> HIDE DEF H
  <2>3. QuietListIsExact'
    BY <1>9, <2>1 DEF QuietListIsExact
  <2> QED
    BY <1>1, <1>9, <2>1, <2>2, <2>3 DEF BuiltInv
<1> HIDE DEF H, tree
<1>10. CASE ListBenchmarkRows
  <2> DEFINE found == {b \in DOMAIN tables.benchmarks :
                         list.query = "" \/ list.query \in tables.benchmarks[b]}
             next == [tree EXCEPT !.benchmarks = found]
             stage == IF found = {} THEN "respond" ELSE "difficulties"
  <2>1. list.stage = "benchmarks" /\ list' = Continue(stage, next)
    BY <1>10 DEF ListBenchmarkRows, Awaits, tree
  <2>2. found = H.benchmarks
    BY <1>2 DEF IsHierarchy
  <2> HIDE DEF found
  <2>3. /\ next.benchmarks = found /\ next.difficulties = tree.difficulties /\ next.ranks = tree.ranks
        /\ next.categories = tree.categories /\ next.subcategories = tree.subcategories
        /\ next.links = tree.links
    BY <1>1
  <2>4. IsWhole(next)
    BY <1>1 DEF IsWhole
  <2> HIDE DEF next
  <2>5. list.since = version => Built(stage, next, H)
    BY <1>4, <1>5, <1>6, <2>1, <2>2, <2>3 DEF Built, Early
  <2> HIDE DEF stage
  <2>6. stage # "idle"
    BY DEF stage
  <2> QED
    BY <1>9, <2>1, <2>4, <2>5, <2>6
<1>11. CASE AttachDifficulties
  <2> DEFINE rows == Children(tables.difficulties, tree.benchmarks)
             next == [tree EXCEPT !.difficulties = rows]
             stage == IF DOMAIN rows = {} THEN "respond" ELSE "ranks"
  <2>1. list.stage = "difficulties" /\ list' = Continue(stage, next)
    BY <1>11 DEF AttachDifficulties, Awaits, tree
  <2>2. list.since = version => rows = H.difficulties
    BY <1>2, <1>4, <2>1 DEF IsHierarchy, Built
  <2> HIDE DEF rows
  <2>3. /\ next.benchmarks = tree.benchmarks /\ next.difficulties = rows /\ next.ranks = tree.ranks
        /\ next.categories = tree.categories /\ next.subcategories = tree.subcategories
        /\ next.links = tree.links
    BY <1>1
  <2>4. IsWhole(next)
    BY <1>1 DEF IsWhole
  <2> HIDE DEF next
  <2>5. list.since = version => Built(stage, next, H)
    BY <1>4, <1>5, <2>1, <2>2, <2>3 DEF Built, Early
  <2> HIDE DEF stage
  <2>6. stage # "idle"
    BY DEF stage
  <2> QED
    BY <1>9, <2>1, <2>4, <2>5, <2>6
<1>12. Reachable(tree.difficulties) = DOMAIN tree.difficulties
  BY <1>1, AllAreReachable
<1>13. CASE AttachRanks
  <2> DEFINE rows == Children(tables.ranks, Reachable(tree.difficulties))
             ranks == [r \in {r \in DOMAIN rows : IsRank(rows[r].name)} |-> Shown(rows[r])]
             next == [tree EXCEPT !.ranks = ranks]
  <2>1. list.stage = "ranks" /\ list' = Continue("categories", next)
    BY <1>13 DEF AttachRanks, Awaits, tree
  <2>2. list.since = version => ranks = H.ranks
    <3>1. list.since = version => tree.difficulties = H.difficulties
      BY <1>4, <2>1 DEF Built
    <3> QED
      BY <1>2, <1>12, <3>1, Zenon DEF IsHierarchy
  <2> HIDE DEF ranks
  <2>3. /\ next.benchmarks = tree.benchmarks /\ next.difficulties = tree.difficulties
        /\ next.ranks = ranks /\ next.categories = tree.categories
        /\ next.subcategories = tree.subcategories /\ next.links = tree.links
    BY <1>1
  <2>4. IsWhole(next)
    BY <1>1 DEF IsWhole
  <2> HIDE DEF next
  <2>5. list.since = version => Built("categories", next, H)
    BY <1>4, <2>1, <2>2, <2>3 DEF Built, Early
  <2> QED
    BY <1>9, <2>1, <2>4, <2>5
<1>14. Onward = IF list.view = "progress" THEN "respond" ELSE "links"
  BY DEF Onward
<1>15. CASE AttachCategories
  <2> DEFINE rows == Children(tables.categories, Reachable(tree.difficulties))
             next == [tree EXCEPT !.categories = rows]
             stage == IF DOMAIN rows = {} THEN Onward ELSE "subcategories"
  <2>1. list.stage = "categories" /\ list' = Continue(stage, next)
    BY <1>15 DEF AttachCategories, Awaits, tree
  <2>2. list.since = version => rows = H.categories
    <3>1. list.since = version => tree.difficulties = H.difficulties
      BY <1>4, <2>1 DEF Built
    <3> QED
      BY <1>2, <1>12, <3>1, Zenon DEF IsHierarchy
  <2> HIDE DEF rows
  <2>3. /\ next.benchmarks = tree.benchmarks /\ next.difficulties = tree.difficulties
        /\ next.ranks = tree.ranks /\ next.categories = rows
        /\ next.subcategories = tree.subcategories /\ next.links = tree.links
    BY <1>1
  <2>4. IsWhole(next)
    BY <1>1 DEF IsWhole
  <2> HIDE DEF next
  <2>5. list.since = version => Built(stage, next, H)
    BY <1>4, <1>5, <1>14, <2>1, <2>2, <2>3 DEF Built, Early
  <2> HIDE DEF stage
  <2>6. stage # "idle"
    BY <1>14 DEF stage
  <2> QED
    BY <1>9, <2>1, <2>4, <2>5, <2>6
<1>16. CASE AttachSubcategories
  <2> DEFINE rows == Children(tables.subcategories, Reachable(tree.categories))
             next == [tree EXCEPT !.subcategories = rows]
  <2>1. list.stage = "subcategories" /\ list' = Continue(Onward, next)
    BY <1>16 DEF AttachSubcategories, Awaits, tree
  <2>2. list.since = version => rows = H.subcategories
    <3>1. list.since = version => tree.categories = H.categories
      BY <1>4, <2>1 DEF Built, Early
    <3>2. IsFiniteSet(DOMAIN H.categories)
      <4>1. DOMAIN H.categories \in SUBSET DOMAIN tables.categories
        BY <1>2, ChildrenAreRows DEF IsHierarchy
      <4> QED
        BY <1>1, <4>1, WorkerAssumption, FS_Subset
    <3>3. Reachable(H.categories) = DOMAIN H.categories
      BY <3>2, AllAreReachable
    <3> QED
      BY <1>2, <3>1, <3>3, Zenon DEF IsHierarchy
  <2> HIDE DEF rows
  <2>3. /\ next.benchmarks = tree.benchmarks /\ next.difficulties = tree.difficulties
        /\ next.ranks = tree.ranks /\ next.categories = tree.categories
        /\ next.subcategories = rows /\ next.links = tree.links
    BY <1>1
  <2>4. IsWhole(next)
    BY <1>1 DEF IsWhole
  <2> HIDE DEF next
  <2>5. list.since = version => Built(Onward, next, H)
    BY <1>4, <1>5, <1>14, <2>1, <2>2, <2>3 DEF Built, Early
  <2>6. Onward # "idle"
    BY <1>14
  <2> QED
    BY <1>9, <2>1, <2>4, <2>5, <2>6
<1>17. CASE AttachScenarioLinks
  <2> DEFINE links == [l \in DOMAIN LinkRows |-> Homes(tree, LinkRows[l])]
             next == [tree EXCEPT !.links = links]
  <2>1. list.stage = "links" /\ list.view = "full"
        /\ list' = [list EXCEPT !.stage = "respond", !.read = LinkRows, !.tree.links = links]
    BY <1>17 DEF AttachScenarioLinks, LinkHomes, Awaits, ListTypes, tree
  <2>2. list.since = version => links = H.links
    BY <1>4, <2>1, LinksArePlaced DEF H, tree
  <2> HIDE DEF links
  <2>3. /\ list'.stage = "respond" /\ list'.tree = next /\ list'.query = list.query
        /\ list'.view = list.view /\ list'.since = list.since
    BY <1>1, <2>1 DEF tree
  <2>4. /\ next.benchmarks = tree.benchmarks /\ next.difficulties = tree.difficulties
        /\ next.ranks = tree.ranks /\ next.categories = tree.categories
        /\ next.subcategories = tree.subcategories /\ next.links = links
    BY <1>1
  <2>5. IsWhole(next)
    BY <1>1 DEF IsWhole
  <2> HIDE DEF next
  <2>6. list.since = version => Built("respond", next, H)
    BY <1>4, <2>1, <2>2, <2>4 DEF Built, Early
  <2>7. Reference' = H
    BY <1>7, <2>3
  <2> QED
    BY <1>1, <2>3, <2>5, <2>6, <2>7 DEF BuiltInv, QuietListIsExact
<1>18. CASE /\ list.stage = "respond" /\ RespondList /\ list'.stage = "idle" /\ list'.tree = Bare
            /\ list'.query = list.query /\ list'.view = list.view /\ list'.since = list.since
  <2>1. held' = {[query |-> list.query, view |-> list.view, tree |-> tree, order |-> order]}
    BY <1>18, ClientHoldsTheBody DEF ListTypes, tree
  <2>2. list.since = version => tree = H
    BY <1>1, <1>2, <1>4, <1>18 DEF Built, IsWhole, IsHierarchy, Early
  <2>3. Reference' = H
    BY <1>7, <1>18
  <2>4. list.since = version => order \in TreeOrders(tables, tree)
    BY <1>18 DEF OrderInv, tree
  <2>5. QuietListIsExact'
    BY <1>1, <1>18, <2>1, <2>2, <2>3, <2>4 DEF QuietListIsExact, Reference
  <2> QED
    BY <1>3, <1>18, <2>5 DEF BuiltInv
<1> QED
  BY <1>8, <1>10, <1>11, <1>13, <1>15, <1>16, <1>17, <1>18, ListStepFields

\* The worker moves on: the request is no longer quiet.
LEMMA PublishKeeps ==
  ASSUME ListTypes, BuiltInv, Publish, UNCHANGED listVars
  PROVE  ListTypes' /\ OrderInv' /\ BuiltInv'
<1>1. /\ version \in Nat /\ version' = version + 1 /\ list' = list /\ held' = held
      /\ list.since \in 0 .. version
  BY DEF Publish, listVars, ListTypes, BenchmarksTypeOK
<1>2. list.since \in 0 .. version' /\ list'.since # version'
  BY <1>1
<1>3. ListTypes'
  BY <1>1, <1>2 DEF ListTypes, BenchmarksTypeOK
<1>4. BuiltInv'
  BY <1>1, <1>2 DEF BuiltInv, QuietListIsExact
<1>5. OrderInv'
  BY <1>2 DEF OrderInv
<1> QED
  BY <1>3, <1>4, <1>5

ListIInv == ListInv /\ ListTypes /\ OrderInv /\ BuiltInv

LEMMA ListInvariant == BenchmarksSpec => []ListIInv
<1>1. WorkerInit /\ BenchmarksInit => ListIInv
  <2> SUFFICES ASSUME WorkerInit, BenchmarksInit PROVE ListIInv
    OBVIOUS
  <2>1. ListInv
    BY ListInit
  <2>2. /\ version = 0 /\ held = {} /\ list.stage = "idle" /\ list.since = 0 /\ list.code = 0
        /\ list.tree = Bare
    BY DEF WorkerInit, BenchmarksInit
  <2>3. ListTypes
    BY <2>2 DEF ListTypes, BenchmarksTypeOK, Bare
  <2>4. BuiltInv
    BY <2>2 DEF BuiltInv, QuietListIsExact, IsWhole, Bare
  <2> QED
    BY <2>1, <2>2, <2>3, <2>4 DEF ListIInv, OrderInv
<1>2. ListIInv /\ [BenchmarksNext]_<<workerVars, listVars>> => ListIInv'
  <2> SUFFICES ASSUME ListIInv, [BenchmarksNext]_<<workerVars, listVars>> PROVE ListIInv'
    OBVIOUS
  <2>1. ListInv /\ ListTypes /\ OrderInv /\ BuiltInv
    BY DEF ListIInv
  <2>2. CASE Publish /\ UNCHANGED listVars
    <3>1. ListInv'
      BY <2>1, <2>2 DEF Publish, listVars, ListInv
    <3> QED
      BY <2>1, <2>2, <3>1, PublishKeeps DEF ListIInv
  <2>3. CASE ListStep /\ UNCHANGED workerVars
    BY <2>1, <2>3, ListStepKeeps, ListStepTypes, OrderStep, BuiltStep DEF ListIInv
  <2>4. CASE UNCHANGED <<workerVars, listVars>>
    <3>1. list' = list /\ order' = order /\ held' = held /\ tables' = tables /\ version' = version
      BY <2>4 DEF workerVars, listVars
    <3>2. ListInv' /\ ListTypes' /\ OrderInv'
      BY <2>1, <3>1 DEF ListInv, ListTypes, BenchmarksTypeOK, OrderInv
    <3>3. BuiltInv'
      BY <2>1, <3>1 DEF BuiltInv, QuietListIsExact, Reference
    <3> QED
      BY <3>2, <3>3 DEF ListIInv
  <2> QED
    BY <2>2, <2>3, <2>4 DEF BenchmarksNext
<1> QED
  BY <1>1, <1>2, PTL DEF BenchmarksSpec

\* A request in progress has a known view, a progress body has no links, and
\* only statements of the list are awaited, for any tables.
THEOREM BenchmarksTypeCorrect == BenchmarksSpec => []BenchmarksTypeOK
<1>1. ListIInv => BenchmarksTypeOK
  BY DEF ListIInv, ListTypes
<1> QED
  BY <1>1, ListInvariant, PTL

\* Six statements without a transaction serve exactly the hierarchy of the
\* tables, under a 200 as under a 304, whenever no publication falls between
\* the request and its answer.
THEOREM QuietListsAreExact == BenchmarksSpec => []QuietListIsExact
<1>1. ListIInv => QuietListIsExact
  BY DEF ListIInv, BuiltInv
<1> QED
  BY <1>1, ListInvariant, PTL

\* A client that holds the current body is told so: only the answer itself ends
\* a request at this stage, the hierarchy it hashes is the reference, and tables
\* that leave no order open give it one body only.
THEOREM UnchangedIsReported == BenchmarksSpec => UnchangedIsNotModified
<1>1. ListIInv /\ [BenchmarksNext]_<<workerVars, listVars>>
        => [(/\ list.stage = "respond" /\ list'.stage = "idle"
             /\ list.since = version
             /\ OrderIsSettled(tables)
             /\ list.sends \in {"strong", "weak"}
             /\ \E h \in held : /\ h.tree = Hierarchy(tables, list.query, list.view)
                                 /\ h.order \in TreeOrders(tables, h.tree))
                => list'.code = 304]_listVars
  <2> SUFFICES ASSUME ListIInv, [BenchmarksNext]_<<workerVars, listVars>>,
                      list.stage = "respond", list'.stage = "idle", list.since = version,
                      OrderIsSettled(tables),
                      list.sends \in {"strong", "weak"},
                      NEW h \in held, h.tree = Reference, h.order \in TreeOrders(tables, h.tree)
               PROVE  list'.code = 304
    BY DEF Reference
  <2>1. /\ ListInv /\ IsWhole(list.tree) /\ Built("respond", list.tree, Reference)
        /\ order \in TreeOrders(tables, list.tree)
    BY DEF ListIInv, BuiltInv, OrderInv
  <2>2. IsHierarchy(tables, list.query, list.view, Reference)
    BY HierarchyParts DEF Reference
  <2>3. list.tree = Reference
    BY <2>1, <2>2 DEF Built, IsHierarchy, IsWhole, Early
  <2>4. /\ DOMAIN Reference.ranks \subseteq {r \in DOMAIN tables.ranks : IsRank(tables.ranks[r].name)}
        /\ DOMAIN Reference.links
            \subseteq {l \in DOMAIN tables.links : tables.links[l].scenario \in DOMAIN tables.scenarios}
    BY <2>2, ShownRows
  <2>5. h.order = order
    <3>1. tables \in TableStates
      BY <2>1 DEF ListInv
    <3> DEFINE ranks == DOMAIN Reference.ranks
               homes == Reference.links
    <3>2. /\ h.order \in [ranks : RankOrders(tables.ranks, ranks), links : LinkOrders(tables.links, homes)]
          /\ order \in [ranks : RankOrders(tables.ranks, ranks), links : LinkOrders(tables.links, homes)]
      BY <2>1, <2>3 DEF TreeOrders
    <3>3. /\ \A o, q \in RankOrders(tables.ranks, ranks) : o = q
          /\ \A o, q \in LinkOrders(tables.links, homes) : o = q
      BY <2>4, <3>1, OneOrder
    <3> HIDE DEF ranks, homes
    <3> QED
      BY <3>2, <3>3
  <2>6. EtagMatches
    BY <2>3, <2>5 DEF EtagMatches, HoldsTheBody
  <2>7. ListStep
    BY DEF BenchmarksNext, listVars
  <2>8. list'.code = IF EtagMatches THEN 304 ELSE 200
    BY <2>1, <2>7, ListStepFields DEF Statements
  <2> QED
    BY <2>6, <2>8
<1> QED
  BY <1>1, ListInvariant, PTL DEF BenchmarksSpec, UnchangedIsNotModified

-----------------------------------------------------------------------------
(* The two together: neither component notices the other.                  *)

\* Benchmarks and leaderboards only read: what the other does is no step of a list,
\* or a replacement of the tables that a list allows for.
THEOREM ListsRunUndisturbed == Spec => BenchmarksSpec
<1>1. Init => WorkerInit /\ BenchmarksInit
  BY DEF Init
<1>2. [Next]_vars => [BenchmarksNext]_<<workerVars, listVars>>
  BY DEF Next, vars, BenchmarksNext, workerVars, listVars
<1> QED
  BY <1>1, <1>2, PTL DEF Spec, BenchmarksSpec

\* Nor is it a step of a walk through a leaderboard.
THEOREM WalksRunUndisturbed == Spec => LeaderboardSpec
<1>1. Init => WorkerInit /\ LeaderboardInit
  BY DEF Init
<1>2. [Next]_vars => [LeaderboardNext]_leaderboardVars
  BY DEF Next, vars, LeaderboardNext, leaderboardVars, workerVars, listVars
<1> QED
  BY <1>1, <1>2, PTL DEF Spec, LeaderboardSpec

\* The type invariant of both read-only endpoints over the same tables.
THEOREM ProjectionsTypeCorrect == Spec => []ProjectionsTypeOK
<1>1. BenchmarksTypeOK /\ LeaderboardTypeOK => ProjectionsTypeOK
  BY DEF ProjectionsTypeOK
<1> QED
  BY <1>1, ListsRunUndisturbed, WalksRunUndisturbed, BenchmarksTypeCorrect,
     LeaderboardTypeCorrect, PTL

\* What holds of each endpoint alone holds of the two over the same tables.
THEOREM ProjectionsKeepTheirPromises ==
  Spec => /\ [](QuietListIsExact /\ LinksAreNeverLost /\ RefreshedAtIsNotAhead /\ QuietWalkIsTheBoard)
          /\ UnchangedIsNotModified
BY ListsRunUndisturbed, WalksRunUndisturbed, QuietListsAreExact, LinksAreServed,
   PagesAreNotAhead, QuietWalksAreTheBoard, UnchangedIsReported, PTL

=============================================================================
