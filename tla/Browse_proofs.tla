----------------------------- MODULE Browse_proofs -----------------------------
(***************************************************************************)
(* The pages of a list for every table, order, limit and number of         *)
(* uploads.  ORDER BY is a strict order of a finite table, so the places   *)
(* of its n rows are 0 to n - 1, each taken once; pages are segments of    *)
(* places.  An upload may change the order: what it never does, in the     *)
(* orders that only move rows forward, is to bring a row that was not      *)
(* uploaded to nearer to the front.                                        *)
(***************************************************************************)
EXTENDS Browse, FiniteSetTheorems, TLAPS

-----------------------------------------------------------------------------
(* Places in a strict order of a finite set.                               *)

IsOrder(R, T) ==
    /\ \A x \in T : <<x, x>> \notin R
    /\ \A x, y \in T : x = y \/ <<x, y>> \in R \/ <<y, x>> \in R
    /\ \A x, y, z \in T : <<x, y>> \in R /\ <<y, z>> \in R => <<x, z>> \in R

Ahead(R, T, x) == {y \in T : <<y, x>> \in R}

PlaceIn(R, T, x) == Cardinality(Ahead(R, T, x))

Segment(R, T, from, end) == {x \in T : PlaceIn(R, T, x) \in from .. end - 1}

LEMMA PlaceType ==
  ASSUME NEW T, IsFiniteSet(T), NEW R, IsOrder(R, T), NEW x \in T
  PROVE  /\ IsFiniteSet(Ahead(R, T, x))
         /\ PlaceIn(R, T, x) \in 0 .. Cardinality(T) - 1
<1> DEFINE ahead == Ahead(R, T, x)
<1>1. ahead \in SUBSET T /\ x \notin ahead
  BY DEF Ahead, IsOrder
<1>2. IsFiniteSet(ahead) /\ Cardinality(ahead) \in Nat
  BY <1>1, FS_Subset, FS_CardinalityType
<1>3. ahead \cup {x} \in SUBSET T
  BY <1>1
<1>4. Cardinality(ahead \cup {x}) = Cardinality(ahead) + 1
  BY <1>1, <1>2, FS_AddElement
<1>5. Cardinality(ahead \cup {x}) <= Cardinality(T) /\ Cardinality(T) \in Nat
  BY <1>3, FS_Subset, FS_CardinalityType
<1> QED
  BY <1>2, <1>4, <1>5 DEF PlaceIn

LEMMA PlaceGrows ==
  ASSUME NEW T, IsFiniteSet(T), NEW R, IsOrder(R, T), NEW x \in T, NEW y \in T,
         <<x, y>> \in R
  PROVE  PlaceIn(R, T, x) < PlaceIn(R, T, y)
<1> DEFINE ahead == Ahead(R, T, x)
           behind == Ahead(R, T, y)
<1>1. x \notin ahead /\ ahead \cup {x} \in SUBSET behind
  BY DEF Ahead, IsOrder
<1>2. IsFiniteSet(ahead) /\ IsFiniteSet(behind)
  BY PlaceType
<1>3. Cardinality(ahead \cup {x}) = Cardinality(ahead) + 1
  BY <1>1, <1>2, FS_AddElement
<1>4. Cardinality(ahead \cup {x}) <= Cardinality(behind)
  BY <1>1, <1>2, FS_Subset
<1>5. Cardinality(ahead) \in Nat /\ Cardinality(behind) \in Nat
  BY <1>2, FS_CardinalityType
<1> QED
  BY <1>3, <1>4, <1>5 DEF PlaceIn

\* The places of n rows are 0 to n - 1, each taken once.
LEMMA PlacesAreTaken ==
  ASSUME NEW T, IsFiniteSet(T), NEW R, IsOrder(R, T)
  PROVE  /\ Cardinality(T) \in Nat
         /\ [x \in T |-> PlaceIn(R, T, x)] \in Bijection(T, 0 .. Cardinality(T) - 1)
<1> DEFINE n == Cardinality(T)
           place == [x \in T |-> PlaceIn(R, T, x)]
<1>1. n \in Nat
  BY FS_CardinalityType
<1>2. place \in [T -> 0 .. n - 1]
  BY PlaceType
<1>3. ASSUME NEW x \in T, NEW y \in T, place[x] = place[y] PROVE x = y
  <2>1. PlaceIn(R, T, x) = PlaceIn(R, T, y) /\ PlaceIn(R, T, x) \in Int
    BY <1>3, PlaceType
  <2>2. <<x, y>> \notin R /\ <<y, x>> \notin R
    BY <2>1, PlaceGrows
  <2> QED
    BY <2>2 DEF IsOrder
<1>4. place \in Injection(T, 0 .. n - 1)
  BY <1>2, <1>3 DEF Injection, IsInjective
<1>5. IsFiniteSet(0 .. n - 1) /\ Cardinality(0 .. n - 1) = n
  <2>1. 0 \in Int /\ n - 1 \in Int
    BY <1>1
  <2>2. IsFiniteSet(0 .. n - 1) /\ Cardinality(0 .. n - 1) = IF 0 > n - 1 THEN 0 ELSE n - 1 - 0 + 1
    BY <2>1, FS_Interval
  <2> QED
    BY <1>1, <2>2
<1>6. place \in Surjection(T, 0 .. n - 1)
  BY <1>4, <1>5, FS_Injection
<1> QED
  BY <1>1, <1>4, <1>6 DEF Bijection

\* A segment within the table has as many rows as places.
LEMMA SegmentSize ==
  ASSUME NEW T, IsFiniteSet(T), NEW R, IsOrder(R, T),
         NEW from \in Nat, NEW end \in Nat, from <= end, end <= Cardinality(T)
  PROVE  /\ IsFiniteSet(Segment(R, T, from, end))
         /\ Cardinality(Segment(R, T, from, end)) = end - from
<1> DEFINE n == Cardinality(T)
           place == [x \in T |-> PlaceIn(R, T, x)]
           part == Segment(R, T, from, end)
           cut == [x \in part |-> place[x]]
<1>1. n \in Nat /\ place \in [T -> 0 .. n - 1]
  BY PlacesAreTaken DEF Bijection, Injection
<1>2. /\ \A x, y \in T : place[x] = place[y] => x = y
      /\ \A k \in 0 .. n - 1 : \E x \in T : place[x] = k
  <2>1. place \in Bijection(T, 0 .. n - 1)
    BY PlacesAreTaken
  <2>2. DOMAIN place = T
    OBVIOUS
  <2> HIDE DEF place, n
  <2>3. \A x, y \in T : place[x] = place[y] => x = y
    BY <2>1, <2>2 DEF Bijection, Injection, IsInjective
  <2>4. \A k \in 0 .. n - 1 : \E x \in T : place[x] = k
    BY <2>1 DEF Bijection, Surjection
  <2> QED
    BY <2>3, <2>4
<1>3. \A x \in T : x \in part <=> place[x] \in from .. end - 1
  BY DEF Segment
<1>4. part \in SUBSET T /\ IsFiniteSet(part)
  BY FS_Subset DEF Segment
<1> HIDE DEF place, part
<1>5. cut \in Bijection(part, from .. end - 1)
  <2>1. cut \in [part -> from .. end - 1]
    BY <1>3, <1>4
  <2>2. \A x, y \in part : cut[x] = cut[y] => x = y
    BY <1>2, <1>4
  <2>3. \A k \in from .. end - 1 : \E x \in part : cut[x] = k
    <3> SUFFICES ASSUME NEW k \in from .. end - 1 PROVE \E x \in part : cut[x] = k
      OBVIOUS
    <3>1. k \in 0 .. n - 1
      BY <1>1
    <3>2. PICK x \in T : place[x] = k
      BY <1>2, <3>1
    <3> QED
      BY <1>3, <3>2
  <2> QED
    BY <2>1, <2>2, <2>3 DEF Bijection, Injection, Surjection, IsInjective
<1>6. Cardinality(from .. end - 1) = Cardinality(part)
  BY <1>4, <1>5, FS_Bijection DEF ExistsBijection
<1>7. Cardinality(from .. end - 1) = end - from
  <2>1. from \in Int /\ end - 1 \in Int
    OBVIOUS
  <2>2. Cardinality(from .. end - 1) = IF from > end - 1 THEN 0 ELSE end - 1 - from + 1
    BY <2>1, FS_Interval
  <2> QED
    BY <2>2
<1> QED
  BY <1>4, <1>6, <1>7 DEF part

-----------------------------------------------------------------------------
(* The lists as ordered tables.                                            *)

\* The three tables are finite, and stay so as uploads add to them.
TablesOK ==
    /\ runs \in SUBSET Files
    /\ players \in [SteamIDs -> Username]
    /\ runCount \in [Titles -> Nat]
    /\ \A list \in DOMAIN Orders : IsFiniteSet(Table(list))

\* The rows a walk pages through, and the order it asks for.
Found(w) == Table(w.list) \cap w.filter

Ordering(w) == {p \in Rows \X Rows : Before(w.list, w.order, p[1], p[2])}

\* A walk with a request of its own list.
Fits(w) == w \in Walk /\ w.order \in Orders[w.list]

LEMMA TableRows ==
  ASSUME TablesOK, NEW list \in DOMAIN Orders
  PROVE  /\ Table(list) \subseteq Rows
         /\ list = "runs" => Table(list) \subseteq Files
         /\ list = "players" => Table(list) \subseteq SteamIDs
         /\ list = "scenarios" => Table(list) \subseteq Titles
BY DEF TablesOK, Table, Rows, Orders

\* Every column is an integer or NULL, and every row has an id of its own.
LEMMA KeyType ==
  ASSUME TablesOK, NEW w, Fits(w), NEW x \in Table(w.list)
  PROVE  /\ SortKey(w.list, w.order, x) \in Int \cup {NullScore}
         /\ RowId[x] \in Int
         /\ \A y \in Table(w.list) : RowId[x] = RowId[y] => x = y
<1>1. w.list \in {"runs", "players", "scenarios"} /\ w.order \in Orders[w.list]
  BY DEF Fits, Walk, Orders
<1>2. CASE w.list = "runs"
  <2>1. x \in Files /\ Table(w.list) \subseteq Files
    BY <1>2, TableRows DEF Orders
  <2> QED
    BY <1>2, <2>1, BrowseAssumption DEF SortKey
<1>3. CASE w.list = "players"
  <2>1. x \in SteamIDs /\ Table(w.list) \subseteq SteamIDs
    BY <1>3, TableRows DEF Orders
  <2>2. players[x] # NoName => NamePlace[players[x]] \in Int
    BY <1>3, <2>1, BrowseAssumption DEF TablesOK, Username, Table
  <2>3. Cardinality({f \in runs : SteamOf[f] = x}) \in Nat
    <3>1. IsFiniteSet(runs)
      BY DEF TablesOK, Table, Orders
    <3>2. IsFiniteSet({f \in runs : SteamOf[f] = x})
      BY <3>1, FS_Subset
    <3> QED
      BY <3>2, FS_CardinalityType
  <2>4. SortKey(w.list, w.order, x) =
          IF w.order = "name_asc"
          THEN IF players[x] = NoName THEN NullScore ELSE NamePlace[players[x]]
          ELSE Cardinality({f \in runs : SteamOf[f] = x})
    BY <1>3 DEF SortKey
  <2> QED
    BY <2>1, <2>2, <2>3, <2>4, BrowseAssumption
<1>4. CASE w.list = "scenarios"
  <2>1. x \in Titles /\ Table(w.list) \subseteq Titles
    BY <1>4, TableRows DEF Orders
  <2>2. SortKey(w.list, w.order, x) =
          IF w.order \in {"name_asc", "name_desc"} THEN NamePlace[x] ELSE runCount[x]
    BY <1>4 DEF SortKey
  <2> QED
    BY <2>1, <2>2, BrowseAssumption DEF TablesOK
<1> QED
  BY <1>1, <1>2, <1>3, <1>4

LEMMA OrderingIsBefore ==
  ASSUME TablesOK, NEW w, Fits(w), NEW x \in Found(w), NEW y \in Found(w)
  PROVE  <<x, y>> \in Ordering(w) <=> Before(w.list, w.order, x, y)
<1>1. x \in Rows /\ y \in Rows
  BY TableRows DEF Found, Fits, Walk
<1> QED
  BY <1>1 DEF Ordering

\* ORDER BY with the id as the last column is a strict order of the rows found.
LEMMA RowsAreOrdered ==
  ASSUME TablesOK, NEW w, Fits(w)
  PROVE  IsFiniteSet(Found(w)) /\ IsOrder(Ordering(w), Found(w))
<1>1. IsFiniteSet(Found(w))
  BY FS_Subset DEF TablesOK, Found, Fits, Walk
<1> DEFINE key(x) == SortKey(w.list, w.order, x)
<1>2. \A x \in Found(w) :
        /\ key(x) \in Int \cup {NullScore} /\ RowId[x] \in Int
        /\ \A y \in Found(w) : RowId[x] = RowId[y] => x = y
  BY KeyType DEF Found
<1>3. \A x, y \in Found(w) : <<x, y>> \in Ordering(w) <=>
        \/ key(x) # NullScore /\ key(y) = NullScore
        \/ key(x) # NullScore /\ key(y) # NullScore
            /\ IF Descends(w.order) THEN key(x) > key(y) ELSE key(x) < key(y)
        \/ key(x) = key(y) /\ IF w.order = "score_desc" THEN RowId[x] > RowId[y] ELSE RowId[x] < RowId[y]
  BY OrderingIsBefore DEF Before
<1> HIDE DEF key
<1>4. \A x \in Found(w) : <<x, x>> \notin Ordering(w)
  BY <1>2, <1>3
<1>5. \A x, y \in Found(w) : x = y \/ <<x, y>> \in Ordering(w) \/ <<y, x>> \in Ordering(w)
  <2> SUFFICES ASSUME NEW x \in Found(w), NEW y \in Found(w), x # y
               PROVE  <<x, y>> \in Ordering(w) \/ <<y, x>> \in Ordering(w)
    OBVIOUS
  <2>1. RowId[x] \in Int /\ RowId[y] \in Int /\ RowId[x] # RowId[y]
    BY <1>2
  <2> QED
    BY <1>2, <1>3, <2>1
<1>6. \A x, y, z \in Found(w) :
        <<x, y>> \in Ordering(w) /\ <<y, z>> \in Ordering(w) => <<x, z>> \in Ordering(w)
  BY <1>2, <1>3, BrowseAssumption
<1> QED
  BY <1>1, <1>4, <1>5, <1>6 DEF IsOrder

\* LIMIT and OFFSET cut out a segment of the places.
LEMMA SelectIsSegment ==
  ASSUME TablesOK, NEW w, Fits(w)
  PROVE  /\ \A x \in Found(w) : Place(w, Found(w), x) = PlaceIn(Ordering(w), Found(w), x)
         /\ \A n \in Nat : Select(w, n) = Segment(Ordering(w), Found(w), w.offset, w.offset + n)
<1>1. ASSUME NEW x \in Found(w)
      PROVE  Place(w, Found(w), x) = PlaceIn(Ordering(w), Found(w), x)
  <2>1. {y \in Found(w) : Before(w.list, w.order, y, x)} = Ahead(Ordering(w), Found(w), x)
    BY OrderingIsBefore DEF Ahead
  <2> QED
    BY <2>1 DEF Place, PlaceIn
<1>2. ASSUME NEW n \in Nat
      PROVE  Select(w, n) = Segment(Ordering(w), Found(w), w.offset, w.offset + n)
  <2>1. Select(w, n) = {x \in Found(w) : Place(w, Found(w), x) \in w.offset .. w.offset + n - 1}
    BY DEF Select, Found
  <2>2. ASSUME NEW x \in Found(w)
        PROVE  x \in Select(w, n) <=> x \in Segment(Ordering(w), Found(w), w.offset, w.offset + n)
    <3>1. Place(w, Found(w), x) = PlaceIn(Ordering(w), Found(w), x)
      BY <1>1
    <3>2. w.offset .. w.offset + n - 1 = w.offset .. (w.offset + n) - 1
      BY DEF Fits, Walk
    <3> QED
      BY <2>1, <3>1, <3>2, Zenon DEF Segment
  <2>3. /\ Select(w, n) \subseteq Found(w)
        /\ Segment(Ordering(w), Found(w), w.offset, w.offset + n) \subseteq Found(w)
    BY <2>1 DEF Segment
  <2> QED
    BY <2>2, <2>3
<1> QED
  BY <1>1, <1>2

\* One row more than the limit is there exactly if the table goes on after the page.
LEMMA MoreMeansMore ==
  ASSUME TablesOK, NEW w, Fits(w)
  PROVE  /\ Cardinality(Found(w)) \in Nat
         /\ HasMore(w) <=> w.offset + w.limit < Cardinality(Found(w))
<1> DEFINE n == Cardinality(Found(w))
           enlarged == Segment(Ordering(w), Found(w), w.offset, w.offset + (w.limit + 1))
<1>1. n \in Nat /\ w.offset \in Nat /\ w.limit \in Nat
  BY RowsAreOrdered, FS_CardinalityType, BrowseAssumption DEF Fits, Walk
<1>2. HasMore(w) <=> Cardinality(enlarged) > w.limit
  <2>1. w.limit + 1 \in Nat
    BY <1>1
  <2>2. Select(w, w.limit + 1) = enlarged
    BY <2>1, SelectIsSegment
  <2> QED
    BY <2>2 DEF HasMore
<1>3. IsFiniteSet(Found(w)) /\ IsOrder(Ordering(w), Found(w))
  BY RowsAreOrdered
<1>4. CASE w.offset + w.limit < n
  <2>1. Cardinality(enlarged) = (w.offset + (w.limit + 1)) - w.offset
    <3>1. w.offset + (w.limit + 1) \in Nat /\ w.offset <= w.offset + (w.limit + 1)
            /\ w.offset + (w.limit + 1) <= n
      BY <1>1, <1>4
    <3> QED
      BY <1>1, <1>3, <3>1, SegmentSize
  <2> QED
    BY <1>1, <1>2, <1>4, <2>1
<1>5. CASE n <= w.offset + w.limit
  <2>1. \A x \in Found(w) : PlaceIn(Ordering(w), Found(w), x) \in 0 .. n - 1
    BY <1>3, PlaceType
  <2>2. CASE n <= w.offset
    <3>1. enlarged = {}
      BY <1>1, <2>1, <2>2 DEF Segment
    <3> QED
      BY <1>1, <1>2, <1>5, <3>1, FS_EmptySet
  <2>3. CASE w.offset <= n
    <3>1. enlarged = Segment(Ordering(w), Found(w), w.offset, n)
      BY <1>1, <1>5, <2>1 DEF Segment
    <3>2. Cardinality(Segment(Ordering(w), Found(w), w.offset, n)) = n - w.offset
      BY <1>1, <1>3, <2>3, SegmentSize
    <3> QED
      BY <1>1, <1>2, <1>5, <3>1, <3>2
  <2> QED
    BY <1>1, <2>2, <2>3
<1> QED
  BY <1>1, <1>4, <1>5

-----------------------------------------------------------------------------
(* The types, and what a step may do to one walk.                          *)

TypeInv == TablesOK /\ BrowseTypeOK

\* Insert keeps the tables finite, and takes no row away.
LEMMA InsertKeepsTables ==
  ASSUME TablesOK, NEW f \in Files, Insert(f)
  PROVE  /\ TablesOK'
         /\ \A list \in DOMAIN Orders : Table(list) \subseteq Table(list)'
<1>1. runs' = runs \cup {f} /\ runs' \in SUBSET Files
  BY DEF Insert, TablesOK
<1>2. ScenarioOf(f) \in Titles
  BY MetadataAssumption DEF ScenarioOf
<1>3. /\ runCount' \in [Titles -> Nat]
      /\ \A s \in Titles : runCount'[s] = IF s = ScenarioOf(f) THEN runCount[s] + 1 ELSE runCount[s]
  BY <1>2 DEF Insert, TablesOK
<1>4. \A old \in Username : MergedName(old, NameOf[f]) \in Names \cup {NoName}
  BY MetadataAssumption DEF MergedName, Username
<1>5. /\ players' \in [SteamIDs -> Username]
      /\ \A p \in SteamIDs : \/ players'[p] = players[p]
                             \/ p = SteamOf[f] /\ players'[p] # Absent
  <2>1. CASE SteamOf[f] = Anonymous
    BY <2>1 DEF Insert, TablesOK, PlayersWith
  <2>2. CASE SteamOf[f] # Anonymous
    <3>1. SteamOf[f] \in SteamIDs
      BY <2>2, MetadataAssumption
    <3>2. players' = [players EXCEPT ![SteamOf[f]] = MergedName(players[SteamOf[f]], NameOf[f])]
      BY <2>2 DEF Insert, PlayersWith
    <3>3. MergedName(players[SteamOf[f]], NameOf[f]) \in Names \cup {NoName}
      BY <3>1, <1>4 DEF TablesOK
    <3> QED
      BY <3>1, <3>2, <3>3, MetadataAssumption DEF TablesOK, Username
  <2> QED
    BY <2>1, <2>2
<1>6. /\ Table("runs") \subseteq Table("runs")' /\ Table("runs")' \subseteq Table("runs") \cup {f}
      /\ Table("players") \subseteq Table("players")'
      /\ Table("players")' \subseteq Table("players") \cup {SteamOf[f]}
      /\ Table("scenarios") \subseteq Table("scenarios")'
      /\ Table("scenarios")' \subseteq Table("scenarios") \cup {ScenarioOf(f)}
  <2>1. Table("runs") = runs /\ Table("runs")' = runs'
    BY DEF Table
  <2>2. /\ Table("players") = {p \in SteamIDs : players[p] # Absent}
        /\ Table("players")' = {p \in SteamIDs : players'[p] # Absent}
    BY DEF Table
  <2>3. /\ Table("scenarios") = {s \in Titles : runCount[s] > 0}
        /\ Table("scenarios")' = {s \in Titles : runCount'[s] > 0}
    BY DEF Table
  <2>4. \A s \in Titles : runCount[s] \in Nat
    BY DEF TablesOK
  <2>5. Table("players") \subseteq Table("players")'
        /\ Table("players")' \subseteq Table("players") \cup {SteamOf[f]}
    BY <2>2, <1>5
  <2>6. Table("scenarios") \subseteq Table("scenarios")'
        /\ Table("scenarios")' \subseteq Table("scenarios") \cup {ScenarioOf(f)}
    BY <2>3, <2>4, <1>3
  <2> QED
    BY <1>1, <2>1, <2>5, <2>6
<1>7. DOMAIN Orders = {"runs", "players", "scenarios"}
  BY DEF Orders
<1>8. \A list \in DOMAIN Orders : IsFiniteSet(Table(list))
  BY DEF TablesOK
<1>9. \A T, U, x : IsFiniteSet(T) /\ U \subseteq T \cup {x} => IsFiniteSet(U)
  BY FS_AddElement, FS_Subset
<1>10. IsFiniteSet(Table("runs")') /\ IsFiniteSet(Table("players")') /\ IsFiniteSet(Table("scenarios")')
  BY <1>6, <1>7, <1>8, <1>9
<1>11. \A list \in DOMAIN Orders : IsFiniteSet(Table(list)')
  BY <1>7, <1>10
<1> QED
  BY <1>1, <1>3, <1>5, <1>6, <1>7, <1>11 DEF TablesOK

LEMMA SelectType ==
  ASSUME TablesOK, NEW w \in Walk, NEW n
  PROVE  Select(w, n) \subseteq Rows
BY TableRows DEF Select, Walk

LEMMA LimitType == ASSUME NEW asked \in Asked PROVE NormalLimit(asked) \in 1 .. MaxLimit
BY BrowseAssumption DEF NormalLimit

LEMMA NoWalkType == NoWalk \in Walk /\ NoWalk.state = "idle"
BY BrowseAssumption DEF NoWalk, Walk, Orders

\* What a step does to a walk: it leaves it alone, begins it, answers a page,
\* ends it, or uploads a file while it is under way.
Begun(w) ==
    /\ Fits(w) /\ w.state = "asking"
    /\ w.offset = 0 /\ w.seen = {} /\ w.touched = {} /\ w.start = Found(w)

Paged(w, v) ==
    /\ w.state = "asking" /\ Fits(w)
    /\ LET next == [w EXCEPT !.seen = w.seen \cup Select(w, w.limit)]
       IN  v = IF HasMore(w) THEN [next EXCEPT !.offset = NextOffset(w)]
               ELSE [next EXCEPT !.state = "done"]

Marked(w, f) ==
    [w EXCEPT !.touched = w.touched \cup ({SteamOf[f]} \cap SteamIDs) \cup {ScenarioOf(f)}]

LEMMA BegunType ==
  ASSUME TypeInv, NEW list \in DOMAIN Orders, NEW order \in Orders[list],
         NEW filter \in SUBSET Rows, NEW asked \in Asked,
         NEW v, v = [state |-> "asking", list |-> list, order |-> order, filter |-> filter,
                     limit |-> NormalLimit(asked), offset |-> 0, seen |-> {},
                     start |-> Table(list) \cap filter, touched |-> {}]
  PROVE  Begun(v) /\ Fits(v)
<1>1. v \in Walk
  <2>1. order \in UNION {Orders[l] : l \in DOMAIN Orders}
    OBVIOUS
  <2>2. Table(list) \cap filter \in SUBSET Rows
    OBVIOUS
  <2>3. NormalLimit(asked) \in 1 .. MaxLimit
    BY LimitType
  <2> QED
    BY <2>1, <2>2, <2>3 DEF Walk
<1>2. v.list = list /\ v.order = order /\ v.filter = filter /\ v.start = Table(list) \cap filter
  OBVIOUS
<1>3. v.state = "asking" /\ v.offset = 0 /\ v.seen = {} /\ v.touched = {}
  OBVIOUS
<1>4. Fits(v)
  BY <1>1, <1>2 DEF Fits
<1> QED
  BY <1>2, <1>3, <1>4 DEF Begun, Found

LEMMA FirstAsked ==
  ASSUME TypeInv, NEW list \in DOMAIN Orders, NEW order \in Orders[list],
         NEW filter \in SUBSET Rows, NEW asked \in Asked,
         NEW v, v = [NoWalk EXCEPT !.state = "asking", !.list = list, !.order = order,
                                   !.filter = filter, !.limit = NormalLimit(asked),
                                   !.start = Table(list) \cap filter]
  PROVE  Begun(v) /\ Fits(v)
<1>1. v = [state |-> "asking", list |-> list, order |-> order, filter |-> filter,
           limit |-> NormalLimit(asked), offset |-> 0, seen |-> {},
           start |-> Table(list) \cap filter, touched |-> {}]
  BY DEF NoWalk
<1> QED
  BY <1>1, BegunType

LEMMA PagedType ==
  ASSUME TablesOK, NEW w, Fits(w), NEW v, Paged(w, v)
  PROVE  Fits(v) /\ v.state \in {"asking", "done"}
<1>1. w \in Walk /\ w.order \in Orders[w.list] /\ w.state = "asking"
  BY DEF Paged, Fits
<1>2. w.seen \cup Select(w, w.limit) \in SUBSET Rows
  BY <1>1, SelectType DEF Walk
<1>3. NextOffset(w) \in Nat
  BY <1>1, BrowseAssumption DEF NextOffset, Walk
<1>4. CASE HasMore(w)
  <2>1. v = [w EXCEPT !.seen = w.seen \cup Select(w, w.limit), !.offset = NextOffset(w)]
    BY <1>1, <1>4 DEF Paged, Walk
  <2> QED
    BY <1>1, <1>2, <1>3, <2>1 DEF Fits, Walk
<1>5. CASE ~HasMore(w)
  <2>1. v = [w EXCEPT !.seen = w.seen \cup Select(w, w.limit), !.state = "done"]
    BY <1>1, <1>5 DEF Paged, Walk
  <2> QED
    BY <1>1, <1>2, <2>1 DEF Fits, Walk
<1> QED
  BY <1>4, <1>5

LEMMA MarkedType ==
  ASSUME NEW w \in Walk, NEW f \in Files
  PROVE  Marked(w, f) \in Walk /\ ScenarioOf(f) \in Marked(w, f).touched
<1>1. ScenarioOf(f) \in Titles
  BY MetadataAssumption DEF ScenarioOf
<1> QED
  BY <1>1 DEF Marked, Walk, Rows

\* Each action of a client is one of those, and leaves the tables and the other
\* walks alone; an upload inserts a run, and marks every walk under way.
LEMMA StepOfAWalk ==
  ASSUME TypeInv, [BrowseNext]_browseVars
  PROVE  \/ UNCHANGED browseVars
         \/ \E c \in Walkers, v \in Walk :
              /\ UNCHANGED tableVars /\ walk' = [walk EXCEPT ![c] = v]
              /\ \/ Begun(v) \/ Paged(walk[c], v) \/ v.state \in {"idle", "failed"}
              /\ v.state \in {"asking", "done"} => Fits(v)
         \/ \E f \in Files :
              /\ Insert(f)
              /\ walk' = [c \in Walkers |-> IF walk[c].state = "asking" THEN Marked(walk[c], f)
                                            ELSE walk[c]]
<1> DEFINE ofClient(c, v) ==
             /\ UNCHANGED tableVars /\ walk' = [walk EXCEPT ![c] = v]
             /\ \/ Begun(v) \/ Paged(walk[c], v) \/ v.state \in {"idle", "failed"}
             /\ v.state \in {"asking", "done"} => Fits(v)
<1>1. ASSUME NEW c \in Walkers, NEW list \in DOMAIN Orders, NEW order \in Orders[list],
             NEW filter \in SUBSET Rows, NEW asked \in Asked, Begin(c, list, order, filter, asked)
      PROVE  \E v \in Walk : ofClient(c, v)
  <2>1. PICK v : v = [NoWalk EXCEPT !.state = "asking", !.list = list, !.order = order,
                                    !.filter = filter, !.limit = NormalLimit(asked),
                                    !.start = Table(list) \cap filter]
    OBVIOUS
  <2>2. Begun(v) /\ Fits(v)
    BY <2>1, FirstAsked
  <2>3. UNCHANGED tableVars /\ walk' = [walk EXCEPT ![c] = v]
    BY <1>1, <2>1 DEF Begin
  <2> QED
    BY <2>2, <2>3 DEF Fits
<1>2. ASSUME NEW c \in Walkers, ListRuns(c) PROVE \E v \in Walk : ofClient(c, v)
  <2>1. PICK order \in Orders.runs, filter \in Filters, asked \in Asked :
          Begin(c, "runs", order, filter, asked)
    BY <1>2 DEF ListRuns
  <2>2. "runs" \in DOMAIN Orders /\ order \in Orders["runs"] /\ filter \in SUBSET Rows
    BY BrowseAssumption DEF Orders, Rows
  <2> HIDE DEF ofClient
  <2> QED
    BY <1>1, <2>1, <2>2
<1>3. ASSUME NEW c \in Walkers, ListScenarios(c) PROVE \E v \in Walk : ofClient(c, v)
  <2>1. PICK order \in Orders.scenarios, filter \in {Titles, FoundTitles}, asked \in Asked :
          Begin(c, "scenarios", order, filter, asked)
    BY <1>3 DEF ListScenarios
  <2>2. "scenarios" \in DOMAIN Orders /\ order \in Orders["scenarios"] /\ filter \in SUBSET Rows
    BY BrowseAssumption DEF Orders, Rows
  <2> HIDE DEF ofClient
  <2> QED
    BY <1>1, <2>1, <2>2
<1>4. ASSUME NEW c \in Walkers, ListPlayers(c) PROVE \E v \in Walk : ofClient(c, v)
  <2>1. PICK order \in Orders.players, asked \in Asked : Begin(c, "players", order, SteamIDs, asked)
    BY <1>4 DEF ListPlayers
  <2>2. "players" \in DOMAIN Orders /\ order \in Orders["players"] /\ SteamIDs \in SUBSET Rows
    BY DEF Orders, Rows
  <2> HIDE DEF ofClient
  <2> QED
    BY <1>1, <2>1, <2>2
<1>5. ASSUME NEW c \in Walkers, SearchPlayers(c) PROVE \E v \in Walk : ofClient(c, v)
  <2> DEFINE v == [NoWalk EXCEPT !.state = "failed", !.list = "players"]
  <2>1. v \in Walk /\ v.state = "failed"
    BY NoWalkType DEF Walk, Orders
  <2>2. UNCHANGED tableVars /\ walk' = [walk EXCEPT ![c] = v]
    BY <1>5 DEF SearchPlayers
  <2> HIDE DEF v
  <2> QED
    BY <2>1, <2>2
<1>6. ASSUME NEW c \in Walkers, Page(c) PROVE \E v \in Walk : ofClient(c, v)
  <2>1. PICK v : /\ walk' = [walk EXCEPT ![c] = v] /\ UNCHANGED tableVars /\ walk[c].state = "asking"
                 /\ v = IF HasMore(walk[c])
                        THEN [[walk[c] EXCEPT !.seen = walk[c].seen \cup Select(walk[c], walk[c].limit)]
                                EXCEPT !.offset = NextOffset(walk[c])]
                        ELSE [[walk[c] EXCEPT !.seen = walk[c].seen \cup Select(walk[c], walk[c].limit)]
                                EXCEPT !.state = "done"]
    BY <1>6 DEF Page
  <2>2. Fits(walk[c])
    BY <2>1 DEF TypeInv, BrowseTypeOK, Fits
  <2>3. Paged(walk[c], v)
    BY <2>1, <2>2 DEF Paged
  <2>4. Fits(v)
    BY <2>2, <2>3, PagedType DEF TypeInv
  <2> QED
    BY <2>1, <2>3, <2>4 DEF Fits
<1>7. ASSUME NEW c \in Walkers, Leave(c) PROVE \E v \in Walk : ofClient(c, v)
  BY <1>7, NoWalkType DEF Leave
<1>8. ASSUME NEW f \in Files, Upload(f)
      PROVE  /\ Insert(f)
             /\ walk' = [c \in Walkers |-> IF walk[c].state = "asking" THEN Marked(walk[c], f)
                                           ELSE walk[c]]
  BY <1>8 DEF Upload, Marked
<1> HIDE DEF ofClient
<1>9. \/ UNCHANGED browseVars
      \/ \E c \in Walkers, v \in Walk : ofClient(c, v)
      \/ \E f \in Files :
           /\ Insert(f)
           /\ walk' = [c \in Walkers |-> IF walk[c].state = "asking" THEN Marked(walk[c], f)
                                         ELSE walk[c]]
  BY <1>2, <1>3, <1>4, <1>5, <1>6, <1>7, <1>8 DEF BrowseNext
<1> QED
  BY <1>9 DEF ofClient

LEMMA TypesAreKept == TypeInv /\ [BrowseNext]_browseVars => TypeInv'
<1> SUFFICES ASSUME TypeInv, [BrowseNext]_browseVars PROVE TypeInv'
  OBVIOUS
<1> DEFINE Typed(w) == w \in Walk /\ (w.state \in {"asking", "done"} => Fits(w))
<1>1. walk \in [Walkers -> Walk] /\ \A c \in Walkers : Typed(walk[c])
  BY DEF TypeInv, BrowseTypeOK, Fits
<1>2. ASSUME walk' \in [Walkers -> Walk], \A c \in Walkers : Typed(walk'[c]) PROVE BrowseTypeOK'
  BY <1>2 DEF BrowseTypeOK, Fits
<1>3. ASSUME UNCHANGED tableVars PROVE TablesOK'
  <2>1. \A list : Table(list)' = Table(list)
    BY <1>3 DEF tableVars, Table
  <2> QED
    BY <1>3, <2>1 DEF TypeInv, TablesOK, tableVars
<1>4. CASE UNCHANGED browseVars
  <2>1. UNCHANGED tableVars /\ walk' = walk
    BY <1>4 DEF browseVars, tableVars
  <2> QED
    BY <1>3, <2>1 DEF TypeInv, BrowseTypeOK
<1>5. ASSUME NEW c \in Walkers, NEW v \in Walk, UNCHANGED tableVars, walk' = [walk EXCEPT ![c] = v],
             v.state \in {"asking", "done"} => Fits(v)
      PROVE  TypeInv'
  BY <1>1, <1>2, <1>3, <1>5 DEF TypeInv
<1>6. ASSUME NEW f \in Files, Insert(f),
             walk' = [c \in Walkers |-> IF walk[c].state = "asking" THEN Marked(walk[c], f) ELSE walk[c]]
      PROVE  TypeInv'
  <2>1. ASSUME NEW w, Typed(w) PROVE Typed(Marked(w, f))
    <3>1. Marked(w, f) \in Walk
      BY <2>1, MarkedType
    <3>2. /\ Marked(w, f).state = w.state
          /\ Marked(w, f).list = w.list /\ Marked(w, f).order = w.order
      BY <2>1 DEF Marked, Walk
    <3> QED
      BY <2>1, <3>1, <3>2 DEF Fits
  <2> HIDE DEF Typed
  <2>2. \A c \in Walkers : Typed(walk'[c])
    BY <1>1, <1>6, <2>1
  <2>3. walk' \in [Walkers -> Walk]
    BY <1>6, <2>2 DEF Typed
  <2> QED
    BY <1>2, <1>6, <2>2, <2>3, InsertKeepsTables DEF TypeInv
<1> QED
  BY <1>4, <1>5, <1>6, StepOfAWalk

\* The requests the services pass on to the lists are well formed, and the
\* tables stay finite.
THEOREM BrowseTypeCorrect == BrowseSpec => [](BrowseTypeOK /\ TablesOK)
<1>1. BrowseInit => TypeInv
  <2> SUFFICES ASSUME BrowseInit PROVE TypeInv
    OBVIOUS
  <2>1. \A list \in DOMAIN Orders : Table(list) = {}
    BY DEF BrowseInit, Empty, Table, Orders
  <2>2. TablesOK
    BY <2>1, FS_EmptySet DEF BrowseInit, Empty, TablesOK, Username
  <2>3. BrowseTypeOK
    BY NoWalkType DEF BrowseInit, BrowseTypeOK
  <2> QED
    BY <2>2, <2>3 DEF TypeInv
<1>2. TypeInv => BrowseTypeOK /\ TablesOK
  BY DEF TypeInv
<1> QED
  BY <1>1, <1>2, TypesAreKept, PTL DEF BrowseSpec

-----------------------------------------------------------------------------
(* What holds of a walk between two pages.                                 *)

\* The rows that were there at the beginning and have no upload since: those
\* whose place is behind the offset were listed.
SteadyOf(w) ==
    /\ w.state = "asking" => w.start \subseteq Found(w)
    /\ w.state = "asking" /\ MovesForward(w) =>
        \A x \in w.start \ w.touched : Place(w, Found(w), x) < w.offset => x \in w.seen
    /\ w.state = "done" /\ MovesForward(w) => w.start \ w.touched \subseteq w.seen

\* While nothing was uploaded, the rows seen are those of the first places.
QuietOf(w) ==
    w.state = "asking" /\ w.touched = {} =>
        /\ Found(w) = w.start /\ w.offset <= Cardinality(Found(w))
        /\ w.seen = Segment(Ordering(w), Found(w), 0, w.offset)

\* The next offset is a place of the table.
PromisedOf(w) == w.state = "asking" /\ w.offset > 0 => w.offset < Cardinality(Found(w))

PagesOf(w) == SteadyOf(w) /\ QuietOf(w) /\ PromisedOf(w)

LEMMA StillTables ==
  ASSUME UNCHANGED tableVars, NEW w
  PROVE  PagesOf(w)' <=> PagesOf(w)
<1>1. \A list, order, x : Table(list)' = Table(list) /\ SortKey(list, order, x)' = SortKey(list, order, x)
  BY DEF tableVars, Table, SortKey
<1>2. \A list, order, x, y : Before(list, order, x, y)' <=> Before(list, order, x, y)
  BY <1>1 DEF Before
<1>3. Found(w)' = Found(w) /\ Ordering(w)' = Ordering(w)
  BY <1>1, <1>2 DEF Found, Ordering
<1>4. \A T, x : Place(w, T, x)' = Place(w, T, x)
  BY <1>2 DEF Place
<1>5. SteadyOf(w)' <=> SteadyOf(w)
  BY <1>3, <1>4 DEF SteadyOf
<1>6. (QuietOf(w)' <=> QuietOf(w)) /\ (PromisedOf(w)' <=> PromisedOf(w))
  BY <1>3 DEF QuietOf, PromisedOf
<1> QED
  BY <1>5, <1>6 DEF PagesOf

LEMMA FirstPage ==
  ASSUME TablesOK, NEW w, Begun(w) \/ w.state \in {"idle", "failed"}
  PROVE  PagesOf(w)
<1>1. CASE Begun(w)
  <2>1. IsFiniteSet(Found(w)) /\ IsOrder(Ordering(w), Found(w)) /\ Cardinality(Found(w)) \in Nat
    BY <1>1, RowsAreOrdered, FS_CardinalityType DEF Begun
  <2>2. \A x \in Found(w) : /\ PlaceIn(Ordering(w), Found(w), x) \in Nat
                            /\ Place(w, Found(w), x) = PlaceIn(Ordering(w), Found(w), x)
    BY <1>1, <2>1, PlaceType, SelectIsSegment DEF Begun
  <2>3. Segment(Ordering(w), Found(w), 0, 0) = {}
    BY <2>2 DEF Segment
  <2>4. SteadyOf(w)
    BY <1>1, <2>2 DEF SteadyOf, Begun
  <2> QED
    BY <1>1, <2>1, <2>3, <2>4 DEF PagesOf, QuietOf, PromisedOf, Begun
<1>2. CASE w.state \in {"idle", "failed"}
  BY <1>2 DEF PagesOf, SteadyOf, QuietOf, PromisedOf
<1> QED
  BY <1>1, <1>2

LEMMA PageKeeps ==
  ASSUME TablesOK, NEW w, NEW v, Paged(w, v), PagesOf(w)
  PROVE  PagesOf(v)
<1> DEFINE T == Found(w)
           R == Ordering(w)
           n == Cardinality(T)
<1>1. Fits(w) /\ w.state = "asking" /\ w.offset \in Nat /\ w.limit \in Nat
  BY BrowseAssumption DEF Paged, Fits, Walk
<1>2. IsFiniteSet(T) /\ IsOrder(R, T) /\ n \in Nat
  BY <1>1, RowsAreOrdered, FS_CardinalityType
<1>3. HasMore(w) <=> w.offset + w.limit < n
  BY <1>1, MoreMeansMore
<1>4. \A x \in T : /\ Place(w, T, x) = PlaceIn(R, T, x)
                   /\ PlaceIn(R, T, x) \in 0 .. n - 1
  BY <1>1, <1>2, SelectIsSegment, PlaceType
<1>5. Select(w, w.limit) = Segment(R, T, w.offset, w.offset + w.limit)
  BY <1>1, SelectIsSegment
<1>6. /\ v.list = w.list /\ v.order = w.order /\ v.filter = w.filter
      /\ v.start = w.start /\ v.touched = w.touched
      /\ v.seen = w.seen \cup Select(w, w.limit)
      /\ HasMore(w) => v.state = "asking" /\ v.offset = w.offset + w.limit
      /\ ~HasMore(w) => v.state = "done"
  <2>1. w \in Walk
    BY <1>1 DEF Fits
  <2>2. CASE HasMore(w)
    BY <2>1, <2>2 DEF Paged, NextOffset, Walk
  <2>3. CASE ~HasMore(w)
    BY <2>1, <2>3 DEF Paged, Walk
  <2> QED
    BY <2>2, <2>3
<1>7. Found(v) = T /\ Ordering(v) = R /\ (MovesForward(v) <=> MovesForward(w))
      /\ \A x : Place(v, T, x) = Place(w, T, x)
  BY <1>6 DEF Found, Ordering, MovesForward, Place
<1> HIDE DEF T, R, n
<1>8. ASSUME NEW x \in T, Place(w, T, x) < w.offset + w.limit,
             Place(w, T, x) < w.offset => x \in w.seen
      PROVE  x \in v.seen
  <2>1. CASE PlaceIn(R, T, x) < w.offset
    BY <1>4, <1>6, <1>8, <2>1
  <2>2. CASE w.offset <= PlaceIn(R, T, x)
    <3>1. PlaceIn(R, T, x) \in w.offset .. (w.offset + w.limit) - 1
      BY <1>1, <1>2, <1>4, <1>8, <2>2
    <3>2. x \in Segment(R, T, w.offset, w.offset + w.limit)
      BY <3>1 DEF Segment
    <3> QED
      BY <1>5, <1>6, <3>2
  <2>3. PlaceIn(R, T, x) \in Int
    BY <1>2, <1>4
  <2> QED
    BY <1>1, <2>1, <2>2, <2>3
<1>9. SteadyOf(v)
  <2>1. w.start \subseteq T
    BY <1>1 DEF PagesOf, SteadyOf, T
  <2>2. ASSUME MovesForward(w), NEW x \in w.start \ w.touched, Place(w, T, x) < w.offset + w.limit
        PROVE  x \in v.seen
    <3>1. Place(w, T, x) < w.offset => x \in w.seen
      BY <1>1, <2>2 DEF PagesOf, SteadyOf, T
    <3> QED
      BY <1>8, <2>1, <2>2, <3>1
  <2>3. CASE HasMore(w)
    BY <1>6, <1>7, <2>1, <2>2, <2>3 DEF SteadyOf
  <2>4. CASE ~HasMore(w)
    <3>1. \A x \in w.start : Place(w, T, x) < w.offset + w.limit
      BY <1>1, <1>2, <1>3, <1>4, <2>1, <2>4
    <3> QED
      BY <1>6, <1>7, <2>2, <2>4, <3>1 DEF SteadyOf
  <2> QED
    BY <2>3, <2>4
<1>10. QuietOf(v)
  <2> SUFFICES ASSUME v.state = "asking", v.touched = {}
               PROVE  /\ T = w.start /\ v.offset <= n
                      /\ v.seen = Segment(R, T, 0, v.offset)
    BY <1>6, <1>7 DEF QuietOf, n
  <2>1. HasMore(w) /\ v.offset = w.offset + w.limit
    BY <1>6
  <2>2. T = w.start /\ w.seen = Segment(R, T, 0, w.offset)
    BY <1>1, <1>6 DEF PagesOf, QuietOf, T, R
  <2>3. \A x \in T : x \in Segment(R, T, 0, v.offset)
          <=> x \in Segment(R, T, 0, w.offset) \/ x \in Segment(R, T, w.offset, w.offset + w.limit)
    BY <1>1, <1>2, <1>4, <2>1 DEF Segment
  <2>4. \A from, end : Segment(R, T, from, end) \subseteq T
    BY DEF Segment
  <2>5. v.seen = Segment(R, T, 0, v.offset)
    BY <1>5, <1>6, <2>2, <2>3, <2>4
  <2> QED
    BY <1>1, <1>2, <1>3, <2>1, <2>2, <2>5
<1>11. PromisedOf(v)
  BY <1>3, <1>6, <1>7 DEF PromisedOf, n
<1> QED
  BY <1>9, <1>10, <1>11 DEF PagesOf

\* An upload moves a row it touches forward, if at all, in the orders that
\* MovesForward names: a row ahead of one it does not touch stays ahead.
LEMMA StaysBehind ==
  ASSUME TablesOK, TablesOK', NEW f \in Files, Insert(f), NEW w, Fits(w), MovesForward(w),
         NEW x \in Found(w), w.list = "players" => x # SteamOf[f],
         w.list = "scenarios" => x # ScenarioOf(f), NEW y \in Found(w),
         Before(w.list, w.order, y, x)
  PROVE  Before(w.list, w.order, y, x)'
<1>1. w.list \in DOMAIN Orders /\ w.list \in {"runs", "players", "scenarios"}
      /\ w.order \in Orders[w.list]
  BY DEF Fits, Walk, Orders
<1>2. CASE w.list = "runs"
  BY <1>2 DEF Before, SortKey
<1>3. CASE w.list = "players"
  <2> DEFINE of(p) == {g \in runs : SteamOf[g] = p}
             kx == Cardinality(of(x))
             ky == Cardinality(of(y))
             lx == Cardinality(of(x)')
             ly == Cardinality(of(y)')
  <2>1. w.order = "run_count_desc"
    BY <1>1, <1>3 DEF MovesForward, Orders
  <2>2. IsFiniteSet(runs) /\ IsFiniteSet(runs') /\ runs' = runs \cup {f}
    BY DEF TablesOK, Table, Orders, Insert
  <2>3. of(x)' = of(x) /\ of(y) \subseteq of(y)'
    BY <1>3, <2>2
  <2>4. IsFiniteSet(of(x)) /\ IsFiniteSet(of(y)) /\ IsFiniteSet(of(y)')
    BY <2>2, FS_Subset
  <2>5. kx \in Nat /\ ky \in Nat /\ ly \in Nat /\ lx = kx /\ ky <= ly
    BY <2>3, <2>4, FS_Subset, FS_CardinalityType
  <2>6. Before(w.list, w.order, y, x) <=>
          \/ ky # NullScore /\ kx = NullScore
          \/ ky # NullScore /\ kx # NullScore /\ ky > kx
          \/ ky = kx /\ RowId[y] < RowId[x]
    BY <1>3, <2>1 DEF Before, SortKey, Descends
  <2>7. Before(w.list, w.order, y, x)' <=>
          \/ ly # NullScore /\ lx = NullScore
          \/ ly # NullScore /\ lx # NullScore /\ ly > lx
          \/ ly = lx /\ RowId[y] < RowId[x]
    BY <1>3, <2>1 DEF Before, SortKey, Descends
  <2>8. kx # NullScore /\ ky # NullScore /\ ly # NullScore
    BY <2>5, BrowseAssumption
  <2> HIDE DEF kx, ky, lx, ly
  <2> QED
    BY <2>5, <2>6, <2>7, <2>8
<1>4. CASE w.list = "scenarios"
  <2>1. x \in Titles /\ y \in Titles /\ ScenarioOf(f) \in Titles
    BY <1>1, <1>4, TableRows, MetadataAssumption DEF Found, ScenarioOf
  <2>2. CASE w.order \in {"name_asc", "name_desc"}
    BY <1>4, <2>2 DEF Before, SortKey
  <2>3. CASE w.order \notin {"name_asc", "name_desc"}
    <3>1. w.order = "run_count_desc"
      BY <1>1, <1>4, <2>3 DEF MovesForward, Orders
    <3>2. /\ runCount[x] \in Nat /\ runCount[y] \in Nat /\ runCount'[y] \in Nat
          /\ runCount'[x] = runCount[x] /\ runCount[y] <= runCount'[y]
      BY <1>4, <2>1 DEF TablesOK, Insert
    <3>3. Before(w.list, w.order, y, x) <=>
            \/ runCount[y] # NullScore /\ runCount[x] = NullScore
            \/ runCount[y] # NullScore /\ runCount[x] # NullScore /\ runCount[y] > runCount[x]
            \/ runCount[y] = runCount[x] /\ RowId[y] < RowId[x]
      BY <1>4, <3>1 DEF Before, SortKey, Descends
    <3>4. Before(w.list, w.order, y, x)' <=>
            \/ runCount'[y] # NullScore /\ runCount'[x] = NullScore
            \/ runCount'[y] # NullScore /\ runCount'[x] # NullScore /\ runCount'[y] > runCount'[x]
            \/ runCount'[y] = runCount'[x] /\ RowId[y] < RowId[x]
      BY <1>4, <3>1 DEF Before, SortKey, Descends
    <3>5. runCount[x] # NullScore /\ runCount[y] # NullScore /\ runCount'[y] # NullScore
      BY <3>2, BrowseAssumption
    <3> QED
      BY <3>2, <3>3, <3>4, <3>5
  <2> QED
    BY <2>2, <2>3
<1> QED
  BY <1>1, <1>2, <1>3, <1>4

LEMMA FoundGrows ==
  ASSUME TablesOK, TablesOK', NEW f \in Files, Insert(f), NEW w \in Walk
  PROVE  Found(w) \subseteq Found(w)' /\ IsFiniteSet(Found(w)) /\ IsFiniteSet(Found(w)')
<1>1. PICK list \in DOMAIN Orders : list = w.list
  BY DEF Walk
<1>2. Found(w) = Table(list) \cap w.filter /\ Found(w)' = Table(list)' \cap w.filter
  BY <1>1 DEF Found, Table
<1>3. Table(list) \subseteq Table(list)' /\ IsFiniteSet(Table(list)) /\ IsFiniteSet(Table(list)')
  BY InsertKeepsTables DEF TablesOK
<1> QED
  BY <1>2, <1>3, FS_Subset

LEMMA UploadKeeps ==
  ASSUME TablesOK, TablesOK', NEW f \in Files, Insert(f), NEW w \in Walk, w.state = "asking" => Fits(w),
         PagesOf(w), NEW v, v = IF w.state = "asking" THEN Marked(w, f) ELSE w
  PROVE  PagesOf(v)'
<1>1. CASE w.state # "asking"
  BY <1>1 DEF PagesOf, SteadyOf, QuietOf, PromisedOf
<1>2. CASE w.state = "asking"
  <2> DEFINE T == Found(w)
  <2>0. PICK U : U = Found(w)'
    OBVIOUS
  <2>1. v = Marked(w, f) /\ Fits(w) /\ w.offset \in Nat
    BY <1>2 DEF Walk
  <2>2. /\ v.state = "asking" /\ v.list = w.list /\ v.order = w.order /\ v.filter = w.filter
        /\ v.offset = w.offset /\ v.seen = w.seen /\ v.start = w.start
        /\ v.touched = w.touched \cup ({SteamOf[f]} \cap SteamIDs) \cup {ScenarioOf(f)}
    BY <1>2, <2>1 DEF Marked, Walk
  <2>3. w.list \in DOMAIN Orders
    BY DEF Walk
  <2>4. T \subseteq U /\ IsFiniteSet(T) /\ IsFiniteSet(U)
    BY <2>0, FoundGrows
  <2>5. Found(v)' = U /\ (MovesForward(v) <=> MovesForward(w))
        /\ \A x : Place(v, U, x)' = Place(w, U, x)'
    BY <2>0, <2>2 DEF Found, Table, MovesForward, Place
  <2>6. Cardinality(T) \in Nat /\ Cardinality(U) \in Nat /\ Cardinality(T) <= Cardinality(U)
    BY <2>4, FS_Subset, FS_CardinalityType
  <2>7. ASSUME MovesForward(w), NEW x \in T, x \notin v.touched
        PROVE  /\ Place(w, T, x) \in Nat /\ Place(w, U, x)' \in Nat
               /\ Place(w, T, x) <= Place(w, U, x)'
    <3> DEFINE old == {y \in T : Before(w.list, w.order, y, x)}
               new == {y \in U : Before(w.list, w.order, y, x)'}
    <3>1. x # ScenarioOf(f) /\ (w.list = "players" => x # SteamOf[f])
      <4>1. w.list = "players" => x \in SteamIDs
        BY <2>3, TableRows DEF Found
      <4> QED
        BY <2>2, <2>7, <4>1
    <3>2. old \subseteq new
      BY <2>0, <2>1, <2>4, <2>7, <3>1, StaysBehind
    <3>3. IsFiniteSet(old) /\ IsFiniteSet(new)
      BY <2>4, FS_Subset
    <3>4. Cardinality(old) \in Nat /\ Cardinality(new) \in Nat /\ Cardinality(old) <= Cardinality(new)
      BY <3>2, <3>3, FS_Subset, FS_CardinalityType
    <3>5. Place(w, T, x) = Cardinality(old) /\ Place(w, U, x)' = Cardinality(new)
      BY DEF Place
    <3> QED
      BY <3>4, <3>5
  <2> HIDE DEF T
  <2>8. w.start \subseteq T /\ w.start \subseteq U
    BY <1>2, <2>4 DEF PagesOf, SteadyOf, T
  <2>9. SteadyOf(v)'
    <3>1. ASSUME MovesForward(w), NEW x \in w.start \ v.touched, Place(w, U, x)' < w.offset
          PROVE  x \in w.seen
      <4>1. x \in T /\ x \in w.start \ w.touched
        BY <2>2, <2>8
      <4>2. Place(w, T, x) < w.offset
        BY <2>1, <2>7, <3>1, <4>1
      <4> QED
        BY <1>2, <3>1, <4>1, <4>2 DEF PagesOf, SteadyOf, T
    <3> QED
      BY <2>0, <2>2, <2>5, <2>8, <3>1 DEF SteadyOf
  <2>10. QuietOf(v)'
    BY <2>2 DEF QuietOf
  <2>11. PromisedOf(v)'
    BY <1>2, <2>1, <2>2, <2>5, <2>6 DEF PagesOf, PromisedOf, T
  <2> QED
    BY <2>9, <2>10, <2>11 DEF PagesOf
<1> QED
  BY <1>1, <1>2

-----------------------------------------------------------------------------
(* The walks of the specification.                                         *)

PagesInv == \A c \in Walkers : PagesOf(walk[c])

BrowseInv == TypeInv /\ PagesInv

LEMMA PagesAreKept == BrowseInv /\ [BrowseNext]_browseVars => PagesInv'
<1> SUFFICES ASSUME TypeInv, PagesInv, [BrowseNext]_browseVars, TypeInv', NEW c \in Walkers
             PROVE  PagesOf(walk[c])'
  BY TypesAreKept DEF BrowseInv, PagesInv
<1>1. PICK w, v : w = walk[c] /\ v = walk'[c]
  OBVIOUS
<1>2. /\ TablesOK /\ TablesOK' /\ walk \in [Walkers -> Walk]
      /\ w \in Walk /\ PagesOf(w) /\ (w.state = "asking" => Fits(w))
  BY <1>1 DEF TypeInv, BrowseTypeOK, Fits, PagesInv
<1>3. ASSUME UNCHANGED tableVars, PagesOf(v) PROVE PagesOf(v)'
  BY <1>3, StillTables
<1>4. CASE UNCHANGED browseVars
  <2>1. UNCHANGED tableVars /\ v = w
    BY <1>1, <1>4 DEF browseVars, tableVars
  <2> QED
    BY <1>1, <1>2, <1>3, <2>1
<1>5. ASSUME NEW d \in Walkers, NEW u \in Walk, UNCHANGED tableVars, walk' = [walk EXCEPT ![d] = u],
             Begun(u) \/ Paged(walk[d], u) \/ u.state \in {"idle", "failed"}
      PROVE  PagesOf(v)'
  <2>1. CASE d = c
    <3>1. v = u
      BY <1>1, <1>2, <1>5, <2>1
    <3>2. PagesOf(u)
      BY <1>1, <1>2, <1>5, <2>1, FirstPage, PageKeeps
    <3> QED
      BY <1>3, <1>5, <3>1, <3>2
  <2>2. CASE d # c
    <3>1. v = w
      BY <1>1, <1>2, <1>5, <2>2
    <3> QED
      BY <1>2, <1>3, <1>5, <3>1
  <2> QED
    BY <2>1, <2>2
<1>6. ASSUME NEW f \in Files, Insert(f),
             walk' = [d \in Walkers |-> IF walk[d].state = "asking" THEN Marked(walk[d], f) ELSE walk[d]]
      PROVE  PagesOf(v)'
  <2>1. v = IF w.state = "asking" THEN Marked(w, f) ELSE w
    BY <1>1, <1>6
  <2> QED
    BY <1>2, <1>6, <2>1, UploadKeeps
<1>7. \/ UNCHANGED browseVars
      \/ \E d \in Walkers, u \in Walk :
           /\ UNCHANGED tableVars /\ walk' = [walk EXCEPT ![d] = u]
           /\ Begun(u) \/ Paged(walk[d], u) \/ u.state \in {"idle", "failed"}
      \/ \E f \in Files :
           /\ Insert(f)
           /\ walk' = [d \in Walkers |-> IF walk[d].state = "asking" THEN Marked(walk[d], f)
                                         ELSE walk[d]]
  BY StepOfAWalk, Zenon
<1> QED
  BY <1>1, <1>4, <1>5, <1>6, <1>7

LEMMA BrowseInvariant == BrowseSpec => []BrowseInv
<1>1. BrowseInit => PagesInv
  BY NoWalkType DEF BrowseInit, PagesInv, PagesOf, SteadyOf, QuietOf, PromisedOf
<1>2. TypeInv /\ PagesInv /\ [BrowseNext]_browseVars => PagesInv'
  BY PagesAreKept DEF BrowseInv
<1>3. TypeInv <=> BrowseTypeOK /\ TablesOK
  BY DEF TypeInv
<1>4. TypeInv /\ PagesInv => BrowseInv
  BY DEF BrowseInv
<1> QED
  BY <1>1, <1>2, <1>3, <1>4, BrowseTypeCorrect, PTL DEF BrowseSpec

\* A finished walk listed every row that was there when it began and had no
\* upload since, in the orders in which an upload only moves rows forward.
THEOREM SteadyRowsStayListed == BrowseSpec => []SteadyRowsAreListed
<1>1. BrowseInv => SteadyRowsAreListed
  BY DEF BrowseInv, PagesInv, PagesOf, SteadyOf, SteadyRowsAreListed
<1> QED
  BY <1>1, BrowseInvariant, PTL

\* While a list stands still its pages neither overlap nor leave a gap.
THEOREM QuietPagesStayApart == BrowseSpec => []QuietPagesDoNotOverlap
<1>1. BrowseInv => QuietPagesDoNotOverlap
  <2> SUFFICES ASSUME TypeInv, PagesInv, NEW c \in Walkers, NEW w, w = walk[c],
                      w.state = "asking", w.touched = {}
               PROVE  Cardinality(w.seen) = w.offset
    BY DEF BrowseInv, QuietPagesDoNotOverlap
  <2>1. TablesOK /\ Fits(w) /\ QuietOf(w)
    BY DEF TypeInv, BrowseTypeOK, Fits, PagesInv, PagesOf
  <2>2. IsFiniteSet(Found(w)) /\ IsOrder(Ordering(w), Found(w))
    BY <2>1, RowsAreOrdered
  <2>3. /\ w.offset \in Nat /\ w.offset <= Cardinality(Found(w))
        /\ w.seen = Segment(Ordering(w), Found(w), 0, w.offset)
    BY <2>1 DEF QuietOf, Fits, Walk
  <2>4. Cardinality(Segment(Ordering(w), Found(w), 0, w.offset)) = w.offset - 0
    BY <2>2, <2>3, SegmentSize
  <2> QED
    BY <2>3, <2>4
<1> QED
  BY <1>1, BrowseInvariant, PTL

\* The page has_more promised has a row, whatever was uploaded since.
THEOREM PromisedPageStaysThere == BrowseSpec => []PromisedPageIsThere
<1>1. BrowseInv => PromisedPageIsThere
  <2> SUFFICES ASSUME TypeInv, PagesInv, NEW c \in Walkers, NEW w, w = walk[c],
                      w.state = "asking", w.offset > 0
               PROVE  Select(w, w.limit) # {}
    BY DEF BrowseInv, PromisedPageIsThere
  <2>1. TablesOK /\ Fits(w) /\ PromisedOf(w)
    BY DEF TypeInv, BrowseTypeOK, Fits, PagesInv, PagesOf
  <2>2. IsFiniteSet(Found(w)) /\ IsOrder(Ordering(w), Found(w)) /\ Cardinality(Found(w)) \in Nat
    BY <2>1, RowsAreOrdered, FS_CardinalityType
  <2>3. w.offset \in Nat /\ w.limit \in Nat \ {0} /\ w.offset < Cardinality(Found(w))
    BY <2>1, BrowseAssumption DEF PromisedOf, Fits, Walk
  <2>4. \A k \in 0 .. Cardinality(Found(w)) - 1 :
          \E x \in Found(w) : PlaceIn(Ordering(w), Found(w), x) = k
    <3>1. [x \in Found(w) |-> PlaceIn(Ordering(w), Found(w), x)]
            \in Bijection(Found(w), 0 .. Cardinality(Found(w)) - 1)
      BY <2>2, PlacesAreTaken
    <3> QED
      BY <3>1 DEF Bijection, Surjection
  <2>5. PICK x \in Found(w) : PlaceIn(Ordering(w), Found(w), x) = w.offset
    BY <2>2, <2>3, <2>4
  <2>6. w.offset \in w.offset .. (w.offset + w.limit) - 1
    BY <2>3
  <2>7. x \in Segment(Ordering(w), Found(w), w.offset, w.offset + w.limit)
    BY <2>5, <2>6 DEF Segment
  <2> QED
    BY <2>1, <2>3, <2>7, SelectIsSegment
<1> QED
  BY <1>1, BrowseInvariant, PTL

=============================================================================
