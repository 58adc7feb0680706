-------------------------- MODULE Leaderboard_proofs --------------------------
(***************************************************************************)
(* Pages of a leaderboard for every board, limit and offset.  The order by *)
(* rank is unique when the ranks differ, because the place of a player is  *)
(* the number of players with a lower rank; the pages of a quiet walk are  *)
(* then adjoining slices of one sequence.                                  *)
(***************************************************************************)
EXTENDS Leaderboard, FiniteSetTheorems, SequenceTheorems, TLAPS

\* A board is a finite map from players to integers.
IsBoard(b) ==
    DOMAIN b \subseteq Players /\ IsFiniteSet(DOMAIN b) /\ \A p \in DOMAIN b : b[p] \in Int

Below(b, p) == {q \in DOMAIN b : b[q] < b[p]}

RanksDiffer(b) == \A p, q \in DOMAIN b : p # q => b[p] # b[q]

LEMMA OrderType ==
  ASSUME NEW b, IsBoard(b), NEW s \in Orders(b)
  PROVE  /\ s \in Seq(Players) /\ Len(s) = Cardinality(DOMAIN b)
         /\ Cardinality(DOMAIN b) \in Nat
         /\ s \in [1 .. Cardinality(DOMAIN b) -> DOMAIN b]
<1>1. Cardinality(DOMAIN b) \in Nat
  BY FS_CardinalityType DEF IsBoard
<1>2. s \in [1 .. Cardinality(DOMAIN b) -> DOMAIN b]
  BY DEF Orders
<1>3. s \in [1 .. Cardinality(DOMAIN b) -> Players]
  BY <1>2 DEF IsBoard
<1>4. s \in Seq(Players)
  BY <1>1, <1>3, SeqDef
<1> QED
  BY <1>1, <1>2, <1>4, LenProperties

LEMMA OrderIsOnto ==
  ASSUME NEW b, IsBoard(b), NEW s \in Orders(b), NEW p \in DOMAIN b
  PROVE  \E i \in 1 .. Cardinality(DOMAIN b) : s[i] = p
<1> DEFINE n == Cardinality(DOMAIN b)
<1>1. n \in Nat /\ s \in [1 .. n -> DOMAIN b]
  BY OrderType
<1>2. s \in Injection(1 .. n, DOMAIN b)
  BY <1>1 DEF Orders, Injection, IsInjective
<1>3. Cardinality(1 .. n) = n
  BY <1>1, FS_Interval
<1>4. s \in Surjection(1 .. n, DOMAIN b)
  BY <1>2, <1>3, FS_Injection DEF IsBoard
<1> QED
  BY <1>4 DEF Surjection

LEMMA PlaceIsCount ==
  ASSUME NEW b, IsBoard(b), RanksDiffer(b), NEW s \in Orders(b),
         NEW i \in 1 .. Cardinality(DOMAIN b)
  PROVE  Cardinality(Below(b, s[i])) = i - 1
<1> DEFINE n == Cardinality(DOMAIN b)
           first == [j \in 1 .. i - 1 |-> s[j]]
<1>1. n \in Nat /\ s \in [1 .. n -> DOMAIN b]
  BY OrderType
<1>2. \A j \in 1 .. n : s[j] \in DOMAIN b /\ b[s[j]] \in Int
  BY <1>1 DEF IsBoard
<1>3. \A j, k \in 1 .. n : j < k => b[s[j]] < b[s[k]]
  <2> SUFFICES ASSUME NEW j \in 1 .. n, NEW k \in 1 .. n, j < k PROVE b[s[j]] < b[s[k]]
    OBVIOUS
  <2>1. s[j] # s[k] /\ b[s[j]] <= b[s[k]]
    BY <1>1 DEF Orders
  <2> QED
    BY <1>2, <2>1 DEF RanksDiffer
<1>4. \A j \in 1 .. i - 1 : s[j] \in Below(b, s[i])
  BY <1>1, <1>2, <1>3 DEF Below
<1>5. ASSUME NEW q \in Below(b, s[i]) PROVE \E j \in 1 .. i - 1 : s[j] = q
  <2>1. PICK j \in 1 .. n : s[j] = q
    BY OrderIsOnto DEF Below
  <2>2. ~(b[s[i]] <= b[s[j]])
    BY <1>2, <2>1 DEF Below
  <2>3. ~(i < j) /\ i # j
    BY <1>2, <1>3, <2>2
  <2> QED
    BY <1>1, <2>1, <2>3
<1>6. first \in Injection(1 .. i - 1, Below(b, s[i]))
  BY <1>1, <1>4 DEF Orders, Injection, IsInjective
<1>7. first \in Surjection(1 .. i - 1, Below(b, s[i]))
  BY <1>4, <1>5 DEF Surjection
<1>8. ExistsBijection(1 .. i - 1, Below(b, s[i]))
  BY <1>6, <1>7 DEF ExistsBijection, Bijection
<1> QED
  BY <1>1, <1>8, FS_CountingElements

LEMMA OrderIsUnique ==
  ASSUME NEW b, IsBoard(b), RanksDiffer(b), NEW s \in Orders(b), NEW u \in Orders(b)
  PROVE  s = u
<1> DEFINE n == Cardinality(DOMAIN b)
<1>1. n \in Nat /\ s \in [1 .. n -> DOMAIN b] /\ u \in [1 .. n -> DOMAIN b]
  BY OrderType
<1>2. ASSUME NEW i \in 1 .. n PROVE s[i] = u[i]
  <2>1. PICK k \in 1 .. n : u[k] = s[i]
    BY <1>1, OrderIsOnto
  <2>2. i - 1 = k - 1
    BY <2>1, PlaceIsCount
  <2> QED
    BY <2>1, <2>2
<1> QED
  BY <1>1, <1>2

\* Slices of a sequence, and how two of them join.
LEMMA SliceType ==
  ASSUME NEW s \in Seq(Players), NEW offset \in Nat, NEW n \in Nat
  PROVE  /\ Slice(s, offset, n) \in Seq(Players)
         /\ Len(Slice(s, offset, n)) =
                IF Len(s) <= offset THEN 0
                ELSE IF offset + n < Len(s) THEN n ELSE Len(s) - offset
         /\ \A i \in 1 .. Len(Slice(s, offset, n)) : Slice(s, offset, n)[i] = s[offset + i]
<1> DEFINE end == IF offset + n < Len(s) THEN offset + n ELSE Len(s)
<1>1. Len(s) \in Nat /\ \A i \in 1 .. Len(s) : s[i] \in Players
  BY LenProperties, ElementOfSeq
<1>2. end \in Int /\ offset + 1 \in Int /\ \A i \in offset + 1 .. end : s[i] \in Players
  BY <1>1
<1>3. /\ SubSeq(s, offset + 1, end) \in Seq(Players)
      /\ Len(SubSeq(s, offset + 1, end)) =
            IF offset + 1 <= end THEN end - (offset + 1) + 1 ELSE 0
      /\ \A i \in 1 .. end - (offset + 1) + 1 :
            SubSeq(s, offset + 1, end)[i] = s[offset + 1 + i - 1]
  BY <1>2, SubSeqProperties
<1> HIDE DEF end
<1>4. end = IF offset + n < Len(s) THEN offset + n ELSE Len(s)
  BY DEF end
<1>5. Slice(s, offset, n) = SubSeq(s, offset + 1, end)
  BY <1>4 DEF Slice
<1>6. Len(Slice(s, offset, n)) =
        IF Len(s) <= offset THEN 0 ELSE IF offset + n < Len(s) THEN n ELSE Len(s) - offset
  BY <1>1, <1>3, <1>4, <1>5
<1>7. \A i \in 1 .. Len(Slice(s, offset, n)) : Slice(s, offset, n)[i] = s[offset + i]
  BY <1>1, <1>3, <1>4, <1>5, <1>6
<1> QED
  BY <1>3, <1>5, <1>6, <1>7

LEMMA JoinSubSeq ==
  ASSUME NEW s \in Seq(Players), NEW from \in Nat, NEW mid \in Nat, NEW end \in Nat,
         from <= mid, mid <= end, end <= Len(s)
  PROVE  SubSeq(s, from + 1, mid) \o SubSeq(s, mid + 1, end) = SubSeq(s, from + 1, end)
<1>1. Len(s) \in Nat /\ \A i \in 1 .. Len(s) : s[i] \in Players
  BY LenProperties, ElementOfSeq
<1>2. /\ SubSeq(s, from + 1, mid) \in Seq(Players)
      /\ Len(SubSeq(s, from + 1, mid)) = mid - from
      /\ \A i \in 1 .. mid - from : SubSeq(s, from + 1, mid)[i] = s[from + i]
  <2>1. \A i \in from + 1 .. mid : s[i] \in Players
    BY <1>1
  <2> QED
    BY <2>1, SubSeqProperties
<1>3. /\ SubSeq(s, mid + 1, end) \in Seq(Players)
      /\ Len(SubSeq(s, mid + 1, end)) = end - mid
      /\ \A i \in 1 .. end - mid : SubSeq(s, mid + 1, end)[i] = s[mid + i]
  <2>1. \A i \in mid + 1 .. end : s[i] \in Players
    BY <1>1
  <2> QED
    BY <2>1, SubSeqProperties
<1>4. /\ SubSeq(s, from + 1, end) \in Seq(Players)
      /\ Len(SubSeq(s, from + 1, end)) = end - from
      /\ \A i \in 1 .. end - from : SubSeq(s, from + 1, end)[i] = s[from + i]
  <2>1. \A i \in from + 1 .. end : s[i] \in Players
    BY <1>1
  <2> QED
    BY <2>1, SubSeqProperties
<1> DEFINE left == SubSeq(s, from + 1, mid)
           right == SubSeq(s, mid + 1, end)
<1> HIDE DEF left, right
<1>5. /\ left \o right \in Seq(Players)
      /\ Len(left \o right) = end - from
      /\ \A i \in 1 .. end - from : (left \o right)[i] = s[from + i]
  <2>1. left \in Seq(Players) /\ right \in Seq(Players)
    BY <1>2, <1>3 DEF left, right
  <2>2. Len(left) = mid - from /\ Len(right) = end - mid
    BY <1>2, <1>3 DEF left, right
  <2>3. /\ left \o right \in Seq(Players)
        /\ Len(left \o right) = Len(left) + Len(right)
        /\ \A i \in 1 .. Len(left) + Len(right) :
                (left \o right)[i] = IF i <= Len(left) THEN left[i] ELSE right[i - Len(left)]
    BY <2>1, ConcatProperties
  <2>4. ASSUME NEW i \in 1 .. end - from PROVE (left \o right)[i] = s[from + i]
    <3>1. CASE i <= mid - from
      BY <1>2, <2>2, <2>3, <3>1 DEF left
    <3>2. CASE ~(i <= mid - from)
      <4>1. i - (mid - from) \in 1 .. end - mid /\ mid + (i - (mid - from)) = from + i
        BY <3>2
      <4>2. right[i - (mid - from)] = s[from + i]
        BY <1>3, <4>1 DEF right
      <4> QED
        BY <2>2, <2>3, <3>2, <4>2
    <3> QED
      BY <3>1, <3>2
  <2> QED
    BY <2>2, <2>3, <2>4
<1>6. left \o right = SubSeq(s, from + 1, end)
  BY <1>4, <1>5, SeqEqual
<1> QED
  BY <1>6 DEF left, right

\* What one page adds to the pages before it.
LEMMA NextPage ==
  ASSUME NEW s \in Seq(Players), NEW from \in Nat, NEW offset \in Nat,
         NEW limit \in Nat \ {0},
         from <= offset, from < offset => offset <= Len(s)
  PROVE  LET rows == Slice(s, offset, limit + 1)
             entries == Slice(rows, 0, limit)
             got == SubSeq(s, from + 1, offset)
         IN  /\ Len(rows) > limit =>
                    /\ Len(entries) = limit /\ offset + limit <= Len(s)
                    /\ got \o entries = SubSeq(s, from + 1, offset + limit)
             /\ Len(rows) <= limit => got \o entries = SubSeq(s, from + 1, Len(s))
<1> DEFINE rows == Slice(s, offset, limit + 1)
           entries == Slice(rows, 0, limit)
           end == IF offset + limit < Len(s) THEN offset + limit ELSE Len(s)
<1>1. Len(s) \in Nat
  BY LenProperties
<1>2. /\ rows \in Seq(Players)
      /\ Len(rows) = IF Len(s) <= offset THEN 0
                     ELSE IF offset + (limit + 1) < Len(s) THEN limit + 1 ELSE Len(s) - offset
      /\ \A i \in 1 .. Len(rows) : rows[i] = s[offset + i]
  <2>1. limit + 1 \in Nat
    OBVIOUS
  <2> QED
    BY <2>1, SliceType
<1> HIDE DEF rows
<1>3. /\ entries \in Seq(Players)
      /\ Len(entries) = IF Len(rows) <= 0 THEN 0
                        ELSE IF 0 + limit < Len(rows) THEN limit ELSE Len(rows) - 0
      /\ \A i \in 1 .. Len(entries) : entries[i] = rows[0 + i]
  <2>1. 0 \in Nat /\ limit \in Nat
    OBVIOUS
  <2> QED
    BY <1>2, <2>1, SliceType
<1> HIDE DEF entries, end
<1>4. end \in Nat /\ end = IF offset + limit < Len(s) THEN offset + limit ELSE Len(s)
  BY <1>1 DEF end
<1>5. CASE Len(s) <= offset
  <2>1. Len(rows) = 0 /\ Len(entries) = 0
    BY <1>2, <1>3, <1>5
  <2>2. entries = << >>
    BY <1>3, <2>1, EmptySeq
  <2>3. SubSeq(s, from + 1, offset) = SubSeq(s, from + 1, Len(s))
    <3>1. CASE from = offset
      BY <1>1, <1>5, <3>1, SubSeqEmpty
    <3>2. CASE from < offset
      <4>1. offset = Len(s)
        BY <1>1, <1>5, <3>2
      <4> QED
        BY <4>1
    <3> QED
      BY <3>1, <3>2
  <2>4. SubSeq(s, from + 1, offset) \in Seq(Players)
    <3>1. \A i \in from + 1 .. offset : s[i] \in Players
      BY <1>1, <1>5, ElementOfSeq
    <3> QED
      BY <3>1, SubSeqProperties
  <2>5. SubSeq(s, from + 1, offset) \o entries = SubSeq(s, from + 1, offset)
    BY <2>2, <2>4, ConcatEmptySeq
  <2> QED
    BY <2>1, <2>3, <2>5 DEF rows, entries
<1>6. CASE ~(Len(s) <= offset)
  <2>1. offset <= end /\ end <= Len(s)
    BY <1>1, <1>4, <1>6
  <2>2. Len(entries) = end - offset /\ \A i \in 1 .. end - offset : entries[i] = s[offset + i]
    BY <1>1, <1>2, <1>3, <1>4, <1>6
  <2>3. entries = SubSeq(s, offset + 1, end)
    <3>1. \A i \in offset + 1 .. end : s[i] \in Players
      BY <1>1, <1>4, <2>1, ElementOfSeq
    <3>2. /\ SubSeq(s, offset + 1, end) \in Seq(Players)
          /\ Len(SubSeq(s, offset + 1, end)) = end - offset
          /\ \A i \in 1 .. end - offset : SubSeq(s, offset + 1, end)[i] = s[offset + i]
      BY <1>4, <2>1, <3>1, SubSeqProperties
    <3> QED
      BY <1>3, <2>2, <3>2, SeqEqual
  <2>4. SubSeq(s, from + 1, offset) \o SubSeq(s, offset + 1, end) = SubSeq(s, from + 1, end)
    <3>1. end \in Nat
      BY <1>4
    <3> QED
      BY <2>1, <3>1, JoinSubSeq, Zenon
  <2>5. Len(rows) > limit => end = offset + limit
    BY <1>1, <1>2, <1>4, <1>6
  <2>6. Len(rows) <= limit => end = Len(s)
    BY <1>1, <1>2, <1>4, <1>6
  <2>7. Len(rows) > limit =>
            /\ Len(entries) = limit /\ offset + limit <= Len(s)
            /\ SubSeq(s, from + 1, offset) \o entries = SubSeq(s, from + 1, offset + limit)
    <3> SUFFICES ASSUME Len(rows) > limit
                 PROVE  /\ Len(entries) = limit /\ offset + limit <= Len(s)
                        /\ SubSeq(s, from + 1, offset) \o entries
                                = SubSeq(s, from + 1, offset + limit)
      OBVIOUS
    <3>1. end = offset + limit
      BY <2>5
    <3>2. SubSeq(s, from + 1, offset) \o entries = SubSeq(s, from + 1, end)
      BY <2>3, <2>4
    <3>3. Len(entries) = limit
      <4>1. Len(entries) = end - offset
        BY <2>2
      <4> QED
        BY <3>1, <4>1
    <3>4. offset + limit <= Len(s)
      BY <2>1, <3>1
    <3>5. SubSeq(s, from + 1, offset) \o entries = SubSeq(s, from + 1, offset + limit)
      BY <3>1, <3>2
    <3> QED
      BY <3>3, <3>4, <3>5
  <2>8. Len(rows) <= limit =>
            SubSeq(s, from + 1, offset) \o entries = SubSeq(s, from + 1, Len(s))
    <3> SUFFICES ASSUME Len(rows) <= limit
                 PROVE  SubSeq(s, from + 1, offset) \o entries = SubSeq(s, from + 1, Len(s))
      OBVIOUS
    <3>1. end = Len(s)
      BY <2>6
    <3>2. SubSeq(s, from + 1, offset) \o entries = SubSeq(s, from + 1, end)
      BY <2>3, <2>4
    <3> QED
      BY <3>1, <3>2
  <2> QED
    BY <2>7, <2>8 DEF rows, entries
<1> QED
  BY <1>5, <1>6

-----------------------------------------------------------------------------
(* Types.                                                                  *)

Stages == {"idle", "resolve", "date", "page", "respond", "done"}

Fields ==
    {"stage", "code", "request", "since", "limit", "offset", "target", "refreshedAt", "rows",
     "drawn", "got"}

IsWalk(w, now) ==
    /\ DOMAIN w = Fields
    /\ w.stage \in Stages /\ w.code \in {0, 200, 400, 404, 500} /\ w.request \in Requests
    /\ w.since \in 0 .. now /\ w.drawn \in 0 .. now /\ w.refreshedAt \in {Null} \cup 0 .. now
    /\ w.limit \in 1 .. MaxLimit /\ w.offset \in Nat /\ w.target \in Int
    /\ w.rows \in Seq(Players) /\ w.got \in Seq(Players)

TypeInv == tables \in TableStates /\ version \in Nat /\ IsWalk(walk, version)

LEMMA BoardsAreBoards ==
  ASSUME TypeInv, NEW kind \in Kinds, NEW t
  PROVE  IsBoard(Board(kind, t))
<1>1. CASE t \in DOMAIN tables.boards[kind]
  BY <1>1, LeaderboardAssumption DEF TypeInv, Board, IsBoard
<1>2. CASE t \notin DOMAIN tables.boards[kind]
  BY <1>2, FS_EmptySet DEF Board, IsBoard
<1> QED
  BY <1>1, <1>2

LEMMA RequestType ==
  ASSUME TypeInv
  PROVE  walk.request \in Requests /\ walk.request.kind \in Kinds
BY LeaderboardAssumption DEF TypeInv, IsWalk

LEMMA TypeInit == WorkerInit /\ LeaderboardInit => TypeInv
<1> SUFFICES ASSUME WorkerInit, LeaderboardInit PROVE TypeInv
  OBVIOUS
<1>1. (CHOOSE r \in Requests : TRUE) \in Requests
  BY LeaderboardAssumption
<1>2. << >> \in Seq(Players)
  BY EmptySeq
<1>3. DefaultLimit \in 1 .. MaxLimit
  BY LeaderboardAssumption
<1> QED
  BY <1>1, <1>2, <1>3 DEF WorkerInit, LeaderboardInit, NoWalk, TypeInv, IsWalk, Fields, Stages, Null

LEMMA TypeStep == TypeInv /\ [LeaderboardNext]_leaderboardVars => TypeInv'
<1> SUFFICES ASSUME TypeInv, [LeaderboardNext]_leaderboardVars PROVE TypeInv'
  OBVIOUS
<1>0. << >> \in Seq(Players)
  BY EmptySeq
<1>1. CASE Publish /\ UNCHANGED walk
  BY <1>1 DEF Publish, TypeInv, IsWalk, Null
<1>2. CASE UNCHANGED leaderboardVars
  BY <1>2 DEF leaderboardVars, TypeInv
<1>3. ASSUME LeaderboardStep, UNCHANGED workerVars PROVE TypeInv'
  <2>0. tables' = tables /\ version' = version
    BY <1>3 DEF workerVars
  <2> SUFFICES IsWalk(walk', version)
    BY <2>0 DEF TypeInv
  <2>9. version \in Nat /\ IsWalk(walk, version)
    BY DEF TypeInv
  <2> USE DEF IsWalk, Fields, Stages
  <2>1. ASSUME NEW r \in Requests, AskBoard(r) PROVE IsWalk(walk', version)
    <3>1. NormalLimit(r.limit) \in 1 .. MaxLimit /\ NormalOffset(r.offset) \in Nat
      BY LeaderboardAssumption DEF NormalLimit, NormalOffset
    <3> QED
      BY <1>0, <2>9, <2>1, <3>1 DEF AskBoard
  <2>2. CASE Resolve
    <3>1. \A t \in Matches(walk.request) : t \in Int
      BY WorkerAssumption DEF Matches, Targets, TypeInv
    <3> QED
      BY <2>9, <2>2, <3>1 DEF Resolve, Then
  <2>3. CASE NoTarget
    BY <2>9, <2>3 DEF NoTarget
  <2>4. CASE FetchRefreshedAt
    BY <2>9, <2>4 DEF FetchRefreshedAt, Then
  <2>5. CASE FetchRows
    <3>1. PICK order \in Orders(Board(walk.request.kind, walk.target)) :
            walk' = [walk EXCEPT !.stage = Then("page"), !.drawn = version,
                        !.rows = Slice(order, walk.offset, walk.limit + 1)]
      BY <2>5 DEF FetchRows
    <3>2. order \in Seq(Players)
      BY BoardsAreBoards, RequestType, OrderType
    <3>3. walk.offset \in Nat /\ walk.limit + 1 \in Nat
      BY <2>9, LeaderboardAssumption
    <3>4. Slice(order, walk.offset, walk.limit + 1) \in Seq(Players)
      BY <3>2, <3>3, SliceType
    <3>5. version \in 0 .. version
      BY <2>9
    <3> QED
      BY <2>9, <3>1, <3>4, <3>5 DEF Then
  <2>6. CASE RespondPage
    <3>1. walk.limit \in Nat /\ 0 \in Nat /\ walk.rows \in Seq(Players)
      BY <2>9, LeaderboardAssumption
    <3>2. Entries \in Seq(Players)
      BY <3>1, SliceType DEF Entries
    <3>3. walk.got \in Seq(Players) /\ walk.got \o Entries \in Seq(Players)
      BY <2>9, <3>2, ConcatProperties
    <3>4. Len(Entries) \in Nat
      BY <3>2, LenProperties
    <3>5. NextOffset \in Nat
      BY <2>9, <3>4 DEF NextOffset
    <3> QED
      BY <1>0, <2>9, <2>6, <3>3, <3>5 DEF RespondPage
  <2>7. CASE BoardFails
    BY <2>9, <2>7 DEF BoardFails
  <2>8. CASE Leave
    <3>1. walk' = NoWalk
      BY <2>8 DEF Leave
    <3>2. (CHOOSE r \in Requests : TRUE) \in Requests
      BY LeaderboardAssumption
    <3>3. DefaultLimit \in 1 .. MaxLimit
      BY LeaderboardAssumption
    <3> QED
      BY <1>0, <2>9, <3>1, <3>2, <3>3 DEF NoWalk, Null
  <2> QED
    BY <1>3, <2>1, <2>2, <2>3, <2>4, <2>5, <2>6, <2>7, <2>8 DEF LeaderboardStep, Step
<1> QED
  BY <1>1, <1>2, <1>3 DEF LeaderboardNext

LEMMA TypeAlways == LeaderboardSpec => []TypeInv
BY TypeInit, TypeStep, PTL DEF LeaderboardSpec

\* Limits are between 1 and the maximum, whatever is asked for.
THEOREM LeaderboardTypeCorrect == LeaderboardSpec => []LeaderboardTypeOK
<1>1. TypeInv => LeaderboardTypeOK
  BY DEF TypeInv, IsWalk, LeaderboardTypeOK, Stages
<1> QED
  BY <1>1, TypeAlways, PTL

\* A page is never dated later than the rows it shows, for any worker.
THEOREM PagesAreNotAhead == LeaderboardSpec => []RefreshedAtIsNotAhead
<1>1. WorkerInit /\ LeaderboardInit => RefreshedAtIsNotAhead
  BY DEF LeaderboardInit, NoWalk, RefreshedAtIsNotAhead
<1>2. TypeInv /\ RefreshedAtIsNotAhead /\ [LeaderboardNext]_leaderboardVars
        => RefreshedAtIsNotAhead'
  <2> SUFFICES ASSUME TypeInv, RefreshedAtIsNotAhead, [LeaderboardNext]_leaderboardVars,
                      walk'.stage = "respond"
               PROVE  walk'.refreshedAt <= walk'.drawn
    BY DEF RefreshedAtIsNotAhead
  <2>0. version \in Nat /\ IsWalk(walk, version)
    BY DEF TypeInv
  <2>1. CASE UNCHANGED walk
    BY <2>1 DEF RefreshedAtIsNotAhead
  <2>2. CASE FetchRows
    <3>1. walk'.drawn = version /\ walk'.refreshedAt = walk.refreshedAt
      BY <2>0, <2>2 DEF FetchRows, IsWalk, Fields
    <3> QED
      BY <2>0, <3>1 DEF IsWalk, Null
  <2>3. CASE LeaderboardStep /\ ~FetchRows
    <3>1. ASSUME NEW r \in Requests, AskBoard(r) PROVE walk'.stage # "respond"
      BY <2>0, <3>1 DEF AskBoard, IsWalk, Fields
    <3>2. CASE Resolve
      BY <2>0, <3>2 DEF Resolve, Then, IsWalk, Fields
    <3>3. CASE NoTarget
      BY <2>0, <3>3 DEF NoTarget, IsWalk, Fields
    <3>4. CASE FetchRefreshedAt
      BY <2>0, <3>4 DEF FetchRefreshedAt, Then, IsWalk, Fields
    <3>5. CASE RespondPage
      BY <2>0, <3>5 DEF RespondPage, IsWalk, Fields
    <3>6. CASE BoardFails
      BY <2>0, <3>6 DEF BoardFails, IsWalk, Fields
    <3>7. CASE Leave
      BY <3>7 DEF Leave, NoWalk
    <3> QED
      BY <2>3, <3>1, <3>2, <3>3, <3>4, <3>5, <3>6, <3>7 DEF LeaderboardStep, Step
  <2> QED
    BY <2>1, <2>2, <2>3 DEF LeaderboardNext, leaderboardVars
<1> QED
  BY <1>1, <1>2, TypeAlways, PTL DEF LeaderboardSpec

-----------------------------------------------------------------------------
(* Quiet walks.                                                            *)

Dated(request, t) == IF DOMAIN Board(request.kind, t) = {} THEN Null ELSE version

\* What a walk w knows of its board, that of t.
Settled(w, t) ==
    /\ w.stage \in {"date", "page", "respond"} => w.target = t
    /\ (w.stage \in {"page", "respond"} \/ (w.stage = "done" /\ w.code = 200))
        => w.refreshedAt = Dated(w.request, t)

\* How far w has come through the order s of its board.
Passed(w, s) ==
    LET from == NormalOffset(w.request.offset)
    IN  /\ w.stage = "respond" => w.rows = Slice(s, w.offset, w.limit + 1)
        /\ w.stage \in {"resolve", "date", "page", "respond"} =>
            /\ from <= w.offset /\ (from < w.offset => w.offset <= Len(s))
            /\ w.got = SubSeq(s, from + 1, w.offset)
        /\ (w.stage = "done" /\ w.code = 200) => w.got = SubSeq(s, from + 1, Len(s))

Only(request, t) ==
    /\ Matches(request) = {t}
    /\ RanksDiffer(Board(request.kind, t))

Quiet(w) ==
    (w.stage # "idle" /\ w.since = version) =>
        \A t : Only(w.request, t) =>
            /\ Settled(w, t)
            /\ \A s \in Orders(Board(w.request.kind, t)) : Passed(w, s)

QuietInv == Quiet(walk)

LEMMA QuietIsEnough == QuietInv => QuietWalkIsTheBoard
<1> SUFFICES ASSUME QuietInv, walk.stage = "done", walk.code = 200, walk.since = version,
                    NEW t \in Matches(walk.request), Only(walk.request, t)
             PROVE  /\ \A s \in Orders(Board(walk.request.kind, t)) :
                        walk.got = SubSeq(s, NormalOffset(walk.request.offset) + 1, Len(s))
                    /\ walk.refreshedAt = Dated(walk.request, t)
  BY DEF QuietWalkIsTheBoard, Only, RanksDiffer, Dated
<1>1. /\ Settled(walk, t)
      /\ \A s \in Orders(Board(walk.request.kind, t)) : Passed(walk, s)
  BY DEF QuietInv, Quiet
<1> QED
  BY <1>1 DEF Passed, Settled

LEMMA QuietStep ==
  ASSUME TypeInv, QuietInv, [LeaderboardNext]_leaderboardVars
  PROVE  QuietInv'
<1>0. version \in Nat /\ IsWalk(walk, version)
  BY DEF TypeInv
<1>1. CASE Publish /\ UNCHANGED walk
  BY <1>0, <1>1 DEF Publish, QuietInv, Quiet, IsWalk
<1>2. ASSUME tables' = tables, version' = version, Quiet(walk') PROVE QuietInv'
  <2>1. \A r : Matches(r)' = Matches(r)
    BY <1>2 DEF Matches, Targets, NameOf
  <2>2. \A kind, t : Board(kind, t)' = Board(kind, t)
    BY <1>2 DEF Board
  <2> QED
    BY <1>2, <2>1, <2>2 DEF QuietInv, Quiet, Only, RanksDiffer, Settled, Passed, Dated, Orders
<1>3. ASSUME LeaderboardStep, UNCHANGED workerVars PROVE QuietInv'
  <2>0. tables' = tables /\ version' = version
    BY <1>3 DEF workerVars
  <2>2. ASSUME NEW r \in Requests, AskBoard(r) PROVE Quiet(walk')
    <3>1. /\ walk'.request = r /\ walk'.offset = NormalOffset(r.offset) /\ walk'.got = << >>
          /\ walk'.stage \in {"done", "resolve"} /\ (walk'.stage = "done" => walk'.code = 400)
      BY <1>0, <2>2 DEF AskBoard, IsWalk, Fields
    <3>2. NormalOffset(r.offset) \in Nat
      BY LeaderboardAssumption DEF NormalOffset
    <3> SUFFICES ASSUME NEW t, Only(r, t)
                 PROVE  /\ Settled(walk', t)
                        /\ \A s \in Orders(Board(r.kind, t)) : Passed(walk', s)
      BY <3>1 DEF Quiet
    <3>3. Settled(walk', t)
      BY <3>1 DEF Settled
    <3>4. ASSUME NEW s \in Orders(Board(r.kind, t)) PROVE Passed(walk', s)
      <4>1. IsBoard(Board(r.kind, t))
        BY BoardsAreBoards, LeaderboardAssumption
      <4>2. s \in Seq(Players)
        BY <4>1, OrderType
      <4>3. SubSeq(s, NormalOffset(r.offset) + 1, NormalOffset(r.offset)) = << >>
        BY <3>2, <4>2, SubSeqEmpty
      <4> QED
        BY <3>1, <3>2, <4>3 DEF Passed
    <3> QED
      BY <3>3, <3>4
  <2>3. ASSUME Step \/ BoardFails PROVE Quiet(walk')
    <3>1. walk.stage # "idle"
      BY <2>3 DEF Step, Resolve, NoTarget, FetchRefreshedAt, FetchRows, RespondPage, BoardFails
    <3>2. walk'.request = walk.request /\ walk'.since = walk.since /\ walk'.limit = walk.limit
      <4>1. CASE Resolve
        BY <1>0, <4>1 DEF Resolve, IsWalk, Fields
      <4>2. CASE NoTarget
        BY <1>0, <4>2 DEF NoTarget, IsWalk, Fields
      <4>3. CASE FetchRefreshedAt
        BY <1>0, <4>3 DEF FetchRefreshedAt, IsWalk, Fields
      <4>4. CASE FetchRows
        BY <1>0, <4>4 DEF FetchRows, IsWalk, Fields
      <4>5. CASE RespondPage
        BY <1>0, <4>5 DEF RespondPage, IsWalk, Fields
      <4>6. CASE BoardFails
        BY <1>0, <4>6 DEF BoardFails, IsWalk, Fields
      <4> QED
        BY <2>3, <4>1, <4>2, <4>3, <4>4, <4>5, <4>6 DEF Step
    <3> SUFFICES ASSUME walk.since = version, NEW t, Only(walk.request, t)
                 PROVE  /\ Settled(walk', t)
                        /\ \A s \in Orders(Board(walk.request.kind, t)) : Passed(walk', s)
      BY <3>2 DEF Quiet
    <3>3. Settled(walk, t)
      BY <3>1 DEF QuietInv, Quiet
    <3>11. \A s \in Orders(Board(walk.request.kind, t)) : Passed(walk, s)
      BY <3>1 DEF QuietInv, Quiet
    <3>4. IsBoard(Board(walk.request.kind, t)) /\ RanksDiffer(Board(walk.request.kind, t))
      BY BoardsAreBoards, RequestType DEF Only
    <3>5. CASE Resolve
      <4>1. PICK x \in Matches(walk.request) :
                walk' = [walk EXCEPT !.stage = Then("resolve"), !.target = x]
        BY <3>5 DEF Resolve
      <4>2. x = t
        BY <4>1 DEF Only
      <4>3. /\ walk.stage = "resolve" /\ walk'.stage = "date" /\ walk'.target = t
            /\ walk'.offset = walk.offset /\ walk'.got = walk.got
        BY <1>0, <3>5, <4>1, <4>2 DEF Resolve, Then, IsWalk, Fields
      <4> QED
        BY <3>2, <3>3, <3>11, <4>3 DEF Settled, Passed
    <3>6. CASE NoTarget
      BY <3>6 DEF NoTarget, Only
    <3>7. CASE FetchRefreshedAt
      <4>1. /\ walk.stage = "date" /\ walk'.stage = "page" /\ walk'.target = walk.target
            /\ walk'.offset = walk.offset /\ walk'.got = walk.got
            /\ walk'.refreshedAt = Dated(walk.request, walk.target)
        BY <1>0, <3>7 DEF FetchRefreshedAt, Then, Dated, IsWalk, Fields
      <4> QED
        BY <3>2, <3>3, <3>11, <4>1 DEF Settled, Passed
    <3>8. CASE FetchRows
      <4>0. PICK order \in Orders(Board(walk.request.kind, walk.target)) :
                walk' = [walk EXCEPT !.stage = Then("page"), !.drawn = version,
                            !.rows = Slice(order, walk.offset, walk.limit + 1)]
        BY <3>8 DEF FetchRows
      <4>1. /\ walk.stage = "page" /\ walk'.stage = "respond" /\ walk'.target = walk.target
            /\ walk'.offset = walk.offset /\ walk'.got = walk.got
            /\ walk'.refreshedAt = walk.refreshedAt
            /\ walk'.rows = Slice(order, walk.offset, walk.limit + 1)
        BY <1>0, <3>8, <4>0 DEF FetchRows, Then, IsWalk, Fields
      <4>2. walk.target = t
        BY <3>3, <4>1 DEF Settled
      <4>3. ASSUME NEW s \in Orders(Board(walk.request.kind, t)) PROVE s = order
        BY <3>4, <4>2, OrderIsUnique
      <4>4. Settled(walk', t)
        <5>0. walk.stage \in {"page", "respond"}
          BY <4>1
        <5>1. walk.refreshedAt = Dated(walk.request, t)
          BY <3>3, <5>0 DEF Settled
        <5> QED
          BY <3>2, <4>1, <4>2, <5>1 DEF Settled
      <4>5. ASSUME NEW s \in Orders(Board(walk.request.kind, t)) PROVE Passed(walk', s)
        BY <3>2, <3>11, <4>1, <4>3 DEF Passed
      <4> QED
        BY <4>4, <4>5
    <3>9. CASE RespondPage
      <4>1. /\ walk.stage = "respond"
            /\ walk'.stage = (IF HasMore THEN "resolve" ELSE "done")
            /\ walk'.offset = (IF HasMore THEN NextOffset ELSE walk.offset)
            /\ walk'.refreshedAt = walk.refreshedAt /\ walk'.got = walk.got \o Entries
        BY <1>0, <3>9 DEF RespondPage, IsWalk, Fields
      <4>2. Settled(walk', t)
        <5>0. walk.stage \in {"page", "respond"}
          BY <4>1
        <5>1. walk.refreshedAt = Dated(walk.request, t)
          BY <3>3, <5>0 DEF Settled
        <5>2. walk'.refreshedAt = Dated(walk'.request, t) /\ walk'.stage \in {"resolve", "done"}
          BY <3>2, <4>1, <5>1
        <5> QED
          BY <5>2 DEF Settled
      <4>3. ASSUME NEW s \in Orders(Board(walk.request.kind, t)) PROVE Passed(walk', s)
        <5> DEFINE from == NormalOffset(walk.request.offset)
        <5>1. s \in Seq(Players) /\ Len(s) \in Nat
          BY <3>4, OrderType, LenProperties
        <5>2. from \in Nat /\ walk.offset \in Nat /\ walk.limit \in Nat \ {0}
          BY <1>0, LeaderboardAssumption DEF IsWalk, NormalOffset
        <5>3. /\ walk.rows = Slice(s, walk.offset, walk.limit + 1)
              /\ from <= walk.offset /\ (from < walk.offset => walk.offset <= Len(s))
              /\ walk.got = SubSeq(s, from + 1, walk.offset)
          BY <3>11, <4>1 DEF Passed
        <5> HIDE DEF from
        <5>4. /\ Len(walk.rows) > walk.limit =>
                    /\ Len(Entries) = walk.limit /\ walk.offset + walk.limit <= Len(s)
                    /\ walk.got \o Entries = SubSeq(s, from + 1, walk.offset + walk.limit)
              /\ Len(walk.rows) <= walk.limit =>
                    walk.got \o Entries = SubSeq(s, from + 1, Len(s))
          <6>1. LET rows == Slice(s, walk.offset, walk.limit + 1)
                    entries == Slice(rows, 0, walk.limit)
                    got == SubSeq(s, from + 1, walk.offset)
                IN  /\ Len(rows) > walk.limit =>
                        /\ Len(entries) = walk.limit /\ walk.offset + walk.limit <= Len(s)
                        /\ got \o entries = SubSeq(s, from + 1, walk.offset + walk.limit)
                    /\ Len(rows) <= walk.limit => got \o entries = SubSeq(s, from + 1, Len(s))
            BY <5>1, <5>2, <5>3, NextPage, Zenon
          <6> QED
            BY <5>3, <6>1 DEF Entries
        <5>5. Len(walk.rows) \in Nat
          BY <1>0, LenProperties DEF IsWalk
        <5>6. CASE HasMore
          <6>1. /\ walk'.stage = "resolve" /\ walk'.offset = walk.offset + walk.limit
                /\ walk'.offset <= Len(s) /\ walk'.got = SubSeq(s, from + 1, walk'.offset)
            BY <4>1, <5>4, <5>6 DEF HasMore, NextOffset
          <6>2. from <= walk'.offset
            BY <5>2, <5>3, <6>1
          <6> QED
            BY <3>2, <6>1, <6>2 DEF Passed, from
        <5>7. CASE ~HasMore
          <6>0. Len(walk.rows) <= walk.limit
            BY <5>2, <5>5, <5>7 DEF HasMore
          <6>1. walk'.stage = "done" /\ walk'.got = SubSeq(s, from + 1, Len(s))
            BY <4>1, <5>4, <5>7, <6>0
          <6> QED
            BY <3>2, <6>1 DEF Passed, from
        <5> QED
          BY <5>6, <5>7
      <4> QED
        BY <4>2, <4>3
    <3>10. CASE BoardFails
      <4>1. walk'.stage = "done" /\ walk'.code = 500
        BY <1>0, <3>10 DEF BoardFails, IsWalk, Fields
      <4> QED
        BY <4>1 DEF Settled, Passed
    <3> QED
      BY <2>3, <3>5, <3>6, <3>7, <3>8, <3>9, <3>10 DEF Step
  <2>4. ASSUME Leave PROVE Quiet(walk')
    BY <2>4 DEF Leave, NoWalk, Quiet
  <2> QED
    BY <1>2, <1>3, <2>0, <2>2, <2>3, <2>4 DEF LeaderboardStep
<1>4. CASE UNCHANGED leaderboardVars
  <2>1. tables' = tables /\ version' = version /\ walk' = walk
    BY <1>4 DEF leaderboardVars
  <2>2. Quiet(walk')
    BY <2>1 DEF QuietInv
  <2> QED
    BY <1>2, <2>1, <2>2
<1> QED
  BY <1>1, <1>3, <1>4 DEF LeaderboardNext

\* A walk that no refresh disturbs is the board from the first offset on, in the
\* order of its ranks and dated by its refresh, for every board, limit and offset.
THEOREM QuietWalksAreTheBoard == LeaderboardSpec => []QuietWalkIsTheBoard
<1>1. WorkerInit /\ LeaderboardInit => QuietInv
  BY DEF LeaderboardInit, NoWalk, QuietInv, Quiet
<1>2. TypeInv /\ QuietInv /\ [LeaderboardNext]_leaderboardVars => QuietInv'
  BY QuietStep
<1> QED
  BY <1>1, <1>2, QuietIsEnough, TypeAlways, PTL DEF LeaderboardSpec

=============================================================================
