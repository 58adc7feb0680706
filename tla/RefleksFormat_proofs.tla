------------------------- MODULE RefleksFormat_proofs -------------------------
(***************************************************************************)
(* What the parser accepts, and what it finds in it, for files of any      *)
(* length, any number of fields and points and any numbers in them.        *)
(*                                                                         *)
(* Its parts: what the loops over fields and points compute; what a        *)
(* section in front of a reader looks like; the invariant, one step of the *)
(* parser after the other; and the theorems.                               *)
(***************************************************************************)
EXTENDS RefleksFormat, SequenceTheorems, NaturalsInduction, FiniteSetTheorems,
        WellFoundedInduction, TLAPS

-----------------------------------------------------------------------------
(* The loop over fields.                                                   *)

\* Numbers are well ordered: what a loop computes is shown for the least round
\* at which it would fail.
LEMMA LeastNatural ==
  ASSUME NEW S \in SUBSET Nat, S # {}
  PROVE  \E m \in S : \A k \in S : m <= k
<1>1. PICK m \in S : \A k \in S : <<k, m>> \notin OpToRel(<, Nat)
  BY NatLessThanWellFounded, WFMin
<1>2. \A k \in S : ~(k < m)
  BY <1>1 DEF OpToRel
<1> QED
  BY <1>2

\* Where the loop over fields starts.
Started(slots) == [end |-> "no", got |-> [s \in Range(slots) |-> Unset(s)]]

\* A loop over the first n of the fields.
IsLoop(loop, slots, fields, n) ==
    loop = [i \in 0 .. n |-> IF i = 0 THEN Started(slots)
                             ELSE ReadField(slots, loop[i - 1], fields[i])]

\* The loop of any number of rounds is a function.
LEMMA LoopExists ==
  ASSUME NEW slots, NEW fields, NEW n \in Nat
  PROVE  \E loop : IsLoop(loop, slots, fields, n)
<1> DEFINE S == {k \in Nat : ~ \E loop : IsLoop(loop, slots, fields, k)}
<1> SUFFICES ASSUME S # {} PROVE FALSE
  OBVIOUS
<1>1. PICK m \in S : \A k \in S : m <= k
  BY LeastNatural
<1>2. m # 0
  <2>1. IsLoop([i \in 0 .. 0 |-> Started(slots)], slots, fields, 0)
    BY DEF IsLoop
  <2> QED
    BY <1>1, <2>1
<1>3. m - 1 \in Nat /\ m - 1 \notin S
  BY <1>1, <1>2
<1>4. PICK loop : IsLoop(loop, slots, fields, m - 1)
  BY <1>3
<1> DEFINE longer == [i \in 0 .. m |-> IF i = m THEN ReadField(slots, loop[m - 1], fields[m])
                                       ELSE loop[i]]
<1>5. IsLoop(longer, slots, fields, m)
  <2>1. ASSUME NEW i \in 0 .. m
        PROVE  longer[i] = IF i = 0 THEN Started(slots)
                           ELSE ReadField(slots, longer[i - 1], fields[i])
    <3>1. CASE i = m
      BY <1>2, <1>3, <3>1
    <3>2. CASE i # m
      <4>1. i \in 0 .. m - 1 /\ (i # 0 => i - 1 \in 0 .. m - 1 /\ i - 1 \in 0 .. m /\ i - 1 # m)
        BY <1>1, <3>2
      <4>2. loop[i] = IF i = 0 THEN Started(slots) ELSE ReadField(slots, loop[i - 1], fields[i])
        BY <1>4, <4>1 DEF IsLoop
      <4>3. longer[i] = loop[i] /\ (i # 0 => longer[i - 1] = loop[i - 1])
        BY <3>2, <4>1
      <4> HIDE DEF longer
      <4> QED
        BY <4>2, <4>3
    <3> QED
      BY <3>1, <3>2
  <2> QED
    BY <2>1 DEF IsLoop
<1> QED
  BY <1>1, <1>5

\* The reader of fields is such a loop.
LEMMA ReadFieldsLoops ==
  ASSUME NEW slots, NEW fields, Len(fields) \in Nat
  PROVE  \E loop : /\ ReadFields(slots, fields) = loop[Len(fields)]
                   /\ loop[0] = Started(slots)
                   /\ \A i \in 1 .. Len(fields) : loop[i] = ReadField(slots, loop[i - 1], fields[i])
<1> DEFINE loop == CHOOSE l : l = [i \in 0 .. Len(fields) |->
                        IF i = 0 THEN [end |-> "no", got |-> [s \in Range(slots) |-> Unset(s)]]
                        ELSE ReadField(slots, l[i - 1], fields[i])]
<1>1. ReadFields(slots, fields) = loop[Len(fields)]
  BY DEF ReadFields
<1>2. IsLoop(loop, slots, fields, Len(fields))
  <2>1. \E l : l = [i \in 0 .. Len(fields) |->
                        IF i = 0 THEN [end |-> "no", got |-> [s \in Range(slots) |-> Unset(s)]]
                        ELSE ReadField(slots, l[i - 1], fields[i])]
    <3>1. PICK l : IsLoop(l, slots, fields, Len(fields))
      BY LoopExists
    <3> QED
      BY <3>1, Zenon DEF IsLoop, Started
  <2> QED
    BY <2>1, Zenon DEF IsLoop, Started
<1> HIDE DEF loop
<1>3. loop[0] = Started(slots)
  BY <1>2 DEF IsLoop
<1>4. \A i \in 1 .. Len(fields) : loop[i] = ReadField(slots, loop[i - 1], fields[i])
  BY <1>2 DEF IsLoop
<1> QED
  BY <1>1, <1>3, <1>4

Ending == {"bad_tag", "cut", "malformed"}

\* The fields among the first n that are stored in a slot.
Places(slots, fields, s, n) ==
    {i \in 1 .. n : /\ \A j \in 1 .. i : fields[j].form \notin Ending
                    /\ fields[i].form = "whole" /\ fields[i].num \in DOMAIN slots
                    /\ slots[fields[i].num] = s}

\* The value v of a slot s is that of the last field stored in it.
IsLastValue(v, slots, fields, s, n) ==
    LET places == Places(slots, fields, s, n)
    IN  \/ places = {} /\ v = Unset(s)
        \/ \E m \in places : (\A i \in places : i <= m) /\ v = Stored(s, fields[m].val)

\* It is that of some field, or still the first one.
IsSomeValue(v, slots, fields, s) ==
    \/ v = Unset(s)
    \/ \E i \in DOMAIN fields : /\ fields[i].form = "whole" /\ fields[i].num \in DOMAIN slots
                                /\ slots[fields[i].num] = s /\ v = Stored(s, fields[i].val)

\* What a loop has made of the first n fields.
HasRead(loop, slots, fields, n) ==
    /\ loop = [end |-> loop.end, got |-> loop.got]
    /\ loop.got = [s \in Range(slots) |-> loop.got[s]]
    /\ loop.end = "no" <=> \A j \in 1 .. n : fields[j].form \notin Ending
    /\ loop.end = "panic" => \E j \in 1 .. n : fields[j].form = "malformed"
    /\ \A s \in Range(slots) : IsLastValue(loop.got[s], slots, fields, s, n)

\* A field that is stored nowhere leaves the last values.
LEMMA ValuesStay ==
  ASSUME NEW slots, NEW fields, NEW n \in Nat \ {0}, NEW s, NEW v,
         IsLastValue(v, slots, fields, s, n - 1),
         \/ \E j \in 1 .. n : fields[j].form \in Ending
         \/ fields[n].form # "whole"
         \/ fields[n].num \notin DOMAIN slots
         \/ slots[fields[n].num] # s
  PROVE  IsLastValue(v, slots, fields, s, n)
<1>1. Places(slots, fields, s, n) = Places(slots, fields, s, n - 1)
  <2>1. n \notin Places(slots, fields, s, n)
    BY DEF Places
  <2>2. 1 .. n = (1 .. n - 1) \cup {n}
    OBVIOUS
  <2> QED
    BY <2>1, <2>2 DEF Places
<1> QED
  BY <1>1 DEF IsLastValue

LEMMA ReadOneMore ==
  ASSUME NEW slots, NEW fields, NEW n \in Nat \ {0}, NEW loop,
         HasRead(loop, slots, fields, n - 1)
  PROVE  HasRead(ReadField(slots, loop, fields[n]), slots, fields, n)
<1> DEFINE next == ReadField(slots, loop, fields[n])
           field == fields[n]
<1>1. /\ loop = [end |-> loop.end, got |-> loop.got]
      /\ loop.got = [s \in Range(slots) |-> loop.got[s]]
      /\ loop.end = "no" <=> \A j \in 1 .. n - 1 : fields[j].form \notin Ending
      /\ loop.end = "panic" => \E j \in 1 .. n - 1 : fields[j].form = "malformed"
  BY DEF HasRead
<1>2. \A s \in Range(slots) : IsLastValue(loop.got[s], slots, fields, s, n - 1)
  BY DEF HasRead
<1>3. 1 .. n = (1 .. n - 1) \cup {n}
  OBVIOUS
<1>4. CASE loop.end # "no"
  <2>1. next = loop
    BY <1>4 DEF ReadField
  <2>2. \E j \in 1 .. n : fields[j].form \in Ending
    BY <1>1, <1>3, <1>4
  <2>3. \A s \in Range(slots) : IsLastValue(loop.got[s], slots, fields, s, n)
    BY <1>2, <2>2, ValuesStay
  <2> QED
    BY <1>1, <1>3, <1>4, <2>1, <2>2, <2>3 DEF HasRead
<1>5. CASE loop.end = "no" /\ field.form \in Ending
  <2>1. PICK e \in {"left", "panic"} : next = [loop EXCEPT !.end = e] /\ (e = "panic" => field.form = "malformed")
    BY <1>5 DEF ReadField, Ending
  <2>2. next.end = e /\ next.got = loop.got /\ next = [end |-> next.end, got |-> next.got]
    BY <1>1, <2>1
  <2>3. \E j \in 1 .. n : fields[j].form \in Ending
    BY <1>3, <1>5
  <2>4. \A s \in Range(slots) : IsLastValue(loop.got[s], slots, fields, s, n)
    BY <1>2, <2>3, ValuesStay
  <2> QED
    BY <1>1, <1>3, <2>1, <2>2, <2>3, <2>4 DEF HasRead
<1>6. CASE loop.end = "no" /\ field.form \notin Ending /\ ~(field.form = "whole" /\ field.num \in DOMAIN slots)
  <2>1. next = loop
    BY <1>6 DEF ReadField, Ending
  <2>2. \A j \in 1 .. n : fields[j].form \notin Ending
    BY <1>1, <1>3, <1>6
  <2>3. \A s \in Range(slots) : IsLastValue(loop.got[s], slots, fields, s, n)
    BY <1>2, <1>6, ValuesStay
  <2> QED
    BY <1>1, <1>6, <2>1, <2>2, <2>3 DEF HasRead
<1>7. CASE loop.end = "no" /\ field.form = "whole" /\ field.num \in DOMAIN slots
  <2> DEFINE slot == slots[field.num]
             v == Stored(slot, field.val)
  <2>1. next = [loop EXCEPT !.got[slot] = v]
    BY <1>7 DEF ReadField
  <2>2. slot \in Range(slots)
    BY <1>7 DEF Range
  <2>3. /\ next.end = "no" /\ next = [end |-> next.end, got |-> next.got]
        /\ next.got = [loop.got EXCEPT ![slot] = v]
    BY <1>1, <1>7, <2>1
  <2>4. /\ next.got = [s \in Range(slots) |-> next.got[s]]
        /\ next.got[slot] = v
        /\ \A s \in Range(slots) \ {slot} : next.got[s] = loop.got[s]
    BY <1>1, <2>2, <2>3
  <2>5. \A j \in 1 .. n : fields[j].form \notin Ending
    BY <1>1, <1>3, <1>7 DEF Ending
  <2>6. IsLastValue(v, slots, fields, slot, n)
    <3>1. n \in Places(slots, fields, slot, n)
      BY <1>7, <2>5 DEF Places
    <3>2. \A i \in Places(slots, fields, slot, n) : i <= n
      BY DEF Places
    <3> QED
      BY <3>1, <3>2 DEF IsLastValue
  <2>7. ASSUME NEW s \in Range(slots) \ {slot} PROVE IsLastValue(loop.got[s], slots, fields, s, n)
    BY <1>2, ValuesStay
  <2> HIDE DEF next, slot, v
  <2>8. \A s \in Range(slots) : IsLastValue(next.got[s], slots, fields, s, n)
    BY <2>4, <2>6, <2>7
  <2> QED
    BY <2>3, <2>4, <2>5, <2>8 DEF HasRead, next
<1> QED
  BY <1>4, <1>5, <1>6, <1>7

HasMalformed(fields) == \E i \in DOMAIN fields : fields[i].form = "malformed"

\* The reader of fields stores in every slot the value that was written last
\* before the reader had to stop, and a panic has its cause among the fields.
LEMMA FieldsAreRead ==
  ASSUME NEW slots, NEW fields, Len(fields) \in Nat, DOMAIN fields = 1 .. Len(fields)
  PROVE  /\ ReadFields(slots, fields).got = [s \in Range(slots) |-> ValueOf(fields, slots, s)]
         /\ ReadFields(slots, fields).end = "panic" => HasMalformed(fields)
         /\ \A s \in Range(slots) : IsSomeValue(ValueOf(fields, slots, s), slots, fields, s)
<1> DEFINE N == Len(fields)
<1>1. PICK loop : /\ ReadFields(slots, fields) = loop[N]
                  /\ loop[0] = Started(slots)
                  /\ \A i \in 1 .. N : loop[i] = ReadField(slots, loop[i - 1], fields[i])
  BY ReadFieldsLoops
<1>2. HasRead(loop[N], slots, fields, N)
  <2> DEFINE S == {k \in Nat : k <= N /\ ~HasRead(loop[k], slots, fields, k)}
  <2> SUFFICES ASSUME S # {} PROVE FALSE
    OBVIOUS
  <2>1. PICK m \in S : \A k \in S : m <= k
    BY LeastNatural
  <2>2. HasRead(loop[0], slots, fields, 0)
    <3>1. \A s : Places(slots, fields, s, 0) = {}
      BY DEF Places
    <3> QED
      BY <1>1, <3>1 DEF HasRead, IsLastValue, Started
  <2>3. m # 0
    BY <2>1, <2>2
  <2>4. m - 1 \in Nat /\ m - 1 \notin S /\ m - 1 <= N
    BY <2>1, <2>3
  <2>5. HasRead(loop[m - 1], slots, fields, m - 1)
    BY <2>4
  <2>6. loop[m] = ReadField(slots, loop[m - 1], fields[m])
    BY <1>1, <2>1, <2>3
  <2> QED
    BY <2>1, <2>3, <2>5, <2>6, ReadOneMore
<1>3. ASSUME NEW s \in Range(slots) PROVE loop[N].got[s] = ValueOf(fields, slots, s)
  <2> DEFINE places == Places(slots, fields, s, N)
  <2>1. IsLastValue(loop[N].got[s], slots, fields, s, N)
    BY <1>2 DEF HasRead
  <2>2. ValueOf(fields, slots, s) =
            IF places = {} THEN Unset(s)
            ELSE Stored(s, fields[CHOOSE i \in places : \A j \in places : j <= i].val)
    <3> DEFINE reached == {i \in DOMAIN fields : \A j \in 1 .. i :
                              fields[j].form \notin {"bad_tag", "cut", "malformed"}}
               at == {i \in reached : /\ fields[i].form = "whole"
                                      /\ fields[i].num \in DOMAIN slots
                                      /\ slots[fields[i].num] = s}
    <3>1. at = places
      BY DEF Places, Ending
    <3>2. ValueOf(fields, slots, s) =
            IF at = {} THEN Unset(s)
            ELSE Stored(s, fields[CHOOSE i \in at : \A j \in at : j <= i].val)
      BY DEF ValueOf
    <3> HIDE DEF at, places
    <3> QED
      BY <3>1, <3>2
  <2>3. ASSUME NEW m \in places, \A i \in places : i <= m
        PROVE  m = CHOOSE i \in places : \A j \in places : j <= i
    <3>1. places \subseteq Nat
      BY DEF Places
    <3> HIDE DEF places
    <3> DEFINE last == CHOOSE i \in places : \A j \in places : j <= i
    <3>2. last \in places /\ \A j \in places : j <= last
      BY <2>3
    <3> HIDE DEF last
    <3>3. m \in Nat /\ last \in Nat /\ m <= last /\ last <= m
      BY <2>3, <3>1, <3>2
    <3>4. m = last
      BY <3>3
    <3> QED
      BY <3>4 DEF last
  <2> HIDE DEF places
  <2> QED
    BY <2>1, <2>2, <2>3 DEF IsLastValue, places
<1>4. \A s \in Range(slots) : IsLastValue(ValueOf(fields, slots, s), slots, fields, s, N)
  BY <1>2, <1>3 DEF HasRead
<1>5. ASSUME NEW s, NEW v, IsLastValue(v, slots, fields, s, N)
      PROVE  IsSomeValue(v, slots, fields, s)
  BY <1>5 DEF IsLastValue, IsSomeValue, Places
<1> QED
  BY <1>1, <1>2, <1>3, <1>4, <1>5 DEF HasRead, HasMalformed

\* What a count becomes in 32 bits.
LEMMA NarrowRange ==
  ASSUME NEW v \in Int
  PROVE  Narrow(v) \in -Half .. Half - 1
<1>1. Half \in Nat /\ Half > 0
  BY FormatAssumption
<1> DEFINE r == (v + Half) % (2 * Half)
<1>2. r \in 0 .. 2 * Half - 1
  <2> DEFINE a == v + Half
             b == 2 * Half
  <2>1. a \in Int /\ b \in Nat /\ b > 0
    BY <1>1
  <2> HIDE DEF a, b
  <2>2. a % b \in 0 .. b - 1
    BY <2>1
  <2> QED
    BY <2>2 DEF a, b
<1>3. Narrow(v) = r - Half
  BY DEF Narrow
<1> HIDE DEF r
<1> QED
  BY <1>1, <1>2, <1>3

-----------------------------------------------------------------------------
(* The summary in the statistics.                                          *)

\* The loop that looks for the summary takes the one that a reader of the whole
\* row of fields would take.
LEMMA SummaryIsTaken ==
  ASSUME NEW fields, DOMAIN fields = 1 .. Len(fields), Len(fields) \in Nat,
         \A i \in DOMAIN fields : fields[i].form \in Forms
  PROVE  SummaryIn(fields) = Summary(fields)
<1> DEFINE leaves == {i \in DOMAIN fields : \/ fields[i].form \in {"bad_tag", "cut", "malformed"}
                                            \/ fields[i].num = 1 /\ fields[i].form = "whole"}
           last == fields[CHOOSE i \in leaves : \A j \in leaves : i <= j]
           skipped(i) == \/ fields[i].form = "other_type"
                         \/ fields[i].form = "whole" /\ fields[i].num # 1
           summaries == {i \in DOMAIN fields : /\ fields[i].form = "whole"
                                               /\ fields[i].num = 1
                                               /\ \A j \in 1 .. i - 1 : skipped(j)}
<1>1. SummaryIn(fields) = IF leaves = {} THEN <<>> ELSE IF last.form = "whole" THEN last.val ELSE <<>>
  BY DEF SummaryIn
<1>2. Summary(fields) = IF summaries = {} THEN <<>> ELSE fields[CHOOSE i \in summaries : TRUE].val
  BY DEF Summary
<1>3. \A i \in DOMAIN fields : i \in leaves <=> ~skipped(i)
  BY DEF Forms
<1>4. summaries \subseteq leaves /\ leaves \subseteq DOMAIN fields /\ leaves \subseteq Nat
  OBVIOUS
<1>5. CASE leaves = {}
  <2> HIDE DEF leaves, summaries
  <2> QED
    BY <1>1, <1>2, <1>4, <1>5
<1>6. CASE leaves # {}
  <2>1. PICK m \in leaves : \A k \in leaves : m <= k
    BY <1>4, <1>6, LeastNatural
  <2>2. last = fields[m]
    <3> DEFINE first == CHOOSE i \in leaves : \A j \in leaves : i <= j
    <3> HIDE DEF leaves
    <3>1. first \in leaves /\ \A j \in leaves : first <= j
      BY <2>1
    <3> HIDE DEF first
    <3>2. first = m
      BY <1>4, <2>1, <3>1
    <3> QED
      BY <3>2 DEF first
  <2>3. ASSUME NEW i \in summaries PROVE i = m
    <3>1. i \in Nat /\ m \in Nat /\ m <= i /\ ~skipped(m) /\ \A j \in 1 .. i - 1 : skipped(j)
      BY <1>3, <1>4, <2>1
    <3>2. m \in 1 .. Len(fields)
      BY <1>4, <2>1
    <3>3. ~(m \in 1 .. i - 1)
      BY <3>1
    <3> QED
      BY <3>1, <3>2, <3>3
  <2>4. CASE fields[m].form = "whole"
    <3>1. m \in summaries
      <4>1. m \in DOMAIN fields /\ fields[m].num = 1 /\ m \in 1 .. Len(fields)
        BY <2>1, <2>4
      <4>2. ASSUME NEW j \in 1 .. m - 1 PROVE skipped(j)
        <5>1. j \in DOMAIN fields /\ ~(m <= j)
          BY <4>1
        <5> QED
          BY <1>3, <2>1, <5>1
      <4> QED
        BY <2>4, <4>1, <4>2
    <3> HIDE DEF summaries
    <3>2. (CHOOSE i \in summaries : TRUE) = m
      BY <2>3, <3>1
    <3> HIDE DEF leaves, last
    <3> QED
      BY <1>1, <1>2, <1>6, <2>2, <2>4, <3>1, <3>2
  <2>5. CASE fields[m].form # "whole"
    <3>1. summaries = {}
      BY <2>3, <2>5
    <3> HIDE DEF summaries, leaves, last
    <3> QED
      BY <1>1, <1>2, <1>6, <2>2, <2>5, <3>1
  <2> QED
    BY <2>4, <2>5
<1> QED
  BY <1>5, <1>6

-----------------------------------------------------------------------------
(* Sums over finite sets.                                                  *)

Pick(s) == CHOOSE x \in s : TRUE

\* The sums of the weights w over some sets, one element after the other.
IsSum(sum, w, sets) ==
    sum = [s \in sets |-> IF s = {} THEN 0 ELSE w[Pick(s)] + sum[s \ {Pick(s)}]]

LEMMA SumExists ==
  ASSUME NEW w, NEW D, IsFiniteSet(D)
  PROVE  \E sum : IsSum(sum, w, SUBSET D)
<1> DEFINE Small(k) == {s \in SUBSET D : Cardinality(s) <= k}
           S == {k \in Nat : ~ \E sum : IsSum(sum, w, Small(k))}
<1>1. \A s \in SUBSET D : IsFiniteSet(s) /\ Cardinality(s) \in Nat /\ Cardinality(s) <= Cardinality(D)
  BY FS_Subset, FS_CardinalityType
<1>2. \A s \in SUBSET D : s # {} =>
        /\ Pick(s) \in s /\ s \ {Pick(s)} \in SUBSET D
        /\ Cardinality(s \ {Pick(s)}) = Cardinality(s) - 1
  BY <1>1, FS_RemoveElement DEF Pick
<1>3. S = {}
  <2> SUFFICES ASSUME S # {} PROVE FALSE
    OBVIOUS
  <2>1. PICK m \in S : \A k \in S : m <= k
    BY LeastNatural
  <2>2. m # 0
    <3>1. \A s \in Small(0) : s = {}
      <4>1. \A s \in Small(0) : Cardinality(s) = 0
        BY <1>1
      <4> QED
        BY <1>1, <4>1, FS_EmptySet
    <3>2. IsSum([s \in Small(0) |-> 0], w, Small(0))
      BY <3>1 DEF IsSum
    <3> QED
      BY <2>1, <3>2
  <2>3. m - 1 \in Nat /\ m - 1 \notin S
    <3>1. m \in Nat
      BY <2>1
    <3> HIDE DEF S
    <3> QED
      BY <2>1, <2>2, <3>1
  <2>4. PICK sum : IsSum(sum, w, Small(m - 1))
    BY <2>3
  <2> DEFINE more == [s \in Small(m) |-> IF s \in Small(m - 1) THEN sum[s]
                                         ELSE w[Pick(s)] + sum[s \ {Pick(s)}]]
  <2>5. ASSUME NEW s \in Small(m)
        PROVE  more[s] = IF s = {} THEN 0 ELSE w[Pick(s)] + more[s \ {Pick(s)}]
    <3>1. s # {} => s \ {Pick(s)} \in Small(m - 1) /\ s \ {Pick(s)} \in Small(m)
      <4> SUFFICES ASSUME s # {} PROVE s \ {Pick(s)} \in Small(m - 1) /\ s \ {Pick(s)} \in Small(m)
        OBVIOUS
      <4>1. Cardinality(s) \in Nat /\ Cardinality(s) <= m
        BY <1>1
      <4>2. Cardinality(s \ {Pick(s)}) = Cardinality(s) - 1 /\ s \ {Pick(s)} \in SUBSET D
        BY <1>2
      <4> QED
        BY <2>1, <4>1, <4>2
    <3>2. s # {} => more[s \ {Pick(s)}] = sum[s \ {Pick(s)}]
      BY <3>1
    <3>3. s = {} => s \in Small(m - 1)
      BY <1>1, <2>3, FS_EmptySet
    <3>4. s \in Small(m - 1) =>
            sum[s] = IF s = {} THEN 0 ELSE w[Pick(s)] + sum[s \ {Pick(s)}]
      BY <2>4 DEF IsSum
    <3>5. more[s] = IF s \in Small(m - 1) THEN sum[s] ELSE w[Pick(s)] + sum[s \ {Pick(s)}]
      OBVIOUS
    <3> HIDE DEF more, Small
    <3> QED
      BY <3>2, <3>3, <3>4, <3>5
  <2>6. IsSum(more, w, Small(m))
    <3> DEFINE T == Small(m)
    <3> HIDE DEF Small
    <3> QED
      BY <2>5 DEF IsSum
  <2> QED
    BY <2>1, <2>6
<1>4. Small(Cardinality(D)) = SUBSET D
  BY <1>1
<1>5. Cardinality(D) \in Nat
  BY FS_CardinalityType
<1> QED
  BY <1>3, <1>4, <1>5

\* Any element may be taken first.
Adds(sum, w, D) ==
    /\ sum[{}] = 0
    /\ \A s \in SUBSET D : sum[s] \in Int /\ \A a \in s : sum[s] = w[a] + sum[s \ {a}]

\* The order in which the elements are taken does not matter.
LEMMA SumWithout ==
  ASSUME NEW D, IsFiniteSet(D), NEW w \in [D -> Int], NEW sum, IsSum(sum, w, SUBSET D)
  PROVE  Adds(sum, w, D)
<1> DEFINE Good(s) == /\ sum[s] \in Int
                      /\ \A a \in s : sum[s] = w[a] + sum[s \ {a}]
           S == {Cardinality(s) : s \in {t \in SUBSET D : ~Good(t)}}
<1>1. \A s \in SUBSET D : IsFiniteSet(s) /\ Cardinality(s) \in Nat
  BY FS_Subset, FS_CardinalityType
<1>2. \A s \in SUBSET D, a \in D : a \in s => Cardinality(s \ {a}) = Cardinality(s) - 1
  BY <1>1, FS_RemoveElement
<1>3. \A s \in SUBSET D : sum[s] = IF s = {} THEN 0 ELSE w[Pick(s)] + sum[s \ {Pick(s)}]
  BY DEF IsSum
<1>4. sum[{}] = 0
  BY <1>3
<1>5. \A s \in SUBSET D : s # {} => Pick(s) \in s
  BY DEF Pick
<1>6. S = {}
  <2> SUFFICES ASSUME S # {} PROVE FALSE
    OBVIOUS
  <2>1. S \subseteq Nat
    BY <1>1
  <2>2. PICK m \in S : \A k \in S : m <= k
    BY <2>1, LeastNatural
  <2>3. PICK s \in SUBSET D : Cardinality(s) = m /\ ~Good(s)
    BY <2>2
  <2>4. ASSUME NEW t \in SUBSET D, Cardinality(t) < m PROVE Good(t)
    <3>1. Cardinality(t) \notin S
      BY <1>1, <2>1, <2>2, <2>4
    <3> HIDE DEF Good
    <3> QED
      BY <3>1
  <2>5. s # {}
    <3>1. Good({})
      BY <1>4
    <3> HIDE DEF Good
    <3> QED
      BY <2>3, <3>1
  <2> DEFINE x == Pick(s)
  <2>6. x \in s /\ x \in D /\ sum[s] = w[x] + sum[s \ {x}]
    BY <1>3, <1>5, <2>5
  <2> HIDE DEF x
  <2>7. \A a \in s : Good(s \ {a})
    <3> SUFFICES ASSUME NEW a \in s PROVE Good(s \ {a})
      OBVIOUS
    <3>1. s \ {a} \in SUBSET D /\ Cardinality(s \ {a}) < m
      BY <1>1, <1>2, <2>3
    <3> HIDE DEF Good
    <3> QED
      BY <2>4, <3>1
  <2>8. sum[s] \in Int
    BY <2>6, <2>7
  <2>9. ASSUME NEW a \in s PROVE sum[s] = w[a] + sum[s \ {a}]
    <3>1. CASE a = x
      BY <2>6, <3>1
    <3>2. CASE a # x
      <4>1. sum[s \ {x}] = w[a] + sum[(s \ {x}) \ {a}]
        BY <2>6, <2>7, <3>2
      <4>2. sum[s \ {a}] = w[x] + sum[(s \ {a}) \ {x}]
        BY <2>6, <2>7, <3>2
      <4>3. (s \ {x}) \ {a} = (s \ {a}) \ {x}
        OBVIOUS
      <4>4. sum[(s \ {a}) \ {x}] \in Int
        <5>1. (s \ {a}) \ {x} \in SUBSET D /\ Cardinality((s \ {a}) \ {x}) < m
          <6>1. Cardinality(s \ {a}) = m - 1 /\ m \in Nat /\ s \ {a} \in SUBSET D
            BY <1>1, <1>2, <2>3
          <6>2. x \in s \ {a}
            BY <2>6, <3>2
          <6>3. Cardinality((s \ {a}) \ {x}) = Cardinality(s \ {a}) - 1
            BY <1>2, <2>6, <6>1, <6>2
          <6> QED
            BY <6>1, <6>3
        <5> QED
          BY <2>4, <5>1
      <4>5. w[a] \in Int /\ w[x] \in Int
        BY <2>6
      <4> DEFINE r == sum[(s \ {a}) \ {x}]
      <4>6. sum[s \ {x}] = w[a] + r /\ sum[s \ {a}] = w[x] + r
        BY <4>1, <4>2, <4>3
      <4>7. r \in Int
        BY <4>4
      <4> HIDE DEF r
      <4> QED
        BY <2>6, <4>5, <4>6, <4>7
    <3> QED
      BY <3>1, <3>2
  <2> QED
    BY <2>3, <2>8, <2>9
<1>7. \A s \in SUBSET D : Good(s)
  <2> HIDE DEF Good
  <2> QED
    BY <1>6
<1> QED
  BY <1>4, <1>7 DEF Adds

LEMMA SumsUp ==
  ASSUME NEW D, IsFiniteSet(D), NEW w \in [D -> Int]
  PROVE  \E sum : SumFunction(w) = sum[D] /\ Adds(sum, w, D)
<1> DEFINE sum == CHOOSE f : f = [s \in SUBSET D |-> IF s = {} THEN 0
                                    ELSE w[CHOOSE x \in s : TRUE] + f[s \ {CHOOSE x \in s : TRUE}]]
<1>1. SumFunction(w) = sum[D]
  <2>1. DOMAIN w = D
    OBVIOUS
  <2> QED
    BY <2>1 DEF SumFunction, SumFunctionOnSet, FoldFunctionOnSet, MapThenFoldSet
<1>2. IsSum(sum, w, SUBSET D)
  <2>1. PICK g : IsSum(g, w, SUBSET D)
    BY SumExists
  <2>2. \E f : f = [s \in SUBSET D |-> IF s = {} THEN 0
                        ELSE w[CHOOSE x \in s : TRUE] + f[s \ {CHOOSE x \in s : TRUE}]]
    BY <2>1, Zenon DEF IsSum, Pick
  <2> QED
    BY <2>2, Zenon DEF IsSum, Pick
<1> HIDE DEF sum
<1> QED
  BY <1>1, <1>2, SumWithout

-----------------------------------------------------------------------------
(* The speed over the points.                                              *)

NoWay == [dist |-> 0, millis |-> 0]

IsWay(way, points, n) ==
    way = [i \in 0 .. n |-> IF i < 2 THEN NoWay
                            ELSE Move(way[i - 1], points[i - 1], points[i])]

LEMMA WayExists ==
  ASSUME NEW points, NEW n \in Nat
  PROVE  \E way : IsWay(way, points, n)
<1> DEFINE S == {k \in Nat : ~ \E way : IsWay(way, points, k)}
<1> SUFFICES ASSUME S # {} PROVE FALSE
  OBVIOUS
<1>1. PICK m \in S : \A k \in S : m <= k
  BY LeastNatural
<1>2. m # 0
  <2>1. IsWay([i \in 0 .. 0 |-> NoWay], points, 0)
    BY DEF IsWay
  <2> QED
    BY <1>1, <2>1
<1>3. m - 1 \in Nat /\ m - 1 \notin S
  BY <1>1, <1>2
<1>4. PICK way : IsWay(way, points, m - 1)
  BY <1>3
<1> DEFINE longer == [i \in 0 .. m |-> IF i = m
                        THEN IF m < 2 THEN NoWay ELSE Move(way[m - 1], points[m - 1], points[m])
                        ELSE way[i]]
<1>5. IsWay(longer, points, m)
  <2>1. ASSUME NEW i \in 0 .. m
        PROVE  longer[i] = IF i < 2 THEN NoWay ELSE Move(longer[i - 1], points[i - 1], points[i])
    <3>1. CASE i = m
      BY <1>2, <1>3, <3>1
    <3>2. CASE i # m
      <4>1. i \in 0 .. m - 1 /\ (~(i < 2) => i - 1 \in 0 .. m - 1 /\ i - 1 \in 0 .. m /\ i - 1 # m)
        BY <1>1, <3>2
      <4>2. way[i] = IF i < 2 THEN NoWay ELSE Move(way[i - 1], points[i - 1], points[i])
        BY <1>4, <4>1 DEF IsWay
      <4>3. longer[i] = way[i] /\ (~(i < 2) => longer[i - 1] = way[i - 1])
        BY <3>2, <4>1
      <4> HIDE DEF longer
      <4> QED
        BY <4>2, <4>3
    <3> QED
      BY <3>1, <3>2
  <2> QED
    BY <2>1 DEF IsWay
<1> QED
  BY <1>1, <1>5

LEMMA SpeedIsWay ==
  ASSUME NEW points, Len(points) \in Nat
  PROVE  \E way : /\ IsWay(way, points, Len(points))
                  /\ Speed(points) = IF way[Len(points)].millis > 0 THEN way[Len(points)] ELSE None
<1> DEFINE way == CHOOSE f : f = [i \in 0 .. Len(points) |->
                        IF i < 2 THEN [dist |-> 0, millis |-> 0]
                        ELSE Move(f[i - 1], points[i - 1], points[i])]
<1>1. Speed(points) = IF way[Len(points)].millis > 0 THEN way[Len(points)] ELSE None
  BY DEF Speed
<1>2. IsWay(way, points, Len(points))
  <2>1. PICK g : IsWay(g, points, Len(points))
    BY WayExists
  <2>2. \E f : f = [i \in 0 .. Len(points) |->
                        IF i < 2 THEN [dist |-> 0, millis |-> 0]
                        ELSE Move(f[i - 1], points[i - 1], points[i])]
    BY <2>1, Zenon DEF IsWay, NoWay
  <2> QED
    BY <2>2, Zenon DEF IsWay, NoWay
<1> HIDE DEF way
<1> QED
  BY <1>1, <1>2

\* The distances and times between the neighbours of a row of points between
\* which time grows.
AreSteps(points, grows, far, long) ==
    /\ Len(points) \in Nat
    /\ \A i \in 1 .. Len(points) : points[i].ts \in Int /\ points[i].x \in Int
    /\ grows = {i \in 1 .. Len(points) - 1 : points[i].ts < points[i + 1].ts}
    /\ far = [i \in grows |-> far[i]] /\ long = [i \in grows |-> long[i]]
    /\ \A i \in grows : /\ far[i] = Distance(points[i], points[i + 1])
                        /\ long[i] = points[i + 1].ts - points[i].ts

\* The speed is the sum of the distances over the sum of the times.
LEMMA SpeedIsAverage ==
  ASSUME NEW points, NEW grows, NEW far, NEW long, AreSteps(points, grows, far, long)
  PROVE  Speed(points) = IF grows = {} THEN None
                         ELSE [dist |-> SumFunction(far), millis |-> SumFunction(long)]
<1> SUFFICES ASSUME Len(points) \in Nat,
                    \A i \in 1 .. Len(points) : points[i].ts \in Int /\ points[i].x \in Int,
                    grows = {i \in 1 .. Len(points) - 1 : points[i].ts < points[i + 1].ts},
                    far = [i \in grows |-> far[i]],
                    \A i \in grows : far[i] = Distance(points[i], points[i + 1]),
                    long = [i \in grows |-> long[i]],
                    \A i \in grows : long[i] = points[i + 1].ts - points[i].ts
             PROVE  Speed(points) = IF grows = {} THEN None
                                    ELSE [dist |-> SumFunction(far), millis |-> SumFunction(long)]
  BY DEF AreSteps
<1> DEFINE N == Len(points)
           Upto(i) == {j \in grows : j < i}
<1>1. IsFiniteSet(grows) /\ grows \subseteq 1 .. N - 1
  <2>1. PICK k \in Int : k = N - 1
    OBVIOUS
  <2>2. IsFiniteSet(1 .. k)
    BY FS_Interval
  <2>3. grows \subseteq 1 .. k
    BY <2>1
  <2> QED
    BY <2>1, <2>2, <2>3, FS_Subset
<1>2. far \in [grows -> Int] /\ long \in [grows -> Int] /\ DOMAIN far = grows /\ DOMAIN long = grows
  <2>1. ASSUME NEW i \in grows
        PROVE  /\ Distance(points[i], points[i + 1]) \in Int
               /\ points[i + 1].ts - points[i].ts \in Int
    <3>1. i \in 1 .. N /\ i + 1 \in 1 .. N
      BY <1>1
    <3>2. points[i + 1].x - points[i].x \in Int /\ points[i + 1].ts - points[i].ts \in Int
      BY <3>1
    <3>3. Narrow(points[i + 1].x - points[i].x) \in Int
      BY <3>2, NarrowRange, FormatAssumption
    <3> QED
      BY <3>2, <3>3 DEF Distance
  <2> QED
    BY <2>1
<1>3. PICK fars : SumFunction(far) = fars[grows] /\ Adds(fars, far, grows)
  BY <1>1, <1>2, SumsUp
<1>4. PICK longs : SumFunction(long) = longs[grows] /\ Adds(longs, long, grows)
  BY <1>1, <1>2, SumsUp
<1>5. \A s \in SUBSET grows : fars[s] \in Int /\ longs[s] \in Int
  BY <1>3, <1>4 DEF Adds
<1>6. fars[{}] = 0 /\ longs[{}] = 0
  BY <1>3, <1>4 DEF Adds
<1>7. PICK way : /\ IsWay(way, points, N)
                 /\ Speed(points) = IF way[N].millis > 0 THEN way[N] ELSE None
  BY SpeedIsWay
<1>8. \A i \in 0 .. N : way[i] = IF i < 2 THEN NoWay ELSE Move(way[i - 1], points[i - 1], points[i])
  BY <1>7 DEF IsWay
<1> DEFINE Good(i) == /\ way[i] = [dist |-> fars[Upto(i)], millis |-> longs[Upto(i)]]
                      /\ longs[Upto(i)] >= 0
                      /\ longs[Upto(i)] > 0 <=> Upto(i) # {}
<1>9. ASSUME NEW i \in 0 .. N, i < 2 PROVE Good(i)
  <2>2. way[i] = [dist |-> 0, millis |-> 0]
    BY <1>8, <1>9 DEF NoWay
  <2> DEFINE u == Upto(i)
  <2>1. u = {}
    BY <1>1, <1>9
  <2> HIDE DEF u
  <2>3. /\ way[i] = [dist |-> fars[u], millis |-> longs[u]]
        /\ longs[u] >= 0 /\ (longs[u] > 0 <=> u # {})
    BY <1>6, <2>1, <2>2
  <2> QED
    BY <2>3 DEF u
<1>10. ASSUME NEW i \in 0 .. N, ~(i < 2), Good(i - 1) PROVE Good(i)
  <2> DEFINE s == Upto(i)
  <2> PICK k \in Int : k = i - 1
    OBVIOUS
  <2>1. k \in 1 .. N /\ k \in 1 .. N - 1 /\ i \in 1 .. N /\ k + 1 = i
    BY <1>10
  <2>2. way[i] = Move(way[k], points[k], points[i])
    BY <1>8, <1>10
  <2>3. Upto(k) \in SUBSET grows /\ s \in SUBSET grows
    OBVIOUS
  <2>4. CASE points[i].ts > points[k].ts
    <3>1. k \in grows /\ k \in s
      BY <2>1, <2>4
    <3>2. s \ {k} = Upto(k)
      BY <1>1, <2>1
    <3>3. /\ far[k] = Distance(points[k], points[i]) /\ far[k] \in Int
          /\ long[k] = points[i].ts - points[k].ts /\ long[k] \in Int /\ long[k] > 0
      <4>1. /\ far[k] = Distance(points[k], points[k + 1]) /\ far[k] \in Int
            /\ long[k] = points[k + 1].ts - points[k].ts
        BY <1>2, <3>1
      <4>2. points[i].ts \in Int /\ points[k].ts \in Int
        BY <2>1
      <4> QED
        BY <2>1, <2>4, <4>1, <4>2
    <3>4. fars[s] = far[k] + fars[Upto(k)] /\ longs[s] = long[k] + longs[Upto(k)]
      <4>1. fars[s] = far[k] + fars[s \ {k}] /\ longs[s] = long[k] + longs[s \ {k}]
        <5> HIDE DEF s
        <5> QED
          BY <1>3, <1>4, <2>3, <3>1 DEF Adds
      <4> QED
        BY <3>2, <4>1
    <3>5. fars[Upto(k)] \in Int /\ longs[Upto(k)] \in Int /\ longs[Upto(k)] >= 0
      BY <1>5, <1>10, <2>3
    <3>6. /\ way[i] = [dist |-> way[k].dist + Distance(points[k], points[i]),
                       millis |-> way[k].millis + points[i].ts - points[k].ts]
      BY <2>2, <2>4 DEF Move
    <3>7. way[k].dist = fars[Upto(k)] /\ way[k].millis = longs[Upto(k)]
      BY <1>10
    <3>8. points[i].ts \in Int /\ points[k].ts \in Int
      BY <2>1
    <3> DEFINE u == Upto(k)
    <3> HIDE DEF s, u
    <3>9. way[k].dist + Distance(points[k], points[i]) = fars[s]
      BY <3>3, <3>4, <3>5, <3>7 DEF u
    <3>a. /\ way[k].millis + points[i].ts - points[k].ts = longs[s]
          /\ longs[s] > 0
      <4> PICK late \in Int, early \in Int : late = points[i].ts /\ early = points[k].ts
        BY <3>8
      <4>1. long[k] = late - early /\ long[k] > 0
        BY <3>3
      <4>2. longs[u] \in Int /\ longs[u] >= 0 /\ longs[s] = long[k] + longs[u] /\ way[k].millis = longs[u]
        BY <3>4, <3>5, <3>7 DEF u
      <4>3. way[k].millis + late - early = longs[s] /\ longs[s] > 0
        BY <4>1, <4>2
      <4> QED
        BY <4>3
    <3>10. way[i] = [dist |-> fars[s], millis |-> longs[s]] /\ longs[s] > 0 /\ longs[s] \in Int /\ s # {}
      BY <1>5, <2>3, <3>1, <3>6, <3>9, <3>a
    <3> QED
      BY <3>10 DEF s
  <2>5. CASE ~(points[i].ts > points[k].ts)
    <3>1. s = Upto(k)
      <4>1. k \notin grows
        BY <2>1, <2>5
      <4> QED
        BY <1>1, <2>1, <4>1
    <3>2. way[i] = way[k]
      BY <2>2, <2>5 DEF Move
    <3> QED
      BY <1>10, <3>1, <3>2
  <2> QED
    BY <2>4, <2>5
<1>11. Good(N)
  <2> HIDE DEF Good
  <2> SUFFICES ASSUME ~Good(N) PROVE FALSE
    OBVIOUS
  <2> DEFINE S == {i \in 0 .. N : ~Good(i)}
  <2>0. S # {}
    OBVIOUS
  <2>1. S \subseteq Nat
    OBVIOUS
  <2>2. PICK m \in S : \A k \in S : m <= k
    BY <2>0, <2>1, LeastNatural
  <2>3. m \in 0 .. N /\ ~(m < 2)
    BY <1>9, <2>2
  <2>4. m - 1 \in 0 .. N /\ ~(m <= m - 1)
    BY <2>3
  <2>5. Good(m - 1)
    BY <2>2, <2>4
  <2> QED
    BY <1>10, <2>2, <2>3, <2>5
<1>12. Upto(N) = grows
  BY <1>1
<1> QED
  <2>1. way[N] = [dist |-> fars[grows], millis |-> longs[grows]]
        /\ (longs[grows] > 0 <=> grows # {})
    BY <1>11, <1>12
  <2>2. way[N].millis = longs[grows]
    BY <2>1
  <2> HIDE DEF N
  <2> QED
    BY <1>3, <1>4, <1>7, <2>1, <2>2

-----------------------------------------------------------------------------
(* Sections.                                                               *)

\* Everything a payload is made of.
Words == {Word(n) : n \in Nat}
Contents == UNION {Range(f[s]) : f \in Files, s \in Sections}
Atoms == Words \cup Contents \cup Strays

\* Whatever is in a payload has the type of its kind.
LEMMA AtomsAreAtoms == \A a \in Atoms : IsAtom(a)
<1>1. \A n \in Nat : IsAtom(Word(n))
  BY DEF IsAtom, Word
<1> QED
  BY <1>1, FormatAssumption DEF Atoms, Words, Contents

LEMMA DataType == \A f \in Files, s \in Sections : f[s] \in Seq(Atoms)
<1> SUFFICES ASSUME NEW f \in Files, NEW s \in Sections PROVE f[s] \in Seq(Atoms)
  OBVIOUS
<1>1. f[s] \in Seq(Range(f[s]))
  BY FormatAssumption
<1>2. Range(f[s]) \subseteq Atoms
  BY DEF Atoms, Contents
<1> QED
  BY <1>1, <1>2

\* A row of atoms r that begins with a section of data d, and goes on with t.
BeginsWith(r, d, t) ==
    /\ r \in Seq(Atoms) /\ r # <<>> /\ r[1] = Word(Len(d))
    /\ Len(r) = Len(d) + 1 + Len(t)
    /\ \A i \in 1 .. Len(d) : r[i + 1] = d[i]
    /\ SubSeq(r, Len(d) + 2, Len(r)) = t

\* A section read to its end leaves what was written behind it.
LEMMA SectionThenRest ==
    \A d, t \in Seq(Atoms) : BeginsWith(Section(d) \o t, d, t)
<1> SUFFICES ASSUME NEW d \in Seq(Atoms), NEW t \in Seq(Atoms), NEW r, r = Section(d) \o t
             PROVE  BeginsWith(r, d, t)
  OBVIOUS
<1> DEFINE w == <<Word(Len(d))>>
<1>1. Word(Len(d)) \in Atoms
  <2>1. Len(d) \in Nat
    OBVIOUS
  <2> QED
    BY <2>1 DEF Atoms, Words
<1>2. w \in Seq(Atoms) /\ Len(w) = 1 /\ w[1] = Word(Len(d))
  BY <1>1
<1> HIDE DEF w
<1>3. /\ Section(d) = w \o d
      /\ Section(d) \in Seq(Atoms)
      /\ Len(Section(d)) = Len(d) + 1
      /\ Section(d)[1] = Word(Len(d))
      /\ \A i \in 1 .. Len(d) : Section(d)[i + 1] = d[i]
  BY <1>2 DEF Section, w
<1>4. /\ r \in Seq(Atoms)
      /\ Len(r) = Len(d) + 1 + Len(t)
      /\ \A i \in 1 .. Len(d) + 1 : r[i] = Section(d)[i]
      /\ \A i \in 1 .. Len(t) : r[i + Len(d) + 1] = t[i]
  <2> DEFINE h == Section(d)
  <2>1. h \in Seq(Atoms) /\ Len(h) = Len(d) + 1 /\ r = h \o t
    BY <1>3
  <2> HIDE DEF h
  <2>2. /\ r \in Seq(Atoms)
        /\ Len(r) = Len(h) + Len(t)
        /\ \A i \in 1 .. Len(h) + Len(t) : r[i] = IF i <= Len(h) THEN h[i] ELSE t[i - Len(h)]
    <3>1. /\ h \o t \in Seq(Atoms)
          /\ Len(h \o t) = Len(h) + Len(t)
          /\ \A i \in 1 .. Len(h) + Len(t) :
                (h \o t)[i] = IF i <= Len(h) THEN h[i] ELSE t[i - Len(h)]
      BY <2>1, ConcatProperties, Zenon
    <3> QED
      BY <2>1, <3>1, Zenon
  <2>3. Len(d) \in Nat /\ Len(t) \in Nat
    OBVIOUS
  <2>4. /\ Len(r) = Len(d) + 1 + Len(t)
        /\ \A i \in 1 .. Len(d) + 1 : r[i] = h[i]
    BY <2>1, <2>2, <2>3
  <2>5. ASSUME NEW i \in 1 .. Len(t) PROVE r[i + Len(d) + 1] = t[i]
    <3>1. i + Len(d) + 1 \in 1 .. Len(h) + Len(t) /\ ~(i + Len(d) + 1 <= Len(h))
      BY <2>1, <2>3
    <3>2. i + Len(d) + 1 - Len(h) = i
      BY <2>1, <2>3
    <3> QED
      BY <2>2, <3>1, <3>2
  <2> QED
    BY <2>2, <2>4, <2>5 DEF h
<1>5. /\ r # <<>> /\ r[1] = Word(Len(d))
      /\ \A i \in 1 .. Len(d) : r[i + 1] = d[i]
  BY <1>3, <1>4
<1>6. SubSeq(r, Len(d) + 2, Len(r)) = t
  BY <1>4
<1> QED
  BY <1>4, <1>5, <1>6 DEF BeginsWith

\* A payload, and every rest of it, is a row of atoms.
LEMMA PayloadType ==
    ASSUME NEW f \in Files
    PROVE  /\ FromEnvironment(f) \in Seq(Atoms)
           /\ FromMouse(f) \in Seq(Atoms)
           /\ FromPerformances(f) \in Seq(Atoms)
           /\ FromStats(f) \in Seq(Atoms)
           /\ Encode(f) \in Seq(Atoms)
<1>1. /\ f.filename \in Seq(Atoms) /\ f.stats \in Seq(Atoms)
      /\ f.performances \in Seq(Atoms) /\ f.mouse \in Seq(Atoms)
      /\ f.environment \in Seq(Atoms)
  BY DataType DEF Sections
<1>2. <<>> \in Seq(Atoms)
  OBVIOUS
<1>3. FromEnvironment(f) \in Seq(Atoms)
  BY <1>1, <1>2, SectionThenRest DEF BeginsWith, FromEnvironment
<1>4. FromMouse(f) \in Seq(Atoms)
  BY <1>1, <1>3, SectionThenRest DEF BeginsWith, FromMouse
<1>5. FromPerformances(f) \in Seq(Atoms)
  BY <1>1, <1>4, SectionThenRest DEF BeginsWith, FromPerformances
<1>6. FromStats(f) \in Seq(Atoms)
  BY <1>1, <1>5, SectionThenRest DEF BeginsWith, FromStats
<1>7. Encode(f) \in Seq(Atoms)
  BY <1>1, <1>6, SectionThenRest DEF BeginsWith, Encode
<1> QED
  BY <1>3, <1>4, <1>5, <1>6, <1>7

\* A row of atoms r that broke off from t, or has something behind it.
Matches(r, t) ==
    /\ r \in Seq(Atoms)
    /\ \A i \in 1 .. Len(r) : i <= Len(t) => r[i] = t[i]

\* Such a row r of a section of d and of t behind it: what its reader meets, and
\* what it leaves when the section is there to its end.
HasInFront(r, d, t) ==
    /\ r[1] = Word(Len(d)) /\ Len(d) \in Nat /\ Len(r) \in Nat
    /\ \A i \in 1 .. Len(d) : i < Len(r) => r[i + 1] = d[i]
    /\ Len(d) < Len(r) =>
            LET left == SubSeq(r, Len(d) + 2, Len(r))
            IN  /\ SubSeq(r, 2, Len(d) + 1) = d
                /\ Matches(left, t)
                /\ Len(left) - Len(t) = Len(r) - Len(Section(d) \o t)

LEMMA SectionInFront ==
    ASSUME NEW d \in Seq(Atoms), NEW t \in Seq(Atoms), NEW r,
           Matches(r, Section(d) \o t), r # <<>>
    PROVE  HasInFront(r, d, t)
<1> DEFINE a == Section(d) \o t
           n == Len(d)
<1>1. BeginsWith(a, d, t)
  BY SectionThenRest
<1> HIDE DEF a
<1>2. /\ a \in Seq(Atoms) /\ a[1] = Word(n) /\ Len(a) = n + 1 + Len(t)
      /\ \A i \in 1 .. n : a[i + 1] = d[i]
      /\ SubSeq(a, n + 2, Len(a)) = t
  BY <1>1 DEF BeginsWith
<1>3. r \in Seq(Atoms) /\ \A i \in 1 .. Len(r) : i <= Len(a) => r[i] = a[i]
  BY DEF Matches, a
<1>4. n \in Nat /\ Len(r) \in Nat /\ Len(r) > 0 /\ Len(t) \in Nat /\ Len(a) \in Nat
  BY <1>2, <1>3
<1>5. r[1] = Word(n)
  BY <1>2, <1>3, <1>4
<1>6. ASSUME NEW i \in 1 .. n, i < Len(r) PROVE r[i + 1] = d[i]
  <2>1. i + 1 \in 1 .. Len(r) /\ i + 1 <= Len(a)
    BY <1>2, <1>4, <1>6
  <2> QED
    BY <1>2, <1>3, <2>1
<1>7. ASSUME n < Len(r) PROVE SubSeq(r, 2, n + 1) = d
  <2>1. /\ SubSeq(r, 2, n + 1) \in Seq(Atoms) /\ Len(SubSeq(r, 2, n + 1)) = n
        /\ \A i \in 1 .. n : SubSeq(r, 2, n + 1)[i] = r[i + 1]
    BY <1>3, <1>4, <1>7
  <2>2. \A i \in 1 .. n : SubSeq(r, 2, n + 1)[i] = d[i]
    BY <1>4, <1>6, <1>7, <2>1
  <2> QED
    BY <2>1, <2>2, SeqEqual
<1>8. ASSUME n < Len(r) PROVE /\ Matches(SubSeq(r, n + 2, Len(r)), t)
                              /\ Len(SubSeq(r, n + 2, Len(r))) - Len(t) = Len(r) - Len(a)
  <2> DEFINE left == SubSeq(r, n + 2, Len(r))
  <2>1. /\ left \in Seq(Atoms) /\ Len(left) = Len(r) - n - 1
        /\ \A i \in 1 .. Len(left) : left[i] = r[i + n + 1]
    BY <1>3, <1>4, <1>8
  <2>2. \A i \in 1 .. Len(t) : t[i] = a[i + n + 1]
    <3> DEFINE tail == SubSeq(a, n + 2, Len(a))
    <3> HIDE DEF n
    <3>1. \A i \in 1 .. Len(a) - n - 1 : tail[i] = a[i + n + 1]
      BY <1>2, <1>4
    <3>2. tail = t /\ Len(a) - n - 1 = Len(t)
      BY <1>2, <1>4
    <3> HIDE DEF tail
    <3> QED
      BY <3>1, <3>2
  <2> HIDE DEF left
  <2>3. ASSUME NEW i \in 1 .. Len(left), i <= Len(t) PROVE left[i] = t[i]
    <3>1. i + n + 1 \in 1 .. Len(r) /\ i + n + 1 <= Len(a) /\ i \in 1 .. Len(t)
      BY <1>2, <1>4, <2>1, <2>3
    <3> QED
      BY <1>3, <2>1, <2>2, <3>1
  <2> QED
    BY <1>2, <1>4, <2>1, <2>3 DEF Matches, left
<1> QED
  BY <1>4, <1>5, <1>6, <1>7, <1>8 DEF a, HasInFront

-----------------------------------------------------------------------------
(* What is read.                                                           *)

\* Whatever is read as a length is a number.
LEMMA LengthsAreNat ==
    ASSUME rest \in Seq(Atoms), NEW n \in Lengths
    PROVE  n \in Nat /\ rest # <<>>
<1>1. rest # <<>> /\ rest[1] \in Atoms
  BY DEF Lengths
<1>2. IsAtom(rest[1])
  BY <1>1, AtomsAreAtoms
<1> QED
  BY <1>1, <1>2, FormatAssumption DEF Lengths, IsAtom

\* Fields that are written are read as they are; whatever is read, a count is a
\* number.
LEMMA ReadingsOfData ==
    ASSUME NEW d \in Seq(Atoms), NEW fields \in Readings(d)
    PROVE  /\ Len(fields) \in Nat /\ DOMAIN fields = 1 .. Len(fields)
           /\ \A i \in DOMAIN fields :
                fields[i].form = "whole" /\ fields[i].num = 20 => fields[i].val \in Int
           /\ (\A i \in DOMAIN d : d[i].is = "field") => fields = d
<1>1. /\ fields \in [DOMAIN d -> Garbled \cup Range(d)]
      /\ \A i \in DOMAIN d : IF d[i].is = "field" THEN fields[i] = d[i] ELSE fields[i] \in Garbled
  BY DEF Readings
<1>2. DOMAIN d = 1 .. Len(d) /\ Len(d) \in Nat /\ d = [i \in 1 .. Len(d) |-> d[i]]
  OBVIOUS
<1>3. fields \in Seq(Garbled \cup Range(d)) /\ Len(fields) = Len(d) /\ DOMAIN fields = DOMAIN d
  BY <1>1, <1>2
<1>4. ASSUME NEW i \in DOMAIN d PROVE IsAtom(fields[i]) /\ fields[i].is = "field"
  <2>1. d[i] \in Atoms
    OBVIOUS
  <2> QED
    BY <1>1, <2>1, AtomsAreAtoms, FormatAssumption
<1>5. ASSUME \A i \in DOMAIN d : d[i].is = "field" PROVE fields = d
  <2>1. \A i \in 1 .. Len(d) : fields[i] = d[i]
    BY <1>1, <1>2, <1>5
  <2> QED
    BY <1>1, <1>2, <2>1
<1> QED
  BY <1>2, <1>3, <1>4, <1>5 DEF IsAtom

\* A count of trace points fits in 32 bits, whatever is read as one.
LEMMA EnvironmentTypes ==
    ASSUME NEW fields, Len(fields) \in Nat, DOMAIN fields = 1 .. Len(fields),
           \A i \in DOMAIN fields :
                fields[i].form = "whole" /\ fields[i].num = 20 => fields[i].val \in Int,
           NEW got, got = ReadFields(EnvironmentSlots, fields).got
    PROVE  /\ DOMAIN got = Range(EnvironmentSlots)
           /\ got.tracePoints \in -Half .. Half - 1
<1> DEFINE s == "tracePoints"
<1>1. s \in Range(EnvironmentSlots)
  <2>1. 20 \in DOMAIN EnvironmentSlots /\ EnvironmentSlots[20] = s
    BY DEF EnvironmentSlots
  <2> QED
    BY <2>1 DEF Range
<1>2. \A n \in DOMAIN EnvironmentSlots : EnvironmentSlots[n] = s => n = 20
  BY DEF EnvironmentSlots
<1>3. got = [t \in Range(EnvironmentSlots) |-> ValueOf(fields, EnvironmentSlots, t)]
  BY FieldsAreRead
<1>4. got.tracePoints = ValueOf(fields, EnvironmentSlots, s)
  BY <1>1, <1>3
<1>5. Half \in Nat /\ Half > 0
  BY FormatAssumption
<1>6. Unset(s) = 0
  BY DEF Unset, TextSlots
<1>7. \A v : Stored(s, v) = Narrow(v)
  BY DEF Stored, TextSlots
<1>8. IsSomeValue(ValueOf(fields, EnvironmentSlots, s), EnvironmentSlots, fields, s)
  BY <1>1, FieldsAreRead
<1>9. ValueOf(fields, EnvironmentSlots, s) \in -Half .. Half - 1
  <2>1. CASE ValueOf(fields, EnvironmentSlots, s) = Unset(s)
    BY <1>5, <1>6, <2>1
  <2>2. ASSUME NEW i \in DOMAIN fields, fields[i].form = "whole", fields[i].num \in DOMAIN EnvironmentSlots,
               EnvironmentSlots[fields[i].num] = s,
               ValueOf(fields, EnvironmentSlots, s) = Stored(s, fields[i].val)
        PROVE  ValueOf(fields, EnvironmentSlots, s) \in -Half .. Half - 1
    <3>1. fields[i].val \in Int
      BY <1>2, <2>2
    <3> QED
      BY <1>7, <2>2, <3>1, NarrowRange
  <2> QED
    BY <1>8, <2>1, <2>2 DEF IsSomeValue
<1> QED
  BY <1>3, <1>4, <1>9

\* The statistics of a file, and the summary in them.
LEMMA StatsAreRead ==
    ASSUME NEW f \in Files, NEW loop, loop = ReadFields(SummarySlots, SummaryIn(f.stats))
    PROVE  /\ loop.got = [s \in Range(SummarySlots) |-> ValueOf(Summary(f.stats), SummarySlots, s)]
           /\ loop.end = "panic" => HasMalformed(Summary(f.stats))
<1> DEFINE d == f.stats
<1>1. d \in Seq(Atoms)
  BY DataType DEF Sections
<1>2. DOMAIN d = 1 .. Len(d) /\ Len(d) \in Nat
  BY <1>1
<1>3. \A i \in DOMAIN d : d[i].form \in Forms
                          /\ (d[i].form = "whole" /\ d[i].num = 1 => d[i].val \in Seq(Range(d[i].val)))
  <2>1. \A i \in DOMAIN d : d[i] \in Range(d)
    BY DEF Range
  <2> QED
    BY <2>1, FormatAssumption
<1> HIDE DEF d
<1>4. SummaryIn(d) = Summary(d)
  BY <1>2, <1>3, SummaryIsTaken
<1>5. Len(Summary(d)) \in Nat /\ DOMAIN Summary(d) = 1 .. Len(Summary(d))
  <2> DEFINE summaries == {i \in DOMAIN d : /\ d[i].form = "whole" /\ d[i].num = 1
                                            /\ \A j \in 1 .. i - 1 : \/ d[j].form = "other_type"
                                                                     \/ d[j].form = "whole" /\ d[j].num # 1}
  <2>1. Summary(d) = IF summaries = {} THEN <<>> ELSE d[CHOOSE i \in summaries : TRUE].val
    BY DEF Summary
  <2>2. \A i \in summaries : d[i].val \in Seq(Range(d[i].val))
    BY <1>3
  <2> HIDE DEF summaries
  <2>3. CASE summaries = {}
    BY <2>1, <2>3
  <2>4. CASE summaries # {}
    BY <2>1, <2>2, <2>4
  <2> QED
    BY <2>3, <2>4
<1>6. loop = ReadFields(SummarySlots, Summary(d))
  BY <1>4 DEF d
<1> QED
  BY <1>5, <1>6, FieldsAreRead DEF d

\* The parts of the metadata, one by one.
LEMMA MetadataParts ==
    ASSUME NEW f, NEW M, M = Metadata(f)
    PROVE  /\ M = [fileName |-> M.fileName, stats |-> M.stats, environment |-> M.environment,
                   trace |-> M.trace, speed |-> M.speed]
           /\ M.fileName = f.filename
           /\ M.stats = [s \in Range(SummarySlots) |-> ValueOf(Summary(f.stats), SummarySlots, s)]
           /\ M.environment = [s \in Range(EnvironmentSlots) |-> ValueOf(f.environment, EnvironmentSlots, s)]
           /\ M.trace \in BOOLEAN
           /\ M.trace <=> Points(f) # <<>> \/ ValueOf(f.environment, EnvironmentSlots, "tracePoints") > 0
           /\ M.speed = LET points == Points(f)
                            grows == {i \in 1 .. Len(points) - 1 : points[i].ts < points[i + 1].ts}
                        IN  IF grows = {} THEN None
                            ELSE [dist |-> SumFunction([i \in grows |-> Distance(points[i], points[i + 1])]),
                                  millis |-> SumFunction([i \in grows |-> points[i + 1].ts - points[i].ts])]
<1> DEFINE points == Points(f)
           grows == {i \in 1 .. Len(points) - 1 : points[i].ts < points[i + 1].ts}
           speed == IF grows = {} THEN None
                    ELSE [dist |-> SumFunction([i \in grows |-> Distance(points[i], points[i + 1])]),
                          millis |-> SumFunction([i \in grows |-> points[i + 1].ts - points[i].ts])]
           stats == [s \in Range(SummarySlots) |-> ValueOf(Summary(f.stats), SummarySlots, s)]
           environment == [s \in Range(EnvironmentSlots) |-> ValueOf(f.environment, EnvironmentSlots, s)]
           trace == points # <<>> \/ ValueOf(f.environment, EnvironmentSlots, "tracePoints") > 0
<1>1. M = [fileName |-> f.filename, stats |-> stats, environment |-> environment,
           trace |-> trace, speed |-> speed]
  BY DEF Metadata
<1>a. trace \in BOOLEAN
  OBVIOUS
<1> HIDE DEF stats, environment, speed, trace
<1>2. /\ M.fileName = f.filename /\ M.stats = stats /\ M.environment = environment
      /\ (M.trace <=> trace) /\ M.trace = trace /\ M.speed = speed
      /\ M = [fileName |-> M.fileName, stats |-> M.stats, environment |-> M.environment,
              trace |-> M.trace, speed |-> M.speed]
  BY <1>1
<1> QED
  BY <1>a, <1>2 DEF stats, environment, speed, trace

-----------------------------------------------------------------------------
(* The invariant.                                                          *)

Reading == Sections \cup {"eof"}

\* The stages at which the name, the statistics and the mouse section are known.
NameKnown == Reading \ {"filename"}
StatsKnown == NameKnown \ {"stats"}
MouseKnown == {"environment", "eof"}

\* Behind a mouse section the parser is in step if that section is exact.
Exact(s) == s \in MouseKnown => MouseIsExact(written)

\* A reader that has r in front of it is in step: it lacks what the payload
\* lacks of the file, or has behind it what the payload has.
InStepAt(r, s) ==
    LET ahead == Ahead(written, s)
    IN  /\ Matches(r, ahead)
        /\ Len(r) - Len(ahead) = Len(raw.payload) - Len(Encode(written))

FileInv == stage # "idle" => written \in Files /\ Matches(raw.payload, Encode(written))

SumChecked == stage = "decoder" => raw.sum

StreamInv ==
    stage \in Reading =>
        /\ rest \in Seq(Atoms)
        /\ raw.sum /\ raw.declared = raw.packed
        /\ Exact(stage) => InStepAt(rest, stage)

\* What was found so far is that of the file.
FoundInv ==
    /\ stage \in NameKnown => parsed.fileName = written.filename
    /\ stage \in StatsKnown => parsed.stats = Metadata(written).stats
    /\ stage \in Sections \ MouseKnown => ~parsed.trace /\ parsed.speed = None
    /\ stage \in MouseKnown /\ MouseIsExact(written) =>
            /\ parsed.trace <=> Points(written) # <<>>
            /\ parsed.speed = Metadata(written).speed
    /\ stage = "eof" /\ MouseIsExact(written) => parsed.environment = Metadata(written).environment

Parts(p) == [fileName |-> p.fileName, trace |-> p.trace, speed |-> p.speed,
             stats |-> p.stats, environment |-> p.environment]

ParsedType ==
    /\ parsed = Parts(parsed)
    /\ ParserTypeOK

ParserInv ==
    /\ FileInv /\ SumChecked /\ StreamInv /\ FoundInv /\ ParsedType
    /\ AcceptedAsWritten /\ PanicsOnMalformedOnly

-----------------------------------------------------------------------------
(* What is in front of a reader.                                           *)

NextSection(s) ==
    CASE s = "filename" -> "stats" [] s = "stats" -> "performances" [] s = "performances" -> "mouse"
      [] s = "mouse" -> "environment" [] s = "environment" -> "eof"

\* What lies ahead of a section is that section and what lies ahead of the next.
LEMMA SectionsOfFile ==
    ASSUME NEW f \in Files, NEW s \in Sections
    PROVE  /\ Ahead(f, s) = Section(f[s]) \o Ahead(f, NextSection(s))
           /\ f[s] \in Seq(Atoms) /\ Ahead(f, NextSection(s)) \in Seq(Atoms)
<1>1. f[s] \in Seq(Atoms)
  BY DataType
<1>2. <<>> \in Seq(Atoms)
  OBVIOUS
<1>3. CASE s = "filename"
  BY <1>1, <1>3, PayloadType DEF Ahead, NextSection, Encode
<1>4. CASE s = "stats"
  BY <1>1, <1>4, PayloadType DEF Ahead, NextSection, FromStats
<1>5. CASE s = "performances"
  BY <1>1, <1>5, PayloadType DEF Ahead, NextSection, FromPerformances
<1>6. CASE s = "mouse"
  BY <1>1, <1>6, PayloadType DEF Ahead, NextSection, FromMouse
<1>7. CASE s = "environment"
  BY <1>1, <1>2, <1>7, PayloadType DEF Ahead, NextSection, FromEnvironment
<1> QED
  BY <1>3, <1>4, <1>5, <1>6, <1>7 DEF Sections

\* A reader in step reads the length and the data that were written, and is in
\* step when the section is read to its end.
LEMMA SectionIsRead ==
    ASSUME written \in Files, stage \in Sections, InStepAt(rest, stage), NEW n \in Lengths
    PROVE  /\ n = Len(written[stage]) /\ n \in Nat /\ Len(rest) \in Nat /\ rest # <<>>
           /\ \A i \in 1 .. n : i < Len(rest) => rest[i + 1] = written[stage][i]
           /\ n < Len(rest) => /\ Data(n) = written[stage]
                               /\ InStepAt(SubSeq(rest, n + 2, Len(rest)), NextSection(stage))
<1> DEFINE d == written[stage]
           t == Ahead(written, NextSection(stage))
           left == SubSeq(rest, n + 2, Len(rest))
<1>1. Ahead(written, stage) = Section(d) \o t /\ d \in Seq(Atoms) /\ t \in Seq(Atoms)
  BY SectionsOfFile
<1>2. /\ Matches(rest, Section(d) \o t)
      /\ Len(rest) - Len(Section(d) \o t) = Len(raw.payload) - Len(Encode(written))
  BY <1>1 DEF InStepAt
<1>3. rest # <<>>
  BY DEF Lengths
<1> HIDE DEF d, t
<1>4. /\ rest[1] = Word(Len(d)) /\ Len(d) \in Nat /\ Len(rest) \in Nat
      /\ \A i \in 1 .. Len(d) : i < Len(rest) => rest[i + 1] = d[i]
  <2>1. HasInFront(rest, d, t)
    BY <1>1, <1>2, <1>3, SectionInFront
  <2> QED
    BY <2>1 DEF HasInFront
<1>5. n = Len(d)
  BY <1>3, <1>4 DEF Lengths, Word
<1>6. n < Len(rest) => /\ Data(n) = d
                       /\ Matches(left, t)
                       /\ Len(left) - Len(t) = Len(rest) - Len(Section(d) \o t)
  <2>1. HasInFront(rest, d, t)
    BY <1>1, <1>2, <1>3, SectionInFront
  <2> QED
    BY <1>5, <2>1 DEF HasInFront, Data
<1>7. n < Len(rest) => InStepAt(left, NextSection(stage))
  BY <1>2, <1>6 DEF InStepAt, t
<1> QED
  BY <1>3, <1>4, <1>5, <1>6, <1>7 DEF d

\* The rest is a row of atoms again, in step or not.
LEMMA RestType ==
    ASSUME rest \in Seq(Atoms), NEW n \in Nat
    PROVE  SubSeq(rest, n + 2, Len(rest)) \in Seq(Atoms)
<1>1. Len(rest) \in Nat
  OBVIOUS
<1> QED
  BY <1>1

\* What is read as the data of a section is a row of atoms.
LEMMA DataIsAtoms ==
    ASSUME rest \in Seq(Atoms), NEW n \in Nat, n < Len(rest)
    PROVE  Data(n) \in Seq(Atoms)
<1>1. Len(rest) \in Nat
  OBVIOUS
<1> QED
  BY <1>1 DEF Data

-----------------------------------------------------------------------------
(* The steps that leave the stream alone or go on to the next section.     *)

\* An answer that is not "accepted" leaves everything as it is.
LEMMA Answers ==
    ASSUME ParserInv, stage # "idle", Reject \/ (Panic /\ PanicsOnMalformedOnly')
    PROVE  ParserInv'
<1>1. stage' \in {"rejected", "panicked"} /\ UNCHANGED <<written, raw, rest, parsed>>
  BY DEF Reject, Panic
<1>2. FileInv'
  BY <1>1 DEF ParserInv, FileInv, Matches
<1>3. StreamInv' /\ FoundInv' /\ SumChecked' /\ AcceptedAsWritten'
  BY <1>1 DEF SumChecked, StreamInv, FoundInv, AcceptedAsWritten, Reading, NameKnown, StatsKnown, MouseKnown, Sections
<1>4. ParsedType'
  BY <1>1 DEF ParserInv, ParsedType, ParserTypeOK, Answered
<1>5. PanicsOnMalformedOnly'
  BY DEF Reject, PanicsOnMalformedOnly
<1> QED
  BY <1>2, <1>3, <1>4, <1>5 DEF ParserInv

\* A section that is read to its end was read as it was written, and leaves the
\* parser in step.
LEMMA StreamGoesOn ==
    ASSUME FileInv, StreamInv, stage \in Sections, NEW n \in Lengths, n < Len(rest),
           Advance(n, NextSection(stage))
    PROVE  /\ FileInv' /\ StreamInv'
           /\ n \in Nat /\ Data(n) \in Seq(Atoms)
           /\ Exact(stage) => n = Len(written[stage]) /\ Data(n) = written[stage]
<1> DEFINE next == NextSection(stage)
           left == SubSeq(rest, n + 2, Len(rest))
<1>1. /\ written \in Files /\ Matches(raw.payload, Encode(written))
      /\ rest \in Seq(Atoms) /\ raw.sum /\ raw.declared = raw.packed
      /\ Exact(stage) => InStepAt(rest, stage)
  BY DEF FileInv, StreamInv, Reading, Sections
<1>2. stage' = next /\ rest' = left /\ UNCHANGED <<written, raw>>
  BY DEF Advance
<1>3. n \in Nat
  BY <1>1, LengthsAreNat
<1>4. left \in Seq(Atoms) /\ Data(n) \in Seq(Atoms)
  BY <1>1, <1>3, RestType, DataIsAtoms
<1>5. next \in Reading /\ (stage \in MouseKnown => next \in MouseKnown)
  BY DEF NextSection, Reading, Sections, MouseKnown
<1>6. Exact(stage) => /\ n = Len(written[stage]) /\ Data(n) = written[stage]
                      /\ InStepAt(left, next)
  BY <1>1, SectionIsRead
<1> HIDE DEF next, left
<1>7. FileInv'
  BY <1>1, <1>2 DEF FileInv, Matches
<1>8. Exact(next) => Exact(stage)
  BY <1>5 DEF Exact, MouseKnown
<1>9. InStepAt(left, next) => InStepAt(rest, stage)'
  BY <1>2 DEF InStepAt, Matches
<1>10. StreamInv'
  BY <1>1, <1>2, <1>4, <1>6, <1>8, <1>9 DEF StreamInv, Exact
<1> QED
  BY <1>3, <1>4, <1>6, <1>7, <1>10 DEF left

\* The metadata with one part replaced.
LEMMA OnePart ==
    ASSUME NEW p, p = Parts(p)
    PROVE  /\ \A v : [p EXCEPT !.fileName = v] =
                [fileName |-> v, trace |-> p.trace, speed |-> p.speed,
                 stats |-> p.stats, environment |-> p.environment]
           /\ \A v : [p EXCEPT !.stats = v] =
                [fileName |-> p.fileName, trace |-> p.trace, speed |-> p.speed,
                 stats |-> v, environment |-> p.environment]
           /\ \A v : [p EXCEPT !.environment = v] =
                [fileName |-> p.fileName, trace |-> p.trace, speed |-> p.speed,
                 stats |-> p.stats, environment |-> v]
           /\ \A v : [p EXCEPT !.trace = v] =
                [fileName |-> p.fileName, trace |-> v, speed |-> p.speed,
                 stats |-> p.stats, environment |-> p.environment]
<1>1. DOMAIN p = {"fileName", "trace", "speed", "stats", "environment"}
  BY DEF Parts
<1>2. ASSUME NEW v PROVE [p EXCEPT !.fileName = v] =
                [fileName |-> v, trace |-> p.trace, speed |-> p.speed,
                 stats |-> p.stats, environment |-> p.environment]
  BY <1>1
<1>3. ASSUME NEW v PROVE [p EXCEPT !.stats = v] =
                [fileName |-> p.fileName, trace |-> p.trace, speed |-> p.speed,
                 stats |-> v, environment |-> p.environment]
  BY <1>1
<1>4. ASSUME NEW v PROVE [p EXCEPT !.environment = v] =
                [fileName |-> p.fileName, trace |-> p.trace, speed |-> p.speed,
                 stats |-> p.stats, environment |-> v]
  BY <1>1
<1>5. ASSUME NEW v PROVE [p EXCEPT !.trace = v] =
                [fileName |-> p.fileName, trace |-> v, speed |-> p.speed,
                 stats |-> p.stats, environment |-> p.environment]
  BY <1>1
<1> QED
  BY <1>2, <1>3, <1>4, <1>5

-----------------------------------------------------------------------------
(* One section after the other.                                            *)

\* The name, and with it the first 32-bit length, was read as it was written.
LEMMA NameStep == ParserInv /\ ReadName => ParserInv'
<1> SUFFICES ASSUME ParserInv, ReadName PROVE ParserInv'
  OBVIOUS
<1>1. stage = "filename" /\ FileInv /\ StreamInv /\ ParsedType /\ FoundInv
  BY DEF ReadName, ParserInv
<1>2. PICK n \in Lengths : /\ n < Len(rest)
                           /\ \/ Reject
                              \/ Advance(n, "stats") /\ parsed' = [parsed EXCEPT !.fileName = Data(n)]
  BY DEF ReadName
<1>3. CASE Reject
  BY <1>1, <1>3, Answers
<1>4. CASE Advance(n, "stats") /\ parsed' = [parsed EXCEPT !.fileName = Data(n)]
  <2>1. stage \in Sections /\ NextSection(stage) = "stats" /\ Exact(stage) /\ stage' = "stats"
        /\ UNCHANGED written
    BY <1>1, <1>4 DEF Sections, NextSection, Exact, MouseKnown, Advance
  <2>2. FileInv' /\ StreamInv' /\ Data(n) = written.filename
    BY <1>1, <1>2, <1>4, <2>1, StreamGoesOn
  <2>3. parsed' = [fileName |-> written.filename, trace |-> parsed.trace, speed |-> parsed.speed,
                   stats |-> parsed.stats, environment |-> parsed.environment]
    BY <1>1, <1>4, <2>2, OnePart DEF ParsedType
  <2>4. FoundInv'
    BY <1>1, <2>1, <2>3 DEF FoundInv, NameKnown, StatsKnown, MouseKnown, Reading, Sections
  <2>5. ParsedType'
    BY <1>1, <2>1, <2>3 DEF ParsedType, Parts, ParserTypeOK, Sections
  <2> QED
    BY <2>1, <2>2, <2>4, <2>5 DEF ParserInv, SumChecked, AcceptedAsWritten, PanicsOnMalformedOnly
<1> QED
  BY <1>2, <1>3, <1>4

\* The statistics: the fields in step are those of the file.
LEMMA StatsStep == ParserInv /\ ReadStats => ParserInv'
<1> SUFFICES ASSUME ParserInv, ReadStats PROVE ParserInv'
  OBVIOUS
<1>1. stage = "stats" /\ FileInv /\ StreamInv /\ ParsedType /\ FoundInv /\ written \in Files
  BY DEF ReadStats, ParserInv, FileInv
<1>a. PICK n \in Lengths :
        /\ n < Len(rest)
        /\ \E fields \in Readings(Data(n)) :
            IF ReadFields(SummarySlots, SummaryIn(fields)).end = "panic" THEN Panic
            ELSE /\ Advance(n, "performances")
                 /\ parsed' = [parsed EXCEPT !.stats = ReadFields(SummarySlots, SummaryIn(fields)).got]
  BY Zenon DEF ReadStats
<1>b. PICK fields \in Readings(Data(n)) :
            IF ReadFields(SummarySlots, SummaryIn(fields)).end = "panic" THEN Panic
            ELSE /\ Advance(n, "performances")
                 /\ parsed' = [parsed EXCEPT !.stats = ReadFields(SummarySlots, SummaryIn(fields)).got]
  BY <1>a, Zenon
<1>3. stage \in Sections /\ NextSection(stage) = "performances" /\ Exact(stage)
  BY <1>1 DEF Sections, NextSection, Exact, MouseKnown
<1>4. Data(n) = written.stats /\ Data(n) \in Seq(Atoms)
  <2>1. InStepAt(rest, stage) /\ rest \in Seq(Atoms)
    BY <1>1, <1>3 DEF StreamInv, Reading
  <2>2. n \in Nat
    BY <2>1, LengthsAreNat
  <2> QED
    BY <1>1, <1>a, <1>b, <1>3, <2>1, <2>2, SectionIsRead, DataIsAtoms
<1>5. fields = written.stats
  <2>1. \A i \in DOMAIN written.stats : written.stats[i].is = "field"
    BY <1>1, FormatAssumption DEF Range
  <2> QED
    BY <1>a, <1>b, <1>4, <2>1, ReadingsOfData
<1> DEFINE loop == ReadFields(SummarySlots, SummaryIn(fields))
<1>6. /\ loop.got = [s \in Range(SummarySlots) |-> ValueOf(Summary(written.stats), SummarySlots, s)]
      /\ loop.end = "panic" => HasMalformed(Summary(written.stats))
  BY <1>1, <1>5, StatsAreRead
<1> HIDE DEF loop
<1>7. CASE loop.end = "panic"
  <2>1. Panic /\ UNCHANGED written
    BY <1>a, <1>b, <1>7 DEF Panic, loop
  <2>2. PanicsOnMalformedOnly'
    BY <1>6, <1>7, <2>1 DEF PanicsOnMalformedOnly, HasMalformed
  <2> QED
    BY <1>1, <2>1, <2>2, Answers
<1>8. CASE loop.end # "panic"
  <2>1. Advance(n, "performances") /\ parsed' = [parsed EXCEPT !.stats = loop.got]
    BY <1>a, <1>b, <1>8 DEF loop
  <2>2. stage' = "performances" /\ UNCHANGED written
    BY <2>1 DEF Advance
  <2>3. FileInv' /\ StreamInv'
    BY <1>1, <1>a, <1>b, <1>3, <2>1, StreamGoesOn
  <2>4. parsed' = [fileName |-> parsed.fileName, trace |-> parsed.trace, speed |-> parsed.speed,
                   stats |-> loop.got, environment |-> parsed.environment]
    BY <1>1, <2>1, OnePart DEF ParsedType
  <2>5. Metadata(written).stats = loop.got /\ DOMAIN loop.got = Range(SummarySlots)
    BY <1>6, MetadataParts
  <2>6. FoundInv'
    <3>1. FoundInv /\ parsed.fileName = written.filename /\ ~parsed.trace /\ parsed.speed = None
      BY <1>1 DEF FoundInv, NameKnown, MouseKnown, Reading, Sections
    <3>2. parsed'.fileName = written.filename /\ ~parsed'.trace /\ parsed'.speed = None
          /\ parsed'.stats = Metadata(written).stats
      BY <2>4, <2>5, <3>1
    <3> QED
      BY <2>2, <3>2 DEF FoundInv, MouseKnown
  <2>7. ParsedType'
    BY <1>1, <2>2, <2>4, <2>5 DEF ParsedType, Parts, ParserTypeOK, Sections
  <2> QED
    BY <2>2, <2>3, <2>6, <2>7 DEF ParserInv, SumChecked, AcceptedAsWritten, PanicsOnMalformedOnly
<1> QED
  BY <1>7, <1>8

\* The performances are skipped to their end.
LEMMA PerformancesStep == ParserInv /\ SkipPerformances => ParserInv'
<1> SUFFICES ASSUME ParserInv, SkipPerformances PROVE ParserInv'
  OBVIOUS
<1>1. stage = "performances" /\ FileInv /\ StreamInv /\ ParsedType /\ FoundInv /\ UNCHANGED parsed
  BY DEF SkipPerformances, ParserInv
<1>2. PICK n \in Lengths : n < Len(rest) /\ Advance(n, "mouse")
  BY DEF SkipPerformances
<1>3. stage \in Sections /\ NextSection(stage) = "mouse" /\ stage' = "mouse" /\ UNCHANGED written
  BY <1>1, <1>2 DEF Sections, NextSection, Advance
<1>4. FileInv' /\ StreamInv'
  BY <1>1, <1>2, <1>3, StreamGoesOn
<1>5. FoundInv'
  BY <1>1, <1>3 DEF FoundInv, NameKnown, StatsKnown, MouseKnown, Reading, Sections
<1>6. ParsedType'
  BY <1>1, <1>3 DEF ParsedType, Parts, ParserTypeOK, Sections
<1> QED
  BY <1>3, <1>4, <1>5, <1>6 DEF ParserInv, SumChecked, AcceptedAsWritten, PanicsOnMalformedOnly

\* The environment: those of the file in step, and some 32-bit count otherwise.
LEMMA EnvironmentStep == ParserInv /\ ReadEnvironment => ParserInv'
<1> SUFFICES ASSUME ParserInv, ReadEnvironment PROVE ParserInv'
  OBVIOUS
<1>1. stage = "environment" /\ FileInv /\ StreamInv /\ ParsedType /\ FoundInv /\ written \in Files
  BY DEF ReadEnvironment, ParserInv, FileInv
<1>a. PICK n \in Lengths :
        /\ n < Len(rest)
        /\ \E fields \in Readings(Data(n)) :
            IF ReadFields(EnvironmentSlots, fields).end = "panic" THEN Panic
            ELSE /\ Advance(n, "eof")
                 /\ parsed' = [parsed EXCEPT !.environment = ReadFields(EnvironmentSlots, fields).got]
  BY Zenon DEF ReadEnvironment
<1>b. PICK fields \in Readings(Data(n)) :
            IF ReadFields(EnvironmentSlots, fields).end = "panic" THEN Panic
            ELSE /\ Advance(n, "eof")
                 /\ parsed' = [parsed EXCEPT !.environment = ReadFields(EnvironmentSlots, fields).got]
  BY <1>a, Zenon
<1>3. stage \in Sections /\ NextSection(stage) = "eof" /\ (Exact(stage) <=> MouseIsExact(written))
  BY <1>1 DEF Sections, NextSection, Exact, MouseKnown
<1>4. /\ Data(n) \in Seq(Atoms)
      /\ MouseIsExact(written) => Data(n) = written.environment
  <2>1. rest \in Seq(Atoms) /\ (MouseIsExact(written) => InStepAt(rest, stage))
    BY <1>1, <1>3 DEF StreamInv, Reading
  <2>2. n \in Nat
    BY <2>1, LengthsAreNat
  <2> QED
    BY <1>1, <1>a, <1>b, <1>3, <2>1, <2>2, SectionIsRead, DataIsAtoms
<1>5. ASSUME MouseIsExact(written) PROVE fields = written.environment
  <2>1. \A i \in DOMAIN written.environment : written.environment[i].is = "field"
    BY <1>1, FormatAssumption DEF Range
  <2> QED
    BY <1>a, <1>b, <1>4, <1>5, <2>1, ReadingsOfData
<1> DEFINE loop == ReadFields(EnvironmentSlots, fields)
<1>6. /\ DOMAIN loop.got = Range(EnvironmentSlots) /\ loop.got.tracePoints \in -Half .. Half - 1
      /\ loop.end = "panic" => HasMalformed(fields)
      /\ loop.got = [s \in Range(EnvironmentSlots) |-> ValueOf(fields, EnvironmentSlots, s)]
  <2>1. Len(fields) \in Nat /\ DOMAIN fields = 1 .. Len(fields)
    BY <1>a, <1>b, <1>4, ReadingsOfData
  <2>2. \A i \in DOMAIN fields : fields[i].form = "whole" /\ fields[i].num = 20 => fields[i].val \in Int
    BY <1>a, <1>b, <1>4, ReadingsOfData
  <2>3. DOMAIN loop.got = Range(EnvironmentSlots) /\ loop.got.tracePoints \in -Half .. Half - 1
    <3>1. \E got : got = loop.got
      OBVIOUS
    <3>2. PICK got : got = loop.got
      BY <3>1
    <3>3. DOMAIN got = Range(EnvironmentSlots) /\ got.tracePoints \in -Half .. Half - 1
      BY <2>1, <2>2, <3>2, EnvironmentTypes
    <3> QED
      BY <3>2, <3>3
  <2>4. loop.end = "panic" => HasMalformed(fields)
    <3>1. \E l : l = loop
      OBVIOUS
    <3>2. PICK l : l = loop
      BY <3>1
    <3>3. l.end = "panic" => HasMalformed(fields)
      BY <2>1, <3>2, FieldsAreRead
    <3> QED
      BY <3>2, <3>3
  <2>5. loop.got = [s \in Range(EnvironmentSlots) |-> ValueOf(fields, EnvironmentSlots, s)]
    BY <2>1, FieldsAreRead
  <2> QED
    BY <2>3, <2>4, <2>5
<1> HIDE DEF loop
<1>7. CASE loop.end = "panic"
  <2>1. Panic /\ UNCHANGED written
    BY <1>a, <1>b, <1>7 DEF Panic, loop
  <2>2. PanicsOnMalformedOnly'
    BY <1>5, <1>6, <1>7, <2>1 DEF PanicsOnMalformedOnly, HasMalformed
  <2> QED
    BY <1>1, <2>1, <2>2, Answers
<1>8. CASE loop.end # "panic"
  <2>1. Advance(n, "eof") /\ parsed' = [parsed EXCEPT !.environment = loop.got]
    BY <1>a, <1>b, <1>8 DEF loop
  <2>2. stage' = "eof" /\ UNCHANGED written
    BY <2>1 DEF Advance
  <2>3. FileInv' /\ StreamInv'
    BY <1>1, <1>a, <1>b, <1>3, <2>1, StreamGoesOn
  <2>4. parsed' = [fileName |-> parsed.fileName, trace |-> parsed.trace, speed |-> parsed.speed,
                   stats |-> parsed.stats, environment |-> loop.got]
    BY <1>1, <2>1, OnePart DEF ParsedType
  <2>5. ASSUME MouseIsExact(written) PROVE Metadata(written).environment = loop.got
    <3>1. loop.got = [s \in Range(EnvironmentSlots) |-> ValueOf(written.environment, EnvironmentSlots, s)]
      BY <1>5, <1>6, <2>5
    <3>2. Metadata(written).environment =
            [s \in Range(EnvironmentSlots) |-> ValueOf(written.environment, EnvironmentSlots, s)]
      BY MetadataParts
    <3> QED
      BY <3>1, <3>2
  <2>6. FoundInv'
    <3>1. /\ parsed.fileName = written.filename /\ parsed.stats = Metadata(written).stats
          /\ MouseIsExact(written) => /\ parsed.trace <=> Points(written) # <<>>
                                      /\ parsed.speed = Metadata(written).speed
      BY <1>1 DEF FoundInv, NameKnown, StatsKnown, MouseKnown, Reading, Sections
    <3>2. /\ parsed'.fileName = parsed.fileName /\ parsed'.stats = parsed.stats
          /\ parsed'.trace = parsed.trace /\ parsed'.speed = parsed.speed
          /\ parsed'.environment = loop.got
      BY <2>4
    <3> QED
      BY <2>2, <2>5, <3>1, <3>2 DEF FoundInv, MouseKnown, Sections
  <2>7. ParsedType'
    BY <1>1, <1>6, <2>2, <2>4 DEF ParsedType, Parts, ParserTypeOK, Sections
  <2> QED
    BY <2>2, <2>3, <2>6, <2>7 DEF ParserInv, SumChecked, AcceptedAsWritten, PanicsOnMalformedOnly
<1> QED
  BY <1>7, <1>8

\* The points of an exact mouse section.
LEMMA PointsOfFile ==
    ASSUME NEW f \in Files, MouseIsExact(f)
    PROVE  /\ Len(f.mouse) \in Nat /\ Len(Points(f)) \in Nat
           /\ f.mouse # <<>> => Len(Points(f)) = Len(f.mouse) - 1
           /\ f.mouse = <<>> => Points(f) = <<>>
           /\ Points(f) \in Seq(Atoms)
           /\ \A i \in 1 .. Len(Points(f)) :
                /\ Points(f)[i] = f.mouse[i + 1] /\ Points(f)[i].is = "point"
                /\ Points(f)[i].ts \in Int /\ Points(f)[i].x \in Int
<1> DEFINE d == f.mouse
           p == Points(f)
<1>1. d \in Seq(Atoms) /\ Len(d) \in Nat
  BY DataType DEF Sections
<1>2. CASE d = <<>>
  BY <1>1, <1>2 DEF Points
<1>3. CASE d # <<>>
  <2>1. p = Tail(d)
    BY <1>3 DEF Points
  <2>2. p \in Seq(Atoms) /\ Len(p) = Len(d) - 1 /\ \A i \in 1 .. Len(p) : p[i] = d[i + 1]
    BY <1>1, <1>3, <2>1
  <2>3. \A i \in 2 .. Len(d) : d[i].is = "point"
    BY <1>3 DEF MouseIsExact
  <2> HIDE DEF d, p
  <2>4. Len(p) \in Nat
    BY <2>2
  <2>5. ASSUME NEW i \in 1 .. Len(p)
        PROVE  p[i] = d[i + 1] /\ p[i].is = "point" /\ p[i].ts \in Int /\ p[i].x \in Int
    <3>1. i + 1 \in 2 .. Len(d) /\ p[i] = d[i + 1] /\ p[i] \in Atoms
      BY <1>1, <2>2, <2>4
    <3>2. p[i].is = "point" /\ IsAtom(p[i])
      BY <2>3, <3>1, AtomsAreAtoms
    <3> QED
      BY <3>1, <3>2 DEF IsAtom
  <2> QED
    BY <1>1, <1>3, <2>2, <2>4, <2>5 DEF d, p
<1> QED
  BY <1>2, <1>3

\* The speed in the metadata is what the parser computes from the points.
LEMMA SpeedOfFile ==
    ASSUME NEW f \in Files, MouseIsExact(f)
    PROVE  Metadata(f).speed = Speed(Points(f))
<1>1. PICK points : points = Points(f)
  OBVIOUS
<1>2. Len(points) \in Nat /\ \A i \in 1 .. Len(points) : points[i].ts \in Int /\ points[i].x \in Int
  BY <1>1, PointsOfFile
<1>3. PICK grows : grows = {i \in 1 .. Len(points) - 1 : points[i].ts < points[i + 1].ts}
  OBVIOUS
<1>4. PICK far : far = [i \in grows |-> Distance(points[i], points[i + 1])]
  OBVIOUS
<1>5. PICK long : long = [i \in grows |-> points[i + 1].ts - points[i].ts]
  OBVIOUS
<1>6. Metadata(f).speed = IF grows = {} THEN None
                          ELSE [dist |-> SumFunction(far), millis |-> SumFunction(long)]
  <2>1. \E M : M = Metadata(f)
    OBVIOUS
  <2>2. PICK M : M = Metadata(f)
    BY <2>1
  <2>3. M.speed = LET ps == Points(f)
                      gs == {i \in 1 .. Len(ps) - 1 : ps[i].ts < ps[i + 1].ts}
                  IN  IF gs = {} THEN None
                      ELSE [dist |-> SumFunction([i \in gs |-> Distance(ps[i], ps[i + 1])]),
                            millis |-> SumFunction([i \in gs |-> ps[i + 1].ts - ps[i].ts])]
    BY <2>2, MetadataParts, Zenon
  <2> QED
    BY <1>1, <1>3, <1>4, <1>5, <2>2, <2>3, Zenon
<1>7. AreSteps(points, grows, far, long)
  <2>1. /\ far = [i \in grows |-> far[i]] /\ \A i \in grows : far[i] = Distance(points[i], points[i + 1])
        /\ long = [i \in grows |-> long[i]] /\ \A i \in grows : long[i] = points[i + 1].ts - points[i].ts
    BY <1>4, <1>5, Zenon
  <2> QED
    BY <1>2, <1>3, <2>1, Zenon DEF AreSteps
<1>8. Speed(points) = IF grows = {} THEN None
                      ELSE [dist |-> SumFunction(far), millis |-> SumFunction(long)]
  BY <1>7, SpeedIsAverage, Zenon
<1> QED
  BY <1>1, <1>6, <1>8, Zenon

\* A parser in front of a mouse section that reads it, reads an exact one to its end.
LEMMA PointsAreRead ==
    ASSUME stage = "mouse", FileInv, StreamInv, MouseIsExact(written), NEW size \in Lengths, size > 0,
           Len(rest) > 1, NEW count, count = rest[2].n, PointsAhead(size, count)
    PROVE  size = count + 1 /\ count \in Nat /\ size < Len(rest) /\ SubSeq(rest, 3, count + 2) = Points(written)
           /\ (count > 0 <=> Points(written) # <<>>)
<1> DEFINE d == written.mouse
           p == Points(written)
<1>1. written \in Files /\ rest \in Seq(Atoms) /\ InStepAt(rest, stage)
  BY DEF FileInv, StreamInv, Reading, Sections, Exact, MouseKnown
<1>2. /\ size = Len(d) /\ size \in Nat /\ Len(rest) \in Nat
      /\ \A i \in 1 .. size : i < Len(rest) => rest[i + 1] = d[i]
  BY <1>1, SectionIsRead DEF Sections
<1>3. /\ Len(d) \in Nat /\ Len(p) \in Nat /\ (d # <<>> => Len(p) = Len(d) - 1)
      /\ p \in Seq(Atoms) /\ \A i \in 1 .. Len(p) : p[i] = d[i + 1]
  BY <1>1, PointsOfFile
<1>4. d # <<>> /\ d[1] = Word(Len(d) - 1)
  BY <1>2, <1>3 DEF MouseIsExact
<1> HIDE DEF d, p
<1>5. rest[2] = d[1]
  BY <1>2
<1>6. count = size - 1 /\ count \in Nat /\ Len(p) = count
  <2>1. Word(Len(d) - 1).n = Len(d) - 1
    BY DEF Word
  <2> QED
    BY <1>2, <1>3, <1>4, <1>5, <2>1
<1>7. count + 2 <= Len(rest)
  <2>1. CASE count = 0
    BY <1>2, <2>1
  <2>2. CASE count # 0
    <3>1. PICK i \in Nat : i = count /\ i # 0
      BY <1>6, <2>2
    <3>2. i \in 1 .. i
      BY <3>1
    <3> QED
      BY <3>1, <3>2 DEF PointsAhead
  <2> QED
    BY <2>1, <2>2
<1>8. SubSeq(rest, 3, count + 2) = p
  <2> DEFINE q == SubSeq(rest, 3, count + 2)
  <2>1. q \in Seq(Atoms) /\ Len(q) = count /\ \A i \in 1 .. count : q[i] = rest[i + 2]
    BY <1>1, <1>2, <1>6, <1>7
  <2> HIDE DEF q
  <2>2. ASSUME NEW i \in 1 .. count PROVE q[i] = p[i]
    <3>1. i + 1 \in 1 .. size /\ i + 1 < Len(rest) /\ i \in 1 .. Len(p)
      BY <1>2, <1>6, <1>7
    <3>2. PICK k \in 1 .. size : k = i + 1
      BY <3>1
    <3>3. rest[k + 1] = d[k] /\ k + 1 = i + 2
      BY <1>2, <3>1, <3>2
    <3> QED
      BY <1>3, <2>1, <3>1, <3>2, <3>3
  <2> QED
    BY <1>3, <1>6, <2>1, <2>2, SeqEqual DEF q
<1>9. count > 0 <=> p # <<>>
  BY <1>3, <1>6
<1> QED
  BY <1>2, <1>6, <1>7, <1>8, <1>9 DEF p

\* Whatever is read as a count of points is a number.
LEMMA CountIsNat ==
    ASSUME rest \in Seq(Atoms), Len(rest) > 1, rest[2].is = "word"
    PROVE  rest[2].n \in Nat
<1>1. rest[2] \in Atoms
  OBVIOUS
<1> QED
  BY <1>1, AtomsAreAtoms DEF IsAtom

\* The mouse section: its points are the file's if the section is exact.
LEMMA MouseStep == ParserInv /\ ReadMouse => ParserInv'
<1> SUFFICES ASSUME ParserInv, ReadMouse PROVE ParserInv'
  OBVIOUS
<1>1. stage = "mouse" /\ FileInv /\ StreamInv /\ ParsedType /\ FoundInv /\ written \in Files
  BY DEF ReadMouse, ParserInv, FileInv
<1>2. /\ stage \in Sections /\ NextSection(stage) = "environment" /\ Exact(stage)
      /\ stage' = "environment" /\ UNCHANGED <<written, raw>> /\ rest \in Seq(Atoms)
  BY <1>1 DEF ReadMouse, Sections, NextSection, Exact, MouseKnown, Advance, StreamInv, Reading
<1>3. /\ parsed.fileName = written.filename /\ parsed.stats = Metadata(written).stats
      /\ ~parsed.trace /\ parsed.speed = None
  BY <1>1 DEF FoundInv, NameKnown, StatsKnown, MouseKnown, Reading, Sections
<1>4. ASSUME NEW trace \in BOOLEAN, NEW speed,
             parsed' = [fileName |-> parsed.fileName, trace |-> trace, speed |-> speed,
                        stats |-> parsed.stats, environment |-> parsed.environment],
             MouseIsExact(written) => (trace <=> Points(written) # <<>>) /\ speed = Metadata(written).speed
      PROVE  FoundInv' /\ ParsedType'
  <2>1. /\ parsed'.fileName = written.filename /\ parsed'.stats = Metadata(written).stats
        /\ parsed'.trace = trace /\ parsed'.speed = speed
    BY <1>3, <1>4
  <2>2. FoundInv'
    BY <1>2, <1>4, <2>1 DEF FoundInv, MouseKnown, Sections
  <2>3. ParsedType'
    BY <1>1, <1>2, <1>4 DEF ParsedType, Parts, ParserTypeOK, Sections
  <2> QED
    BY <2>2, <2>3
<1>5. ASSUME FoundInv', ParsedType', FileInv', StreamInv' PROVE ParserInv'
  BY <1>2, <1>5 DEF ParserInv, SumChecked, AcceptedAsWritten, PanicsOnMalformedOnly
<1>6. CASE 0 \in Lengths /\ Advance(0, "environment") /\ UNCHANGED parsed
  <2>1. 0 < Len(rest)
    <3>1. rest # <<>>
      BY <1>2, <1>6, LengthsAreNat
    <3> QED
      BY <1>2, <3>1
  <2>2. FileInv' /\ StreamInv' /\ 0 = Len(written.mouse)
    BY <1>1, <1>2, <1>6, <2>1, StreamGoesOn
  <2>3. ASSUME MouseIsExact(written) PROVE Points(written) = <<>> /\ Metadata(written).speed = None
    <3>1. written.mouse = <<>>
      BY <1>1, <2>2, DataType DEF Sections
    <3>2. Points(written) = <<>>
      BY <3>1 DEF Points
    <3>3. Metadata(written).speed = Speed(<<>>)
      BY <1>1, <2>3, <3>2, SpeedOfFile
    <3>4. Speed(<<>>) = None
      <4>1. PICK points : points = <<>>
        OBVIOUS
      <4>2. Len(points) = 0 /\ Len(points) \in Nat
        BY <4>1
      <4>3. PICK way : /\ IsWay(way, points, Len(points))
                       /\ Speed(points) = IF way[Len(points)].millis > 0 THEN way[Len(points)] ELSE None
        BY <4>2, SpeedIsWay
      <4>4. way[0] = NoWay
        BY <4>2, <4>3 DEF IsWay
      <4> QED
        BY <4>1, <4>2, <4>3, <4>4 DEF NoWay
    <3> QED
      BY <3>2, <3>3, <3>4
  <2>4. parsed' = [fileName |-> parsed.fileName, trace |-> FALSE, speed |-> None,
                   stats |-> parsed.stats, environment |-> parsed.environment]
    <3>1. parsed.trace = FALSE
      BY <1>1, <1>3 DEF ParsedType, ParserTypeOK
    <3> QED
      BY <1>1, <1>3, <1>6, <3>1 DEF ParsedType, Parts
  <2>5. FoundInv' /\ ParsedType'
    BY <1>4, <2>3, <2>4
  <2> QED
    BY <1>5, <2>2, <2>5
<1>7. ASSUME NEW size \in Lengths, size > 0, Len(rest) > 1, rest[2].is = "word",
             NEW count, count = rest[2].n, PointsAhead(size, count),
             Advance(count + 1, "environment"),
             parsed' = [parsed EXCEPT !.trace = count > 0, !.speed = Speed(SubSeq(rest, 3, count + 2))]
      PROVE  ParserInv'
  <2> DEFINE trace == count > 0
             speed == Speed(SubSeq(rest, 3, count + 2))
  <2>1. count \in Nat
    BY <1>2, <1>7, CountIsNat
  <2>2. parsed' = [fileName |-> parsed.fileName, trace |-> trace, speed |-> speed,
                   stats |-> parsed.stats, environment |-> parsed.environment]
    <3>1. DOMAIN parsed = {"fileName", "trace", "speed", "stats", "environment"}
      BY <1>1 DEF ParsedType, Parts
    <3>2. parsed' = [s \in DOMAIN parsed |-> IF s = "speed" THEN speed
                                            ELSE IF s = "trace" THEN trace ELSE parsed[s]]
      BY <1>7, <3>1, Zenon
    <3> HIDE DEF trace, speed
    <3> QED
      BY <3>1, <3>2
  <2>3. MouseIsExact(written) => (trace <=> Points(written) # <<>>) /\ speed = Metadata(written).speed
    BY <1>1, <1>7, PointsAreRead, SpeedOfFile
  <2>4. trace \in BOOLEAN
    OBVIOUS
  <2>5. FoundInv' /\ ParsedType'
    <3> HIDE DEF trace, speed
    <3> QED
      BY <1>4, <2>2, <2>3, <2>4
  <2>6. FileInv' /\ StreamInv'
    <3>1. CASE MouseIsExact(written)
      <4>1. size = count + 1 /\ size < Len(rest)
        BY <1>1, <1>7, <3>1, PointsAreRead
      <4> QED
        BY <1>1, <1>2, <1>7, <4>1, StreamGoesOn
    <3>2. CASE ~MouseIsExact(written)
      <4>1. rest' = SubSeq(rest, count + 1 + 2, Len(rest)) /\ count + 1 \in Nat
        BY <1>7, <2>1 DEF Advance
      <4>2. rest' \in Seq(Atoms)
        BY <1>2, <4>1, RestType
      <4>3. FileInv'
        BY <1>1, <1>2 DEF FileInv, Matches
      <4>4. MouseIsExact(written)' <=> MouseIsExact(written)
        BY <1>2 DEF MouseIsExact
      <4> QED
        BY <1>1, <1>2, <3>2, <4>2, <4>3, <4>4 DEF StreamInv, Exact, MouseKnown, Reading
    <3> QED
      BY <3>1, <3>2
  <2> QED
    BY <1>5, <2>5, <2>6
<1> QED
  BY <1>6, <1>7, Zenon DEF ReadMouse

-----------------------------------------------------------------------------
(* The steps at both ends.                                                 *)

\* A payload as it was sent, broken off or with something behind it.
LEMMA DamagedMatches ==
    ASSUME NEW f \in Files
    PROVE  /\ Matches(Encode(f), Encode(f))
           /\ \A n \in 0 .. Len(Encode(f)) - 1 : Matches(SubSeq(Encode(f), 1, n), Encode(f))
           /\ \A x \in Strays : Matches(Append(Encode(f), x), Encode(f))
<1> DEFINE e == Encode(f)
<1>1. e \in Seq(Atoms) /\ Len(e) \in Nat
  BY PayloadType
<1> HIDE DEF e
<1>2. Matches(e, e)
  BY <1>1 DEF Matches
<1>3. ASSUME NEW n \in 0 .. Len(e) - 1 PROVE Matches(SubSeq(e, 1, n), e)
  BY <1>1 DEF Matches
<1>4. ASSUME NEW x \in Strays PROVE Matches(Append(e, x), e)
  <2>1. x \in Atoms
    BY DEF Atoms
  <2> QED
    BY <1>1, <2>1 DEF Matches
<1> QED
  BY <1>2, <1>3, <1>4 DEF e

\* A file in any state of damage.
LEMMA ArriveStep == ParserInv /\ Arrive => ParserInv'
<1> SUFFICES ASSUME ParserInv, Arrive PROVE ParserInv'
  OBVIOUS
<1>1. ASSUME NEW f \in Files, NEW r, Matches(r.payload, Encode(f)), Arrives(f, r)
      PROVE  ParserInv'
  <2>1. stage' = "header" /\ written' = f /\ raw' = r /\ UNCHANGED parsed
    BY <1>1 DEF Arrives
  <2>2. FileInv'
    BY <1>1, <2>1 DEF FileInv, Matches
  <2>3. SumChecked' /\ StreamInv' /\ FoundInv' /\ AcceptedAsWritten' /\ PanicsOnMalformedOnly'
    BY <2>1 DEF SumChecked, StreamInv, FoundInv, AcceptedAsWritten, PanicsOnMalformedOnly,
                Reading, NameKnown, StatsKnown, MouseKnown, Sections
  <2>4. ParsedType'
    BY <2>1 DEF ParserInv, ParsedType, ParserTypeOK
  <2> QED
    BY <2>2, <2>3, <2>4 DEF ParserInv
<1>2. CASE ArriveWhole
  <2> PICK f \in Files, c \in {"none", "zstd"} : Arrives(f, Intact(f, c))
    BY <1>2 DEF ArriveWhole
  <2>1. Intact(f, c).payload = Encode(f)
    BY DEF Intact
  <2> QED
    BY <1>1, <2>1, DamagedMatches
<1>3. CASE ArriveMislabelled
  <2> PICK f \in Files, p \in {"none", "zstd"} :
        \/ \E h : Arrives(f, [Intact(f, p) EXCEPT !.header = h])
        \/ \E c : Arrives(f, [Intact(f, p) EXCEPT !.declared = c])
    BY <1>3, Zenon DEF ArriveMislabelled
  <2>1. /\ \A h : [Intact(f, p) EXCEPT !.header = h].payload = Encode(f)
        /\ \A c : [Intact(f, p) EXCEPT !.declared = c].payload = Encode(f)
    BY DEF Intact
  <2> QED
    BY <1>1, <2>1, DamagedMatches
<1>4. CASE ArriveDamaged
  <2> PICK f \in Files, s \in BOOLEAN, c \in {"none", "zstd"} :
        \/ \E n \in 0 .. Len(Encode(f)) - 1 :
            Arrives(f, [Intact(f, c) EXCEPT !.sum = s, !.ends = (c = "none"),
                                            !.payload = SubSeq(Encode(f), 1, n)])
        \/ \E x \in Strays :
            Arrives(f, [Intact(f, c) EXCEPT !.sum = s, !.payload = Append(Encode(f), x)])
        \/ Arrives(f, [Intact(f, c) EXCEPT !.sum = s, !.ends = FALSE])
    BY <1>4, Zenon DEF ArriveDamaged
  <2>1. ASSUME NEW n \in 0 .. Len(Encode(f)) - 1, NEW r,
               r = [Intact(f, c) EXCEPT !.sum = s, !.ends = (c = "none"),
                                        !.payload = SubSeq(Encode(f), 1, n)],
               Arrives(f, r)
        PROVE  ParserInv'
    <3>1. r.payload = SubSeq(Encode(f), 1, n)
      BY <2>1 DEF Intact
    <3> QED
      BY <1>1, <2>1, <3>1, DamagedMatches
  <2>2. ASSUME NEW x \in Strays, NEW r,
               r = [Intact(f, c) EXCEPT !.sum = s, !.payload = Append(Encode(f), x)],
               Arrives(f, r)
        PROVE  ParserInv'
    <3>1. r.payload = Append(Encode(f), x)
      BY <2>2 DEF Intact
    <3> QED
      BY <1>1, <2>2, <3>1, DamagedMatches
  <2>3. ASSUME NEW r, r = [Intact(f, c) EXCEPT !.sum = s, !.ends = FALSE], Arrives(f, r)
        PROVE  ParserInv'
    <3>1. r.payload = Encode(f)
      BY <2>3 DEF Intact
    <3> QED
      BY <1>1, <2>3, <3>1, DamagedMatches
  <2> QED
    BY <2>1, <2>2, <2>3, Zenon
<1> QED
  BY <1>2, <1>3, <1>4 DEF Arrive

\* What is known before a payload is read.
LEMMA BlankType ==
    /\ Blank = Parts(Blank) /\ Blank.trace = FALSE /\ Blank.speed = None
    /\ DOMAIN Blank.stats = Range(SummarySlots)
    /\ DOMAIN Blank.environment = Range(EnvironmentSlots)
    /\ Blank.environment.tracePoints \in -Half .. Half - 1
<1>1. PICK none : none = <<>>
  OBVIOUS
<1>2. Len(none) = 0 /\ Len(none) \in Nat /\ DOMAIN none = 1 .. Len(none) /\ DOMAIN none = {}
  BY <1>1
<1>3. PICK stats : stats = ReadFields(SummarySlots, none).got
  OBVIOUS
<1>4. PICK environment : environment = ReadFields(EnvironmentSlots, none).got
  OBVIOUS
<1>5. DOMAIN stats = Range(SummarySlots)
  BY <1>2, <1>3, FieldsAreRead
<1>6. DOMAIN environment = Range(EnvironmentSlots) /\ environment.tracePoints \in -Half .. Half - 1
  BY <1>2, <1>4, EnvironmentTypes
<1>7. Blank = [fileName |-> <<>>, trace |-> FALSE, speed |-> None,
               stats |-> stats, environment |-> environment]
  BY <1>1, <1>3, <1>4 DEF Blank
<1> QED
  BY <1>5, <1>6, <1>7 DEF Parts

\* Only what has the declared checksum goes on to the decoder.
LEMMA HeaderStep == ParserInv /\ CheckHeader => ParserInv'
<1> SUFFICES ASSUME ParserInv, CheckHeader PROVE ParserInv'
  OBVIOUS
<1>1. stage = "header"
  BY DEF CheckHeader
<1>2. CASE Reject
  BY <1>1, <1>2, Answers
<1>3. CASE stage' = "decoder" /\ raw.sum /\ UNCHANGED <<written, raw, rest, parsed>>
  <2>1. FileInv'
    BY <1>1, <1>3 DEF ParserInv, FileInv, Matches
  <2>2. SumChecked' /\ StreamInv' /\ FoundInv' /\ AcceptedAsWritten' /\ PanicsOnMalformedOnly'
    BY <1>3 DEF SumChecked, StreamInv, FoundInv, AcceptedAsWritten, PanicsOnMalformedOnly,
                Reading, NameKnown, StatsKnown, MouseKnown, Sections
  <2>3. ParsedType'
    BY <1>3 DEF ParserInv, ParsedType, ParserTypeOK
  <2> QED
    BY <2>1, <2>2, <2>3 DEF ParserInv
<1> QED
  BY <1>2, <1>3 DEF CheckHeader

\* A reader in step that meets the end of the stream has read the whole file.
LEMMA EOFStep == ParserInv /\ EnsureEOF => ParserInv'
<1> SUFFICES ASSUME ParserInv, EnsureEOF PROVE ParserInv'
  OBVIOUS
<1>1. stage = "eof" /\ FileInv /\ StreamInv /\ ParsedType /\ FoundInv /\ written \in Files
  BY DEF EnsureEOF, ParserInv, FileInv
<1>2. CASE Reject
  BY <1>1, <1>2, Answers
<1>3. CASE /\ rest = <<>> /\ raw.ends /\ stage' = "accepted" /\ UNCHANGED <<written, raw, rest>>
           /\ parsed' = [parsed EXCEPT !.trace = parsed.trace \/ parsed.environment.tracePoints > 0]
  <2> DEFINE trace == parsed.trace \/ parsed.environment.tracePoints > 0
  <2>1. parsed' = [fileName |-> parsed.fileName, trace |-> trace, speed |-> parsed.speed,
                   stats |-> parsed.stats, environment |-> parsed.environment]
    <3>1. parsed = Parts(parsed) /\ parsed' = [parsed EXCEPT !.trace = trace]
      BY <1>1, <1>3 DEF ParsedType
    <3> HIDE DEF trace
    <3> QED
      BY <3>1, OnePart
  <2>2. trace \in BOOLEAN
    OBVIOUS
  <2>3. FileInv'
    BY <1>1, <1>3 DEF FileInv, Matches
  <2>4. SumChecked' /\ StreamInv' /\ FoundInv' /\ PanicsOnMalformedOnly'
    BY <1>3 DEF SumChecked, StreamInv, FoundInv, PanicsOnMalformedOnly, Reading, NameKnown, StatsKnown, MouseKnown, Sections
  <2>5. ParsedType'
    <3> HIDE DEF trace
    <3> QED
      BY <1>1, <1>3, <2>1, <2>2 DEF ParsedType, Parts, ParserTypeOK, Answered
  <2>6. ASSUME MouseIsExact(written)
        PROVE  /\ raw.payload = Encode(written) /\ raw.sum /\ raw.declared = raw.packed
               /\ parsed' = Metadata(written)
    <3>1. InStepAt(rest, "eof") /\ raw.sum /\ raw.declared = raw.packed
      BY <1>1, <2>6 DEF StreamInv, Reading, Exact
    <3>2. Len(raw.payload) = Len(Encode(written)) /\ Matches(raw.payload, Encode(written))
      <4>1. Ahead(written, "eof") = <<>>
        BY DEF Ahead
      <4>2. Len(rest) - Len(<<>>) = Len(raw.payload) - Len(Encode(written))
        BY <3>1, <4>1 DEF InStepAt
      <4>3. Matches(raw.payload, Encode(written)) /\ Encode(written) \in Seq(Atoms)
        BY <1>1, PayloadType DEF FileInv
      <4>4. Len(raw.payload) \in Nat /\ Len(Encode(written)) \in Nat
        BY <4>3 DEF Matches
      <4> QED
        BY <1>3, <4>2, <4>3, <4>4
    <3>3. raw.payload = Encode(written)
      <4>1. Encode(written) \in Seq(Atoms) /\ raw.payload \in Seq(Atoms)
        BY <1>1, <3>2, PayloadType DEF Matches
      <4>2. \A i \in 1 .. Len(raw.payload) : raw.payload[i] = Encode(written)[i]
        BY <3>2, <4>1 DEF Matches
      <4> QED
        BY <3>2, <4>1, <4>2, SeqEqual
    <3>4. PICK M : M = Metadata(written)
      OBVIOUS
    <3>5. /\ parsed.fileName = written.filename /\ parsed.stats = M.stats
          /\ parsed.trace <=> Points(written) # <<>>
          /\ parsed.speed = M.speed /\ parsed.environment = M.environment
      BY <1>1, <2>6, <3>4 DEF FoundInv, NameKnown, StatsKnown, MouseKnown, Reading, Sections
    <3>6. /\ M = [fileName |-> M.fileName, stats |-> M.stats, environment |-> M.environment,
                  trace |-> M.trace, speed |-> M.speed]
          /\ M.fileName = written.filename /\ M.trace \in BOOLEAN
          /\ M.trace <=> Points(written) # <<>> \/ ValueOf(written.environment, EnvironmentSlots, "tracePoints") > 0
      BY <3>4, MetadataParts
    <3>7. parsed.environment.tracePoints = ValueOf(written.environment, EnvironmentSlots, "tracePoints")
      <4>1. M.environment = [s \in Range(EnvironmentSlots) |-> ValueOf(written.environment, EnvironmentSlots, s)]
        BY <3>4, MetadataParts
      <4>2. "tracePoints" \in Range(EnvironmentSlots)
        <5>1. 20 \in DOMAIN EnvironmentSlots /\ EnvironmentSlots[20] = "tracePoints"
          BY DEF EnvironmentSlots
        <5> QED
          BY <5>1 DEF Range
      <4> QED
        BY <3>5, <4>1, <4>2
    <3>8. trace = M.trace
      BY <3>5, <3>6, <3>7
    <3> HIDE DEF trace
    <3>9. parsed' = M
      BY <2>1, <3>5, <3>6, <3>8
    <3> QED
      BY <3>1, <3>3, <3>4, <3>9
  <2>7. AcceptedAsWritten'
    BY <1>3, <2>6 DEF AcceptedAsWritten
  <2> QED
    BY <2>3, <2>4, <2>5, <2>7 DEF ParserInv
<1> QED
  BY <1>2, <1>3 DEF EnsureEOF

\* The payload as it arrived is in front of the parser.
LEMMA DecoderStep == ParserInv /\ OpenDecoder => ParserInv'
<1> SUFFICES ASSUME ParserInv, OpenDecoder PROVE ParserInv'
  OBVIOUS
<1>1. stage = "decoder"
  BY DEF OpenDecoder
<1>2. CASE Reject
  BY <1>1, <1>2, Answers
<1>3. CASE /\ raw.declared = raw.packed /\ stage' = "filename" /\ rest' = raw.payload
           /\ parsed' = Blank /\ UNCHANGED <<written, raw>>
  <2>1. written \in Files /\ Matches(raw.payload, Encode(written))
    BY <1>1 DEF ParserInv, FileInv
  <2>2. FileInv'
    BY <1>1, <1>3, <2>1 DEF FileInv, Matches
  <2>3. StreamInv'
    <3>1. InStepAt(rest, stage)'
      <4>1. Ahead(written', stage') = Encode(written)
        BY <1>3 DEF Ahead
      <4> QED
        BY <1>3, <2>1, <4>1 DEF InStepAt, Matches
    <3>2. rest' \in Seq(Atoms)
      BY <1>3, <2>1 DEF Matches
    <3>3. raw'.sum
      BY <1>1, <1>3 DEF ParserInv, SumChecked
    <3> QED
      BY <1>3, <3>1, <3>2, <3>3 DEF StreamInv
  <2>4. parsed' = Blank /\ Blank = Parts(Blank) /\ Blank.trace = FALSE /\ Blank.speed = None
        /\ DOMAIN Blank.stats = Range(SummarySlots)
        /\ DOMAIN Blank.environment = Range(EnvironmentSlots)
        /\ Blank.environment.tracePoints \in -Half .. Half - 1
    BY <1>3, BlankType
  <2>5. FoundInv'
    BY <1>3, <2>4 DEF FoundInv, NameKnown, StatsKnown, MouseKnown, Reading, Sections
  <2>6. ParsedType'
    BY <1>3, <2>4 DEF ParsedType, ParserTypeOK, Sections
  <2> QED
    BY <1>3, <2>2, <2>3, <2>5, <2>6 DEF ParserInv, SumChecked, AcceptedAsWritten, PanicsOnMalformedOnly
<1> QED
  BY <1>2, <1>3 DEF OpenDecoder

\* The next file is parsed from scratch.
LEMMA ReturnStep == ParserInv /\ Return => ParserInv'
<1> SUFFICES ASSUME ParserInv, Return PROVE ParserInv'
  OBVIOUS
<1>1. stage' = "idle" /\ parsed' = Blank
  BY DEF Return
<1>2. ParsedType'
  BY <1>1, BlankType DEF ParsedType, ParserTypeOK
<1> QED
  BY <1>1, <1>2 DEF ParserInv, FileInv, StreamInv, FoundInv, SumChecked, AcceptedAsWritten, PanicsOnMalformedOnly,
                    Reading, NameKnown, StatsKnown, MouseKnown, Sections

\* Every step keeps the invariant.
LEMMA ParserStep == ParserInv /\ [Next]_vars => ParserInv'
<1> SUFFICES ASSUME ParserInv, [Next]_vars PROVE ParserInv'
  OBVIOUS
<1>1. CASE UNCHANGED vars
  BY <1>1 DEF vars, ParserInv, FileInv, StreamInv, FoundInv, ParsedType, ParserTypeOK, SumChecked,
              AcceptedAsWritten, PanicsOnMalformedOnly, Matches, InStepAt, Exact, MouseIsExact
<1>2. CASE SectionBreaksOff \/ MouseFails
  BY <1>2, Answers DEF SectionBreaksOff, MouseFails, Sections
<1> QED
  BY <1>1, <1>2, ArriveStep, HeaderStep, DecoderStep, NameStep, StatsStep, PerformancesStep, MouseStep,
     EnvironmentStep, EOFStep, ReturnStep
     DEF Next, ParseRefleksFile, ParsePayload

\* The parser starts with blank metadata.
LEMMA ParserInitially == Init => ParserInv
<1> SUFFICES ASSUME Init PROVE ParserInv
  OBVIOUS
<1>1. stage = "idle" /\ parsed = Blank
  BY DEF Init
<1>2. ParsedType
  BY <1>1, BlankType DEF ParsedType, ParserTypeOK
<1> QED
  BY <1>1, <1>2 DEF ParserInv, FileInv, StreamInv, FoundInv, SumChecked, AcceptedAsWritten, PanicsOnMalformedOnly,
                    Reading, NameKnown, StatsKnown, MouseKnown, Sections

\* The invariant holds for every constant.
LEMMA ParserInvHolds == Spec => []ParserInv
BY ParserInitially, ParserStep, PTL DEF Spec

-----------------------------------------------------------------------------
(* The theorems.                                                           *)

\* The types of the parser in refleks_format.go, with a count of trace points
\* that fits in 32 bits whatever number a field carries.
THEOREM ParserTypeCorrect == Spec => []ParserTypeOK
<1>1. ParserInv => ParserTypeOK
  BY DEF ParserInv, ParsedType
<1> QED
  BY <1>1, ParserInvHolds, PTL

\* ParseRefleksFile accepts only what arrived as it was written, with or without
\* a checksum that covers the damage, and its metadata are those of the file,
\* whatever its fields, points and lengths.
THEOREM AcceptedIsWritten == Spec => []AcceptedAsWritten
<1>1. ParserInv => AcceptedAsWritten
  BY DEF ParserInv
<1> QED
  BY <1>1, ParserInvHolds, PTL

\* A parser in step with a payload that arrived whole has in front of it what
\* was written.
LEMMA RestIsAhead ==
    ASSUME ParserInv, stage \in Reading, raw.payload = Encode(written), MouseIsExact(written)
    PROVE  rest = Ahead(written, stage)
<1> DEFINE ahead == Ahead(written, stage)
<1>1. written \in Files /\ rest \in Seq(Atoms) /\ InStepAt(rest, stage)
  BY DEF ParserInv, FileInv, StreamInv, Exact, Reading, Sections
<1>2. ahead \in Seq(Atoms)
  <2>1. CASE stage = "eof"
    <3>1. ahead = <<>>
      BY <2>1 DEF Ahead
    <3> QED
      BY <3>1
  <2>2. CASE stage \in Sections
    BY <1>1, <2>2, PayloadType DEF Ahead, Sections
  <2> QED
    BY <2>1, <2>2 DEF Reading
<1>3. /\ Matches(rest, ahead)
      /\ Len(rest) - Len(ahead) = Len(raw.payload) - Len(Encode(written))
  BY <1>1 DEF InStepAt
<1> HIDE DEF ahead
<1>4. Len(rest) \in Nat /\ Len(ahead) \in Nat /\ Len(Encode(written)) \in Nat
      /\ raw.payload = Encode(written)
  BY <1>1, <1>2, PayloadType
<1>5. Len(rest) = Len(ahead)
  BY <1>3, <1>4
<1>6. \A i \in 1 .. Len(rest) : rest[i] = ahead[i]
  BY <1>3, <1>4, <1>5 DEF Matches
<1> QED
  BY <1>1, <1>2, <1>5, <1>6, SeqEqual DEF ahead

\* The parser of refleks_format.go stays in step with every file that arrives
\* as it was written, whatever its fields, points and lengths.
THEOREM InStep == Spec => []SectionsInStep
<1>1. ParserInv => SectionsInStep
  BY RestIsAhead DEF SectionsInStep, Reading
<1> QED
  BY <1>1, ParserInvHolds, PTL

\* A section in front of a parser in step is all there.
LEMMA NothingBreaksOff ==
    ASSUME ParserInv, stage \in Sections, raw.payload = Encode(written), MouseIsExact(written)
    PROVE  /\ rest # <<>> /\ Len(rest) \in Nat
           /\ \A n \in Lengths : /\ n < Len(rest) /\ n = Len(written[stage]) /\ n \in Nat
                                 /\ \A i \in 1 .. n : rest[i + 1] = written[stage][i]
<1> DEFINE d == written[stage]
           t == Ahead(written, NextSection(stage))
<1>1. written \in Files
  BY DEF ParserInv, FileInv, Sections
<1>2. rest = Section(d) \o t /\ d \in Seq(Atoms) /\ t \in Seq(Atoms)
  BY <1>1, RestIsAhead, SectionsOfFile DEF Reading
<1> HIDE DEF d, t
<1>3. BeginsWith(rest, d, t)
  BY <1>2, SectionThenRest
<1>4. /\ rest \in Seq(Atoms) /\ rest # <<>> /\ rest[1] = Word(Len(d))
      /\ Len(rest) = Len(d) + 1 + Len(t) /\ \A i \in 1 .. Len(d) : rest[i + 1] = d[i]
  BY <1>3 DEF BeginsWith
<1>5. Len(d) \in Nat /\ Len(t) \in Nat
  BY <1>2
<1>6. ASSUME NEW n \in Lengths PROVE n = Len(d)
  BY <1>4, <1>6 DEF Lengths, Word
<1> QED
  BY <1>4, <1>5, <1>6 DEF d

\* Only the parser rejects, and the file stays what it is meanwhile.
LEMMA RejectsInPlace == [Next]_vars /\ stage' = "rejected" => UNCHANGED <<written, raw>>
<1>1. ReadStats => UNCHANGED <<written, raw>>
  BY Zenon DEF ReadStats, Panic, Advance
<1>2. ReadEnvironment => UNCHANGED <<written, raw>>
  BY Zenon DEF ReadEnvironment, Panic, Advance
<1>3. ReadName => UNCHANGED <<written, raw>>
  BY DEF ReadName, Reject, Advance
<1>4. ParsePayload => UNCHANGED <<written, raw>>
  BY <1>1, <1>2, <1>3
     DEF ParsePayload, SectionBreaksOff, SkipPerformances, ReadMouse, MouseFails,
         EnsureEOF, Reject, Advance
<1>5. CheckHeader \/ OpenDecoder => UNCHANGED <<written, raw>>
  BY DEF CheckHeader, OpenDecoder, Reject
<1>6. Arrive => stage' = "header"
  BY DEF Arrive, ArriveWhole, ArriveMislabelled, ArriveDamaged, Arrives
<1>7. Return => stage' = "idle"
  BY DEF Return
<1> QED
  BY <1>4, <1>5, <1>6, <1>7 DEF Next, ParseRefleksFile, vars

\* No step of a parser in step rejects a good file.
LEMMA StaysTaken == ParserInv /\ GoodFilesAreTaken /\ [Next]_vars => GoodFilesAreTaken'
<1> SUFFICES ASSUME ParserInv, GoodFilesAreTaken, [Next]_vars, UNCHANGED <<written, raw>>,
                    stage' = "rejected", stage # "rejected", Writable(written),
                    raw.header = "good", raw.sum, raw.ends, raw.declared = raw.packed,
                    raw.payload = Encode(written)
             PROVE  FALSE
  BY RejectsInPlace DEF GoodFilesAreTaken
<1>1. MouseIsExact(written) /\ Len(written.filename) \in 1 .. MaxFileName
      /\ Len(Points(written)) <= MaxMousePoints
  BY DEF Writable
<1>2. CASE CheckHeader
  BY <1>2 DEF CheckHeader
<1>3. CASE OpenDecoder
  BY <1>3 DEF OpenDecoder
<1>4. CASE SectionBreaksOff
  <2>1. stage \in Sections
    BY <1>4 DEF SectionBreaksOff
  <2>2. /\ rest # <<>> /\ Len(rest) \in Nat
        /\ \A n \in Lengths : n < Len(rest) /\ n \in Nat
    BY <1>1, <2>1, NothingBreaksOff
  <2>3. PICK n \in Lengths : n >= Len(rest)
    BY <1>4, <2>2 DEF SectionBreaksOff
  <2> QED
    BY <2>2, <2>3
<1>5. CASE ReadName
  <2>1. stage = "filename" /\ stage \in Sections
    BY <1>5 DEF ReadName, Sections
  <2>2. PICK n \in Lengths : n \notin 1 .. MaxFileName
    BY <1>5 DEF ReadName, Advance
  <2>3. n = Len(written.filename)
    BY <1>1, <2>1, NothingBreaksOff
  <2> QED
    BY <1>1, <2>2, <2>3
<1>6. CASE MouseFails
  <2> DEFINE d == written.mouse
  <2>1. stage = "mouse" /\ stage \in Sections /\ written \in Files
    BY <1>6 DEF MouseFails, ParserInv, FileInv, Sections
  <2>2. rest # <<>>
    BY <1>1, <2>1, NothingBreaksOff
  <2>3. PICK n \in Lengths \ {0} :
            Len(rest) > 1 /\ rest[2].is = "word" =>
                rest[2].n > MaxMousePoints \/ ~PointsAhead(n, rest[2].n)
    BY <1>6, <2>2 DEF MouseFails
  <2>4. /\ n = Len(d) /\ n < Len(rest) /\ n \in Nat /\ Len(rest) \in Nat
        /\ \A i \in 1 .. n : rest[i + 1] = d[i]
    BY <1>1, <2>1, NothingBreaksOff
  <2>5. n > 0 /\ d # <<>>
    BY <2>3, <2>4
  <2>6. rest[2].is = "word" /\ rest[2].n = n - 1
    <3>1. rest[2] = d[1]
      BY <2>4, <2>5
    <3>2. d[1] = Word(Len(d) - 1)
      BY <1>1, <2>5 DEF MouseIsExact
    <3> QED
      BY <2>4, <3>1, <3>2 DEF Word
  <2>7. Len(Points(written)) = n - 1
    BY <1>1, <2>1, <2>4, <2>5, PointsOfFile
  <2>8. PointsAhead(n, n - 1)
    <3> SUFFICES ASSUME NEW i \in 1 .. n - 1
                 PROVE  i < n /\ i + 2 <= Len(rest) /\ rest[i + 2].is = "point"
      BY DEF PointsAhead
    <3>1. i + 1 \in 1 .. n /\ i + 1 \in 2 .. Len(d) /\ i < n
      BY <2>4, <2>5
    <3>2. rest[i + 2] = d[i + 1]
      BY <2>4, <3>1
    <3> QED
      BY <1>1, <2>4, <2>5, <3>1, <3>2 DEF MouseIsExact
  <2> QED
    BY <1>1, <2>3, <2>4, <2>5, <2>6, <2>7, <2>8, FormatAssumption
<1>7. CASE EnsureEOF
  <2>1. stage = "eof" /\ stage \in Reading
    BY <1>7 DEF EnsureEOF, Reading
  <2>2. rest = Ahead(written, stage)
    BY <1>1, <2>1, RestIsAhead
  <2> QED
    BY <1>7, <2>1, <2>2 DEF EnsureEOF, Ahead
<1>8. CASE UNCHANGED vars
  BY <1>8 DEF vars
<1> QED
  BY <1>2, <1>3, <1>4, <1>5, <1>6, <1>7, <1>8
     DEF Next, Arrive, ArriveWhole, ArriveMislabelled, ArriveDamaged, Arrives, Return,
         ParseRefleksFile, ParsePayload, ReadStats, SkipPerformances, ReadMouse,
         ReadEnvironment, Panic, Advance

\* Every answer of ParseRefleksFile has its reason: a file that keeps within the
\* limits and arrives whole is never answered with ErrInvalidRunFile, and only a
\* malformed field makes the parser panic.
THEOREM VerdictsAreDue == Spec => []VerdictIsDue
<1>1. Init => GoodFilesAreTaken
  BY DEF Init, GoodFilesAreTaken
<1>2. ParserInv => PanicsOnMalformedOnly
  BY DEF ParserInv
<1>3. Spec => []GoodFilesAreTaken
  BY <1>1, StaysTaken, ParserInvHolds, PTL DEF Spec
<1> QED
  BY <1>2, <1>3, ParserInvHolds, PTL DEF VerdictIsDue
=============================================================================
