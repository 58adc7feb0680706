------------------------- MODULE RunRepository_proofs -------------------------
(***************************************************************************)
(* Proofs about RunRepository, for any files, players, scenarios, callers  *)
(* and pool size.                                                          *)
(***************************************************************************)
EXTENDS RunRepository, FiniteSetTheorems, TLAPS

USE DEF Statements, Results, Username

\* The row of a file is a scenarios row.
LEMMA ScenarioType ==
    ASSUME NEW f \in Files
    PROVE  ScenarioOf(f) \in Titles
BY MetadataAssumption DEF ScenarioOf

\* What a players upsert leaves is a username, never a missing row.
LEMMA MergedNameType ==
    ASSUME NEW old \in Username, NEW new \in Names \cup {NoName}
    PROVE  MergedName(old, new) \in Names \cup {NoName} /\ MergedName(old, new) # Absent
BY MetadataAssumption DEF MergedName

\* Committing the staged writes is the abstract insert.
LEMMA ApplyTxIsInsert ==
    ASSUME TypeOK, StagedIsCurrent, NEW c \in Callers, pc[c] = "commit", ApplyTx(c)
    PROVE  file[c] \in Files /\ Table!Insert(file[c])
<1> DEFINE f == file[c]
<1>1. f \in Files /\ HoldsHash(c) /\ InTx(c)
  BY DEF TypeOK, HoldsHash, InTx
<1>2. f \notin runs
  BY <1>1 DEF StagedIsCurrent
<1>3. players' = Table!PlayersWith(f)
  <2>1. CASE SteamOf[f] = Anonymous
    BY <2>1 DEF ApplyTx, Table!PlayersWith
  <2>2. CASE SteamOf[f] # Anonymous
    <3>1. HoldsPlayer(c)
      BY <2>2 DEF HoldsPlayer
    <3>2. name[c] = MergedName(players[SteamOf[f]], NameOf[f])
      BY <3>1, <1>1 DEF StagedIsCurrent
    <3> QED BY <2>2, <3>2 DEF ApplyTx, Table!PlayersWith, MergedName, Table!MergedName
  <2> QED BY <2>1, <2>2
<1>4. runCount' = [runCount EXCEPT ![Table!ScenarioOf(f)] = runCount[Table!ScenarioOf(f)] + 1]
  BY DEF ApplyTx, StagedIsCurrent, ScenarioOf, Table!ScenarioOf
<1> QED BY <1>1, <1>2, <1>3, <1>4 DEF ApplyTx, Table!Insert

\* An abstract insert keeps the three tables consistent with one another.
LEMMA InsertKeepsTables ==
    ASSUME TypeOK, CountMatchesRuns, PlayersHaveRuns,
           NEW f \in Files, Table!Insert(f)
    PROVE  /\ runs' \subseteq Files /\ IsFiniteSet(runs')
           /\ players' \in [SteamIDs -> Username]
           /\ runCount' \in [Titles -> Nat]
           /\ CountMatchesRuns'
           /\ PlayersHaveRuns'
<1> DEFINE s == ScenarioOf(f)
           m == MergedName(players[SteamOf[f]], NameOf[f])
<1>1. s \in Titles
  BY ScenarioType
<1>2. /\ f \notin runs
      /\ runs' = runs \cup {f}
      /\ runCount' = [runCount EXCEPT ![s] = runCount[s] + 1]
      /\ players' = IF SteamOf[f] = Anonymous THEN players
                    ELSE [players EXCEPT ![SteamOf[f]] = m]
  BY DEF Table!Insert, Table!PlayersWith, ScenarioOf, Table!ScenarioOf, MergedName, Table!MergedName
<1>3. runs' \subseteq Files /\ IsFiniteSet(runs')
  BY <1>2, FS_AddElement DEF TypeOK
<1>4. SteamOf[f] # Anonymous => SteamOf[f] \in SteamIDs /\ m \in Names \cup {NoName} /\ m # Absent
  <2> SUFFICES ASSUME SteamOf[f] # Anonymous
               PROVE  SteamOf[f] \in SteamIDs /\ m \in Names \cup {NoName} /\ m # Absent
    OBVIOUS
  <2>1. SteamOf[f] \in SteamIDs /\ NameOf[f] \in Names \cup {NoName}
    BY MetadataAssumption
  <2>2. players[SteamOf[f]] \in Username
    BY <2>1 DEF TypeOK
  <2> QED BY <2>1, <2>2, MergedNameType
<1>5. players' \in [SteamIDs -> Username]
  BY <1>2, <1>4 DEF TypeOK
<1>6. runCount' \in [Titles -> Nat]
  BY <1>1, <1>2 DEF TypeOK
<1>7. CountMatchesRuns'
  <2> SUFFICES ASSUME NEW t \in Titles
               PROVE  runCount'[t] = Cardinality({g \in runs' : ScenarioOf(g) = t})
    BY DEF CountMatchesRuns, ScenarioOf
  <2> DEFINE Old == {g \in runs : ScenarioOf(g) = t}
             New == {g \in runs' : ScenarioOf(g) = t}
  <2>1. runCount[t] = Cardinality(Old)
    BY DEF CountMatchesRuns
  <2>2. IsFiniteSet(Old)
    BY FS_Subset DEF TypeOK
  <2>3. CASE t = s
    <3>1. New = Old \cup {f} /\ f \notin Old
      BY <1>2, <2>3
    <3>2. Cardinality(New) = Cardinality(Old) + 1
      BY <2>2, <3>1, FS_AddElement
    <3> QED BY <1>1, <1>2, <2>1, <2>3, <3>2 DEF TypeOK
  <2>4. CASE t # s
    <3>1. New = Old
      BY <1>2, <2>4
    <3> QED BY <1>1, <1>2, <2>1, <2>4, <3>1 DEF TypeOK
  <2> QED BY <2>3, <2>4
<1>8. PlayersHaveRuns'
  <2> SUFFICES ASSUME NEW p \in SteamIDs
               PROVE  players'[p] # Absent <=> \E g \in runs' : SteamOf[g] = p
    BY DEF PlayersHaveRuns
  <2>1. players[p] # Absent <=> \E g \in runs : SteamOf[g] = p
    BY DEF PlayersHaveRuns
  <2>2. CASE SteamOf[f] = p
    BY <1>2, <1>4, <2>2, MetadataAssumption DEF TypeOK
  <2>3. CASE SteamOf[f] # p
    BY <1>2, <1>4, <2>1, <2>3 DEF TypeOK
  <2> QED BY <2>2, <2>3
<1> QED BY <1>3, <1>5, <1>6, <1>7, <1>8

-----------------------------------------------------------------------------

LEMMA InitIInv == Init => IInv
<1> SUFFICES ASSUME Init PROVE IInv
  OBVIOUS
<1>1. runs = {} /\ players = [p \in SteamIDs |-> Absent] /\ runCount = [t \in Titles |-> 0]
  BY DEF Init, Table!Empty
<1>2. TypeOK
  BY <1>1, FS_EmptySet DEF Init, TypeOK
<1>3. LocksAreExclusive /\ StagedIsCurrent
  BY DEF Init, LocksAreExclusive, StagedIsCurrent, HoldsPlayer, HoldsScenario, HoldsHash, InTx
<1>4. CountMatchesRuns
  <2> SUFFICES ASSUME NEW t \in Titles
               PROVE  runCount[t] = Cardinality({g \in runs : ScenarioOf(g) = t})
    BY DEF CountMatchesRuns
  <2>1. {g \in runs : ScenarioOf(g) = t} = {}
    BY <1>1
  <2> QED BY <1>1, <2>1, FS_EmptySet
<1>5. PlayersHaveRuns
  BY <1>1 DEF PlayersHaveRuns
<1> QED BY <1>2, <1>3, <1>4, <1>5 DEF IInv

\* A step that leaves the tables alone and gives no lock away: the invariants
\* that speak of the tables only carry over.
LEMMA TablesUnchanged ==
    ASSUME IInv, UNCHANGED tables
    PROVE  CountMatchesRuns' /\ PlayersHaveRuns'
BY DEF IInv, CountMatchesRuns, PlayersHaveRuns, tables, ScenarioOf

\* Returning gives up the locks of the caller and leaves the others alone.
LEMMA ReturnKeepsCalls ==
    ASSUME IInv, NEW c \in Callers, NEW r \in Results, Return(c, r), UNCHANGED tables
    PROVE  IInv'
<1>1. TypeOK'
  BY DEF IInv, TypeOK, Return, tables
<1>2. LocksAreExclusive'
  BY DEF IInv, LocksAreExclusive, HoldsPlayer, HoldsScenario, ScenarioOf, Return, TypeOK
<1>3. StagedIsCurrent'
  <2> SUFFICES ASSUME NEW d \in Callers
               PROVE  /\ HoldsHash(d)' => file'[d] \notin runs'
                      /\ pc'[d] = "commit" => count'[d] = runCount'[ScenarioOf(file'[d])] + 1
                      /\ HoldsPlayer(d)' /\ InTx(d)' =>
                           name'[d] = MergedName(players'[SteamOf[file'[d]]], NameOf[file'[d]])
    BY DEF StagedIsCurrent, ScenarioOf, MergedName
  <2>1. CASE d = c
    BY <2>1 DEF IInv, TypeOK, Return, HoldsHash, HoldsPlayer, InTx
  <2>2. CASE d # c
    BY <2>2 DEF IInv, TypeOK, Return, StagedIsCurrent, HoldsHash, HoldsPlayer, InTx, tables
  <2> QED BY <2>1, <2>2
<1>4. QED BY <1>1, <1>2, <1>3, TablesUnchanged DEF IInv

\* Committing: the other open transactions hold other rows, so what they have
\* staged stays current.
LEMMA CommitKeepsIInv ==
    ASSUME IInv, NEW c \in Callers, NEW r \in Results,
           pc[c] = "commit", ApplyTx(c), Return(c, r)
    PROVE  IInv'
<1>1. file[c] \in Files /\ Table!Insert(file[c])
  BY ApplyTxIsInsert DEF IInv
<1>2. /\ runs' \subseteq Files /\ IsFiniteSet(runs')
      /\ players' \in [SteamIDs -> Username]
      /\ runCount' \in [Titles -> Nat]
      /\ CountMatchesRuns'
      /\ PlayersHaveRuns'
  BY <1>1, InsertKeepsTables DEF IInv
<1>3. TypeOK'
  BY <1>2 DEF IInv, TypeOK, Return
<1>4. LocksAreExclusive'
  BY DEF IInv, LocksAreExclusive, HoldsPlayer, HoldsScenario, ScenarioOf, Return, TypeOK
<1>5. StagedIsCurrent'
  <2> SUFFICES ASSUME NEW d \in Callers
               PROVE  /\ HoldsHash(d)' => file'[d] \notin runs'
                      /\ pc'[d] = "commit" => count'[d] = runCount'[ScenarioOf(file'[d])] + 1
                      /\ HoldsPlayer(d)' /\ InTx(d)' =>
                           name'[d] = MergedName(players'[SteamOf[file'[d]]], NameOf[file'[d]])
    BY DEF StagedIsCurrent, ScenarioOf, MergedName
  <2>1. CASE d = c
    BY <2>1 DEF IInv, TypeOK, Return, HoldsHash, HoldsPlayer, InTx
  <2>2. CASE d # c
    <3>1. /\ pc'[d] = pc[d] /\ file'[d] = file[d] /\ name'[d] = name[d] /\ count'[d] = count[d]
          /\ pc[d] # "idle" => file[d] \in Files
      BY <2>2 DEF IInv, TypeOK, Return
    <3>2. HoldsScenario(c)
      BY DEF HoldsScenario
    <3>3. HoldsScenario(d) => ScenarioOf(file[d]) # ScenarioOf(file[c])
      BY <2>2, <3>2 DEF IInv, LocksAreExclusive
    <3>4. HoldsHash(d)' => file'[d] \notin runs'
      BY <3>1, <3>3 DEF HoldsHash, HoldsScenario, ApplyTx, IInv, StagedIsCurrent
    <3>5. pc'[d] = "commit" => count'[d] = runCount'[ScenarioOf(file'[d])] + 1
      <4> SUFFICES ASSUME pc[d] = "commit"
                   PROVE  count[d] = runCount'[ScenarioOf(file[d])] + 1
        BY <3>1
      <4>1. ScenarioOf(file[d]) \in Titles /\ ScenarioOf(file[d]) # ScenarioOf(file[c])
        BY <3>1, <3>3, ScenarioType DEF HoldsScenario
      <4>2. runCount'[ScenarioOf(file[d])] = runCount[ScenarioOf(file[d])]
        BY <4>1 DEF ApplyTx, IInv, TypeOK
      <4> QED BY <4>2 DEF IInv, StagedIsCurrent
    <3>6. HoldsPlayer(d)' /\ InTx(d)' =>
            name'[d] = MergedName(players'[SteamOf[file'[d]]], NameOf[file'[d]])
      <4> SUFFICES ASSUME HoldsPlayer(d), InTx(d)
                   PROVE  name[d] = MergedName(players'[SteamOf[file[d]]], NameOf[file[d]])
        BY <3>1 DEF HoldsPlayer, InTx
      <4>1. name[d] = MergedName(players[SteamOf[file[d]]], NameOf[file[d]])
        BY DEF IInv, StagedIsCurrent
      <4>2. SteamOf[file[c]] # Anonymous => SteamOf[file[c]] # SteamOf[file[d]]
        BY <2>2 DEF IInv, LocksAreExclusive, HoldsPlayer
      <4>3. SteamOf[file[d]] \in SteamIDs
        BY <3>1, MetadataAssumption DEF HoldsPlayer
      <4>4. players'[SteamOf[file[d]]] = players[SteamOf[file[d]]]
        BY <4>2, <4>3 DEF ApplyTx, IInv, TypeOK
      <4> QED BY <4>1, <4>4
    <3> QED BY <3>4, <3>5, <3>6
  <2> QED BY <2>1, <2>2
<1> QED BY <1>2, <1>3, <1>4, <1>5 DEF IInv

\* A step of c that changes neither the tables nor file, and no lock is claimed
\* that another caller holds.
LEMMA AdvanceKeepsLocks ==
    ASSUME IInv, NEW c \in Callers, NEW q \in Statements,
           pc' = [pc EXCEPT ![c] = q], UNCHANGED file,
           HoldsPlayer(c)' /\ ~HoldsPlayer(c) => PlayerIsFree(c),
           HoldsScenario(c)' /\ ~HoldsScenario(c) => ScenarioIsFree(c)
    PROVE  LocksAreExclusive'
<1> SUFFICES ASSUME NEW d \in Callers, NEW e \in Callers, d # e
             PROVE  /\ HoldsPlayer(d)' /\ HoldsPlayer(e)' => SteamOf[file[d]] # SteamOf[file[e]]
                    /\ HoldsScenario(d)' /\ HoldsScenario(e)' =>
                         ScenarioOf(file[d]) # ScenarioOf(file[e])
  BY DEF LocksAreExclusive, ScenarioOf
<1>1. \A x \in Callers \ {c} : /\ HoldsPlayer(x)' <=> HoldsPlayer(x)
                               /\ HoldsScenario(x)' <=> HoldsScenario(x)
  BY DEF HoldsPlayer, HoldsScenario, IInv, TypeOK
<1>2. CASE d # c /\ e # c
  BY <1>1, <1>2 DEF IInv, LocksAreExclusive
<1>3. CASE d = c
  BY <1>1, <1>3 DEF IInv, LocksAreExclusive, PlayerIsFree, ScenarioIsFree
<1>4. CASE e = c
  BY <1>1, <1>4 DEF IInv, LocksAreExclusive, PlayerIsFree, ScenarioIsFree
<1> QED BY <1>2, <1>3, <1>4

LEMMA StepKeepsIInv == IInv /\ [Next]_vars => IInv'
<1> SUFFICES ASSUME IInv, [Next]_vars PROVE IInv'
  OBVIOUS
<1>1. ASSUME NEW c \in Callers, NEW f \in Files, Call(c, f) PROVE IInv'
  <2>1. UNCHANGED tables
    BY <1>1 DEF Call
  <2>2. TypeOK'
    BY <1>1 DEF Call, IInv, TypeOK, tables
  <2>3. LocksAreExclusive'
    BY <1>1 DEF Call, IInv, TypeOK, LocksAreExclusive, HoldsPlayer, HoldsScenario, ScenarioOf
  <2>4. StagedIsCurrent'
    BY <1>1 DEF Call, IInv, TypeOK, StagedIsCurrent, HoldsPlayer, HoldsHash, InTx, tables,
                ScenarioOf, MergedName
  <2> QED BY <2>1, <2>2, <2>3, <2>4, TablesUnchanged DEF IInv
<1>2. ASSUME NEW c \in Callers, BeginTx(c) PROVE IInv'
  <2>1. UNCHANGED tables
    BY <1>2 DEF BeginTx
  <2>2. TypeOK'
    BY <1>2 DEF BeginTx, IInv, TypeOK, tables
  <2>3. LocksAreExclusive'
    BY <1>2, AdvanceKeepsLocks DEF BeginTx, HoldsPlayer, HoldsScenario, IInv, TypeOK
  <2>4. StagedIsCurrent'
    BY <1>2 DEF BeginTx, IInv, TypeOK, StagedIsCurrent, HoldsPlayer, HoldsHash, InTx, tables,
                ScenarioOf, MergedName
  <2> QED BY <2>1, <2>2, <2>3, <2>4, TablesUnchanged DEF IInv
<1>3. ASSUME NEW c \in Callers, EnsureNoPlayer(c) PROVE IInv'
  <2>1. UNCHANGED tables
    BY <1>3 DEF EnsureNoPlayer
  <2>2. TypeOK'
    BY <1>3 DEF EnsureNoPlayer, IInv, TypeOK, tables
  <2>3. LocksAreExclusive'
    BY <1>3, AdvanceKeepsLocks DEF EnsureNoPlayer, HoldsPlayer, HoldsScenario, IInv, TypeOK
  <2>4. StagedIsCurrent'
    BY <1>3 DEF EnsureNoPlayer, IInv, TypeOK, StagedIsCurrent, HoldsPlayer, HoldsHash, InTx,
                tables, ScenarioOf, MergedName
  <2> QED BY <2>1, <2>2, <2>3, <2>4, TablesUnchanged DEF IInv
<1>4. ASSUME NEW c \in Callers, EnsurePlayer(c) PROVE IInv'
  <2>1. UNCHANGED tables
    BY <1>4 DEF EnsurePlayer
  <2>2. name'[c] \in Username
    <3>1. file[c] \in Files /\ SteamOf[file[c]] \in SteamIDs
      BY <1>4, MetadataAssumption DEF EnsurePlayer, IInv, TypeOK
    <3>2. players[SteamOf[file[c]]] \in Username /\ NameOf[file[c]] \in Names \cup {NoName}
      BY <3>1, MetadataAssumption DEF IInv, TypeOK
    <3> QED BY <1>4, <3>2, MergedNameType DEF EnsurePlayer, IInv, TypeOK
  <2>3. TypeOK'
    BY <1>4, <2>2 DEF EnsurePlayer, IInv, TypeOK, tables
  <2>4. LocksAreExclusive'
    BY <1>4, AdvanceKeepsLocks DEF EnsurePlayer, HoldsPlayer, HoldsScenario, IInv, TypeOK
  <2>5. StagedIsCurrent'
    BY <1>4 DEF EnsurePlayer, IInv, TypeOK, StagedIsCurrent, HoldsPlayer, HoldsHash, InTx,
                tables, ScenarioOf, MergedName
  <2> QED BY <2>1, <2>3, <2>4, <2>5, TablesUnchanged DEF IInv
<1>5. ASSUME NEW c \in Callers, EnsureScenario(c) PROVE IInv'
  <2>1. UNCHANGED tables
    BY <1>5 DEF EnsureScenario
  <2>2. TypeOK'
    BY <1>5 DEF EnsureScenario, IInv, TypeOK, tables
  <2>3. LocksAreExclusive'
    BY <1>5, AdvanceKeepsLocks DEF EnsureScenario, HoldsPlayer, HoldsScenario, IInv, TypeOK
  <2>4. StagedIsCurrent'
    BY <1>5 DEF EnsureScenario, IInv, TypeOK, StagedIsCurrent, HoldsPlayer, HoldsHash, InTx,
                tables, ScenarioOf, MergedName
  <2> QED BY <2>1, <2>2, <2>3, <2>4, TablesUnchanged DEF IInv
<1>6. ASSUME NEW c \in Callers, InsertRow(c) PROVE IInv'
  <2>1. UNCHANGED tables
    BY <1>6 DEF InsertRow
  <2>2. TypeOK'
    BY <1>6 DEF InsertRow, IInv, TypeOK, tables
  <2>3. LocksAreExclusive'
    BY <1>6, AdvanceKeepsLocks DEF InsertRow, HoldsPlayer, HoldsScenario, IInv, TypeOK
  <2>4. StagedIsCurrent'
    BY <1>6 DEF InsertRow, IInv, TypeOK, StagedIsCurrent, HoldsPlayer, HoldsHash, InTx,
                tables, ScenarioOf, MergedName
  <2> QED BY <2>1, <2>2, <2>3, <2>4, TablesUnchanged DEF IInv
<1>7. ASSUME NEW c \in Callers, InsertConflict(c) PROVE IInv'
  BY <1>7, ReturnKeepsCalls DEF InsertConflict
<1>8. ASSUME NEW c \in Callers, BumpCount(c) PROVE IInv'
  <2>1. UNCHANGED tables
    BY <1>8 DEF BumpCount
  <2>2. ScenarioOf(file[c]) \in Titles
    BY <1>8, ScenarioType DEF BumpCount, IInv, TypeOK
  <2>3. TypeOK'
    BY <1>8, <2>2 DEF BumpCount, IInv, TypeOK, tables
  <2>4. LocksAreExclusive'
    BY <1>8, AdvanceKeepsLocks DEF BumpCount, HoldsPlayer, HoldsScenario, IInv, TypeOK
  <2>5. StagedIsCurrent'
    BY <1>8 DEF BumpCount, IInv, TypeOK, StagedIsCurrent, HoldsPlayer, HoldsHash, InTx,
                tables, ScenarioOf, MergedName
  <2> QED BY <2>1, <2>3, <2>4, <2>5, TablesUnchanged DEF IInv
<1>9. ASSUME NEW c \in Callers, Commit(c) \/ CommitLost(c) PROVE IInv'
  BY <1>9, CommitKeepsIInv DEF Commit, CommitLost
<1>10. ASSUME NEW c \in Callers, Fail(c) PROVE IInv'
  BY <1>10, ReturnKeepsCalls DEF Fail
<1>11. CASE UNCHANGED vars
  BY <1>11 DEF vars, IInv, TypeOK, LocksAreExclusive, StagedIsCurrent, CountMatchesRuns,
               PlayersHaveRuns, HoldsPlayer, HoldsScenario, HoldsHash, InTx, ScenarioOf, MergedName
<1> QED BY <1>1, <1>2, <1>3, <1>4, <1>5, <1>6, <1>7, <1>8, <1>9, <1>10, <1>11 DEF Next, Step

\* The strengthened invariant: locks are exclusive, what is staged under a lock
\* is current, and the three tables agree.
THEOREM Invariance == Spec => []IInv
<1>1. Init => IInv
  BY InitIInv
<1>2. IInv /\ [Next]_vars => IInv'
  BY StepKeepsIInv
<1> QED BY <1>1, <1>2, PTL DEF Spec

\* Type correctness of InsertRun and its tables.
THEOREM TypeCorrect == Spec => []TypeOK
<1>1. IInv => TypeOK
  BY DEF IInv
<1> QED BY <1>1, Invariance, PTL

\* What an open transaction has staged still fits the tables when it commits: a
\* read that an unlocked upsert would have made stale.
THEOREM StagedStaysCurrent == Spec => []StagedIsCurrent
<1>1. IInv => StagedIsCurrent
  BY DEF IInv
<1> QED BY <1>1, Invariance, PTL

\* However many uploads run together, fail or lose their reply, run_count is
\* the number of runs of each scenario.
THEOREM CountsAreExact == Spec => []CountMatchesRuns
<1>1. IInv => CountMatchesRuns
  BY DEF IInv
<1> QED BY <1>1, Invariance, PTL

\* No upload leaves a player without a run.
THEOREM NoStrayPlayer == Spec => []PlayersHaveRuns
<1>1. IInv => PlayersHaveRuns
  BY DEF IInv
<1> QED BY <1>1, Invariance, PTL

-----------------------------------------------------------------------------

\* InsertRun is atomic: each of its steps is the abstract insert or changes no table.
LEMMA StepIsTableStep == IInv /\ [Next]_vars => [Table!InsertSome]_(Table!tableVars)
<1> SUFFICES ASSUME IInv, [Next]_vars
             PROVE  Table!InsertSome \/ UNCHANGED tables
  BY DEF Table!tableVars, tables
<1>1. ASSUME NEW c \in Callers, Commit(c) \/ CommitLost(c) PROVE Table!InsertSome
  BY <1>1, ApplyTxIsInsert DEF Commit, CommitLost, IInv, Table!InsertSome
<1>2. ASSUME NEW c \in Callers, Step(c) PROVE Commit(c) \/ UNCHANGED tables
  BY <1>2 DEF Step, BeginTx, EnsureNoPlayer, EnsurePlayer, EnsureScenario, InsertRow,
              InsertConflict, BumpCount
<1>3. ASSUME NEW c \in Callers, Fail(c) \/ \E f \in Files : Call(c, f) PROVE UNCHANGED tables
  BY <1>3 DEF Fail, Call
<1>4. CASE UNCHANGED vars
  BY <1>4 DEF vars, tables
<1> QED BY <1>1, <1>2, <1>3, <1>4 DEF Next

\* The statement-level InsertRun implements the abstract table.
THEOREM Refinement == Spec => ImplementsRunTable
<1>1. Init => Table!Empty
  BY DEF Init
<1>2. IInv /\ [Next]_vars => [Table!InsertSome]_(Table!tableVars)
  BY StepIsTableStep
<1> QED BY <1>1, <1>2, Invariance, PTL DEF Spec, ImplementsRunTable, Table!TableSpec

\* A known username is only ever replaced by the name of the run just inserted.
THEOREM UsernamesSurvive == Spec => NameIsKept
<1> DEFINE Kept == \A p \in SteamIDs : players[p] \in Names =>
        \/ players'[p] = players[p]
        \/ \E f \in runs' \ runs : SteamOf[f] = p /\ players'[p] = NameOf[f] /\ NameOf[f] # NoName
<1>1. IInv /\ [Next]_vars => [Kept]_vars
  <2> SUFFICES ASSUME IInv, [Next]_vars, NEW p \in SteamIDs, players[p] \in Names
               PROVE  \/ players'[p] = players[p]
                      \/ \E f \in runs' \ runs :
                            SteamOf[f] = p /\ players'[p] = NameOf[f] /\ NameOf[f] # NoName
    OBVIOUS
  <2>1. CASE UNCHANGED tables
    BY <2>1 DEF tables
  <2>2. CASE Table!InsertSome
    <3>1. PICK f \in Files : Table!Insert(f)
      BY <2>2 DEF Table!InsertSome
    <3>2. f \in runs' \ runs
      BY <3>1 DEF Table!Insert
    <3>3. CASE SteamOf[f] = p
      <4>1. p # Anonymous /\ players[p] # Absent
        BY MetadataAssumption
      <4>2. players'[p] = IF NameOf[f] # NoName THEN NameOf[f] ELSE players[p]
        BY <3>1, <3>3, <4>1 DEF Table!Insert, Table!PlayersWith, Table!MergedName, IInv, TypeOK
      <4> QED BY <3>2, <3>3, <4>2
    <3>4. CASE SteamOf[f] # p
      BY <3>1, <3>4 DEF Table!Insert, Table!PlayersWith, IInv, TypeOK
    <3> QED BY <3>3, <3>4
  <2> QED BY <2>1, <2>2, StepIsTableStep DEF Table!tableVars, tables
<1> QED BY <1>1, Invariance, PTL DEF Spec, NameIsKept

\* What InsertRun returns is true of the runs table.
THEOREM ResultsAreTrue == Spec => ResultIsTruthful
<1> DEFINE Truthful == \A c \in Callers :
        /\ result[c] # "inserted" /\ result'[c] = "inserted"
            => file[c] \notin runs /\ file[c] \in runs'
        /\ result[c] # "duplicate" /\ result'[c] = "duplicate" => file[c] \in runs
<1>1. IInv /\ [Next]_vars => [Truthful]_vars
  <2> SUFFICES ASSUME IInv, Next, NEW c \in Callers
               PROVE  /\ result[c] # "inserted" /\ result'[c] = "inserted"
                          => file[c] \notin runs /\ file[c] \in runs'
                      /\ result[c] # "duplicate" /\ result'[c] = "duplicate" => file[c] \in runs
    BY DEF vars
  <2>1. ASSUME NEW d \in Callers, Commit(d) PROVE file[d] \notin runs /\ file[d] \in runs'
    BY <2>1 DEF Commit, ApplyTx, IInv, StagedIsCurrent, HoldsHash
  <2>2. ASSUME NEW d \in Callers, NEW r \in Results, Return(d, r)
        PROVE  result'[d] = r /\ (c # d => result'[c] = result[c])
    BY <2>2 DEF Return, IInv, TypeOK
  <2>3. ASSUME NEW d \in Callers, NEW f \in Files, Call(d, f)
        PROVE  result'[c] = result[c] \/ result'[c] = "none"
    BY <2>3 DEF Call, IInv, TypeOK
  <2>4. PICK d \in Callers : \/ \E f \in Files : Call(d, f)
                             \/ Step(d) \/ CommitLost(d) \/ Fail(d)
    BY DEF Next
  <2>5. CASE Commit(d)
    BY <2>1, <2>2, <2>5 DEF Commit
  <2>6. CASE InsertConflict(d)
    BY <2>2, <2>6 DEF InsertConflict
  <2>7. CASE CommitLost(d) \/ Fail(d)
    BY <2>2, <2>7 DEF CommitLost, Fail
  <2>8. CASE \E f \in Files : Call(d, f)
    BY <2>3, <2>8
  <2>9. CASE UNCHANGED result
    BY <2>9
  <2> QED BY <2>4, <2>5, <2>6, <2>7, <2>8, <2>9
          DEF Step, BeginTx, EnsureNoPlayer, EnsurePlayer, EnsureScenario, InsertRow, BumpCount
<1> QED BY <1>1, Invariance, PTL DEF Spec, ResultIsTruthful

=============================================================================
