---------------------------- MODULE RunRepository ----------------------------
(***************************************************************************)
(* PostgresRepository.InsertRun, statement by statement, run by several    *)
(* callers at once.  Every statement of the transaction is a step; the     *)
(* writes of an open transaction are staged and reach the tables when it   *)
(* commits.  Row locks follow PostgreSQL's READ COMMITTED upserts: the     *)
(* upsert of a players or scenarios row, and the insert of a hash, wait    *)
(* for the open transaction that wrote the same unique key.  A lock is     *)
(* held from its statement to the end of the transaction, so the locks are *)
(* read off the program counters.                                          *)
(***************************************************************************)
EXTENDS RunFile, Naturals, FiniteSets

CONSTANTS Callers,  \* requests that may be inside InsertRun together
          MaxConns, \* connections of the pool
          NoFile    \* no call is running

ASSUME CallersAssumption == MaxConns \in Nat \ {0} /\ NoFile \notin Files

VARIABLES
    runs, players, runCount,    \* the committed tables, as in RunTable
    pc,         \* the statement each caller runs next
    file,       \* the file each caller inserts
    name,       \* the username staged by the players upsert
    count,      \* the run_count staged by the scenarios update
    result      \* what the caller's last InsertRun returned

tables == <<runs, players, runCount>>
callVars == <<pc, file, name, count, result>>
vars == <<runs, players, runCount, pc, file, name, count, result>>

Table == INSTANCE RunTable

Statements == {"player", "scenario", "insert", "count", "commit"}
Results == {"none", "inserted", "duplicate", "error"}

TypeOK ==
    /\ runs \subseteq Files /\ IsFiniteSet(runs)
    /\ players \in [SteamIDs -> Username]
    /\ runCount \in [Titles -> Nat]
    /\ pc \in [Callers -> {"idle", "begin"} \cup Statements]
    /\ file \in [Callers -> Files \cup {NoFile}]
    /\ \A c \in Callers : pc[c] # "idle" => file[c] \in Files
    /\ name \in [Callers -> Username]
    /\ count \in [Callers -> Nat]
    /\ result \in [Callers -> Results]

-----------------------------------------------------------------------------
(* Who holds which lock.                                                   *)

InTx(c) == pc[c] \in Statements

HoldsPlayer(c) == pc[c] \in Statements \ {"player"} /\ SteamOf[file[c]] # Anonymous
HoldsScenario(c) == pc[c] \in {"insert", "count", "commit"}
HoldsHash(c) == pc[c] \in {"count", "commit"}

\* Slip: the row is written without locking it.
PlayerUnlocked(c) == TRUE

PlayerIsFree(c) ==
    \A d \in Callers \ {c} : HoldsPlayer(d) => SteamOf[file[d]] # SteamOf[file[c]]
ScenarioIsFree(c) ==
    \A d \in Callers \ {c} : HoldsScenario(d) => ScenarioOf(file[d]) # ScenarioOf(file[c])
HashIsFree(c) == \A d \in Callers \ {c} : HoldsHash(d) => file[d] # file[c]

-----------------------------------------------------------------------------

Init ==
    /\ Table!Empty
    /\ pc = [c \in Callers |-> "idle"]
    /\ file = [c \in Callers |-> NoFile]
    /\ name = [c \in Callers |-> NoName]
    /\ count = [c \in Callers |-> 0]
    /\ result = [c \in Callers |-> "none"]

\* SyncOne calls InsertRun with the metadata of a parsed file.
Call(c, f) ==
    /\ pc[c] = "idle"
    /\ pc' = [pc EXCEPT ![c] = "begin"]
    /\ file' = [file EXCEPT ![c] = f]
    /\ result' = [result EXCEPT ![c] = "none"]
    /\ UNCHANGED <<tables, name, count>>

\* The call returns r and its connection, with every lock, is given back.
Return(c, r) ==
    /\ pc' = [pc EXCEPT ![c] = "idle"]
    /\ result' = [result EXCEPT ![c] = r]
    /\ file' = [file EXCEPT ![c] = NoFile]
    /\ name' = [name EXCEPT ![c] = NoName]
    /\ count' = [count EXCEPT ![c] = 0]

\* BeginTx waits for a free connection of the pool.
BeginTx(c) ==
    /\ pc[c] = "begin"
    /\ Cardinality({d \in Callers : InTx(d)}) < MaxConns
    /\ pc' = [pc EXCEPT ![c] = "player"]
    /\ UNCHANGED <<tables, file, name, count, result>>

\* A file without a steam id touches no players row.
EnsureNoPlayer(c) ==
    /\ pc[c] = "player"
    /\ SteamOf[file[c]] = Anonymous
    /\ pc' = [pc EXCEPT ![c] = "scenario"]
    /\ UNCHANGED <<tables, file, name, count, result>>

\* Slip: the upsert runs on the pool instead of the transaction.
EnsurePlayerOutsideTx(c) ==
    /\ pc[c] = "player"
    /\ SteamOf[file[c]] # Anonymous
    /\ players' = Table!PlayersWith(file[c])
    /\ name' = [name EXCEPT ![c] = players'[SteamOf[file[c]]]]
    /\ pc' = [pc EXCEPT ![c] = "scenario"]
    /\ UNCHANGED <<runs, runCount, file, count, result>>

EnsurePlayer(c) ==
    /\ pc[c] = "player"
    /\ SteamOf[file[c]] # Anonymous
    /\ PlayerIsFree(c)
    /\ name' = [name EXCEPT ![c] = MergedName(players[SteamOf[file[c]]], NameOf[file[c]])]
    /\ pc' = [pc EXCEPT ![c] = "scenario"]
    /\ UNCHANGED <<tables, file, count, result>>

EnsureScenario(c) ==
    /\ pc[c] = "scenario"
    /\ ScenarioIsFree(c)
    /\ pc' = [pc EXCEPT ![c] = "insert"]
    /\ UNCHANGED <<tables, file, name, count, result>>

\* INSERT ... ON CONFLICT DO NOTHING affected one row.
InsertRow(c) ==
    /\ pc[c] = "insert"
    /\ HashIsFree(c)
    /\ file[c] \notin runs
    /\ pc' = [pc EXCEPT ![c] = "count"]
    /\ UNCHANGED <<tables, file, name, count, result>>

\* Slips: the number of affected rows is not looked at; the early return leaves
\* the transaction open.
ConflictIsCounted(c) ==
    /\ pc[c] = "insert"
    /\ HashIsFree(c)
    /\ file[c] \in runs
    /\ pc' = [pc EXCEPT ![c] = "count"]
    /\ UNCHANGED <<tables, file, name, count, result>>

ConflictKeepsTx(c) ==
    /\ pc[c] = "insert"
    /\ HashIsFree(c)
    /\ file[c] \in runs
    /\ result' = [result EXCEPT ![c] = "duplicate"]
    /\ UNCHANGED <<tables, pc, file, name, count>>

\* It affected none: return false, and the deferred Rollback undoes the upserts.
InsertConflict(c) ==
    /\ pc[c] = "insert"
    /\ HashIsFree(c)
    /\ file[c] \in runs
    /\ Return(c, "duplicate")
    /\ UNCHANGED tables

BumpCount(c) ==
    /\ pc[c] = "count"
    /\ count' = [count EXCEPT ![c] = runCount[ScenarioOf(file[c])] + 1]
    /\ pc' = [pc EXCEPT ![c] = "commit"]
    /\ UNCHANGED <<tables, file, name, result>>

\* The staged writes of c reach the tables, together.
ApplyTx(c) ==
    /\ runs' = runs \cup {file[c]}
    /\ players' = IF SteamOf[file[c]] = Anonymous THEN players
                  ELSE [players EXCEPT ![SteamOf[file[c]]] = name[c]]
    /\ runCount' = [runCount EXCEPT ![ScenarioOf(file[c])] = count[c]]

Commit(c) ==
    /\ pc[c] = "commit"
    /\ ApplyTx(c)
    /\ Return(c, "inserted")

\* The server commits but the reply is lost: the caller sees an error.
CommitLost(c) ==
    /\ pc[c] = "commit"
    /\ ApplyTx(c)
    /\ Return(c, "error")

\* Slips: an error of Commit is dropped; a failing call forgets its transaction.
FailedCommitIsSuccess(c) ==
    /\ pc[c] # "idle"
    /\ Return(c, IF pc[c] = "commit" THEN "inserted" ELSE "error")
    /\ UNCHANGED tables

FailKeepsTx(c) ==
    /\ pc[c] # "idle"
    /\ file' = [file EXCEPT ![c] = NoFile]
    /\ UNCHANGED <<tables, pc, name, count, result>>

\* A statement fails, or the request's context is cancelled while it waits:
\* the error is returned and the deferred Rollback undoes the transaction.  With
\* a cancelled context the server may free rows and connection a little later.
Fail(c) ==
    /\ pc[c] # "idle"
    /\ Return(c, "error")
    /\ UNCHANGED tables

Step(c) ==
    \/ BeginTx(c) \/ EnsureNoPlayer(c) \/ EnsurePlayer(c) \/ EnsureScenario(c)
    \/ InsertRow(c) \/ InsertConflict(c) \/ BumpCount(c) \/ Commit(c)

Next ==
    \E c \in Callers :
        \/ \E f \in Files : Call(c, f)
        \/ Step(c)
        \/ CommitLost(c)
        \/ Fail(c)

Spec == Init /\ [][Next]_vars

\* A statement that can run does (WF).  The pool serves waiters in turn and so
\* does PostgreSQL's lock queue, so a caller that waits for either is served
\* when what it waits for keeps becoming free (SF).
Fairness ==
    \A c \in Callers :
        /\ WF_vars(Step(c))
        /\ SF_vars(BeginTx(c))
        /\ SF_vars(EnsurePlayer(c))
        /\ SF_vars(EnsureScenario(c))

FairSpec == Spec /\ Fairness

-----------------------------------------------------------------------------
(* Properties.                                                             *)

\* scenarios.run_count is the number of the scenario's runs: no upload is lost
\* from the count by a concurrent one, and no duplicate is counted.
CountMatchesRuns ==
    \A s \in Titles : runCount[s] = Cardinality({f \in runs : ScenarioOf(f) = s})

\* The players table has a row exactly for the steam ids of committed runs: an
\* upload that turned out a duplicate, or failed, leaves no player behind.
PlayersHaveRuns ==
    \A p \in SteamIDs : players[p] # Absent <=> \E f \in runs : SteamOf[f] = p

\* Only the call whose commit made the row appear returns (true, nil); a call
\* returns (false, nil) only if the row was committed before.
ResultIsTruthful ==
    [][\A c \in Callers :
        /\ result[c] # "inserted" /\ result'[c] = "inserted"
            => file[c] \notin runs /\ file[c] \in runs'
        /\ result[c] # "duplicate" /\ result'[c] = "duplicate" => file[c] \in runs]_vars

\* A username, once known, is replaced by the name of the uploaded file or kept:
\* a file without a name, or an upload that lost a race, never erases it.
NameIsKept ==
    [][\A p \in SteamIDs : players[p] \in Names =>
        \/ players'[p] = players[p]
        \/ \E f \in runs' \ runs : SteamOf[f] = p /\ players'[p] = NameOf[f] /\ NameOf[f] # NoName]_vars

\* The transaction is atomic for everybody else: what the tables do is what
\* RunTable allows.
ImplementsRunTable == Table!TableSpec

\* Every call returns: row locks and pool connections are given back on every
\* path, and the statements take the locks in one order.
EveryCallReturns == \A c \in Callers : pc[c] # "idle" ~> pc[c] = "idle"

\* What the scenario lock is for: a staged row and a staged count are current
\* when they are committed.
StagedIsCurrent ==
    \A c \in Callers :
        /\ HoldsHash(c) => file[c] \notin runs
        /\ pc[c] = "commit" => count[c] = runCount[ScenarioOf(file[c])] + 1
        /\ HoldsPlayer(c) /\ InTx(c) =>
            name[c] = MergedName(players[SteamOf[file[c]]], NameOf[file[c]])

\* No two open transactions hold the same row.
LocksAreExclusive ==
    \A c, d \in Callers : c # d =>
        /\ HoldsPlayer(c) /\ HoldsPlayer(d) => SteamOf[file[c]] # SteamOf[file[d]]
        /\ HoldsScenario(c) /\ HoldsScenario(d) => ScenarioOf(file[c]) # ScenarioOf(file[d])

IInv == TypeOK /\ LocksAreExclusive /\ StagedIsCurrent /\ CountMatchesRuns /\ PlayersHaveRuns

=============================================================================
