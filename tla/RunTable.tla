------------------------------ MODULE RunTable -------------------------------
(***************************************************************************)
(* What InsertRun promises its callers: one atomic step adds a run that is *)
(* not there yet, creates or refreshes its player, and counts the run in   *)
(* its scenario.  Nothing else changes the three tables.                   *)
(***************************************************************************)
EXTENDS RunFile, Naturals

VARIABLES
    runs,       \* the files that have a row in runs
    players,    \* the username of each players row
    runCount    \* scenarios.run_count; 0 while the row does not exist

tableVars == <<runs, players, runCount>>

Empty ==
    /\ runs = {}
    /\ players = [p \in SteamIDs |-> Absent]
    /\ runCount = [s \in Titles |-> 0]

\* The players table after a run of file f was inserted.
PlayersWith(f) ==
    IF SteamOf[f] = Anonymous THEN players
    ELSE [players EXCEPT ![SteamOf[f]] = MergedName(players[SteamOf[f]], NameOf[f])]

Insert(f) ==
    /\ f \notin runs
    /\ runs' = runs \cup {f}
    /\ players' = PlayersWith(f)
    /\ runCount' = [runCount EXCEPT ![ScenarioOf(f)] = runCount[ScenarioOf(f)] + 1]

InsertSome == \E f \in Files : Insert(f)

TableSpec == Empty /\ [][InsertSome]_tableVars

=============================================================================
