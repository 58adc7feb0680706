----------------------------- MODULE Projections -----------------------------
(***************************************************************************)
(* The benchmark list and the leaderboards over the same tables of the     *)
(* worker.  Both only read, so two requests cannot disturb one another,    *)
(* and a behaviour follows one client: one that lists benchmarks again and *)
(* again, or one that walks through leaderboards.                          *)
(***************************************************************************)
EXTENDS Benchmarks, Leaderboard

VARIABLE client

vars == <<workerVars, listVars, walk, client>>

Init ==
    /\ WorkerInit /\ BenchmarksInit /\ LeaderboardInit
    /\ client \in {"lists", "walks"}

Next ==
    \/ Publish /\ UNCHANGED <<listVars, walk, client>>
    \/ client = "lists" /\ ListStep /\ UNCHANGED <<workerVars, walk, client>>
    \/ client = "walks" /\ LeaderboardStep /\ UNCHANGED <<workerVars, listVars, client>>

\* A client that walks goes on with its request and its walk.  That a statement
\* succeeds is not assumed: a walk may end with an error.
Fairness == WF_vars(client = "walks" /\ Step /\ UNCHANGED <<workerVars, listVars, client>>)

Spec == Init /\ [][Next]_vars /\ Fairness

\* The type invariant of the read-only endpoints.
ProjectionsTypeOK == BenchmarksTypeOK /\ LeaderboardTypeOK

=============================================================================
