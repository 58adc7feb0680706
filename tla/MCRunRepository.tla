-------------------------- MODULE MCRunRepository ---------------------------
(***************************************************************************)
(* Values for RunRepository.  f1 and f2 share the player and the scenario, *)
(* f1 without a username; f3 is the same player in another scenario under  *)
(* another name; f4 is anonymous and its scenario name is blank, so that   *)
(* it shares the row "unknown" with f1 and f2.                             *)
(***************************************************************************)
EXTENDS RunRepository, TLC

CONSTANTS f1, f2, f3, f4, p1, n1, n2, smoothness

MCSteamOf == [f \in Files |-> IF f = f4 THEN Anonymous ELSE p1]
MCNameOf == [f \in Files |-> IF f = f2 THEN n1 ELSE IF f = f3 THEN n2 ELSE NoName]
MCTitleOf == [f \in Files |-> IF f = f3 THEN smoothness ELSE IF f = f4 THEN Blank ELSE Unknown]

CallerSymmetry == Permutations(Callers)

=============================================================================
