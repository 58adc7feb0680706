------------------------------- MODULE MCBrowse -------------------------------
(***************************************************************************)
(* Values for Browse: f1 to f3 are two runs of p1 and one of p2, f4 is     *)
(* anonymous; f2 and f3 have equal scores, f4 has none; ids do not follow  *)
(* the order of insertion, as uploads overlap.                             *)
(***************************************************************************)
EXTENDS Browse, TLC

CONSTANTS f1, f2, f3, f4, p1, p2, n1, n2, clicking, tracking

MCSteamOf == (f1 :> p1) @@ (f2 :> p1) @@ (f3 :> p2) @@ (f4 :> Anonymous)
MCNameOf == (f1 :> NoName) @@ (f2 :> n1) @@ (f3 :> n2) @@ (f4 :> NoName)
MCTitleOf == (f1 :> clicking) @@ (f2 :> tracking) @@ (f3 :> tracking) @@ (f4 :> Blank)
MCScoreOf == (f1 :> 3) @@ (f2 :> 5) @@ (f3 :> 5) @@ (f4 :> NullScore)
MCNamePlace == (n1 :> 1) @@ (n2 :> 2) @@ (clicking :> 1) @@ (tracking :> 2) @@ (Unknown :> 3)
MCRowId == (f1 :> 2) @@ (f2 :> 1) @@ (f3 :> 4) @@ (f4 :> 3)
            @@ (p1 :> 2) @@ (p2 :> 1) @@ (clicking :> 1) @@ (tracking :> 3) @@ (Unknown :> 2)
MCFilters == {Files, {f1, f3, f4}}

\* A request without a limit, limits within the bounds, and one beyond them.
MCAsked == {0, 1, 9}

=============================================================================
