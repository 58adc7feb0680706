--------------------------- MODULE MCRefleksFormat ---------------------------
(***************************************************************************)
(* Files that differ from a plain one in one section: names that are       *)
(* missing, good and too long; one or two fields of every form in the      *)
(* statistics, the summary and the environment; mouse sections that are    *)
(* absent, too short, empty, full, too many, longer or shorter than their  *)
(* count, with times that grow and times that do not.                      *)
(***************************************************************************)
EXTENDS RefleksFormat

B(i) == [is |-> "byte", i |-> i]
P(ts, x) == [is |-> "point", ts |-> ts, x |-> x]
F(num, form, val) == [is |-> "field", num |-> num, form |-> form, val |-> val]

Ends(n) == {F(n, "cut", 0), F(n, "bad_tag", 0), F(n, "malformed", 0)}

Short(S) == SeqOf(S, 2)

SummaryFields ==
    {F(1, "whole", 1), F(1, "whole", 2), F(6, "whole", 3), F(45, "whole", 4), F(47, "whole", 5),
     F(19, "whole", " map "), F(44, "other_type", 0), F(99, "whole", 6)} \cup Ends(1)

EnvironmentFields ==
    {F(5, "whole", " id "), F(5, "whole", "id"), F(6, "whole", "name"),
     F(20, "whole", 3), F(20, "whole", 5), F(20, "whole", 9), F(16, "other_type", 0)} \cup Ends(5)

StatsFields ==
    {F(1, "whole", <<F(1, "whole", 1)>>), F(1, "whole", <<F(1, "whole", 2), F(1, "malformed", 0)>>),
     F(1, "whole", <<>>), F(1, "other_type", 0), F(2, "whole", 0)} \cup Ends(2)

Times == {P(1, -3), P(1, 2), P(2, 3)}

Mice ==
    {<<>>, <<B(1)>>, <<Word(0)>>, <<Word(1), P(1, 1)>>,
     <<Word(3), P(1, 1), P(2, 1), P(3, 2)>>,
     <<Word(4), P(1, 1), P(2, 1), P(3, 2), P(4, 4)>>,
     <<Word(0), B(1)>>, <<Word(1), P(1, 1), P(2, 1)>>, <<Word(2), P(1, 1), B(1)>>}
    \cup {<<Word(2), p, q>> : p \in Times, q \in Times}

Plain ==
    [filename |-> <<B(1)>>,
     stats |-> <<F(1, "whole", <<F(1, "whole", 1), F(19, "whole", "map")>>)>>,
     performances |-> <<B(1)>>, mouse |-> <<>>, environment |-> <<F(5, "whole", "id")>>]

MCFiles ==
    {[Plain EXCEPT !.filename = d] : d \in {<<>>, <<B(2)>>, <<B(1), B(2)>>, <<B(1), B(2), B(1)>>}}
    \cup {[Plain EXCEPT !.stats = d] : d \in Short(StatsFields)}
    \cup {[Plain EXCEPT !.stats = <<F(1, "whole", d)>>] : d \in Short(SummaryFields)}
    \cup {[Plain EXCEPT !.performances = d] : d \in Short({B(1)})}
    \cup {[Plain EXCEPT !.mouse = d] : d \in Mice}
    \cup {[Plain EXCEPT !.environment = d] : d \in Short(EnvironmentFields)}

MCStrays == {B(1), Word(0)}
MCTrim == [t \in {" map ", "map", " id ", "id", "name"} |->
            CASE t \in {" map ", "map"} -> "map" [] t \in {" id ", "id"} -> "id" [] t = "name" -> t]
MCGarbled == {F(20, "whole", 1), F(99, "whole", 0), F(5, "cut", 0), F(5, "malformed", 0)}
=============================================================================
