------------------------------ MODULE MCRunSync ------------------------------
(***************************************************************************)
(* Values for RunSync.  traced is a run with a steam id and a mouse trace; *)
(* anon has neither; junk is not a .refleks file.                          *)
(***************************************************************************)
EXTENDS RunSync, FiniteSets, TLC

CONSTANTS traced, anon, junk

\* The settings an operator moves between: everything on, sync off, and raw
\* storage off.  The anonymous file, which has no trace either, is excluded by
\* one rule or the other.
MCSettingsRange ==
    {[sync |-> TRUE, store |-> TRUE, nonAnonOnly |-> TRUE, tracedOnly |-> FALSE],
     [sync |-> FALSE, store |-> TRUE, nonAnonOnly |-> FALSE, tracedOnly |-> TRUE],
     [sync |-> TRUE, store |-> FALSE, nonAnonOnly |-> TRUE, tracedOnly |-> FALSE]}

RequestSymmetry == Permutations(Requests)

=============================================================================
