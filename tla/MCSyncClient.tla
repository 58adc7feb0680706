----------------------------- MODULE MCSyncClient -----------------------------
(***************************************************************************)
(* Values for SyncClient: a run that is stored in R2, one that is not, and *)
(* sync on or off.                                                         *)
(***************************************************************************)
EXTENDS SyncClient

CONSTANTS traced, anon, r1, r2

MCSettingsRange ==
    {[sync |-> on, store |-> TRUE, nonAnonOnly |-> TRUE, tracedOnly |-> FALSE] : on \in BOOLEAN}
=============================================================================
