---------------------------- MODULE MCRunDownload -----------------------------
(***************************************************************************)
(* Values for RunDownload: one archived run and one that the policy keeps  *)
(* out of the bucket; raw storage is switched on and off.                  *)
(***************************************************************************)
EXTENDS RunDownload, TLC

CONSTANTS traced, anon

MCSettingsRange ==
    {[sync |-> TRUE, store |-> store, nonAnonOnly |-> TRUE, tracedOnly |-> FALSE] :
        store \in BOOLEAN}

=============================================================================
