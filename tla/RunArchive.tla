------------------------------ MODULE RunArchive ------------------------------
(***************************************************************************)
(* What the upload service promises about two stores it cannot write       *)
(* atomically: a run appears once, with its raw file or without it as the  *)
(* policy decides, and from then on neither the run nor its raw file goes. *)
(***************************************************************************)

CONSTANT Files

VARIABLES
    synced,     \* the files whose run is recorded
    archived    \* those whose raw bytes can be downloaded

archiveVars == <<synced, archived>>

Nothing == synced = {} /\ archived = {}

Sync(f) ==
    /\ f \notin synced
    /\ synced' = synced \cup {f}
    /\ archived' \in {archived, archived \cup {f}}

SyncSome == \E f \in Files : Sync(f)

ArchiveSpec == Nothing /\ [][SyncSome]_archiveVars

=============================================================================
