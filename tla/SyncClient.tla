------------------------------ MODULE SyncClient ------------------------------
(***************************************************************************)
(* A client that keeps its runs synced: it asks POST /v1/runs/sync/missing *)
(* which of its hashes the server lacks, uploads those files, and asks     *)
(* again.  Everything may change between the answer and the upload: other  *)
(* clients carry the same files, the switch is thrown, a call fails, the   *)
(* process crashes.  The upload is that of RunSync; here at most MaxFaults *)
(* faults happen, each of its own kind, so that it can be said what comes  *)
(* of a run in the end.                                                    *)
(***************************************************************************)
EXTENDS RunSync, FiniteSets

CONSTANTS
    Mine,       \* the request in which the client uploads
    Wanted,     \* the files the client has
    MaxHashes,  \* MaxMissingHashes
    MaxFaults   \* bounds the faults

ASSUME ClientAssumption ==
    /\ Mine \in Requests
    /\ Wanted \subseteq Files
    /\ MaxHashes \in Nat \ {0} /\ MaxFaults \in Nat

VARIABLES
    unasked,    \* the files it has not asked about in this round
    todo,       \* the files it was told are missing and has not uploaded since
    spent       \* the kinds of faults that have happened

client == <<unasked, todo>>
clientVars == <<rows, objects, settings, prefix, pc, file, key, answer, cancelled, left,
                unasked, todo, spent>>

ClientInit ==
    /\ Init
    /\ unasked = Wanted
    /\ todo = {}
    /\ spent = {}

-----------------------------------------------------------------------------
(* The client.                                                             *)

\* Slip: the hashes that the database knows are returned.
KnownHashes(hashes) == {f \in hashes : rows[f] # Absent}

\* MissingHashes: those of the hashes that ExistingHashes does not find.
MissingHashes(hashes) == {f \in hashes : rows[f] = Absent}

\* HandleMissingHashes answers one batch of hashes while sync is enabled.
AskMissing ==
    /\ pc[Mine] = "idle"
    /\ todo = {}
    /\ SyncEnabled
    /\ \E hashes \in SUBSET unasked :
        /\ Cardinality(hashes) \in 1 .. MaxHashes
        /\ todo' = MissingHashes(hashes)
        /\ unasked' = IF hashes = unasked THEN Wanted ELSE unasked \ hashes
    /\ UNCHANGED <<vars, spent>>

\* It sends a file it was told is missing, maybe with others in a bulk.
Upload ==
    \E f \in todo, n \in 0 .. MaxMore :
        /\ SyncEnabled
        /\ n < Cardinality(todo)
        /\ Admit(Mine, f, n)
        /\ todo' = todo \ {f}
        /\ UNCHANGED <<unasked, spent>>

\* The next file of its bulk.
Carry ==
    \E f \in todo :
        /\ NextFile(Mine, f)
        /\ todo' = todo \ {f}
        /\ UNCHANGED <<unasked, spent>>

\* The uploads of other clients.
OthersUpload ==
    \E r \in Requests \ {Mine}, f \in Files :
        /\ \/ \E n \in 0 .. MaxMore : SyncEnabled /\ Admit(r, f, n)
           \/ NextFile(r, f)
        /\ UNCHANGED <<client, spent>>

-----------------------------------------------------------------------------
(* The server, with a fault of each kind at most.                          *)

Works(r) ==
    \/ Reject(r) \/ FindRow(r) \/ FindNoRow(r) \/ Decide(r) \/ Put(r)
    \/ Insert(r) \/ InsertConflict(r) \/ Delete(r) \/ Finish(r)

Fault(kind) ==
    \E r \in Requests :
        \/ kind = "db" /\ ~cancelled[r] /\ (ReadFails(r) \/ InsertFails(r))
        \/ kind = "db" /\ r # Mine /\ \E f \in Files, n \in 0 .. MaxMore : Admit(r, f, n)
        \/ kind = "commit" /\ CommitLost(r)
        \/ kind = "put" /\ ~cancelled[r] /\ PutFails(r)
        \/ kind = "delete" /\ ~cancelled[r] /\ DeleteFails(r)
        \/ kind = "cancel" /\ Cancel(r)
        \/ kind = "crash" /\ Crash

\* Every call fails once the request is cancelled.
Withers(r) ==
    /\ cancelled[r]
    /\ ReadFails(r) \/ PutFails(r) \/ InsertFails(r) \/ DeleteFails(r)

Proceeds(r) ==
    /\ Works(r) \/ Withers(r)
    /\ UNCHANGED <<client, spent>>

Strikes ==
    /\ Cardinality(spent) < MaxFaults
    /\ \E kind \in Faults \ spent : Fault(kind) /\ spent' = spent \cup {kind}
    /\ UNCHANGED client

Throw ==
    \E s \in SettingsRange : Configure(s) /\ UNCHANGED <<client, spent>>

ClientNext ==
    \/ AskMissing \/ Upload \/ Carry
    \/ OthersUpload
    \/ \E r \in Requests : Proceeds(r)
    \/ Strikes
    \/ Throw

\* Handlers keep running, and the client keeps asking and uploading.
ClientSpec ==
    /\ ClientInit /\ [][ClientNext]_clientVars
    /\ \A r \in Requests : WF_clientVars(Proceeds(r))
    /\ WF_clientVars(AskMissing)
    /\ WF_clientVars(Upload \/ Carry)

-----------------------------------------------------------------------------
(* What the client can rely on.                                            *)

\* Unless sync is switched off again and again, every run the client has is
\* recorded in the end, although what it asked may be stale when it uploads,
\* others upload the same files, calls fail and the process crashes.
EveryRunArrives ==
    <>[](settings.sync) => <>(\A f \in Wanted \cap WellFormed : rows[f] # Absent)

\* As long as R2 has not failed, no client has left and the process has not
\* crashed, an object that no row names is the object of a request at work:
\* what SyncOne put and could not record, it has deleted (service.go:123-133).
OrphansAreExplained ==
    spent \cap {"put", "delete", "cancel", "crash"} = {} => NoOrphanObject
=============================================================================
