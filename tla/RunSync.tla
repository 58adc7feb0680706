------------------------------- MODULE RunSync --------------------------------
(***************************************************************************)
(* Service.SyncOne as HandleSync and HandleBulkSync call it: several       *)
(* requests at once write a metadata row in PostgreSQL and an object in    *)
(* R2, with no transaction over both.  A call to the database or to R2 is  *)
(* a step of its own.  InsertRun is one step here: RunRepository shows     *)
(* that it behaves like one.                                               *)
(*                                                                         *)
(* Two constants name the assumptions the properties depend on.  Faults    *)
(* lists what may go wrong:                                                *)
(*   "db"      a query or a transaction fails and leaves nothing behind    *)
(*   "commit"  a transaction commits and its caller gets an error          *)
(*   "put"     an R2 upload reports an error, whether it took place or not *)
(*   "delete"  an R2 delete fails                                          *)
(*   "cancel"  the client goes away, which cancels the request's context   *)
(*   "crash"   the process dies and starts again, maybe reconfigured       *)
(* Overlap says whether two requests may carry the same file together.     *)
(***************************************************************************)
EXTENDS Naturals

CONSTANTS
    Requests,       \* upload requests the server handles at once
    Files,          \* contents; a hash names one content
    WellFormed,     \* the contents ParseRefleksFile accepts
    SteamFiles,     \* the contents with a steam id
    TracedFiles,    \* the contents with a mouse trace
    Prefixes,       \* values of R2_KEY_PREFIX
    SettingsRange,  \* contents of run_sync_config
    MaxMore,        \* further files of a bulk request
    Faults, Overlap,
    NoFile,         \* the request carries no file
    NullKey,        \* the empty object key, NULL in the row
    Absent          \* there is no row

FaultKinds == {"db", "commit", "put", "delete", "cancel", "crash"}
Settings == [sync: BOOLEAN, store: BOOLEAN, nonAnonOnly: BOOLEAN, tracedOnly: BOOLEAN]
Keys == Prefixes \X Files

ASSUME SyncAssumption ==
    /\ WellFormed \subseteq Files
    /\ SettingsRange \subseteq Settings
    /\ MaxMore \in Nat
    /\ Faults \subseteq FaultKinds
    /\ Overlap \in BOOLEAN
    /\ NoFile \notin Files
    /\ NullKey \notin Keys
    /\ Absent \notin Keys \cup {NullKey}

VARIABLES
    rows,       \* the object_key of each run, Absent if the run is not there
    objects,    \* the keys present in the bucket
    settings,   \* what run_sync_config holds
    prefix,     \* the key prefix the running process was started with
    pc,         \* the call each request makes next
    file,       \* the file it is at
    key,        \* the object key it chose
    answer,     \* what it answers for the file
    cancelled,  \* its context is cancelled
    left        \* how many more files it may carry

stores == <<rows, objects>>
config == <<settings, prefix>>
requestVars == <<pc, file, key, answer, cancelled, left>>
vars == <<rows, objects, settings, prefix, pc, file, key, answer, cancelled, left>>

Archive == INSTANCE RunArchive
    WITH synced <- {f \in Files : rows[f] # Absent},
         archived <- {f \in Files : rows[f] \in objects}

TypeOK ==
    /\ rows \in [Files -> Keys \cup {NullKey, Absent}]
    /\ objects \subseteq Keys
    /\ settings \in SettingsRange
    /\ prefix \in Prefixes
    /\ pc \in [Requests -> {"idle", "lookup", "policy", "put", "insert", "undo", "answered"}]
    /\ file \in [Requests -> Files \cup {NoFile}]
    /\ \A r \in Requests : pc[r] = "idle" <=> file[r] = NoFile
    /\ key \in [Requests -> Keys \cup {NullKey}]
    /\ answer \in [Requests -> {"none", "stored", "duplicate", "error"}]
    /\ cancelled \in [Requests -> BOOLEAN]
    /\ left \in [Requests -> 0 .. MaxMore]

-----------------------------------------------------------------------------

\* shouldStoreInR2, once the settings are read.
Archives(s, f) ==
    /\ s.store
    /\ s.nonAnonOnly => f \in SteamFiles
    /\ s.tracedOnly => f \in TracedFiles

\* A database call of r can fail.
Broken(r) == "db" \in Faults \/ cancelled[r]

MayCarry(r, f) == Overlap \/ \A d \in Requests \ {r} : file[d] # f

Init ==
    /\ rows = [f \in Files |-> Absent]
    /\ objects = {}
    /\ settings \in SettingsRange
    /\ prefix \in Prefixes
    /\ pc = [r \in Requests |-> "idle"]
    /\ file = [r \in Requests |-> NoFile]
    /\ key = [r \in Requests |-> NullKey]
    /\ answer = [r \in Requests |-> "none"]
    /\ cancelled = [r \in Requests |-> FALSE]
    /\ left = [r \in Requests |-> 0]

GoTo(r, q) == pc' = [pc EXCEPT ![r] = q]

\* SyncOne returns a to the handler.
Answer(r, a) ==
    /\ GoTo(r, "answered")
    /\ answer' = [answer EXCEPT ![r] = a]

\* Slip: the switch is not looked at.
SwitchIgnored == TRUE

\* checkSyncEnabled, when it can read the settings.
SyncEnabled == settings.sync

\* checkSyncEnabled lets the request in: sync is enabled, or the settings
\* cannot be read.  The setting is not read again for the files of a bulk.
Admit(r, f, n) ==
    /\ pc[r] = "idle"
    /\ SyncEnabled \/ "db" \in Faults
    /\ MayCarry(r, f)
    /\ GoTo(r, "lookup")
    /\ file' = [file EXCEPT ![r] = f]
    /\ left' = [left EXCEPT ![r] = n]
    /\ UNCHANGED <<stores, config, key, answer, cancelled>>

Reject(r) ==
    /\ pc[r] = "lookup"
    /\ file[r] \notin WellFormed
    /\ Answer(r, "error")
    /\ UNCHANGED <<stores, config, file, key, cancelled, left>>

\* ExistingHashes finds the row.
FindRow(r) ==
    /\ pc[r] = "lookup"
    /\ file[r] \in WellFormed
    /\ ~cancelled[r]
    /\ rows[file[r]] # Absent
    /\ Answer(r, "duplicate")
    /\ UNCHANGED <<stores, config, file, key, cancelled, left>>

\* Slip: a file is put whether its run is there or not.
LookupSkipped(r) ==
    /\ pc[r] = "lookup"
    /\ file[r] \in WellFormed
    /\ ~cancelled[r]
    /\ GoTo(r, "policy")
    /\ UNCHANGED <<stores, config, file, key, answer, cancelled, left>>

FindNoRow(r) ==
    /\ pc[r] = "lookup"
    /\ file[r] \in WellFormed
    /\ ~cancelled[r]
    /\ rows[file[r]] = Absent
    /\ GoTo(r, "policy")
    /\ UNCHANGED <<stores, config, file, key, answer, cancelled, left>>

\* ExistingHashes, or the load of the settings in shouldStoreInR2, fails.
ReadFails(r) ==
    /\ \/ pc[r] = "lookup" /\ file[r] \in WellFormed
       \/ pc[r] = "policy"
    /\ Broken(r)
    /\ Answer(r, "error")
    /\ UNCHANGED <<stores, config, file, key, cancelled, left>>

\* Slips: the policy is not applied; the row is written and the object is not.
DecideToStoreAll(r) ==
    /\ pc[r] = "policy"
    /\ ~cancelled[r]
    /\ GoTo(r, "put")
    /\ key' = [key EXCEPT ![r] = <<prefix, file[r]>>]
    /\ UNCHANGED <<stores, config, file, answer, cancelled, left>>

DecideWithoutPut(r) ==
    /\ pc[r] = "policy"
    /\ ~cancelled[r]
    /\ GoTo(r, "insert")
    /\ key' = [key EXCEPT ![r] = <<prefix, file[r]>>]
    /\ UNCHANGED <<stores, config, file, answer, cancelled, left>>

Decide(r) ==
    /\ pc[r] = "policy"
    /\ ~cancelled[r]
    /\ IF Archives(settings, file[r])
       THEN GoTo(r, "put") /\ key' = [key EXCEPT ![r] = <<prefix, file[r]>>]
       ELSE GoTo(r, "insert") /\ UNCHANGED key
    /\ UNCHANGED <<stores, config, file, answer, cancelled, left>>

Put(r) ==
    /\ pc[r] = "put"
    /\ ~cancelled[r]
    /\ objects' = objects \cup {key[r]}
    /\ GoTo(r, "insert")
    /\ UNCHANGED <<rows, config, file, key, answer, cancelled, left>>

\* Slip: an error of Put is dropped.
PutErrorIgnored(r) ==
    /\ pc[r] = "put"
    /\ "put" \in Faults \/ cancelled[r]
    /\ objects' \in {objects, objects \cup {key[r]}}
    /\ GoTo(r, "insert")
    /\ UNCHANGED <<rows, config, file, key, answer, cancelled, left>>

\* An error of Put is returned at once: what it may have written stays.
PutFails(r) ==
    /\ pc[r] = "put"
    /\ "put" \in Faults \/ cancelled[r]
    /\ objects' \in {objects, objects \cup {key[r]}}
    /\ Answer(r, "error")
    /\ UNCHANGED <<rows, config, file, key, cancelled, left>>

Insert(r) ==
    /\ pc[r] = "insert"
    /\ ~cancelled[r]
    /\ rows[file[r]] = Absent
    /\ rows' = [rows EXCEPT ![file[r]] = key[r]]
    /\ Answer(r, "stored")
    /\ UNCHANGED <<objects, config, file, key, cancelled, left>>

\* Slip: nothing is deleted.
GiveUpWithoutDelete(r, a) == Answer(r, a)

\* InsertRun did not insert: the object is deleted, if one was put, and then
\* a is answered.
GiveUp(r, a) ==
    /\ answer' = [answer EXCEPT ![r] = a]
    /\ GoTo(r, IF key[r] = NullKey THEN "answered" ELSE "undo")

\* Slip: the result of InsertRun is not looked at.
ConflictIsStored(r) ==
    /\ pc[r] = "insert"
    /\ ~cancelled[r]
    /\ rows[file[r]] # Absent
    /\ Answer(r, "stored")
    /\ UNCHANGED <<stores, config, file, key, cancelled, left>>

InsertConflict(r) ==
    /\ pc[r] = "insert"
    /\ ~cancelled[r]
    /\ rows[file[r]] # Absent
    /\ GiveUp(r, "duplicate")
    /\ UNCHANGED <<stores, config, file, key, cancelled, left>>

InsertFails(r) ==
    /\ pc[r] = "insert"
    /\ Broken(r)
    /\ GiveUp(r, "error")
    /\ UNCHANGED <<stores, config, file, key, cancelled, left>>

\* InsertRun committed, but reports an error.
CommitLost(r) ==
    /\ pc[r] = "insert"
    /\ "commit" \in Faults
    /\ rows[file[r]] = Absent
    /\ rows' = [rows EXCEPT ![file[r]] = key[r]]
    /\ GiveUp(r, "error")
    /\ UNCHANGED <<objects, config, file, key, cancelled, left>>

Delete(r) ==
    /\ pc[r] = "undo"
    /\ ~cancelled[r]
    /\ objects' = objects \ {key[r]}
    /\ GoTo(r, "answered")
    /\ UNCHANGED <<rows, config, file, key, answer, cancelled, left>>

\* Delete uses the request's context and its error is dropped.
DeleteFails(r) ==
    /\ pc[r] = "undo"
    /\ "delete" \in Faults \/ cancelled[r]
    /\ GoTo(r, "answered")
    /\ UNCHANGED <<stores, config, file, key, answer, cancelled, left>>

\* Slip: the number of files is not limited.
NextFileUncounted(r, f) ==
    /\ pc[r] = "answered"
    /\ MayCarry(r, f)
    /\ GoTo(r, "lookup")
    /\ file' = [file EXCEPT ![r] = f]
    /\ key' = [key EXCEPT ![r] = NullKey]
    /\ answer' = [answer EXCEPT ![r] = "none"]
    /\ left' = [left EXCEPT ![r] = left[r] - 1]
    /\ UNCHANGED <<stores, config, cancelled>>

\* The loop of HandleBulkSync goes on to its next file, whatever became of the
\* last one.
NextFile(r, f) ==
    /\ pc[r] = "answered"
    /\ left[r] > 0
    /\ MayCarry(r, f)
    /\ GoTo(r, "lookup")
    /\ file' = [file EXCEPT ![r] = f]
    /\ key' = [key EXCEPT ![r] = NullKey]
    /\ answer' = [answer EXCEPT ![r] = "none"]
    /\ left' = [left EXCEPT ![r] = left[r] - 1]
    /\ UNCHANGED <<stores, config, cancelled>>

\* The response is written: no file is left, or the bulk grew over its limit.
Finish(r) ==
    /\ pc[r] = "answered"
    /\ GoTo(r, "idle")
    /\ file' = [file EXCEPT ![r] = NoFile]
    /\ key' = [key EXCEPT ![r] = NullKey]
    /\ answer' = [answer EXCEPT ![r] = "none"]
    /\ cancelled' = [cancelled EXCEPT ![r] = FALSE]
    /\ left' = [left EXCEPT ![r] = 0]
    /\ UNCHANGED <<stores, config>>

Cancel(r) ==
    /\ "cancel" \in Faults
    /\ pc[r] # "idle"
    /\ ~cancelled[r]
    /\ cancelled' = [cancelled EXCEPT ![r] = TRUE]
    /\ UNCHANGED <<stores, config, pc, file, key, answer, left>>

\* The stores survive; every request is gone.
Crash ==
    /\ "crash" \in Faults
    /\ prefix' \in Prefixes
    /\ pc' = [r \in Requests |-> "idle"]
    /\ file' = [r \in Requests |-> NoFile]
    /\ key' = [r \in Requests |-> NullKey]
    /\ answer' = [r \in Requests |-> "none"]
    /\ cancelled' = [r \in Requests |-> FALSE]
    /\ left' = [r \in Requests |-> 0]
    /\ UNCHANGED <<stores, settings>>

\* An operator edits run_sync_config.
Configure(s) ==
    /\ settings' = s
    /\ UNCHANGED <<stores, prefix, requestVars>>

SyncOne(r) ==
    \/ Reject(r) \/ FindRow(r) \/ FindNoRow(r) \/ ReadFails(r) \/ Decide(r)
    \/ Put(r) \/ PutFails(r)
    \/ Insert(r) \/ InsertConflict(r) \/ InsertFails(r) \/ CommitLost(r)
    \/ Delete(r) \/ DeleteFails(r)

Handle(r) ==
    \/ SyncOne(r)
    \/ \E f \in Files : NextFile(r, f)
    \/ Finish(r)

Next ==
    \/ \E r \in Requests :
        \/ \E f \in Files, n \in 0 .. MaxMore : Admit(r, f, n)
        \/ Handle(r)
        \/ Cancel(r)
    \/ Crash
    \/ \E s \in SettingsRange : Configure(s)

Spec == Init /\ [][Next]_vars

\* A handler's goroutine keeps running; every call it makes returns.
FairSpec == Spec /\ \A r \in Requests : WF_vars(Handle(r))

-----------------------------------------------------------------------------
(* Properties.                                                             *)

\* A row that names an object has it: Delete never takes the object of a
\* recorded run, and a row is never written without its object.
RecordedRunKeepsObject == \A f \in Files : rows[f] \in Keys => rows[f] \in objects

\* An object that no row names is the object of a request still at work: what
\* SyncOne put and could not record, it deletes.
NoOrphanObject ==
    \A k \in objects :
        \/ \E f \in Files : rows[f] = k
        \/ \E r \in Requests : key[r] = k /\ pc[r] \in {"insert", "undo"}

\* SyncOne: a client that is told the run is stored, or was already, can rely on
\* it, and of uploads of one file that race only one is told that it stored it:
\* the answer says what the insert did, not what the lookup before it saw.
AnswerIsTruthful ==
    \A r \in Requests :
        /\ answer[r] \in {"stored", "duplicate"} => rows[file[r]] # Absent
        /\ answer[r] = "stored" =>
            \A d \in Requests \ {r} : answer[d] = "stored" => file[d] # file[r]

\* Whatever the order of uploads and changes of the settings, the bucket holds
\* no file that none of the settings in use would have stored.
PolicyIsKept ==
    \A k \in objects : \E s \in SettingsRange : Archives(s, k[2])

\* Both stores together behave like the abstract archive.
ImplementsRunArchive == Archive!ArchiveSpec

\* Once sync is switched off for good, the uploads at work drain and no other
\* gets in.
SwitchOffDrains ==
    <>[](~settings.sync) => <>[](\A r \in Requests : pc[r] = "idle")

-----------------------------------------------------------------------------
(* Why RecordedRunKeepsObject and the archive hold: the inductive invariant.*)

\* The key a request chose, and the key a row names, are keys of its own file.
KeysNameTheirFile ==
    /\ \A r \in Requests :
        /\ key[r] \in Keys => key[r][2] = file[r]
        /\ pc[r] \in {"put", "undo"} => key[r] \in Keys
        /\ pc[r] \in {"idle", "lookup", "policy"} => key[r] = NullKey
    /\ \A f \in Files : rows[f] \in Keys => rows[f][2] = f

\* No two requests are at the same file.
FilesAreExclusive ==
    \A r, d \in Requests : r # d /\ file[r] # NoFile => file[r] # file[d]

\* From its lookup to its answer a request's file has no row, and the object
\* it put is there when it inserts.
WorkIsUnrecorded ==
    \A r \in Requests :
        /\ pc[r] \in {"policy", "put", "insert", "undo"} => rows[file[r]] = Absent
        /\ pc[r] = "insert" /\ key[r] \in Keys => key[r] \in objects

\* Holds when no two uploads of a file overlap and no commit is lost.
ExclusiveInv ==
    /\ TypeOK
    /\ KeysNameTheirFile
    /\ FilesAreExclusive
    /\ WorkIsUnrecorded
    /\ RecordedRunKeepsObject


=============================================================================
