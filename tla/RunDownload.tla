----------------------------- MODULE RunDownload ------------------------------
(***************************************************************************)
(* Downloads of raw files while uploads run: DownloadRaw reads the row and *)
(* then streams the object, DownloadRawURL reads the row, asks R2 whether  *)
(* the object is there, and hands out a URL that the client follows later. *)
(* Both work from the object key they read first.                          *)
(***************************************************************************)
EXTENDS RunSync

CONSTANT Readers    \* download requests that may run together

VARIABLES
    step,       \* the next step of each download
    hash,       \* the run it asks for
    found,      \* what it learned of the run's row
    reply       \* the status it answers, for a link what the client gets

readVars == <<step, hash, found, reply>>
allVars == <<vars, readVars>>

Replies == {"none", "served", "not_found", "failed"}

DownloadTypeOK ==
    /\ TypeOK
    /\ step \in [Readers -> {"idle", "lookup", "get", "head", "follow", "done"}]
    /\ hash \in [Readers -> Files \cup {NoFile}]
    /\ found \in [Readers -> Keys \cup {NullKey, Absent}]
    /\ reply \in [Readers -> Replies]

DownloadInit ==
    /\ Init
    /\ step = [d \in Readers |-> "idle"]
    /\ hash = [d \in Readers |-> NoFile]
    /\ found = [d \in Readers |-> Absent]
    /\ reply = [d \in Readers |-> "none"]

Move(d, q) == step' = [step EXCEPT ![d] = q]

Reply(d, status) ==
    /\ Move(d, "done")
    /\ reply' = [reply EXCEPT ![d] = status]

Ask(d, f) ==
    /\ step[d] = "idle"
    /\ Move(d, "lookup")
    /\ hash' = [hash EXCEPT ![d] = f]
    /\ UNCHANGED <<found, reply>>

\* RunByHash.  No row is ErrObjectNotFound.  A row whose object_key is NULL
\* cannot be scanned into the string field of StoredRun, so the call fails
\* and the caller's test for an empty key is not reached.
Resolve(d) ==
    /\ step[d] = "lookup"
    /\ found' = [found EXCEPT ![d] = rows[hash[d]]]
    /\ \/ rows[hash[d]] = Absent /\ Reply(d, "not_found")
       \/ rows[hash[d]] = NullKey /\ Reply(d, "failed")
       \/ /\ rows[hash[d]] \in Keys
          /\ \E q \in {"get", "head"} : Move(d, q)
          /\ UNCHANGED reply
    /\ UNCHANGED hash

\* A missing object is ErrObjectNotFound.
Get(d) ==
    /\ step[d] = "get"
    /\ Reply(d, IF found[d] \in objects THEN "served" ELSE "not_found")
    /\ UNCHANGED <<hash, found>>

\* ensureObjectExists, then the public or presigned URL of the key.
MakeURL(d) ==
    /\ step[d] = "head"
    /\ IF found[d] \in objects THEN Move(d, "follow") /\ UNCHANGED reply
       ELSE Reply(d, "not_found")
    /\ UNCHANGED <<hash, found>>

\* The client uses the URL: R2 answers, not this service.
FollowURL(d) ==
    /\ step[d] = "follow"
    /\ Reply(d, IF found[d] \in objects THEN "served" ELSE "not_found")
    /\ UNCHANGED <<hash, found>>

\* A database or R2 call fails.
DownloadFails(d) ==
    /\ step[d] \in {"lookup", "get", "head"}
    /\ "db" \in Faults
    /\ Reply(d, "failed")
    /\ UNCHANGED <<hash, found>>

Leave(d) ==
    /\ step[d] = "done"
    /\ Move(d, "idle")
    /\ hash' = [hash EXCEPT ![d] = NoFile]
    /\ found' = [found EXCEPT ![d] = Absent]
    /\ reply' = [reply EXCEPT ![d] = "none"]

Download(d) ==
    \/ \E f \in WellFormed : Ask(d, f)
    \/ Resolve(d) \/ Get(d) \/ MakeURL(d) \/ FollowURL(d) \/ DownloadFails(d)
    \/ Leave(d)

DownloadNext ==
    \/ Next /\ UNCHANGED readVars
    \/ \E d \in Readers : Download(d) /\ UNCHANGED vars

DownloadSpec == DownloadInit /\ [][DownloadNext]_allVars

-----------------------------------------------------------------------------
(* Properties.                                                             *)

\* DownloadRaw, DownloadRawURL and the URL itself: a download that found the key
\* of an object in the run's row is never answered 404.  The object it names is
\* still there when it is fetched, whatever uploads did in between.
StoredFileIsFound ==
    \A d \in Readers : found[d] \in Keys => reply[d] # "not_found"

\* A download never fails when database and bucket are healthy; a run without
\* raw file is answered with 404.
HealthyDownloadAnswers == \A d \in Readers : reply[d] # "failed"

=============================================================================
