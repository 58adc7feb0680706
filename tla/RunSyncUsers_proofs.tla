-------------------------- MODULE RunSyncUsers_proofs --------------------------
(***************************************************************************)
(* What the upload service promises those who use it: downloads that run   *)
(* beside any number of uploads, for any number of readers, and a client   *)
(* that keeps its runs synced, with its bounded faults.  Each is the       *)
(* service of RunSync with something beside it, so what is proved of       *)
(* RunSync holds here.                                                     *)
(***************************************************************************)
EXTENDS RunDownload, SyncClient, RunSync_proofs

-----------------------------------------------------------------------------
(* Downloads beside uploads.                                               *)

\* A download between its lookup and its end works from the key of a row that
\* is still there.
FoundIsCurrent ==
    \A d \in Readers :
        step[d] \in {"get", "head", "follow"} =>
            found[d] \in Keys /\ hash[d] \in Files /\ rows[hash[d]] = found[d]

\* A lookup asks for a file that exists.
LookupNamesAFile ==
    \A d \in Readers : step[d] # "idle" => hash[d] \in Files

\* A download that has not ended has no answer yet.
AnswersAtItsEnd == \A d \in Readers : step[d] # "done" => reply[d] = "none"

ReaderInv ==
    /\ DownloadTypeOK
    /\ LookupNamesAFile
    /\ FoundIsCurrent
    /\ AnswersAtItsEnd
    /\ StoredFileIsFound

\* A row, once written, keeps its key: no step of an upload updates or deletes
\* a row.
LEMMA RowsStay ==
    ASSUME BaseInv, [Next]_vars, NEW f \in Files, rows[f] # Absent
    PROVE  rows'[f] = rows[f]
<1> USE DEF BaseInv, TypeOK, stores, config
<1>1. ASSUME NEW r \in Requests, NEW g \in Files, NEW n \in 0 .. MaxMore, Admit(r, g, n)
      PROVE  rows' = rows
  BY <1>1 DEF Admit
<1>2. ASSUME NEW r \in Requests, Handle(r) PROVE rows'[f] = rows[f]
  <2>1. CASE Insert(r) \/ CommitLost(r)
    BY <2>1 DEF Insert, CommitLost
  <2>2. CASE ~Insert(r) /\ ~CommitLost(r)
    BY <1>2, <2>2 DEF Handle, SyncOne, Reject, FindRow, FindNoRow, ReadFails, Decide, Put, PutFails,
       InsertConflict, InsertFails, Delete, DeleteFails, NextFile, Finish
  <2> QED BY <2>1, <2>2
<1>3. ASSUME NEW r \in Requests, Cancel(r) PROVE rows' = rows
  BY <1>3 DEF Cancel
<1>4. Crash => rows' = rows
  BY DEF Crash
<1>5. ASSUME NEW s \in SettingsRange, Configure(s) PROVE rows' = rows
  BY <1>5 DEF Configure
<1>6. UNCHANGED vars => rows' = rows
  BY DEF vars
<1> QED BY <1>1, <1>2, <1>3, <1>4, <1>5, <1>6 DEF Next

\* The steps of the uploads, and of the downloads, as RunSync sees them.
LEMMA DownloadStepIsSyncStep == [DownloadNext]_allVars => [Next]_vars
BY DEF DownloadNext, allVars

LEMMA UploadsKeepTheirInvariant ==
    ASSUME ~Overlap, "commit" \notin Faults
    PROVE  DownloadSpec => [](BaseInv /\ ExclusiveInv)
<1>1. DownloadInit => Init
  BY DEF DownloadInit
<1>2. DownloadSpec => Spec
  BY <1>1, DownloadStepIsSyncStep, PTL DEF DownloadSpec, Spec
<1> QED BY <1>2, ExclusiveInvariant, PTL

\* An upload leaves the readers alone and the rows they found in place.
LEMMA UploadKeepsReaders ==
    ASSUME BaseInv, BaseInv', ReaderInv, [Next]_vars, UNCHANGED readVars
    PROVE  ReaderInv'
<1>1. \A f \in Files : rows[f] # Absent => rows'[f] = rows[f]
  BY RowsStay
<1>2. \A d \in Readers : found[d] \in Keys => found[d] # Absent
  BY SyncAssumption
<1>3. FoundIsCurrent'
  BY <1>1, <1>2 DEF ReaderInv, FoundIsCurrent, readVars
<1> QED BY <1>3 DEF ReaderInv, DownloadTypeOK, BaseInv, LookupNamesAFile, AnswersAtItsEnd,
       StoredFileIsFound, readVars

\* A step of a download: the object of the row it found is still there.
LEMMA DownloadKeepsReaders ==
    ASSUME BaseInv, ExclusiveInv, ReaderInv, NEW d \in Readers, Download(d), UNCHANGED vars
    PROVE  ReaderInv'
<1> USE SyncAssumption DEF ReaderInv, DownloadTypeOK, LookupNamesAFile, FoundIsCurrent, AnswersAtItsEnd,
       StoredFileIsFound, Move, Reply, Replies
<1>1. TypeOK' /\ rows' = rows /\ objects' = objects
  BY DEF vars, BaseInv, TypeOK
<1>2. step[d] \in {"get", "head", "follow"} => found[d] \in objects
  BY DEF ExclusiveInv, RecordedRunKeepsObject
<1>3. ASSUME NEW f \in WellFormed, Ask(d, f) PROVE ReaderInv'
  <2>1. f \in Files
    OBVIOUS
  <2>2. step' = [step EXCEPT ![d] = "lookup"] /\ hash' = [hash EXCEPT ![d] = f]
        /\ found' = found /\ reply' = reply
    BY <1>3 DEF Ask
  <2>3. DownloadTypeOK'
    BY <1>1, <2>1, <2>2
  <2>4. LookupNamesAFile'
    BY <2>1, <2>2
  <2>5. FoundIsCurrent'
    BY <1>1, <2>2
  <2>6. AnswersAtItsEnd' /\ StoredFileIsFound'
    BY <1>3, <2>2 DEF Ask
  <2> QED BY <2>3, <2>4, <2>5, <2>6 DEF ReaderInv
<1>4. CASE Resolve(d)
  <2>1. rows[hash[d]] \in Keys \cup {NullKey, Absent}
    BY <1>4 DEF Resolve, TypeOK
  <2>2. hash' = hash /\ found' = [found EXCEPT ![d] = rows[hash[d]]]
    BY <1>4 DEF Resolve
  <2>3. \/ rows[hash[d]] = Absent /\ Reply(d, "not_found")
        \/ rows[hash[d]] = NullKey /\ Reply(d, "failed")
        \/ /\ rows[hash[d]] \in Keys
           /\ \E q \in {"get", "head"} : Move(d, q)
           /\ reply' = reply
    BY <1>4 DEF Resolve
  <2>4. DownloadTypeOK'
    <3>1. found' \in [Readers -> Keys \cup {NullKey, Absent}]
      BY <2>1, <2>2
    <3>2. step' \in [Readers -> {"idle", "lookup", "get", "head", "follow", "done"}]
      BY <2>3
    <3>3. reply' \in [Readers -> Replies]
      BY <2>3
    <3>4. hash' \in [Readers -> Files \cup {NoFile}]
      BY <2>2
    <3> HIDE SyncAssumption DEF ReaderInv, LookupNamesAFile, FoundIsCurrent,
         AnswersAtItsEnd, StoredFileIsFound
    <3> QED BY <1>1, <3>1, <3>2, <3>3, <3>4
  <2>5. LookupNamesAFile'
    BY <1>4, <2>2, <2>3 DEF Resolve
  <2>6. FoundIsCurrent'
    BY <1>1, <1>4, <2>2, <2>3 DEF Resolve
  <2>7. AnswersAtItsEnd' /\ StoredFileIsFound'
    BY <1>4, <2>2, <2>3 DEF Resolve
  <2> QED BY <2>4, <2>5, <2>6, <2>7 DEF ReaderInv
<1>5. CASE Get(d)
  BY <1>1, <1>2, <1>5 DEF Get
<1>6. CASE MakeURL(d)
  BY <1>1, <1>2, <1>6 DEF MakeURL
<1>7. CASE FollowURL(d)
  BY <1>1, <1>2, <1>7 DEF FollowURL
<1>8. CASE DownloadFails(d)
  BY <1>1, <1>8 DEF DownloadFails
<1>9. CASE Leave(d)
  BY <1>1, <1>9 DEF Leave
<1> QED BY <1>3, <1>4, <1>5, <1>6, <1>7, <1>8, <1>9 DEF Download

LEMMA ReaderInvariant ==
    ASSUME ~Overlap, "commit" \notin Faults
    PROVE  DownloadSpec => []ReaderInv
<1>1. DownloadInit => ReaderInv
  <2> SUFFICES ASSUME DownloadInit PROVE ReaderInv
    OBVIOUS
  <2>1. TypeOK
    BY InitBase DEF DownloadInit, BaseInv
  <2> QED
    BY <2>1 DEF DownloadInit, ReaderInv, DownloadTypeOK, LookupNamesAFile, FoundIsCurrent, AnswersAtItsEnd,
       StoredFileIsFound, Replies
<1>2. BaseInv /\ ExclusiveInv /\ BaseInv' /\ ReaderInv /\ [DownloadNext]_allVars => ReaderInv'
  <2> SUFFICES ASSUME BaseInv, ExclusiveInv, BaseInv', ReaderInv, [DownloadNext]_allVars
               PROVE  ReaderInv'
    OBVIOUS
  <2>1. CASE Next /\ UNCHANGED readVars
    BY <2>1, UploadKeepsReaders
  <2>2. ASSUME NEW d \in Readers, Download(d), UNCHANGED vars PROVE ReaderInv'
    BY <2>2, DownloadKeepsReaders
  <2>3. CASE UNCHANGED allVars
    BY <2>3, UploadKeepsReaders DEF allVars
  <2> QED BY <2>1, <2>2, <2>3 DEF DownloadNext
<1> QED BY <1>1, <1>2, UploadsKeepTheirInvariant, PTL DEF DownloadSpec

\* Beside any number of downloads, a file that an upload works on is in no other
\* upload and has no row, and the row of every recorded run has its object.
THEOREM UploadsStayExclusive ==
    ASSUME ~Overlap, "commit" \notin Faults
    PROVE  DownloadSpec => []ExclusiveInv
BY UploadsKeepTheirInvariant, PTL

\* If no uploads of one file overlap and no commit is lost, a download that found
\* the key of an object in its run's row is never answered 404.
THEOREM StoredFilesAreFound ==
    ASSUME ~Overlap, "commit" \notin Faults
    PROVE  DownloadSpec => []StoredFileIsFound
<1>1. ReaderInv => StoredFileIsFound
  BY DEF ReaderInv
<1> QED BY <1>1, ReaderInvariant, PTL

\* Type correctness of the downloads, under the same assumptions.
THEOREM DownloadTypeCorrect ==
    ASSUME ~Overlap, "commit" \notin Faults
    PROVE  DownloadSpec => []DownloadTypeOK
<1>1. ReaderInv => DownloadTypeOK
  BY DEF ReaderInv
<1> QED BY <1>1, ReaderInvariant, PTL

-----------------------------------------------------------------------------
(* A client that keeps its runs synced.                                    *)

\* The client only asks about and uploads files of its own.
AsksForItsOwn == todo \subseteq Wanted /\ unasked \subseteq Wanted

LEMMA OwnFiles == AsksForItsOwn /\ [ClientNext]_clientVars => AsksForItsOwn'
<1> SUFFICES ASSUME AsksForItsOwn, [ClientNext]_clientVars PROVE AsksForItsOwn'
  OBVIOUS
<1> USE DEF AsksForItsOwn, client
<1>1. CASE AskMissing
  <2>1. PICK hashes \in SUBSET unasked :
            /\ todo' = MissingHashes(hashes)
            /\ unasked' = IF hashes = unasked THEN Wanted ELSE unasked \ hashes
    BY <1>1 DEF AskMissing
  <2> QED
    BY <2>1 DEF MissingHashes
<1>2. CASE UNCHANGED client
  BY <1>2
<1>3. CASE Upload \/ Carry
  BY <1>3 DEF Upload, Carry
<1> QED
  BY <1>1, <1>2, <1>3 DEF ClientNext, OthersUpload, Proceeds, Strikes, Throw, clientVars

LEMMA ClientStepIsSyncStep == AsksForItsOwn /\ [ClientNext]_clientVars => [Next]_vars
<1> SUFFICES ASSUME AsksForItsOwn, [ClientNext]_clientVars PROVE [Next]_vars
  OBVIOUS
<1> USE ClientAssumption DEF AsksForItsOwn
<1>1. CASE UNCHANGED clientVars
  BY <1>1 DEF clientVars, vars
<1>2. CASE AskMissing
  BY <1>2 DEF AskMissing, vars
<1>3. CASE Upload
  BY <1>3 DEF Upload, Next
<1>4. CASE Carry
  BY <1>4 DEF Carry, Next, Handle
<1>5. CASE OthersUpload
  BY <1>5 DEF OthersUpload, Next, Handle
<1>6. ASSUME NEW r \in Requests, Proceeds(r) PROVE Next
  BY <1>6 DEF Proceeds, Works, Withers, Next, Handle, SyncOne
<1>7. CASE Strikes
  BY <1>7 DEF Strikes, Fault, Next, Handle, SyncOne
<1>8. CASE Throw
  BY <1>8 DEF Throw, Next
<1> QED
  BY <1>1, <1>2, <1>3, <1>4, <1>5, <1>6, <1>7, <1>8 DEF ClientNext

\* The client and the bounded faults only restrict what the service may meet:
\* what is proved of RunSync holds of the two together.
THEOREM ClientRefinesSync == ClientSpec => Spec
<1>1. ClientInit => Init /\ AsksForItsOwn
  BY DEF ClientInit, AsksForItsOwn
<1> QED
  BY <1>1, OwnFiles, ClientStepIsSyncStep, PTL DEF ClientSpec, Spec

\* The faults that may leave an object behind.
Lossy == {"put", "delete", "cancel", "crash"}

Explained == spent \cap Lossy = {} => NoOrphanObject /\ NobodyCancelled

LEMMA ClientStepIsHarmless ==
    AsksForItsOwn /\ [ClientNext]_clientVars /\ spent' \cap Lossy = {} /\ NobodyCancelled =>
        Harmless
<1> SUFFICES ASSUME AsksForItsOwn, [ClientNext]_clientVars, spent' \cap Lossy = {},
                    NobodyCancelled
             PROVE  Harmless
  OBVIOUS
<1> USE ClientAssumption DEF AsksForItsOwn
<1>1. CASE UNCHANGED clientVars
  BY <1>1 DEF clientVars, vars, Harmless
<1>2. CASE AskMissing
  BY <1>2 DEF AskMissing, vars, Harmless
<1>3. CASE Upload
  BY <1>3 DEF Upload, Harmless
<1>4. CASE Carry
  BY <1>4 DEF Carry, Harmless
<1>5. CASE OthersUpload
  BY <1>5 DEF OthersUpload, Harmless
<1>6. ASSUME NEW r \in Requests, Proceeds(r) PROVE Harmless
  BY <1>6 DEF Proceeds, Works, Withers, NobodyCancelled, Harmless
<1>7. CASE Strikes
  <2>1. PICK kind \in Faults \ spent : Fault(kind) /\ spent' = spent \cup {kind}
    BY <1>7 DEF Strikes
  <2>2. kind \notin Lossy
    BY <2>1
  <2>3. Harmless
    BY <2>1, <2>2 DEF Fault, Lossy, Harmless
  <2> QED
    BY <2>1, <2>3
<1>8. CASE Throw
  BY <1>8 DEF Throw, Harmless
<1> QED
  BY <1>1, <1>2, <1>3, <1>4, <1>5, <1>6, <1>7, <1>8 DEF ClientNext

\* Whatever uploads overlap: an object that no run names is at work, or R2
\* failed, a client left or the process crashed before.
THEOREM OrphansHaveACause == ClientSpec => []OrphansAreExplained
<1>1. ClientInit => Explained /\ AsksForItsOwn
  BY DEF ClientInit, Init, AsksForItsOwn, Explained, NoOrphanObject, NobodyCancelled
<1>2. spent' \cap Lossy = {} /\ [ClientNext]_clientVars => spent \cap Lossy = {}
  <2> SUFFICES ASSUME spent' \cap Lossy = {}, [ClientNext]_clientVars
               PROVE  spent \subseteq spent'
    OBVIOUS
  <2> QED
    BY DEF ClientNext, clientVars, AskMissing, Upload, Carry, OthersUpload, Proceeds,
           Strikes, Throw
<1>3. BaseInv /\ AsksForItsOwn /\ Explained /\ [ClientNext]_clientVars => Explained'
  <2> SUFFICES ASSUME BaseInv, AsksForItsOwn, Explained, [ClientNext]_clientVars, spent' \cap Lossy = {}
               PROVE  (NoOrphanObject /\ NobodyCancelled)'
    BY DEF Explained
  <2>1. NoOrphanObject /\ NobodyCancelled
    BY <1>2 DEF Explained
  <2> QED
    BY <2>1, ClientStepIsHarmless, StepNoOrphan
<1>4. Explained => OrphansAreExplained
  BY DEF Explained, OrphansAreExplained, Lossy
<1> QED
  BY <1>1, <1>3, <1>4, OwnFiles, ClientRefinesSync, BaseInvariant, PTL DEF ClientSpec

=============================================================================
