---------------------------- MODULE RunSync_proofs ----------------------------
(***************************************************************************)
(* Proofs about RunSync for any number of requests, files, prefixes and    *)
(* settings; each theorem names the faults it excludes.                    *)
(***************************************************************************)
EXTENDS RunSync, TLAPS

\* A request answers only at its end.
AnswersAreLate == \A r \in Requests : answer[r] # "none" => pc[r] \in {"undo", "answered"}

\* What holds whatever fails and however uploads overlap.
BaseInv == TypeOK /\ KeysNameTheirFile /\ AnswerIsTruthful /\ AnswersAreLate

LEMMA InitBase == Init => BaseInv
BY SyncAssumption DEF Init, BaseInv, TypeOK, KeysNameTheirFile, AnswerIsTruthful, AnswersAreLate

LEMMA StepBase == BaseInv /\ [Next]_vars => BaseInv'
<1> SUFFICES ASSUME BaseInv, [Next]_vars PROVE BaseInv'
  OBVIOUS
<1> USE SyncAssumption DEF BaseInv, TypeOK, KeysNameTheirFile, AnswerIsTruthful, AnswersAreLate, stores, config, GoTo, Answer, GiveUp
<1>1. ASSUME NEW r \in Requests, NEW f \in Files, NEW n \in 0 .. MaxMore, Admit(r, f, n)
      PROVE  BaseInv'
  BY <1>1 DEF Admit
<1>2. ASSUME NEW r \in Requests, SyncOne(r) PROVE BaseInv'
  <2>1. CASE Reject(r)
    BY <2>1 DEF Reject
  <2>2. CASE FindRow(r)
    BY <2>2 DEF FindRow
  <2>3. CASE FindNoRow(r)
    BY <2>3 DEF FindNoRow
  <2>4. CASE ReadFails(r)
    BY <2>4 DEF ReadFails
  <2>5. CASE Decide(r)
    BY <2>5 DEF Decide, Keys
  <2>6. CASE Put(r)
    BY <2>6 DEF Put
  <2>7. CASE PutFails(r)
    BY <2>7 DEF PutFails
  <2>8. CASE Insert(r)
    BY <2>8 DEF Insert
  <2>9. CASE InsertConflict(r)
    BY <2>9 DEF InsertConflict
  <2>10. CASE InsertFails(r)
    BY <2>10 DEF InsertFails
  <2>11. CASE CommitLost(r)
    BY <2>11 DEF CommitLost
  <2>12. CASE Delete(r)
    BY <2>12 DEF Delete
  <2>13. CASE DeleteFails(r)
    BY <2>13 DEF DeleteFails
  <2> QED BY <1>2, <2>1, <2>2, <2>3, <2>4, <2>5, <2>6, <2>7, <2>8, <2>9, <2>10, <2>11, <2>12,
             <2>13 DEF SyncOne
<1>3. ASSUME NEW r \in Requests, NEW f \in Files, NextFile(r, f) PROVE BaseInv'
  BY <1>3 DEF NextFile
<1>4. ASSUME NEW r \in Requests, Finish(r) PROVE BaseInv'
  BY <1>4 DEF Finish
<1>5. ASSUME NEW r \in Requests, Cancel(r) PROVE BaseInv'
  BY <1>5 DEF Cancel
<1>6. CASE Crash
  BY <1>6 DEF Crash
<1>7. ASSUME NEW s \in SettingsRange, Configure(s) PROVE BaseInv'
  BY <1>7 DEF Configure, requestVars
<1>8. CASE UNCHANGED vars
  BY <1>8 DEF vars
<1> QED BY <1>1, <1>2, <1>3, <1>4, <1>5, <1>6, <1>7, <1>8 DEF Next, Handle

LEMMA BaseInvariant == Spec => []BaseInv
BY InitBase, StepBase, PTL DEF Spec

\* Type correctness of the upload service, whatever fails.
THEOREM TypeCorrect == Spec => []TypeOK
<1>1. BaseInv => TypeOK
  BY DEF BaseInv
<1> QED BY <1>1, BaseInvariant, PTL

\* Whatever fails and however uploads race, a client that was told its run is
\* stored can rely on it, and no other one is told so at the same time.
THEOREM AnswersAreTrue == Spec => []AnswerIsTruthful
<1>1. BaseInv => AnswerIsTruthful
  BY DEF BaseInv
<1> QED BY <1>1, BaseInvariant, PTL

-----------------------------------------------------------------------------
(* Without overlapping uploads of one file and without lost commits.       *)

LEMMA StepExclusive ==
    ASSUME ~Overlap, "commit" \notin Faults
    PROVE  BaseInv /\ ExclusiveInv /\ [Next]_vars => ExclusiveInv'
<1> SUFFICES ASSUME BaseInv, ExclusiveInv, [Next]_vars PROVE ExclusiveInv'
  OBVIOUS
<1> USE SyncAssumption DEF BaseInv, TypeOK, KeysNameTheirFile,
       ExclusiveInv, FilesAreExclusive, WorkIsUnrecorded, RecordedRunKeepsObject,
       MayCarry, stores, config, GoTo, Answer, GiveUp
<1>1. ASSUME NEW r \in Requests, NEW f \in Files, NEW n \in 0 .. MaxMore, Admit(r, f, n)
      PROVE  ExclusiveInv'
  BY <1>1 DEF Admit
<1>2. ASSUME NEW r \in Requests, SyncOne(r) PROVE ExclusiveInv'
  <2>1. CASE Reject(r)
    BY <2>1 DEF Reject
  <2>2. CASE FindRow(r)
    BY <2>2 DEF FindRow
  <2>3. CASE FindNoRow(r)
    BY <2>3 DEF FindNoRow
  <2>4. CASE ReadFails(r)
    BY <2>4 DEF ReadFails
  <2>5. CASE Decide(r)
    BY <2>5 DEF Decide, Keys
  <2>6. CASE Put(r)
    BY <2>6 DEF Put
  <2>7. CASE PutFails(r)
    BY <2>7 DEF PutFails
  <2>8. CASE Insert(r)
    BY <2>8 DEF Insert
  <2>9. CASE InsertConflict(r)
    BY <2>9 DEF InsertConflict
  <2>10. CASE InsertFails(r)
    BY <2>10 DEF InsertFails
  <2>11. CASE CommitLost(r)
    BY <2>11 DEF CommitLost
  <2>12. CASE Delete(r)
    BY <2>12 DEF Delete
  <2>13. CASE DeleteFails(r)
    BY <2>13 DEF DeleteFails
  <2> QED BY <1>2, <2>1, <2>2, <2>3, <2>4, <2>5, <2>6, <2>7, <2>8, <2>9, <2>10, <2>11, <2>12,
             <2>13 DEF SyncOne
<1>3. ASSUME NEW r \in Requests, NEW f \in Files, NextFile(r, f) PROVE ExclusiveInv'
  BY <1>3 DEF NextFile
<1>4. ASSUME NEW r \in Requests, Finish(r) PROVE ExclusiveInv'
  BY <1>4 DEF Finish
<1>5. ASSUME NEW r \in Requests, Cancel(r) PROVE ExclusiveInv'
  BY <1>5 DEF Cancel
<1>6. CASE Crash
  BY <1>6 DEF Crash
<1>7. ASSUME NEW s \in SettingsRange, Configure(s) PROVE ExclusiveInv'
  BY <1>7 DEF Configure, requestVars
<1>8. CASE UNCHANGED vars
  BY <1>8 DEF vars
<1> QED BY <1>1, <1>2, <1>3, <1>4, <1>5, <1>6, <1>7, <1>8 DEF Next, Handle

LEMMA ExclusiveInvariant ==
    ASSUME ~Overlap, "commit" \notin Faults
    PROVE  Spec => [](BaseInv /\ ExclusiveInv)
<1>1. Init => BaseInv /\ ExclusiveInv
  BY InitBase, SyncAssumption DEF Init, BaseInv, ExclusiveInv, FilesAreExclusive,
     WorkIsUnrecorded, RecordedRunKeepsObject
<1> QED BY <1>1, StepBase, StepExclusive, PTL DEF Spec

\* The raw file of a recorded run stays, through crashes, cancelled requests and
\* failing calls, as long as no two uploads of a file overlap and no commit is lost.
THEOREM RecordedRunsKeepTheirObject ==
    ASSUME ~Overlap, "commit" \notin Faults
    PROVE  Spec => []RecordedRunKeepsObject
<1>1. ExclusiveInv => RecordedRunKeepsObject
  BY DEF ExclusiveInv
<1> QED BY <1>1, ExclusiveInvariant, PTL

\* A step of the service is the abstract Sync of one file or changes neither set.
LEMMA StepIsArchiveStep ==
    ASSUME ~Overlap, "commit" \notin Faults
    PROVE  BaseInv /\ ExclusiveInv /\ [Next]_vars =>
             [Archive!SyncSome]_(Archive!archiveVars)
<1> DEFINE Synced == {f \in Files : rows[f] # Absent}
           Archived == {f \in Files : rows[f] \in objects}
<1> SUFFICES ASSUME BaseInv, ExclusiveInv, [Next]_vars
             PROVE  Archive!SyncSome \/ (Synced' = Synced /\ Archived' = Archived)
  BY DEF Archive!archiveVars
<1>1. ASSUME UNCHANGED stores PROVE Synced' = Synced /\ Archived' = Archived
  BY <1>1 DEF stores
<1>2. ASSUME NEW r \in Requests, pc[r] = "put", UNCHANGED rows,
             objects' \in {objects, objects \cup {key[r]}}
      PROVE  Synced' = Synced /\ Archived' = Archived
  <2>1. key[r] \in Keys /\ key[r][2] = file[r] /\ rows[file[r]] = Absent
    BY <1>2 DEF BaseInv, KeysNameTheirFile, ExclusiveInv, WorkIsUnrecorded
  <2>2. \A f \in Files : rows[f] # key[r]
    BY <2>1, SyncAssumption DEF BaseInv, KeysNameTheirFile
  <2> QED BY <1>2, <2>2
<1>3. ASSUME NEW r \in Requests, Delete(r)
      PROVE  Synced' = Synced /\ Archived' = Archived
  <2>1. key[r] \in Keys /\ key[r][2] = file[r] /\ rows[file[r]] = Absent
    BY <1>3 DEF Delete, BaseInv, KeysNameTheirFile, ExclusiveInv, WorkIsUnrecorded
  <2>2. \A f \in Files : rows[f] # key[r]
    BY <2>1, SyncAssumption DEF BaseInv, KeysNameTheirFile
  <2> QED BY <1>3, <2>2 DEF Delete
<1>4. ASSUME NEW r \in Requests, Insert(r) PROVE Archive!SyncSome
  <2> DEFINE f == file[r]
  <2>1. f \in Files /\ rows[f] = Absent /\ key[r] # Absent
    BY <1>4, SyncAssumption DEF Insert, BaseInv, TypeOK
  <2>2. rows' = [rows EXCEPT ![f] = key[r]] /\ objects' = objects
    BY <1>4 DEF Insert
  <2>3. Synced' = Synced \cup {f} /\ f \notin Synced
    BY <2>1, <2>2 DEF BaseInv, TypeOK
  <2>4. Absent \notin objects
    BY SyncAssumption DEF BaseInv, TypeOK
  <2>5. Archived' \in {Archived, Archived \cup {f}}
    <3>1. CASE key[r] \in objects
      <4>1. Archived' = Archived \cup {f}
        BY <2>1, <2>2, <3>1 DEF BaseInv, TypeOK
      <4> QED BY <4>1
    <3>2. CASE key[r] \notin objects
      <4>1. Archived' = Archived
        BY <2>1, <2>2, <2>4, <3>2 DEF BaseInv, TypeOK
      <4> QED BY <4>1
    <3> QED BY <3>1, <3>2
  <2> QED BY <2>1, <2>3, <2>5 DEF Archive!SyncSome, Archive!Sync
<1>5. ASSUME NEW r \in Requests, SyncOne(r)
      PROVE  Archive!SyncSome \/ (Synced' = Synced /\ Archived' = Archived)
  <2>1. CASE Insert(r)
    BY <1>4, <2>1
  <2>2. CASE Put(r) \/ PutFails(r)
    BY <1>2, <2>2 DEF Put, PutFails
  <2>3. CASE Delete(r)
    BY <1>3, <2>3
  <2>4. CASE UNCHANGED stores
    BY <1>1, <2>4
  <2> QED BY <1>5, <2>1, <2>2, <2>3, <2>4 DEF SyncOne, Reject, FindRow, FindNoRow, ReadFails,
             Decide, InsertConflict, InsertFails, CommitLost, DeleteFails, stores
<1>6. CASE UNCHANGED stores
  BY <1>1, <1>6
<1> QED BY <1>5, <1>6 DEF Next, Handle, Admit, NextFile, Finish, Cancel, Crash, Configure,
           vars, stores

\* Two stores without a common transaction behave like one archive.
THEOREM Refinement ==
    ASSUME ~Overlap, "commit" \notin Faults
    PROVE  Spec => ImplementsRunArchive
<1>1. Init => Archive!Nothing
  BY SyncAssumption DEF Init, Archive!Nothing
<1>2. BaseInv /\ ExclusiveInv /\ [Next]_vars => [Archive!SyncSome]_(Archive!archiveVars)
  BY StepIsArchiveStep
<1> QED BY <1>1, <1>2, ExclusiveInvariant, PTL
        DEF Spec, ImplementsRunArchive, Archive!ArchiveSpec

-----------------------------------------------------------------------------
(* Whoever overlaps, without faults that leave an object behind.           *)

\* Without the fault, no request is cancelled.
NobodyCancelled == \A r \in Requests : ~cancelled[r]

\* The steps that leave no object behind.
Harmless ==
    \/ \E r \in Requests :
        \/ \E f \in Files, n \in 0 .. MaxMore : Admit(r, f, n)
        \/ Reject(r) \/ FindRow(r) \/ FindNoRow(r) \/ ReadFails(r) \/ Decide(r) \/ Put(r)
        \/ Insert(r) \/ InsertConflict(r) \/ InsertFails(r) \/ CommitLost(r) \/ Delete(r)
        \/ \E f \in Files : NextFile(r, f)
        \/ Finish(r)
    \/ \E s \in SettingsRange : Configure(s)
    \/ UNCHANGED vars

LEMMA StepNoOrphan ==
    BaseInv /\ NoOrphanObject /\ NobodyCancelled /\ Harmless => (NoOrphanObject /\ NobodyCancelled)'
<1> SUFFICES ASSUME BaseInv, NoOrphanObject, NobodyCancelled, Harmless
             PROVE  (NoOrphanObject /\ NobodyCancelled)'
  OBVIOUS
<1> USE SyncAssumption DEF BaseInv, TypeOK, KeysNameTheirFile,
       NoOrphanObject, NobodyCancelled, stores, config, GoTo, Answer, GiveUp
<1>1. ASSUME NEW r \in Requests, NEW f \in Files, NEW n \in 0 .. MaxMore, Admit(r, f, n)
      PROVE  (NoOrphanObject /\ NobodyCancelled)'
  BY <1>1 DEF Admit
<1>2. ASSUME NEW r \in Requests,
             \/ Reject(r) \/ FindRow(r) \/ FindNoRow(r) \/ ReadFails(r) \/ Decide(r) \/ Put(r)
             \/ Insert(r) \/ InsertConflict(r) \/ InsertFails(r) \/ CommitLost(r) \/ Delete(r)
      PROVE  (NoOrphanObject /\ NobodyCancelled)'
  <2>1. CASE Reject(r)
    BY <2>1 DEF Reject
  <2>2. CASE FindRow(r)
    BY <2>2 DEF FindRow
  <2>3. CASE FindNoRow(r)
    BY <2>3 DEF FindNoRow
  <2>4. CASE ReadFails(r)
    BY <2>4 DEF ReadFails
  <2>5. CASE Decide(r)
    BY <2>5 DEF Decide, Keys
  <2>6. CASE Put(r)
    BY <2>6 DEF Put
  <2>8. CASE Insert(r)
    BY <2>8 DEF Insert
  <2>9. CASE InsertConflict(r)
    BY <2>9 DEF InsertConflict
  <2>10. CASE InsertFails(r)
    BY <2>10 DEF InsertFails
  <2>11. CASE CommitLost(r)
    BY <2>11 DEF CommitLost
  <2>12. CASE Delete(r)
    BY <2>12 DEF Delete
  <2> QED BY <1>2, <2>1, <2>2, <2>3, <2>4, <2>5, <2>6, <2>8, <2>9, <2>10, <2>11, <2>12
<1>3. ASSUME NEW r \in Requests, NEW f \in Files, NextFile(r, f) PROVE (NoOrphanObject /\ NobodyCancelled)'
  BY <1>3 DEF NextFile
<1>4. ASSUME NEW r \in Requests, Finish(r) PROVE (NoOrphanObject /\ NobodyCancelled)'
  BY <1>4 DEF Finish
<1>7. ASSUME NEW s \in SettingsRange, Configure(s) PROVE (NoOrphanObject /\ NobodyCancelled)'
  BY <1>7 DEF Configure, requestVars
<1>8. CASE UNCHANGED vars
  BY <1>8 DEF vars
<1> QED BY <1>1, <1>2, <1>3, <1>4, <1>7, <1>8 DEF Harmless

\* Unless R2 fails, a client leaves or the process dies, the bucket holds nothing
\* that is not recorded, however uploads of a file overlap.
THEOREM NoOrphans ==
    ASSUME Faults \cap {"put", "delete", "cancel", "crash"} = {}
    PROVE  Spec => []NoOrphanObject
<1>1. Init => NoOrphanObject /\ NobodyCancelled
  BY DEF Init, NoOrphanObject, NobodyCancelled
<1>2. NobodyCancelled /\ [Next]_vars => Harmless
  BY DEF NobodyCancelled, Harmless, Next, Handle, SyncOne, Cancel, PutFails, DeleteFails, Crash
<1> QED BY <1>1, <1>2, StepNoOrphan, BaseInvariant, PTL DEF Spec

-----------------------------------------------------------------------------

\* What a request is about to put, too, is what some setting lets it store.
PolicyInv ==
    /\ PolicyIsKept
    /\ \A r \in Requests : key[r] \in Keys => \E s \in SettingsRange : Archives(s, key[r][2])

LEMMA StepPolicy == BaseInv /\ PolicyInv /\ [Next]_vars => PolicyInv'
<1> SUFFICES ASSUME BaseInv, PolicyInv, [Next]_vars PROVE PolicyInv'
  OBVIOUS
<1> USE SyncAssumption DEF BaseInv, TypeOK, KeysNameTheirFile,
       PolicyInv, PolicyIsKept, stores, config, GoTo, Answer, GiveUp
<1>1. ASSUME NEW r \in Requests, NEW f \in Files, NEW n \in 0 .. MaxMore, Admit(r, f, n)
      PROVE  PolicyInv'
  BY <1>1 DEF Admit
<1>2. ASSUME NEW r \in Requests, SyncOne(r) PROVE PolicyInv'
  <2>1. CASE Reject(r)
    BY <2>1 DEF Reject
  <2>2. CASE FindRow(r)
    BY <2>2 DEF FindRow
  <2>3. CASE FindNoRow(r)
    BY <2>3 DEF FindNoRow
  <2>4. CASE ReadFails(r)
    BY <2>4 DEF ReadFails
  <2>5. CASE Decide(r)
    BY <2>5 DEF Decide, Keys
  <2>6. CASE Put(r)
    BY <2>6 DEF Put
  <2>7. CASE PutFails(r)
    BY <2>7 DEF PutFails
  <2>8. CASE Insert(r)
    BY <2>8 DEF Insert
  <2>9. CASE InsertConflict(r)
    BY <2>9 DEF InsertConflict
  <2>10. CASE InsertFails(r)
    BY <2>10 DEF InsertFails
  <2>11. CASE CommitLost(r)
    BY <2>11 DEF CommitLost
  <2>12. CASE Delete(r)
    BY <2>12 DEF Delete
  <2>13. CASE DeleteFails(r)
    BY <2>13 DEF DeleteFails
  <2> QED BY <1>2, <2>1, <2>2, <2>3, <2>4, <2>5, <2>6, <2>7, <2>8, <2>9, <2>10, <2>11, <2>12,
             <2>13 DEF SyncOne
<1>3. ASSUME NEW r \in Requests, NEW f \in Files, NextFile(r, f) PROVE PolicyInv'
  BY <1>3 DEF NextFile
<1>4. ASSUME NEW r \in Requests, Finish(r) PROVE PolicyInv'
  BY <1>4 DEF Finish
<1>5. ASSUME NEW r \in Requests, Cancel(r) PROVE PolicyInv'
  BY <1>5 DEF Cancel
<1>6. CASE Crash
  BY <1>6 DEF Crash
<1>7. ASSUME NEW s \in SettingsRange, Configure(s) PROVE PolicyInv'
  BY <1>7 DEF Configure, requestVars
<1>8. CASE UNCHANGED vars
  BY <1>8 DEF vars
<1> QED BY <1>1, <1>2, <1>3, <1>4, <1>5, <1>6, <1>7, <1>8 DEF Next, Handle

\* No order of uploads, faults and changes of the settings stores a raw file
\* that no setting in use allows.
THEOREM PolicyHolds == Spec => []PolicyIsKept
<1>1. Init => PolicyInv
  BY SyncAssumption DEF Init, PolicyInv, PolicyIsKept
<1>2. PolicyInv => PolicyIsKept
  BY DEF PolicyInv
<1> QED BY <1>1, <1>2, StepPolicy, BaseInvariant, PTL DEF Spec

=============================================================================
