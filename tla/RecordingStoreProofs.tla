------------------------ MODULE RecordingStoreProofs ------------------------
(***************************************************************************)
(* Proofs about RecordingStore and StoreBlame, for any set of requests and *)
(* any faults.                                                             *)
(***************************************************************************)
EXTENDS StoreBlame, TLAPS

\* Past the rename and before the end of create_recording_and_task.
Creating == {"check", "insert", "reread", "read_task"}

\* A recording exists only once its upload is past the insert, its file is
\* removed only when its row is gone, and an upload that still might remove
\* its own file has not been acknowledged as created.
StoreInv ==
    /\ TypeOK
    /\ \A r \in recordings \cup cleanup : pc[r] \in {"remove", "over"}
    /\ recordings \cap cleanup = {}
    /\ \A r \in Requests : pc[r] \in Creating => r \in final
    /\ \A r \in Requests : found[r] = r => pc[r] = "over"
    /\ CreatedHasFile
    /\ OnePerHash

\* Without unacknowledged commits an upload that removes its file has no row.
FilesInv ==
    /\ RowHasFile
    /\ \A r \in recordings : pc[r] = "over"

LEMMA InitInv == Init => StoreInv /\ FilesInv
  BY NullIsNoRequest
  DEF Init, StoreInv, FilesInv, TypeOK, PC, Creating, CreatedHasFile,
      OnePerHash, RowHasFile

\* Every step but the insert, the removals and the crash leaves the table
\* alone and moves one upload on.
LEMMA StepInv ==
    ASSUME StoreInv, NEW r \in Requests, Step(r)
    PROVE  StoreInv'
  <1> USE NullIsNoRequest
      DEF StoreInv, TypeOK, PC, Creating, CreatedHasFile, OnePerHash, SameHash,
          Goto
  <1>1. CASE Reject(r) BY <1>1 DEF Reject
  <1>2. CASE OpenPart(r) BY <1>2 DEF OpenPart
  <1>3. CASE Staged(r) BY <1>3 DEF Staged
  <1>4. CASE StageFails(r) BY <1>4 DEF StageFails
  <1>5. CASE Lookup(r) BY <1>5 DEF Lookup
  <1>6. CASE LookupTask(r) BY <1>6 DEF LookupTask, ReadTask
  <1>7. CASE Discard(r) BY <1>7 DEF Discard
  <1>8. CASE Commit(r) BY <1>8 DEF Commit
  <1>9. CASE CommitFails(r) BY <1>9 DEF CommitFails
  <1>10. CASE Check(r) BY <1>10 DEF Check, CheckHash
  <1>11. CASE Insert(r) BY <1>11 DEF Insert
  <1>12. CASE Reread(r) BY <1>12 DEF Reread, CheckHash
  <1>13. CASE ReadWinnersTask(r) BY <1>13 DEF ReadWinnersTask, ReadTask
  <1>14. CASE RemoveFinal(r) BY <1>14 DEF RemoveFinal
  <1>15. CASE DeleteRow(r) BY <1>15 DEF DeleteRow
  <1>16. CASE DeleteFile(r) BY <1>16 DEF DeleteFile
  <1> QED
    BY <1>1, <1>2, <1>3, <1>4, <1>5, <1>6, <1>7, <1>8, <1>9, <1>10, <1>11,
       <1>12, <1>13, <1>14, <1>15, <1>16 DEF Step

LEMMA FaultInv ==
    ASSUME StoreInv, NEW r \in Requests, NEW f \in Faults, Fault(r, f)
    PROVE  StoreInv'
  <1> USE NullIsNoRequest
      DEF StoreInv, TypeOK, PC, Creating, CreatedHasFile, OnePerHash, SameHash,
          Goto
  <1>1. CASE CancelOpen(r) BY <1>1 DEF CancelOpen
  <1>2. CASE LookupRaises(r) BY <1>2 DEF LookupRaises
  <1>3. CASE CancelCommit(r) BY <1>3 DEF CancelCommit
  <1>4. CASE CreateRaises(r) BY <1>4 DEF CreateRaises
  <1>5. CASE InsertUnacknowledged(r) BY <1>5 DEF InsertUnacknowledged
  <1>6. CASE DeleteUnacknowledged(r) BY <1>6 DEF DeleteUnacknowledged
  <1>7. CASE UnlinkFails(r) BY <1>7 DEF UnlinkFails
  <1> QED BY <1>1, <1>2, <1>3, <1>4, <1>5, <1>6, <1>7 DEF Fault

LEMMA CrashInv == ASSUME StoreInv, Crash PROVE StoreInv'
  BY NullIsNoRequest
  DEF StoreInv, TypeOK, PC, Creating, CreatedHasFile, OnePerHash, Crash

LEMMA NextInv == ASSUME StoreInv, [Next]_vars PROVE StoreInv'
  <1>1. CASE UNCHANGED vars
    BY <1>1 DEF StoreInv, TypeOK, CreatedHasFile, OnePerHash, vars
  <1>2. ASSUME NEW r \in Requests, Step(r) PROVE StoreInv'
    BY <1>2, StepInv
  <1>3. ASSUME NEW r \in Requests, NEW f \in Faults, Fault(r, f)
        PROVE  StoreInv'
    BY <1>3, FaultInv
  <1>4. CASE Crash BY <1>4, CrashInv
  <1> QED BY <1>1, <1>2, <1>3, <1>4 DEF Next

\* The invariant the other theorems rest on, whatever the faults.
THEOREM StoreInvariance == Spec => []StoreInv
  <1>1. Init => StoreInv BY InitInv
  <1>2. StoreInv /\ [Next]_vars => StoreInv' BY NextInv
  <1> QED BY <1>1, <1>2, PTL DEF Spec

\* Every variable of the upload and delete handlers keeps its type.
THEOREM StoreTypeCorrect == Spec => []TypeOK
  <1>1. StoreInv => TypeOK BY DEF StoreInv
  <1> QED BY <1>1, StoreInvariance, PTL

\* No two recordings have the same contents, for any number of concurrent
\* uploads and deletions: the UNIQUE constraint and the retry after it suffice.
THEOREM ContentsUnique == Spec => []OnePerHash
  <1>1. StoreInv => OnePerHash BY DEF StoreInv
  <1> QED BY <1>1, StoreInvariance, PTL

\* The file of an upload that was acknowledged as created is there as long as
\* the recording is, under every fault: nobody else's clean-up removes it.
THEOREM CreatedKeepsFile == Spec => []CreatedHasFile
  <1>1. StoreInv => CreatedHasFile BY DEF StoreInv
  <1> QED BY <1>1, StoreInvariance, PTL

LEMMA FilesStep ==
    ASSUME "lost_ack" \notin Faults, StoreInv, FilesInv, [Next]_vars
    PROVE  FilesInv'
  <1> USE NullIsNoRequest
      DEF StoreInv, FilesInv, TypeOK, PC, Creating, RowHasFile, SameHash, Goto
  <1>1. CASE UNCHANGED vars BY <1>1 DEF vars
  <1>2. ASSUME NEW r \in Requests, Step(r) PROVE FilesInv'
    <2>1. CASE Reject(r) BY <2>1 DEF Reject
    <2>2. CASE OpenPart(r) BY <2>2 DEF OpenPart
    <2>3. CASE Staged(r) BY <2>3 DEF Staged
    <2>4. CASE StageFails(r) BY <2>4 DEF StageFails
    <2>5. CASE Lookup(r) BY <2>5 DEF Lookup
    <2>6. CASE LookupTask(r) BY <2>6 DEF LookupTask, ReadTask
    <2>7. CASE Discard(r) BY <2>7 DEF Discard
    <2>8. CASE Commit(r) BY <2>8 DEF Commit
    <2>9. CASE CommitFails(r) BY <2>9 DEF CommitFails
    <2>10. CASE Check(r) BY <2>10 DEF Check, CheckHash
    <2>11. CASE Insert(r) BY <2>11 DEF Insert
    <2>12. CASE Reread(r) BY <2>12 DEF Reread, CheckHash
    <2>13. CASE ReadWinnersTask(r) BY <2>13 DEF ReadWinnersTask, ReadTask
    <2>14. CASE RemoveFinal(r) BY <2>14 DEF RemoveFinal
    <2>15. CASE DeleteRow(r) BY <2>15 DEF DeleteRow
    <2>16. CASE DeleteFile(r) BY <2>16 DEF DeleteFile
    <2> QED
      BY <1>2, <2>1, <2>2, <2>3, <2>4, <2>5, <2>6, <2>7, <2>8, <2>9, <2>10,
         <2>11, <2>12, <2>13, <2>14, <2>15, <2>16 DEF Step
  <1>3. ASSUME NEW r \in Requests, NEW f \in Faults, Fault(r, f)
        PROVE  FilesInv'
    <2>1. CASE CancelOpen(r) BY <2>1 DEF CancelOpen
    <2>2. CASE LookupRaises(r) BY <2>2 DEF LookupRaises
    <2>3. CASE CancelCommit(r) BY <2>3 DEF CancelCommit
    <2>4. CASE CreateRaises(r) BY <2>4 DEF CreateRaises
    <2>5. CASE DeleteUnacknowledged(r) BY <2>5 DEF DeleteUnacknowledged
    <2>6. CASE UnlinkFails(r) BY <2>6 DEF UnlinkFails
    <2> QED BY <1>3, <2>1, <2>2, <2>3, <2>4, <2>5, <2>6 DEF Fault
  <1>4. CASE Crash BY <1>4 DEF Crash
  <1> QED BY <1>1, <1>2, <1>3, <1>4 DEF Next

\* As long as no commit goes unacknowledged, every recording has its file:
\* the clean-up of a failed or losing upload never takes a file with a row.
THEOREM RowsKeepFiles ==
    ASSUME "lost_ack" \notin Faults PROVE Spec => []RowHasFile
  <1>1. Init => FilesInv BY InitInv
  <1>2. StoreInv /\ FilesInv /\ [Next]_vars => FilesInv' BY FilesStep
  <1>3. FilesInv => RowHasFile BY DEF FilesInv
  <1> QED BY <1>1, <1>2, <1>3, StoreInvariance, PTL DEF Spec

-----------------------------------------------------------------------------
(* What is stray or missing has a cause.                                   *)

Writing == {"writing", "lookup", "lookup_task", "discard", "commit"}

\* Who still answers for a file: the upload that is to rename or remove it,
\* the deletion that is to remove it, or a fault of its own request.
BlameInv ==
    /\ StoreInv
    /\ \A r \in part :
          \/ pc[r] \in Writing
          \/ Hit(r, {"cancel_open", "lookup_error", "crash", "unlink_error"})
    /\ \A r \in final \ recordings :
          \/ pc[r] \in Creating \cup {"remove"}
          \/ r \in cleanup
          \/ Hit(r, {"cancel_commit", "cancel_delete", "crash", "unlink_error"})
    /\ \A r \in recordings :
          \/ r \in final /\ pc[r] = "over"
          \/ Hit(r, {"lost_ack"})

LEMMA InitBlame == BlameInit => BlameInv
  BY InitInv DEF BlameInit, BlameInv, Init

LEMMA StepBlame ==
    ASSUME BlameInv, NEW r \in Requests, Step(r), UNCHANGED hits
    PROVE  BlameInv'
  <1> StoreInv'
    BY StepInv DEF BlameInv
  <1> USE NullIsNoRequest
      DEF BlameInv, StoreInv, TypeOK, PC, Creating, Writing, SameHash, Goto, Hit
  <1>1. CASE Reject(r) BY <1>1 DEF Reject
  <1>2. CASE OpenPart(r) BY <1>2 DEF OpenPart
  <1>3. CASE Staged(r) BY <1>3 DEF Staged
  <1>4. CASE StageFails(r) BY <1>4 DEF StageFails
  <1>5. CASE Lookup(r) BY <1>5 DEF Lookup
  <1>6. CASE LookupTask(r) BY <1>6 DEF LookupTask, ReadTask
  <1>7. CASE Discard(r) BY <1>7 DEF Discard
  <1>8. CASE Commit(r) BY <1>8 DEF Commit
  <1>9. CASE CommitFails(r) BY <1>9 DEF CommitFails
  <1>10. CASE Check(r) BY <1>10 DEF Check, CheckHash
  <1>11. CASE Insert(r) BY <1>11 DEF Insert
  <1>12. CASE Reread(r) BY <1>12 DEF Reread, CheckHash
  <1>13. CASE ReadWinnersTask(r) BY <1>13 DEF ReadWinnersTask, ReadTask
  <1>14. CASE RemoveFinal(r) BY <1>14 DEF RemoveFinal
  <1>15. CASE DeleteRow(r) BY <1>15 DEF DeleteRow
  <1>16. CASE DeleteFile(r) BY <1>16 DEF DeleteFile
  <1> QED
    BY <1>1, <1>2, <1>3, <1>4, <1>5, <1>6, <1>7, <1>8, <1>9, <1>10, <1>11,
       <1>12, <1>13, <1>14, <1>15, <1>16 DEF Step

LEMMA FaultBlame ==
    ASSUME BlameInv, NEW r \in Requests, NEW f \in Faults, Fault(r, f),
           hits' = hits \cup {<<r, f>>}
    PROVE  BlameInv'
  <1> StoreInv'
    BY FaultInv DEF BlameInv
  <1> USE NullIsNoRequest
      DEF BlameInv, StoreInv, TypeOK, PC, Creating, Writing, SameHash, Goto, Hit
  <1>1. CASE f = "cancel_open" /\ CancelOpen(r) BY <1>1 DEF CancelOpen
  <1>2. CASE f = "lookup_error" /\ LookupRaises(r) BY <1>2 DEF LookupRaises
  <1>3. CASE f = "cancel_commit" /\ CancelCommit(r) BY <1>3 DEF CancelCommit
  <1>4. CASE f = "create_error" /\ CreateRaises(r) BY <1>4 DEF CreateRaises
  <1>5. CASE f = "lost_ack" /\ InsertUnacknowledged(r)
    BY <1>5 DEF InsertUnacknowledged
  <1>6. CASE f = "cancel_delete" /\ DeleteUnacknowledged(r)
    BY <1>6 DEF DeleteUnacknowledged
  <1>7. CASE f = "unlink_error" /\ UnlinkFails(r) BY <1>7 DEF UnlinkFails
  <1> QED BY <1>1, <1>2, <1>3, <1>4, <1>5, <1>6, <1>7 DEF Fault

LEMMA CrashBlame ==
    ASSUME BlameInv, Crash, hits' = hits \cup CrashHits
    PROVE  BlameInv'
  <1>1. StoreInv'
    BY CrashInv DEF BlameInv
  <1> QED
    BY <1>1 DEF BlameInv, StoreInv, TypeOK, PC, Creating, Writing, Hit, Crash,
                CrashHits

\* Every file is answered for, in every reachable state and whatever fails.
THEOREM BlameInvariance == BlameSpec => []BlameInv
  <1>1. BlameInit => BlameInv BY InitBlame
  <1>2. BlameInv /\ [BlameNext]_blameVars => BlameInv'
    <2>1. ASSUME BlameInv, UNCHANGED blameVars PROVE BlameInv'
      <3>1. StoreInv'
        BY <2>1, NextInv DEF BlameInv, blameVars
      <3> QED
        BY <2>1, <3>1 DEF BlameInv, blameVars, vars, Hit
    <2> QED BY <2>1, StepBlame, FaultBlame, CrashBlame DEF BlameNext
  <1> QED BY <1>1, <1>2, PTL DEF BlameSpec

\* A .part file left when all is quiet is there because its own upload was
\* cancelled while opening it, failed in the look-up, crashed or could not
\* remove it.
THEOREM PartsHaveCause == BlameSpec => []PartsExplained
  <1>1. BlameInv => PartsExplained
    BY DEF BlameInv, StoreInv, TypeOK, PartsExplained, Quiet, Writing
  <1> QED BY <1>1, BlameInvariance, PTL

\* A final file without a recording is there because its own upload was cut
\* off in the rename or by a crash, or its deletion failed or was cut off.
THEOREM OrphansHaveCause == BlameSpec => []OrphansExplained
  <1>1. BlameInv => OrphansExplained
    BY DEF BlameInv, StoreInv, TypeOK, OrphansExplained, Quiet, Creating
  <1> QED BY <1>1, BlameInvariance, PTL

\* Only an unacknowledged insert of the very same upload costs a recording
\* its file.
THEOREM MissingHasCause == BlameSpec => []MissingExplained
  <1>1. BlameInv => MissingExplained
    BY DEF BlameInv, MissingExplained
  <1> QED BY <1>1, BlameInvariance, PTL
=============================================================================
