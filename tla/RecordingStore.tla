--------------------------- MODULE RecordingStore ---------------------------
(***************************************************************************)
(* Uploading and deleting recordings: concurrent HTTP requests that keep   *)
(* the upload directory and the recordings table in step.                  *)
(*                                                                         *)
(*   src/api/service/recording.py     upload, delete_recording             *)
(*   src/api/repository/recording.py  the transactions behind them         *)
(*   src/api/utils/file.py            the staged file                      *)
(*                                                                         *)
(* A request r writes files under a name of its own (uuid4), so "r" also   *)
(* names its .part file, its final file, and the recording (with its task) *)
(* it inserts.  The contents matter only through their hash.               *)
(*                                                                         *)
(* An operator whose name has a suffix, like Discard_Forgets, is a slip in *)
(* the operator of that name; the runs must notice it (README, Mutants).   *)
(***************************************************************************)
EXTENDS Naturals

CONSTANTS Requests,   \* upload requests
          Hash,       \* SHA-256 of the contents of each
          Faults,     \* what may go wrong, see Next
          NULL

ASSUME NullIsNoRequest == NULL \notin Requests

VARIABLES pc,         \* where each upload is
          part,       \* requests whose .part file is on disk
          final,      \* requests whose final file is on disk
          recordings, \* rows of the table
          found,      \* the recording an upload will answer with
          cleanup     \* deleted rows whose file delete_recording is to remove

vars == <<pc, part, final, recordings, found, cleanup>>

PC == {"new", "writing", "lookup", "lookup_task", "discard", "commit",
       "check", "insert", "reread", "read_task", "remove", "over"}

TypeOK ==
    /\ pc \in [Requests -> PC]
    /\ part \subseteq Requests
    /\ final \subseteq Requests
    /\ recordings \subseteq Requests
    /\ found \in [Requests -> Requests \cup {NULL}]
    /\ cleanup \subseteq Requests

Init ==
    /\ pc = [r \in Requests |-> "new"]
    /\ part = {}
    /\ final = {}
    /\ recordings = {}
    /\ found = [r \in Requests |-> NULL]
    /\ cleanup = {}

SameHash(r) == {x \in recordings : Hash[x] = Hash[r]}

Goto(r, next) == pc' = [pc EXCEPT ![r] = next]

-----------------------------------------------------------------------------
(* stage_upload: the contents go to a .part file, chunk by chunk.          *)

\* validate_extension turned the request down.
Reject(r) ==
    /\ pc[r] = "new"
    /\ Goto(r, "over")
    /\ UNCHANGED <<part, final, recordings, found, cleanup>>

OpenPart(r) ==
    /\ pc[r] = "new"
    /\ Goto(r, "writing")
    /\ part' = part \cup {r}
    /\ UNCHANGED <<final, recordings, found, cleanup>>

\* A cancelled await does not stop the thread that opens the file.
CancelOpen(r) ==
    /\ pc[r] = "new"
    /\ Goto(r, "over")
    /\ part' = part \cup {r}
    /\ UNCHANGED <<final, recordings, found, cleanup>>

Staged(r) ==
    /\ pc[r] = "writing"
    /\ Goto(r, "lookup")
    /\ UNCHANGED <<part, final, recordings, found, cleanup>>

\* Empty, too large, an I/O error, or the client is gone: the sink aborts.
StageFails(r) ==
    /\ pc[r] = "writing"
    /\ Goto(r, "over")
    /\ part' = part \ {r}
    /\ UNCHANGED <<final, recordings, found, cleanup>>

-----------------------------------------------------------------------------
(* repo.get_by_hash: two reads, of the recording and then of its task.     *)

Lookup(r) ==
    /\ pc[r] = "lookup"
    /\ \/ \E x \in SameHash(r) :
             found' = [found EXCEPT ![r] = x] /\ Goto(r, "lookup_task")
       \/ SameHash(r) = {} /\ Goto(r, "commit") /\ UNCHANGED found
    /\ UNCHANGED <<part, final, recordings, cleanup>>

\* The second read finds no task when the recording was deleted meanwhile;
\* the upload is then answered with an error.
ReadTask(r, from, next) ==
    /\ pc[r] = from
    /\ found' = IF found[r] \in recordings THEN found
                ELSE [found EXCEPT ![r] = NULL]
    /\ Goto(r, next)
    /\ UNCHANGED <<part, final, recordings, cleanup>>

LookupTask(r) == ReadTask(r, "lookup_task", "discard")

\* The query raises, or is cancelled; no handler is in place.
LookupRaises(r) ==
    /\ pc[r] \in {"lookup", "lookup_task"}
    /\ Goto(r, "over")
    /\ found' = [found EXCEPT ![r] = NULL]
    /\ UNCHANGED <<part, final, recordings, cleanup>>

Discard_Forgets(r) ==
    /\ pc[r] = "discard"
    /\ Goto(r, "over")
    /\ UNCHANGED <<part, final, recordings, found, cleanup>>

Discard(r) ==
    /\ pc[r] = "discard"
    /\ Goto(r, "over")
    /\ part' = part \ {r}
    /\ UNCHANGED <<final, recordings, found, cleanup>>

-----------------------------------------------------------------------------
(* A new hash: rename the file into place, then insert the rows.           *)

Commit(r) ==
    /\ pc[r] = "commit"
    /\ Goto(r, "check")
    /\ part' = part \ {r}
    /\ final' = final \cup {r}
    /\ UNCHANGED <<recordings, found, cleanup>>

\* os.replace failed: the .part is discarded.
CommitFails(r) ==
    /\ pc[r] = "commit"
    /\ Goto(r, "over")
    /\ part' = part \ {r}
    /\ UNCHANGED <<final, recordings, found, cleanup>>

\* The request is cancelled while a thread renames: that thread and the one
\* that discards the .part race for the file.
CancelCommit(r) ==
    /\ pc[r] = "commit"
    /\ Goto(r, "over")
    /\ part' = part \ {r}
    /\ final' \in {final, final \cup {r}}
    /\ UNCHANGED <<recordings, found, cleanup>>

\* create_recording_and_task looks the hash up once more, in its transaction
\* (and again after an IntegrityError).
CheckHash(r, from, none) ==
    /\ pc[r] = from
    /\ \/ \E x \in SameHash(r) :
             found' = [found EXCEPT ![r] = x] /\ Goto(r, "read_task")
       \/ SameHash(r) = {} /\ Goto(r, none) /\ UNCHANGED found
    /\ UNCHANGED <<part, final, recordings, cleanup>>

Check(r) == CheckHash(r, "check", "insert")

Insert_NotUnique(r) ==
    /\ pc[r] = "insert"
    /\ recordings' = recordings \cup {r}
    /\ found' = [found EXCEPT ![r] = r]
    /\ Goto(r, "over")
    /\ UNCHANGED <<part, final, cleanup>>

\* The UNIQUE constraint on file_hash decides between concurrent inserts.
Insert(r) ==
    /\ pc[r] = "insert"
    /\ \/ /\ SameHash(r) = {}
          /\ recordings' = recordings \cup {r}
          /\ found' = [found EXCEPT ![r] = r]
          /\ Goto(r, "over")
       \/ /\ SameHash(r) # {}
          /\ Goto(r, "reread")
          /\ UNCHANGED <<recordings, found>>
    /\ UNCHANGED <<part, final, cleanup>>

\* The winner of the race may have been deleted: the IntegrityError goes up.
Reread(r) == CheckHash(r, "reread", "remove")

ReadWinnersTask(r) == ReadTask(r, "read_task", "remove")

\* The transaction raised and rolled back.
CreateRaises(r) ==
    /\ pc[r] \in {"check", "insert", "reread", "read_task"}
    /\ Goto(r, "remove")
    /\ found' = [found EXCEPT ![r] = NULL]
    /\ UNCHANGED <<part, final, recordings, cleanup>>

\* It committed, but the connection broke or the request was cancelled
\* before it knew.
InsertUnacknowledged(r) ==
    /\ pc[r] = "insert"
    /\ SameHash(r) = {}
    /\ recordings' = recordings \cup {r}
    /\ Goto(r, "remove")
    /\ UNCHANGED <<part, final, found, cleanup>>

RemoveFinal_Forgets(r) ==
    /\ pc[r] = "remove"
    /\ Goto(r, "over")
    /\ UNCHANGED <<part, final, recordings, found, cleanup>>

RemoveFinal_Winners(r) ==
    /\ pc[r] = "remove"
    /\ Goto(r, "over")
    /\ final' = final \ {IF found[r] = NULL THEN r ELSE found[r]}
    /\ UNCHANGED <<part, recordings, found, cleanup>>

\* keep_file is false: the request takes its own file away again.
RemoveFinal(r) ==
    /\ pc[r] = "remove"
    /\ Goto(r, "over")
    /\ final' = final \ {r}
    /\ UNCHANGED <<part, recordings, found, cleanup>>

-----------------------------------------------------------------------------
(* delete_recording: the rows in one transaction, then the file.           *)

DeleteRow(x) ==
    /\ x \in recordings
    /\ recordings' = recordings \ {x}
    /\ cleanup' = cleanup \cup {x}
    /\ UNCHANGED <<pc, part, final, found>>

DeleteFile(x) ==
    /\ x \in cleanup
    /\ cleanup' = cleanup \ {x}
    /\ final' = final \ {x}
    /\ UNCHANGED <<pc, part, recordings, found>>

\* The deletion commits, but its request is cancelled or its connection
\* breaks before it knows: the file is not looked at.
DeleteUnacknowledged(x) ==
    /\ x \in recordings
    /\ recordings' = recordings \ {x}
    /\ UNCHANGED <<pc, part, final, found, cleanup>>

\* remove_file ignores an OSError: whoever was to remove a file goes on as if
\* it had.  A request cancelled while its removal still waits for a thread
\* leaves the same behind: a job that has not begun never runs.
UnlinkFails(r) ==
    /\ \/ /\ pc[r] \in {"writing", "discard", "commit", "remove"}
          /\ Goto(r, "over")
          /\ UNCHANGED cleanup
       \/ r \in cleanup /\ cleanup' = cleanup \ {r} /\ UNCHANGED pc
    /\ UNCHANGED <<part, final, recordings, found>>

\* The process dies; nothing on disk or in the table changes.
Crash ==
    /\ pc' = [r \in Requests |-> IF pc[r] = "new" THEN "new" ELSE "over"]
    /\ cleanup' = {}
    /\ found' = [r \in Requests |-> IF pc[r] = "over" THEN found[r] ELSE NULL]
    /\ UNCHANGED <<part, final, recordings>>

-----------------------------------------------------------------------------

Step(r) ==
    \/ Reject(r) \/ OpenPart(r) \/ Staged(r) \/ StageFails(r)
    \/ Lookup(r) \/ LookupTask(r) \/ Discard(r)
    \/ Commit(r) \/ CommitFails(r)
    \/ Check(r) \/ Insert(r) \/ Reread(r) \/ ReadWinnersTask(r)
    \/ RemoveFinal(r)
    \/ DeleteRow(r) \/ DeleteFile(r)

Fault(r, f) ==
    \/ f = "cancel_open" /\ CancelOpen(r)
    \/ f = "lookup_error" /\ LookupRaises(r)
    \/ f = "cancel_commit" /\ CancelCommit(r)
    \/ f = "create_error" /\ CreateRaises(r)
    \/ f = "lost_ack" /\ InsertUnacknowledged(r)
    \/ f = "cancel_delete" /\ DeleteUnacknowledged(r)
    \/ f = "unlink_error" /\ UnlinkFails(r)

Next ==
    \/ \E r \in Requests : Step(r)
    \/ \E r \in Requests, f \in Faults : Fault(r, f)
    \/ "crash" \in Faults /\ Crash

Spec == Init /\ [][Next]_vars

-----------------------------------------------------------------------------
(* Properties.                                                             *)

\* No two recordings have the same contents, although every upload looks the
\* hash up some time before it inserts.
OnePerHash ==
    \A x, y \in recordings : Hash[x] = Hash[y] => x = y

\* A recording whose upload was acknowledged as created has its file as long
\* as it is not deleted, whatever happens to other uploads.
CreatedHasFile ==
    \A r \in recordings : pc[r] = "over" /\ found[r] = r => r \in final

\* Every recording has its file: neither the loser of an upload race nor the
\* rollback of a failed insert ever removes the file of a recording.
RowHasFile == recordings \subseteq final

Quiet == cleanup = {} /\ \A r \in Requests : pc[r] \in {"new", "over"}
=============================================================================
