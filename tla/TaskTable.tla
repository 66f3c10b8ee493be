----------------------------- MODULE TaskTable -----------------------------
(***************************************************************************)
(* The rows of the "tasks" table and the statements TaskDao runs on them   *)
(* (src/api/repository/dao/task.py).  Every operator maps the row a        *)
(* statement finds to the row it leaves; which rows a statement may touch  *)
(* is its WHERE clause, stated beside it.                                  *)
(*                                                                         *)
(* Times are kept relative to the SQL clock: next_retry_at and             *)
(* lease_expires_at are the ticks left until that instant.  A row that is  *)
(* due has next_retry_at = 0, an expired lease is -1 (how long ago does    *)
(* not matter to any statement), and AgeRow is the passage of one tick.    *)
(* Texts are abstracted to their presence: the transcript of a task is a   *)
(* function of the task (transcriber.py picks it by hash), so all attempts *)
(* write the same one.                                                     *)
(*                                                                         *)
(* An operator whose name has a suffix, like FailureRow_OneLess, is a slip *)
(* in the operator of that name; the runs must notice it (README, Mutants).*)
(***************************************************************************)
EXTENDS Integers

CONSTANTS WorkerIds,     \* values of tasks.locked_by
          LeaseSeconds,  \* WORKER_LEASE_SECONDS, in ticks
          MaxRetries,    \* WORKER_MAX_RETRIES
          MaxSkew,       \* how far the API host's clock may run ahead of SQL's
          NULL

ASSUME LeaseAssumption == LeaseSeconds \in Nat \ {0}
ASSUME RetriesAssumption == MaxRetries \in Nat
ASSUME SkewAssumption == MaxSkew \in Nat
ASSUME NullAssumption ==
    /\ NULL \notin WorkerIds
    /\ NULL \notin -1 .. LeaseSeconds
    /\ NULL \notin {"text", "json", "error"}
\* Powers of two are natural numbers (the provers know nothing of ^).
ASSUME PowerAssumption == \A n \in 1 .. MaxRetries + 1 : 2^n \in Nat

InFlight == {"transcribing", "summarizing"}
Terminal == {"done", "failed"}
TaskStatus == {"pending"} \cup InFlight \cup Terminal

Row == [status           : TaskStatus,
        retry_count      : 0 .. MaxRetries + 1,
        locked_by        : WorkerIds \cup {NULL},
        next_retry_at    : Nat,
        lease_expires_at : (-1 .. LeaseSeconds) \cup {NULL},
        transcript       : {"text", NULL},
        summary          : {"json", NULL},
        error_msg        : {"error", NULL}]

-----------------------------------------------------------------------------
(* Inserting a row.  next_retry_at comes from the API host's clock         *)
(* (_utcnow), every later comparison from SQL's (_sql_utc_now).            *)
NewRow(skew) ==
    [status |-> "pending", retry_count |-> 0, locked_by |-> NULL,
     next_retry_at |-> skew, lease_expires_at |-> NULL,
     transcript |-> NULL, summary |-> NULL, error_msg |-> NULL]

\* claim_pending: the WHERE clause of the SELECT ... FOR UPDATE SKIP LOCKED,
\* and the UPDATE of the rows it picked.
Claimable(r) == r.status = "pending" /\ r.next_retry_at = 0

ClaimRow(r, id) == [r EXCEPT !.status = "transcribing",
                             !.locked_by = id,
                             !.lease_expires_at = LeaseSeconds]

\* The fencing guard shared by renew_lease, mark_summarizing, mark_done and
\* mark_failure: locked_by alone, with no look at the status.
LockedBy(r, id) == r.locked_by = id

RenewRow(r) == [r EXCEPT !.lease_expires_at = LeaseSeconds]

SummarizingRow_NoTranscript(r) == [r EXCEPT !.status = "summarizing"]

SummarizingRow(r) == [r EXCEPT !.status = "summarizing", !.transcript = "text"]

DoneRow_KeepsLock(r) == [r EXCEPT !.status = "done",
                                  !.summary = "json",
                                  !.error_msg = NULL]

DoneRow_KeepsError(r) == [r EXCEPT !.status = "done",
                                   !.summary = "json",
                                   !.locked_by = NULL,
                                   !.lease_expires_at = NULL]

DoneRow(r) == [r EXCEPT !.status = "done",
                        !.summary = "json",
                        !.locked_by = NULL,
                        !.lease_expires_at = NULL,
                        !.error_msg = NULL]

\* mark_failure: the count, and what depends on can_retry.
CountedFailure(r, canRetry) ==
    [r EXCEPT !.retry_count = @ + 1,
              !.error_msg = "error",
              !.locked_by = NULL,
              !.lease_expires_at = NULL,
              !.status = IF canRetry THEN "pending" ELSE "failed",
              !.next_retry_at = IF canRetry THEN 2^(r.retry_count + 1) ELSE @]

FailureRow_Unbounded(r) == CountedFailure(r, TRUE)
FailureRow_OneLess(r) == CountedFailure(r, r.retry_count + 1 < MaxRetries)
FailureRow_KeepsLock(r) ==
    [CountedFailure(r, r.retry_count + 1 <= MaxRetries)
        EXCEPT !.locked_by = r.locked_by]

FailureRow(r) == CountedFailure(r, r.retry_count + 1 <= MaxRetries)

\* requeue_failed, the manual retry: everything but the identity is reset.
Requeueable(r) == r.status = "failed"

RequeuedRow(r) == NewRow(0)

\* reclaim_in_flight: expired leases, and at start-up this worker's own locks.
LeaseExpired_TooSoon(r) == r.lease_expires_at # NULL /\ r.lease_expires_at <= 0

LeaseExpired(r) == r.lease_expires_at # NULL /\ r.lease_expires_at < 0

Reclaimable_OwnAlways(r, id, ownLocks) ==
    r.status \in InFlight /\ (LeaseExpired(r) \/ LockedBy(r, id))

Reclaimable_OwnOnly(r, id, ownLocks) ==
    r.status \in InFlight /\ ownLocks /\ LockedBy(r, id)

Reclaimable(r, id, ownLocks) ==
    /\ r.status \in InFlight
    /\ LeaseExpired(r) \/ (ownLocks /\ LockedBy(r, id))

\* reset_aborted, after a graceful shutdown cancelled the executor.
Abortable_Transcribing(r, id) == r.status = "transcribing" /\ LockedBy(r, id)

Abortable(r, id) == r.status \in InFlight /\ LockedBy(r, id)

\* What reclaim_in_flight and reset_aborted write.
ReleasedRow(r) == [r EXCEPT !.status = "pending",
                            !.error_msg = "error",
                            !.next_retry_at = 0,
                            !.locked_by = NULL,
                            !.lease_expires_at = NULL]

-----------------------------------------------------------------------------
\* One tick of the SQL clock.
AgeRow(r) ==
    [r EXCEPT !.next_retry_at = IF @ = 0 THEN 0 ELSE @ - 1,
              !.lease_expires_at = IF @ = NULL \/ @ = -1 THEN @ ELSE @ - 1]
=============================================================================
