-------------------------- MODULE TaskTableProofs ---------------------------
(***************************************************************************)
(* What the statements of TaskDao do to a row, for every lease, every      *)
(* number of retries and any worker ids: each keeps it well-formed.        *)
(* TaskPipelineProofs and WorkerIdentityProofs rest on these lemmas.       *)
(***************************************************************************)
EXTENDS TaskTable, TLAPS

\* What LockIffInFlight, ResultsMatchStatus and RetryBudget say of one row;
\* and only a pending row waits for its next_retry_at.
RowOK(r) ==
    /\ r \in Row
    /\ r.locked_by # NULL <=> r.status \in InFlight
    /\ r.lease_expires_at # NULL <=> r.status \in InFlight
    /\ r.summary # NULL <=> r.status = "done"
    /\ r.status = "summarizing" => r.transcript # NULL
    /\ r.status = "done" => r.error_msg = NULL
    /\ r.status = "failed" => r.error_msg # NULL
    /\ r.status = "failed" <=> r.retry_count = MaxRetries + 1
    /\ r.status # "pending" => r.next_retry_at = 0

-----------------------------------------------------------------------------
(* The statements of TaskDao keep a row well-formed.                       *)

\* An inserted row is well-formed.
LEMMA NewRowOK == \A skew \in Nat : RowOK(NewRow(skew))
  BY NullAssumption, RetriesAssumption, SMT
     DEF RowOK, NewRow, Row, TaskStatus, InFlight, Terminal

\* A row behind the fence of a worker is in flight.
LEMMA LockedInFlight ==
    ASSUME NEW r, NEW id \in WorkerIds, RowOK(r), LockedBy(r, id)
    PROVE  r.status \in InFlight
  BY NullAssumption DEF RowOK, LockedBy

\* claim_pending turns a pending row into a locked, leased one.
LEMMA ClaimRowOK ==
    ASSUME NEW r, NEW id \in WorkerIds, RowOK(r), Claimable(r)
    PROVE  RowOK(ClaimRow(r, id))
  <1>. DEFINE q == ClaimRow(r, id)
  <1>1. r \in Row
    BY DEF RowOK
  <1>2. /\ q.status = "transcribing" /\ q.retry_count = r.retry_count
        /\ q.locked_by = id /\ q.next_retry_at = r.next_retry_at
        /\ q.lease_expires_at = LeaseSeconds /\ q.transcript = r.transcript
        /\ q.summary = r.summary /\ q.error_msg = r.error_msg
    BY <1>1, Zenon DEF Row, ClaimRow
  <1>3. LeaseSeconds \in (-1 .. LeaseSeconds) \cup {NULL}
    BY LeaseAssumption, SMT
  <1>4. q \in Row
    BY <1>1, <1>3, Zenon DEF Row, ClaimRow, TaskStatus, InFlight, Terminal
  <1>. HIDE DEF q
  <1>5. RowOK(q)
    BY <1>1, <1>2, <1>4, NullAssumption, RetriesAssumption, LeaseAssumption, SMT
       DEF RowOK, Claimable, InFlight
  <1>. QED
    BY <1>5 DEF q

\* renew_lease changes the lease of an in-flight row.
LEMMA RenewRowOK ==
    ASSUME NEW r, NEW id \in WorkerIds, RowOK(r), LockedBy(r, id)
    PROVE  RowOK(RenewRow(r))
  <1>. DEFINE q == RenewRow(r)
  <1>1. r \in Row /\ r.status \in InFlight
    BY LockedInFlight DEF RowOK
  <1>2. /\ q.status = r.status /\ q.retry_count = r.retry_count
        /\ q.locked_by = r.locked_by /\ q.next_retry_at = r.next_retry_at
        /\ q.lease_expires_at = LeaseSeconds /\ q.transcript = r.transcript
        /\ q.summary = r.summary /\ q.error_msg = r.error_msg
    BY <1>1, Zenon DEF Row, RenewRow
  <1>3. LeaseSeconds \in (-1 .. LeaseSeconds) \cup {NULL}
    BY LeaseAssumption, SMT
  <1>4. q \in Row
    BY <1>1, <1>3, Zenon DEF Row, RenewRow, TaskStatus, InFlight, Terminal
  <1>. HIDE DEF q
  <1>5. RowOK(q)
    BY <1>1, <1>2, <1>4, NullAssumption, RetriesAssumption, LeaseAssumption, SMT
       DEF RowOK, InFlight
  <1>. QED
    BY <1>5 DEF q

\* mark_summarizing stores the transcript with the status.
LEMMA SummarizingRowOK ==
    ASSUME NEW r, NEW id \in WorkerIds, RowOK(r), LockedBy(r, id)
    PROVE  RowOK(SummarizingRow(r))
  <1>. DEFINE q == SummarizingRow(r)
  <1>1. r \in Row /\ r.status \in InFlight
    BY LockedInFlight DEF RowOK
  <1>2. /\ q.status = "summarizing" /\ q.retry_count = r.retry_count
        /\ q.locked_by = r.locked_by /\ q.next_retry_at = r.next_retry_at
        /\ q.lease_expires_at = r.lease_expires_at /\ q.transcript = "text"
        /\ q.summary = r.summary /\ q.error_msg = r.error_msg
    BY <1>1, Zenon DEF Row, SummarizingRow
  <1>4. q \in Row
    BY <1>1, Zenon DEF Row, SummarizingRow, TaskStatus, InFlight, Terminal
  <1>. HIDE DEF q
  <1>5. RowOK(q)
    BY <1>1, <1>2, <1>4, NullAssumption, RetriesAssumption, LeaseAssumption, SMT
       DEF RowOK, InFlight
  <1>. QED
    BY <1>5 DEF q

\* mark_done stores the summary and clears lock, lease and error.
LEMMA DoneRowOK ==
    ASSUME NEW r, NEW id \in WorkerIds, RowOK(r), LockedBy(r, id)
    PROVE  RowOK(DoneRow(r))
  <1>. DEFINE q == DoneRow(r)
  <1>1. r \in Row /\ r.status \in InFlight
    BY LockedInFlight DEF RowOK
  <1>2. /\ q.status = "done" /\ q.retry_count = r.retry_count
        /\ q.locked_by = NULL /\ q.next_retry_at = r.next_retry_at
        /\ q.lease_expires_at = NULL /\ q.transcript = r.transcript
        /\ q.summary = "json" /\ q.error_msg = NULL
    BY <1>1, Zenon DEF Row, DoneRow
  <1>4. q \in Row
    BY <1>1, Zenon DEF Row, DoneRow, TaskStatus, InFlight, Terminal
  <1>. HIDE DEF q
  <1>5. RowOK(q)
    BY <1>1, <1>2, <1>4, NullAssumption, RetriesAssumption, LeaseAssumption, SMT
       DEF RowOK, InFlight
  <1>. QED
    BY <1>5 DEF q

\* mark_failure counts within the budget, because the row is in flight.
LEMMA FailureRowOK ==
    ASSUME NEW r, NEW id \in WorkerIds, RowOK(r), LockedBy(r, id)
    PROVE  RowOK(FailureRow(r))
  <1>. DEFINE n == r.retry_count + 1
              q == FailureRow(r)
  <1>1. r \in Row /\ r.status \in InFlight
    BY LockedInFlight DEF RowOK
  <1>2. r.retry_count \in 0 .. MaxRetries
    BY <1>1, RetriesAssumption, SMT DEF RowOK, Row, InFlight
  <1>3. n \in 0 .. MaxRetries + 1 /\ 2^n \in Nat
    BY <1>2, PowerAssumption, RetriesAssumption, SMT
  <1>. HIDE DEF n
  <1>4. q \in Row
    BY <1>1, <1>3, Zenon DEF n, Row, FailureRow, CountedFailure, TaskStatus, InFlight, Terminal
  <1>5. /\ q.status = (IF n <= MaxRetries THEN "pending" ELSE "failed")
        /\ q.retry_count = n /\ q.locked_by = NULL
        /\ q.lease_expires_at = NULL /\ q.summary = r.summary
        /\ q.error_msg = "error"
        /\ n <= MaxRetries \/ q.next_retry_at = r.next_retry_at
    BY <1>1, Zenon DEF n, Row, FailureRow, CountedFailure
  <1>. HIDE DEF q
  <1>6. RowOK(q)
    BY <1>1, <1>2, <1>4, <1>5, NullAssumption, RetriesAssumption, SMT
       DEF n, RowOK, InFlight
  <1>. QED
    BY <1>6 DEF q

\* reclaim_in_flight and reset_aborted put an in-flight row back, due at once.
LEMMA ReleasedRowOK ==
    ASSUME NEW r, RowOK(r), r.status \in InFlight
    PROVE  RowOK(ReleasedRow(r)) /\ Claimable(ReleasedRow(r))
  <1>. DEFINE q == ReleasedRow(r)
  <1>1. r \in Row
    BY DEF RowOK
  <1>2. /\ q.status = "pending" /\ q.retry_count = r.retry_count
        /\ q.locked_by = NULL /\ q.next_retry_at = 0
        /\ q.lease_expires_at = NULL /\ q.transcript = r.transcript
        /\ q.summary = r.summary /\ q.error_msg = "error"
    BY <1>1, Zenon DEF Row, ReleasedRow
  <1>3. 0 \in Nat
    BY SMT
  <1>4. q \in Row
    BY <1>1, <1>3, Zenon DEF Row, ReleasedRow, TaskStatus, InFlight, Terminal
  <1>. HIDE DEF q
  <1>5. RowOK(q) /\ Claimable(q)
    BY <1>1, <1>2, <1>4, NullAssumption, RetriesAssumption, LeaseAssumption, SMT
       DEF RowOK, Claimable, InFlight
  <1>. QED
    BY <1>5 DEF q

\* The passage of time touches only the two instants.
LEMMA AgeRowOK ==
    ASSUME NEW r, RowOK(r)
    PROVE  RowOK(AgeRow(r))
  <1>. DEFINE retry == IF r.next_retry_at = 0 THEN 0 ELSE r.next_retry_at - 1
              lease == IF r.lease_expires_at = NULL \/ r.lease_expires_at = -1
                       THEN r.lease_expires_at ELSE r.lease_expires_at - 1
              q == AgeRow(r)
  <1>1. r \in Row
    BY DEF RowOK
  <1>2. retry \in Nat
    BY <1>1, SMT DEF Row
  <1>3. /\ lease \in (-1 .. LeaseSeconds) \cup {NULL}
        /\ lease = NULL <=> r.lease_expires_at = NULL
        /\ r.next_retry_at = 0 => retry = 0
    BY <1>1, NullAssumption, LeaseAssumption, SMT DEF Row
  <1>4. q = [r EXCEPT !.next_retry_at = retry, !.lease_expires_at = lease]
    BY DEF AgeRow
  <1>. HIDE DEF retry, lease, q
  <1>5. q \in Row
    BY <1>1, <1>2, <1>3, <1>4, Zenon DEF Row
  <1>6. /\ q.status = r.status /\ q.retry_count = r.retry_count
        /\ q.locked_by = r.locked_by /\ q.next_retry_at = retry
        /\ q.lease_expires_at = lease
        /\ q.transcript = r.transcript /\ q.summary = r.summary
        /\ q.error_msg = r.error_msg
    BY <1>1, <1>4, Zenon DEF Row
  <1>7. RowOK(q)
    BY <1>3, <1>5, <1>6, Zenon DEF RowOK
  <1>. QED
    BY <1>7 DEF q

\* Nothing but its deletion finds a done row: it is not locked, so no fence
\* lets an executor through; it is not in flight, so no reclaim or shutdown
\* releases it; it is neither pending nor failed; and no clock runs on it.
LEMMA DoneUntouched ==
    ASSUME NEW r, RowOK(r), r.status = "done"
    PROVE  /\ \A id \in WorkerIds : ~LockedBy(r, id)
           /\ \A id, own : ~Reclaimable(r, id, own) /\ ~Abortable(r, id)
           /\ ~Claimable(r) /\ ~Requeueable(r)
           /\ AgeRow(r) = r
  <1>1. /\ r \in Row
        /\ r.locked_by = NULL /\ r.lease_expires_at = NULL
        /\ r.next_retry_at = 0
    BY DEF RowOK, InFlight
  <1>2. AgeRow(r) = [r EXCEPT !.next_retry_at = r.next_retry_at,
                              !.lease_expires_at = r.lease_expires_at]
    BY <1>1 DEF AgeRow
  <1>3. AgeRow(r) = r
    BY <1>1, <1>2, Zenon DEF Row
  <1>. QED
    BY <1>1, <1>3, NullAssumption
       DEF LockedBy, Reclaimable, Abortable, Claimable, Requeueable, InFlight
=============================================================================
