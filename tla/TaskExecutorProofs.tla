------------------------- MODULE TaskExecutorProofs -------------------------
(***************************************************************************)
(* Proofs about the executors of TaskPipeline.                             *)
(*                                                                         *)
(* 1. As long as renewals are punctual and do not raise, and every process *)
(* has a worker id of its own, one executor per task passes the fence,     *)
(* whatever crashes, shuts down, rolls back or is not acknowledged.  The   *)
(* fence compares worker ids, so this is not a local fact.  It follows     *)
(* from an invariant of all executors, PInv: one that may still write      *)
(* holds its task under a lease that has not expired, unless the task is   *)
(* over; so nobody reclaims the task, nobody claims it a second time, and  *)
(* its row is in the stage the executor thinks it is in.                   *)
(*                                                                         *)
(* 2. Under every fault, a process that is gone holds no task it had no    *)
(* accident with (TaskShutdown).  The invariant is SInv: the lock of such  *)
(* a task is in the hands of its one executor, which running_tasks has     *)
(* under its key, or of the shutdown that cancelled it.                    *)
(***************************************************************************)
EXTENDS TaskPipelineProofs, TaskShutdown

\* Renewals are in time, they do not raise, and worker ids are distinct.
Punctual ==
    /\ "stall" \notin Faults /\ "renew_error" \notin Faults
    /\ \A i, j \in Instances : WorkerId[i] = WorkerId[j] => i = j

\* Done or deleted: no executor passes the fence of this task again.
Over(t) == life[t] = "deleted" \/ (Stored(t) /\ rows[t].status = "done")

ExecutorOK(i, t, k) ==
    /\ ka[i][t][k] # "dead"
    /\ ka[i][t][k] # "none" => Active(i, t, k)
    /\ ka[i][t][k] = "lost" => Over(t)
    /\ Active(i, t, k) => up[i] # "down" /\ (Holds(i, t) \/ Over(t))
    /\ Active(i, t, k) /\ Holds(i, t) =>
         /\ ~LeaseExpired(rows[t])
         /\ pc[i][t][k] \in {"check", "renew", "load", "asr", "transcribed"}
              => rows[t].status = "transcribing"
         /\ pc[i][t][k] \in {"llm", "summarized"}
              => rows[t].status = "summarizing"

AllExecutors ==
    \A i \in Instances, t \in TaskIds, k \in Gens : ExecutorOK(i, t, k)

OneExecutor ==
    \A i \in Instances, t \in TaskIds, k, l \in Gens :
        Holds(i, t) /\ Active(i, t, k) /\ Active(i, t, l) => k = l

PInv == IInv /\ AllExecutors /\ OneExecutor /\ DoneHasTranscript

-----------------------------------------------------------------------------
(* Who may be at work on a task.                                           *)

\* A task that is held is in flight, hence not over.
LEMMA HeldNotOver ==
    ASSUME IInv, NEW i \in Instances, NEW t \in TaskIds, Holds(i, t)
    PROVE  rows[t].status \in InFlight /\ ~Over(t)
  <1>1. RowOK(rows[t]) /\ LockedBy(rows[t], WorkerId[i]) /\ life[t] = "stored"
    BY DEF Holds, Stored, IInv, RowInv
  <1>2. rows[t].status \in InFlight
    BY <1>1, LockedInFlight, WorkerIdType
  <1>. QED
    BY <1>1, <1>2 DEF Over, InFlight

\* The executor behind the fence is the only one that may still write.
LEMMA Alone ==
    ASSUME Punctual, PInv, NEW i \in Instances, NEW t \in TaskIds, NEW k \in Gens,
           Holds(i, t), Active(i, t, k),
           NEW j \in Instances, NEW l \in Gens, Active(j, t, l)
    PROVE  j = i /\ l = k
  <1>1. ~Over(t)
    BY HeldNotOver DEF PInv
  <1>2. Holds(j, t)
    BY <1>1 DEF PInv, AllExecutors, ExecutorOK
  <1>3. j = i
    BY <1>2 DEF Punctual, Holds, LockedBy
  <1>. QED
    BY <1>3 DEF PInv, OneExecutor

\* Nobody is at work on a task that is claimable, requeueable, without a row,
\* or whose lease has expired.
LEMMA Untaken ==
    ASSUME PInv, NEW t \in TaskIds, NEW j \in Instances, NEW l \in Gens,
           \/ life[t] = "unborn"
           \/ Stored(t) /\ rows[t].status \in {"pending", "failed"}
           \/ Stored(t) /\ rows[t].status \in InFlight /\ LeaseExpired(rows[t])
    PROVE  ~Active(j, t, l)
  <1>1. ~Over(t)
    BY DEF Over, Stored, InFlight
  <1>2. ASSUME Active(j, t, l) PROVE FALSE
    <2>1. Holds(j, t) /\ ~LeaseExpired(rows[t])
      BY <1>1, <1>2 DEF PInv, AllExecutors, ExecutorOK
    <2>2. rows[t].status \in InFlight /\ life[t] = "stored"
      BY <2>1, HeldNotOver DEF PInv, Holds, Stored
    <2>. QED
      BY <2>1, <2>2 DEF InFlight
  <1>. QED
    BY <1>2

\* An executor that a step neither moves nor writes under is as it was.
LEMMA Undisturbed ==
    ASSUME NEW i \in Instances, NEW t \in TaskIds, NEW k \in Gens,
           ExecutorOK(i, t, k), pc'[i][t][k] = pc[i][t][k],
           ka'[i][t][k] = ka[i][t][k], up'[i] = up[i] \/ up'[i] # "down",
           life'[t] = life[t], rows'[t] = rows[t]
    PROVE  ExecutorOK(i, t, k)'
  BY DEF ExecutorOK, Active, Over, Holds, Stored

\* An executor that is not there has nothing to keep.
LEMMA IdleOK ==
    ASSUME NEW i \in Instances, NEW t \in TaskIds, NEW k \in Gens,
           pc'[i][t][k] \in {"free", "ended"}, ka'[i][t][k] = "none"
    PROVE  ExecutorOK(i, t, k)'
  BY DEF ExecutorOK, Active

LEMMA IdleKept ==
    ASSUME NEW i \in Instances, NEW t \in TaskIds, NEW k \in Gens,
           ExecutorOK(i, t, k), ~Active(i, t, k),
           pc'[i][t][k] = pc[i][t][k], ka'[i][t][k] = ka[i][t][k]
    PROVE  ExecutorOK(i, t, k)'
  BY IdleOK DEF ExecutorOK, Active

-----------------------------------------------------------------------------
(* What an executor's step does, to itself and to its row.                 *)

\* Reads, waits and refused writes: the table stays as it is.
Reads(i, t, k, next, lease) ==
    /\ rows' = rows
    /\ \/ next \in {"free", "ended"} /\ lease = "none"
       \/ Active(i, t, k) /\ next = "fail" /\ lease = "none"
       \/ pc[i][t][k] = "check" /\ next = "renew" /\ lease = "none"
       \/ /\ <<pc[i][t][k], next>> \in {<<"load", "asr">>, <<"asr", "transcribed">>,
                                        <<"llm", "summarized">>}
          /\ lease = ka[i][t][k]
       \/ /\ ~Holds(i, t) /\ ka[i][t][k] = "alive"
          /\ next = pc[i][t][k] /\ lease = "lost"

\* Writes that passed the fence.
Commits(i, t, k, next, lease) ==
    /\ Holds(i, t)
    /\ \/ /\ rows' = [rows EXCEPT ![t] = RenewRow(@)]
          /\ \/ pc[i][t][k] = "renew" /\ next = "load" /\ lease = "alive"
             \/ pc[i][t][k] = "renew" /\ next = "fail" /\ lease = "none"
             \/ ka[i][t][k] = "alive" /\ next = pc[i][t][k] /\ lease = "alive"
       \/ /\ pc[i][t][k] = "transcribed"
          /\ rows' = [rows EXCEPT ![t] = SummarizingRow(@)]
          /\ \/ next = "llm" /\ lease = ka[i][t][k]
             \/ next = "fail" /\ lease = "none"
       \/ /\ pc[i][t][k] = "summarized"
          /\ rows' = [rows EXCEPT ![t] = DoneRow(@)]
          /\ next \in {"ended", "fail"} /\ lease = "none"
       \/ /\ pc[i][t][k] = "fail"
          /\ rows' = [rows EXCEPT ![t] = FailureRow(@)]
          /\ next = "ended" /\ lease = "none"

Moves(i, t, k) ==
    \E next, lease :
        /\ Goto(i, t, k, next, lease)
        /\ Reads(i, t, k, next, lease) \/ Commits(i, t, k, next, lease)

LEMMA ExecutorMoves ==
    ASSUME Punctual, ControlOK, NEW i \in Instances, NEW t \in TaskIds, NEW k \in Gens,
           ExecutorStep(Faults, i, t, k)
    PROVE  Moves(i, t, k) /\ UNCHANGED <<life, up>>
  <1>1. UNCHANGED <<life, up>>
    BY DEF ExecutorStep, CheckClaim, FirstRenew, LoadRecording, MarkSummarizing,
       MarkDone, HandleFailure, RenewLoop, AsrDone, AsrFail, LlmDone, LlmFail,
       AbortLost, DoneCallback, Work, Mark, dbVars, loopVars
  <1>2. ASSUME NEW next, NEW lease, Goto(i, t, k, next, lease),
               Reads(i, t, k, next, lease) \/ Commits(i, t, k, next, lease)
        PROVE  Moves(i, t, k)
    BY <1>2 DEF Moves
  <1>3. ASSUME rows' = rows, Finish(i, t, k) PROVE Moves(i, t, k)
    BY <1>2, <1>3 DEF Finish, Reads
  <1>4. ASSUME rows' = rows, Raise(i, t, k), Active(i, t, k) PROVE Moves(i, t, k)
    BY <1>2, <1>4 DEF Raise, Reads
  <1>5. ASSUME NEW o, CheckClaim(i, t, k, o) PROVE Moves(i, t, k)
    <2>1. rows' = rows /\ Active(i, t, k)
      BY <1>5 DEF CheckClaim, dbVars, Active
    <2>2. ASSUME Goto(i, t, k, "renew", "none") PROVE Moves(i, t, k)
      BY <1>2, <1>5, <2>1, <2>2 DEF CheckClaim, Reads
    <2>. QED
      BY <1>3, <1>4, <1>5, <2>1, <2>2, Zenon DEF CheckClaim
  <1>6. ASSUME NEW o, FirstRenew(i, t, k, o) PROVE Moves(i, t, k)
    <2>1. Active(i, t, k) /\ pc[i][t][k] = "renew"
      BY <1>6 DEF FirstRenew, Active
    <2>2. ASSUME Holds(i, t), rows' = [rows EXCEPT ![t] = RenewRow(@)],
                 Raise(i, t, k) \/ Goto(i, t, k, "load", "alive")
          PROVE  Moves(i, t, k)
      BY <1>2, <2>1, <2>2 DEF Raise, Commits
    <2>3. CASE rows' = rows /\ ~(o = "ok" /\ Holds(i, t))
      BY <1>3, <1>4, <1>6, <2>1, <2>3, Zenon DEF FirstRenew
    <2>4. CASE Holds(i, t) /\ o # "db_error"
      BY <1>6, <2>2, <2>4, Zenon DEF FirstRenew
    <2>. QED
      BY <1>6, <2>3, <2>4 DEF FirstRenew
  <1>7. ASSUME RenewLoop(i, t, k, "ok") PROVE Moves(i, t, k)
    <2>1. /\ pc' = pc /\ ka[i][t][k] = "alive"
          /\ \/ /\ Holds(i, t) /\ rows' = [rows EXCEPT ![t] = RenewRow(@)] /\ ka' = ka
             \/ ~Holds(i, t) /\ rows' = rows /\ ka' = [ka EXCEPT ![i][t][k] = "lost"]
      BY <1>7 DEF RenewLoop
    <2>2. /\ pc = [pc EXCEPT ![i][t][k] = pc[i][t][k]]
          /\ ka = [ka EXCEPT ![i][t][k] = ka[i][t][k]]
      BY DEF ControlOK
    <2>3. CASE Holds(i, t)
      <3>1. Goto(i, t, k, pc[i][t][k], "alive")
        BY <2>1, <2>2, <2>3 DEF Goto
      <3>. QED
        BY <1>2, <2>1, <2>3, <3>1 DEF Commits
    <2>4. CASE ~Holds(i, t)
      <3>1. Goto(i, t, k, pc[i][t][k], "lost")
        BY <2>1, <2>2, <2>4 DEF Goto
      <3>. QED
        BY <1>2, <2>1, <2>4, <3>1 DEF Reads
    <2>. QED
      BY <2>3, <2>4
  <1>8. ASSUME NEW from \in {"load", "asr", "llm"}, Work(i, t, k, from, "fail")
        PROVE  Moves(i, t, k)
    BY <1>4, <1>8 DEF Work, Active, dbVars
  <1>9. ASSUME NEW from, NEW next, Work(i, t, k, from, next),
               <<from, next>> \in {<<"load", "asr">>, <<"asr", "transcribed">>,
                                   <<"llm", "summarized">>}
        PROVE  Moves(i, t, k)
    <2>1. rows' = rows /\ pc[i][t][k] = from /\ Goto(i, t, k, next, ka[i][t][k])
      BY <1>9 DEF Work, dbVars
    <2>. QED
      BY <1>2, <1>9, <2>1 DEF Reads
  <1>10. ASSUME NEW o, LoadRecording(i, t, k, o) PROVE Moves(i, t, k)
    BY <1>8, <1>9, <1>10 DEF LoadRecording
  <1>11. ASSUME \/ AsrDone(i, t, k) \/ AsrFail(i, t, k)
                \/ LlmDone(i, t, k) \/ LlmFail(i, t, k)
         PROVE  Moves(i, t, k)
    BY <1>8, <1>9, <1>11 DEF AsrDone, AsrFail, LlmDone, LlmFail
  <1>12. ASSUME NEW o, NEW from, from \notin {"free", "ended"}, NEW new, NEW next,
                NEW lease, Mark(i, t, k, o, from, new, next, lease)
         PROVE  \/ Moves(i, t, k)
                \/ /\ Holds(i, t) /\ rows' = [rows EXCEPT ![t] = new]
                   /\ pc[i][t][k] = from
                   /\ Goto(i, t, k, next, lease) \/ Raise(i, t, k)
    <2>1. pc[i][t][k] = from /\ Active(i, t, k)
      BY <1>12 DEF Mark, Active
    <2>. QED
      BY <1>3, <1>4, <1>12, <2>1, Zenon DEF Mark
  <1>13. ASSUME NEW o, MarkSummarizing(i, t, k, o) PROVE Moves(i, t, k)
    <2>1. ASSUME Holds(i, t), rows' = [rows EXCEPT ![t] = SummarizingRow(@)],
                 pc[i][t][k] = "transcribed",
                 Goto(i, t, k, "llm", ka[i][t][k]) \/ Raise(i, t, k)
          PROVE  Moves(i, t, k)
      BY <1>2, <2>1 DEF Raise, Commits
    <2>. QED
      BY <1>12, <1>13, <2>1 DEF MarkSummarizing
  <1>14. ASSUME NEW o, MarkDone(i, t, k, o) PROVE Moves(i, t, k)
    <2>1. ASSUME Holds(i, t), rows' = [rows EXCEPT ![t] = DoneRow(@)],
                 pc[i][t][k] = "summarized",
                 Goto(i, t, k, "ended", "none") \/ Raise(i, t, k)
          PROVE  Moves(i, t, k)
      BY <1>2, <2>1 DEF Raise, Commits
    <2>. QED
      BY <1>12, <1>14, <2>1 DEF MarkDone
  <1>15. ASSUME NEW o, HandleFailure(i, t, k, o) PROVE Moves(i, t, k)
    BY <1>2, <1>3, <1>15 DEF HandleFailure, Commits, Finish
  <1>16. AbortLost(i, t, k) => Moves(i, t, k)
    BY <1>3 DEF AbortLost, dbVars
  <1>17. DoneCallback(i, t, k) => Moves(i, t, k)
    BY <1>2 DEF DoneCallback, Reads, dbVars
  <1>18. RenewOutcomes(Faults) = {"ok"}
    BY DEF Punctual, RenewOutcomes
  <1>. QED
    BY <1>1, <1>5, <1>6, <1>7, <1>10, <1>11, <1>13, <1>14, <1>15, <1>16, <1>17,
       <1>18, Zenon DEF ExecutorStep

\* The fields of the rows an executor writes.
LEMMA WrittenFields ==
    ASSUME NEW r, RowOK(r), NEW id \in WorkerIds, LockedBy(r, id)
    PROVE  /\ RenewRow(r).status = r.status
           /\ ~LeaseExpired(RenewRow(r))
           /\ RenewRow(r).locked_by = r.locked_by
           /\ SummarizingRow(r).status = "summarizing"
           /\ SummarizingRow(r).locked_by = r.locked_by
           /\ SummarizingRow(r).lease_expires_at = r.lease_expires_at
           /\ DoneRow(r).status = "done"
           /\ DoneRow(r).transcript = r.transcript
           /\ FailureRow(r).status \in {"pending", "failed"}
           /\ FailureRow(r).locked_by = NULL
  <1>. DEFINE n == r.retry_count + 1
  <1>1. /\ RenewRow(r).status = r.status
        /\ RenewRow(r).locked_by = r.locked_by
        /\ RenewRow(r).lease_expires_at = LeaseSeconds
        /\ SummarizingRow(r).status = "summarizing"
        /\ SummarizingRow(r).locked_by = r.locked_by
        /\ SummarizingRow(r).lease_expires_at = r.lease_expires_at
        /\ DoneRow(r).status = "done"
        /\ DoneRow(r).transcript = r.transcript
        /\ FailureRow(r).status = (IF n <= MaxRetries THEN "pending" ELSE "failed")
        /\ FailureRow(r).locked_by = NULL
    BY Zenon DEF RowOK, Row, RenewRow, SummarizingRow, DoneRow, FailureRow,
       CountedFailure
  <1>2. ~LeaseExpired(RenewRow(r))
    BY <1>1, LeaseAssumption DEF LeaseExpired
  <1>. QED
    BY <1>1, <1>2

LEMMA ExecutorPunctual ==
    ASSUME Punctual, PInv, NEW i \in Instances, NEW t \in TaskIds, NEW k \in Gens,
           ExecutorStep(Faults, i, t, k)
    PROVE  AllExecutors' /\ OneExecutor' /\ DoneHasTranscript'
  <1>1. UNCHANGED <<life, up>>
    BY ExecutorMoves DEF PInv, IInv
  <1>2. PICK next, lease :
           /\ Goto(i, t, k, next, lease)
           /\ Reads(i, t, k, next, lease) \/ Commits(i, t, k, next, lease)
    BY ExecutorMoves DEF PInv, IInv, Moves
  <1>3. /\ rows = [u \in TaskIds |-> rows[u]] /\ RowOK(rows[t])
        /\ ExecutorOK(i, t, k)
    BY DEF PInv, IInv, RowInv, AllExecutors
  <1>4. \A j \in Instances, u \in TaskIds, l \in Gens :
           /\ pc'[j][u][l] = (IF j = i /\ u = t /\ l = k THEN next ELSE pc[j][u][l])
           /\ ka'[j][u][l] = (IF j = i /\ u = t /\ l = k THEN lease ELSE ka[j][u][l])
    BY <1>2 DEF Goto, PInv, IInv, ControlOK
  <1>5. CASE Reads(i, t, k, next, lease)
    <2>1. rows' = rows
      BY <1>5 DEF Reads
    <2>2. next \notin {"free", "ended"} => Active(i, t, k)
      BY <1>3, <1>5 DEF Reads, Active, ExecutorOK
    <2>3. ExecutorOK(i, t, k)'
      <3>. USE DEF Active, Over, Holds, Stored
      <3>1. pc'[i][t][k] = next /\ ka'[i][t][k] = lease
        BY <1>4
      <3>2. CASE next \in {"free", "ended"} /\ lease = "none"
        BY <3>1, <3>2, IdleOK
      <3>3. CASE Active(i, t, k) /\ next = "fail" /\ lease = "none"
        BY <1>1, <1>3, <2>1, <3>1, <3>3 DEF ExecutorOK
      <3>4. CASE pc[i][t][k] = "check" /\ next = "renew" /\ lease = "none"
        BY <1>1, <1>3, <2>1, <3>1, <3>4 DEF ExecutorOK
      <3>5. CASE /\ <<pc[i][t][k], next>> \in {<<"load", "asr">>, <<"asr", "transcribed">>,
                                               <<"llm", "summarized">>}
                 /\ lease = ka[i][t][k]
        BY <1>1, <1>3, <2>1, <3>1, <3>5 DEF ExecutorOK
      <3>6. CASE /\ ~Holds(i, t) /\ ka[i][t][k] = "alive"
                 /\ next = pc[i][t][k] /\ lease = "lost"
        BY <1>1, <1>3, <2>1, <3>1, <3>6 DEF ExecutorOK
      <3>. QED
        BY <1>5, <3>2, <3>3, <3>4, <3>5, <3>6 DEF Reads
    <2>4. AllExecutors'
      <3>. SUFFICES ASSUME NEW j \in Instances, NEW u \in TaskIds, NEW l \in Gens
                    PROVE  ExecutorOK(j, u, l)'
        BY DEF AllExecutors
      <3>1. CASE j = i /\ u = t /\ l = k
        BY <2>3, <3>1
      <3>2. CASE ~(j = i /\ u = t /\ l = k)
        BY <1>1, <1>4, <2>1, <3>2, Undisturbed DEF PInv, AllExecutors
      <3>. QED
        BY <3>1, <3>2
    <2>5. OneExecutor'
      BY <1>1, <1>4, <2>1, <2>2 DEF PInv, OneExecutor, Active, Holds, Stored
    <2>. QED
      BY <2>1, <2>4, <2>5 DEF PInv, DoneHasTranscript
  <1>6. CASE Commits(i, t, k, next, lease)
    <2>1. Holds(i, t) /\ Active(i, t, k) /\ WorkerId[i] \in WorkerIds
      BY <1>3, <1>6, WorkerIdType DEF Commits, Active, ExecutorOK
    <2>2. /\ RowOK(rows[t]) /\ LockedBy(rows[t], WorkerId[i])
          /\ life[t] = "stored" /\ ~Over(t)
      BY <1>3, <2>1, HeldNotOver DEF Holds, Stored, PInv
    <2>. DEFINE r == rows[t]
    <2>3. /\ RenewRow(r).status = r.status
          /\ ~LeaseExpired(RenewRow(r))
          /\ RenewRow(r).locked_by = r.locked_by
          /\ SummarizingRow(r).status = "summarizing"
          /\ SummarizingRow(r).locked_by = r.locked_by
          /\ SummarizingRow(r).lease_expires_at = r.lease_expires_at
          /\ DoneRow(r).status = "done"
          /\ DoneRow(r).transcript = r.transcript
          /\ FailureRow(r).status \in {"pending", "failed"}
          /\ FailureRow(r).locked_by = NULL
      BY <2>1, <2>2, WrittenFields
    <2>4. /\ \A u \in TaskIds : u # t => rows'[u] = rows[u]
          /\ rows'[t] \in {RenewRow(r), SummarizingRow(r), DoneRow(r), FailureRow(r)}
      BY <1>3, <1>6 DEF Commits
    <2>5. ExecutorOK(i, t, k)'
      <3>. USE DEF Active, Over, Holds, Stored, LockedBy
      <3>1. pc'[i][t][k] = next /\ ka'[i][t][k] = lease
        BY <1>4
      <3>2. /\ Stored(t)' /\ up'[i] # "down" /\ lease \notin {"dead", "lost"}
        BY <1>1, <1>3, <1>6, <2>1, <2>2 DEF Commits, ExecutorOK
      <3>3. CASE rows' = [rows EXCEPT ![t] = RenewRow(@)]
                 /\ \/ pc[i][t][k] = "renew" /\ next = "load" /\ lease = "alive"
                    \/ pc[i][t][k] = "renew" /\ next = "fail" /\ lease = "none"
                    \/ ka[i][t][k] = "alive" /\ next = pc[i][t][k] /\ lease = "alive"
        <4>1. rows'[t] = RenewRow(r)
          BY <1>3, <3>3
        <4>. QED
          BY <1>3, <2>1, <2>2, <2>3, <3>1, <3>2, <3>3, <4>1 DEF ExecutorOK
      <3>4. CASE /\ pc[i][t][k] = "transcribed"
                 /\ rows' = [rows EXCEPT ![t] = SummarizingRow(@)]
                 /\ \/ next = "llm" /\ lease = ka[i][t][k]
                    \/ next = "fail" /\ lease = "none"
        <4>1. rows'[t] = SummarizingRow(r)
          BY <1>3, <3>4
        <4>. QED
          BY <1>3, <2>1, <2>2, <2>3, <3>1, <3>2, <3>4, <4>1
             DEF ExecutorOK, LeaseExpired
      <3>5. CASE /\ rows' = [rows EXCEPT ![t] = DoneRow(@)]
                 /\ next \in {"ended", "fail"} /\ lease = "none"
        <4>1. rows'[t] = DoneRow(r) /\ Over(t)'
          BY <1>3, <2>3, <3>2, <3>5
        <4>2. ~Holds(i, t)'
          <5>1. DoneRow(r).locked_by = NULL
            BY <2>2, Zenon DEF RowOK, Row, DoneRow
          <5>. QED
            BY <2>1, <4>1, <5>1, NullAssumption
        <4>. QED
          BY <3>1, <3>2, <3>5, <4>1, <4>2 DEF ExecutorOK
      <3>6. CASE next = "ended" /\ lease = "none"
        BY <3>1, <3>6, IdleOK
      <3>. QED
        BY <1>6, <3>3, <3>4, <3>5, <3>6 DEF Commits
    <2>6. ASSUME NEW j \in Instances, NEW u \in TaskIds, NEW l \in Gens,
                 ~(j = i /\ u = t /\ l = k)
          PROVE  ExecutorOK(j, u, l)' /\ (u = t => ~Active(j, u, l)')
      <3>1. /\ ExecutorOK(j, u, l)
            /\ pc'[j][u][l] = pc[j][u][l] /\ ka'[j][u][l] = ka[j][u][l]
        BY <1>4, <2>6 DEF PInv, AllExecutors
      <3>2. CASE u # t
        BY <1>1, <2>4, <3>1, <3>2, Undisturbed
      <3>3. CASE u = t
        <4>1. ~Active(j, t, l)
          BY <2>1, <2>6, <3>3, Alone
        <4>. QED
          BY <3>1, <3>3, <4>1, IdleKept DEF Active
      <3>. QED
        BY <3>2, <3>3
    <2>7. OneExecutor'
      <3>. SUFFICES ASSUME NEW j \in Instances, NEW u \in TaskIds,
                           NEW l \in Gens, NEW m \in Gens,
                           Holds(j, u)', Active(j, u, l)', Active(j, u, m)'
                    PROVE  l = m
        BY DEF OneExecutor
      <3>1. CASE u = t
        BY <2>6, <3>1
      <3>2. CASE u # t
        BY <1>1, <1>4, <2>4, <3>2 DEF PInv, OneExecutor, Active, Holds, Stored
      <3>. QED
        BY <3>1, <3>2
    <2>8. DoneHasTranscript'
      <3>1. rows'[t].status = "done" => rows'[t].transcript # NULL
        <4>1. r.status \in InFlight
          BY <2>1, HeldNotOver DEF PInv
        <4>2. CASE rows'[t] = DoneRow(r) /\ pc[i][t][k] = "summarized"
          BY <1>3, <2>1, <2>2, <2>3, <4>2 DEF ExecutorOK, RowOK
        <4>3. CASE rows'[t] # DoneRow(r)
          BY <2>3, <2>4, <4>1, <4>3 DEF InFlight
        <4>. QED
          BY <1>3, <1>6, <4>2, <4>3, <2>3, <4>1 DEF Commits, InFlight
      <3>. QED
        BY <2>4, <3>1 DEF PInv, DoneHasTranscript
    <2>. QED
      BY <2>5, <2>6, <2>7, <2>8 DEF AllExecutors
  <1>. QED
    BY <1>2, <1>5, <1>6

-----------------------------------------------------------------------------
(* The dispatcher, the worker, the HTTP operations and the clock.          *)

\* A row that a dispatcher or worker changes has no executor at work on it,
\* but for those a worker that shuts down gave up itself.
LEMMA SweptUntaken ==
    ASSUME Punctual, PInv, NEW i \in Instances, Sweeps(i),
           NEW t \in TaskIds, rows'[t] # rows[t],
           NEW j \in Instances, NEW l \in Gens, Active(j, t, l)
    PROVE  j = i /\ up[i] = "aborting"
  <1>1. Stored(t)
    BY DEF Sweeps, Released
  <1>2. \/ rows[t].status = "pending"
        \/ rows[t].status \in InFlight /\ LeaseExpired(rows[t])
        \/ /\ LockedBy(rows[t], WorkerId[i]) /\ up[i] \in {"down", "aborting"}
           /\ rows[t].status \in InFlight
    BY DEF Sweeps, Released, Reclaimable, Abortable, Claimable
  <1>3. LockedBy(rows[t], WorkerId[i]) /\ up[i] \in {"down", "aborting"}
    BY <1>1, <1>2, Untaken
  <1>4. ~Over(t)
    BY <1>1, <1>3, HeldNotOver DEF Holds, PInv
  <1>5. Holds(j, t) /\ up[j] # "down"
    BY <1>4 DEF PInv, AllExecutors, ExecutorOK
  <1>6. j = i
    BY <1>3, <1>5 DEF Holds, LockedBy, Punctual
  <1>. QED
    BY <1>3, <1>5, <1>6

\* A sweep never makes a task done.
LEMMA SweptNotDone ==
    ASSUME PInv, NEW i \in Instances, Sweeps(i) \/ UNCHANGED dbVars
    PROVE  DoneHasTranscript'
  <1>1. CASE UNCHANGED dbVars
    BY <1>1 DEF PInv, DoneHasTranscript, dbVars
  <1>2. CASE Sweeps(i)
    <2>. SUFFICES ASSUME NEW t \in TaskIds, rows'[t] # rows[t]
                  PROVE  rows'[t].status # "done"
      BY DEF PInv, DoneHasTranscript
    <2>1. RowOK(rows[t])
      BY DEF PInv, IInv, RowInv
    <2>2. ASSUME NEW r, r \in Row
          PROVE  ClaimRow(r, WorkerId[i]).status = "transcribing"
                 /\ ReleasedRow(r).status = "pending"
      BY <2>2, Zenon DEF Row, ClaimRow, ReleasedRow
    <2>3. rows[t].status \in InFlight => ReleasedRow(rows[t]) \in Row
      BY <2>1, ReleasedRowOK DEF RowOK
    <2>. QED
      BY <1>2, <2>1, <2>2, <2>3 DEF Sweeps, Reclaimable, RowOK
  <1>. QED
    BY <1>1, <1>2

\* The loop's claim: what it schedules is what it claimed.
LEMMA ClaimEffect ==
    ASSUME IInv, NEW i \in Instances, NEW o, NEW reclaim \in BOOLEAN, NEW skipped,
           DispatchClaim(i, o, reclaim, skipped)
    PROVE  /\ UNCHANGED <<life, up, ka>> /\ up[i] # "down"
           /\ \E S \in SUBSET TaskIds :
                 /\ Schedule(i, S) \/ (S = {} /\ pc' = pc)
                 /\ \A t \in S : /\ Stored(t)
                                 /\ \/ rows[t].status = "pending"
                                    \/ /\ rows[t].status \in InFlight
                                       /\ LeaseExpired(rows[t])
                                 /\ rows'[t].status = "transcribing"
                                 /\ rows'[t].locked_by = WorkerId[i]
                                 /\ rows'[t].lease_expires_at = LeaseSeconds
  <1>. DEFINE swept == IF reclaim THEN Reclaimed(i, FALSE) ELSE rows
              due == {t \in TaskIds : Stored(t) /\ Claimable(swept[t])}
              picked == Oldest(due \ skipped, batch[i])
              f == [t \in TaskIds |->
                      IF t \in picked THEN ClaimRow(swept[t], WorkerId[i])
                                      ELSE swept[t]]
  <1>1. picked \in SUBSET TaskIds /\ \A t \in picked : Stored(t) /\ Claimable(swept[t])
    BY DEF Oldest
  <1>2. /\ UNCHANGED <<life, up, ka>> /\ up[i] \in {"up", "draining"}
        /\ \/ o = "ok" /\ rows' = f /\ Schedule(i, picked)
           \/ pc' = pc
    BY DEF DispatchClaim
  <1>3. \A t \in TaskIds :
           /\ RowOK(swept[t])
           /\ \/ swept[t] = rows[t]
              \/ rows[t].status \in InFlight /\ LeaseExpired(rows[t])
    BY ReclaimedOK DEF IInv, RowInv, Reclaimed, Reclaimable
  <1>4. \A r \in Row : /\ ClaimRow(r, WorkerId[i]).status = "transcribing"
                       /\ ClaimRow(r, WorkerId[i]).locked_by = WorkerId[i]
                       /\ ClaimRow(r, WorkerId[i]).lease_expires_at = LeaseSeconds
    BY Zenon DEF Row, ClaimRow
  <1>5. CASE pc' = pc
    <2>1. {} \in SUBSET TaskIds /\ \A t \in {} : FALSE
      OBVIOUS
    <2>. QED
      BY <1>2, <1>5, <2>1, Zenon
  <1>. HIDE DEF swept, picked
  <1>6. CASE rows' = f /\ Schedule(i, picked)
    <2>1. ASSUME NEW t \in picked
          PROVE  /\ Stored(t)
                 /\ \/ rows[t].status = "pending"
                    \/ rows[t].status \in InFlight /\ LeaseExpired(rows[t])
                 /\ rows'[t].status = "transcribing"
                 /\ rows'[t].locked_by = WorkerId[i]
                 /\ rows'[t].lease_expires_at = LeaseSeconds
      <3>1. swept[t] \in Row /\ rows'[t] = ClaimRow(swept[t], WorkerId[i])
        BY <1>1, <1>3, <1>6 DEF RowOK
      <3>2. Stored(t) /\ swept[t].status = "pending" /\ t \in TaskIds
        BY <1>1 DEF Claimable
      <3>3. \/ rows[t].status = "pending"
            \/ rows[t].status \in InFlight /\ LeaseExpired(rows[t])
        BY <1>3, <3>2
      <3>4. /\ rows'[t].status = "transcribing"
            /\ rows'[t].locked_by = WorkerId[i]
            /\ rows'[t].lease_expires_at = LeaseSeconds
        BY <1>4, <3>1
      <3>. QED
        BY <3>2, <3>3, <3>4
    <2>. QED
      BY <1>1, <1>2, <1>6, <2>1
  <1>. QED
    BY <1>2, <1>5, <1>6

\* A process that is gone has no executors.
LEMMA ExitIdle ==
    ASSUME ControlOK, NEW i \in Instances, Exit(i)
    PROVE  /\ \A t \in TaskIds, k \in Gens :
                 pc'[i][t][k] = "free" /\ ka'[i][t][k] = "none"
           /\ \A j \in Instances : j # i =>
                 pc'[j] = pc[j] /\ ka'[j] = ka[j] /\ up'[j] = up[j]
  BY DEF ControlOK, Exit, NoExecutors, NoKeepalives

\* Steps that start no executor: each cell of pc and ka stays or is cleared.
Clears(j, t, l) ==
    \/ pc'[j][t][l] = pc[j][t][l] /\ ka'[j][t][l] = ka[j][t][l]
    \/ pc'[j][t][l] = "free" /\ ka'[j][t][l] = "none"

LEMMA NoneStarted ==
    ASSUME Punctual, PInv, NEW i \in Instances, UNCHANGED life,
           Sweeps(i) \/ UNCHANGED rows,
           \A j \in Instances : up'[j] = up[j] \/ up'[j] # "down"
              \/ \A t \in TaskIds, l \in Gens :
                    pc'[j][t][l] = "free" /\ ka'[j][t][l] = "none",
           \A j \in Instances, t \in TaskIds, l \in Gens : Clears(j, t, l),
           Sweeps(i) /\ up[i] = "aborting" =>
              \A t \in TaskIds, l \in Gens :
                 pc'[i][t][l] = "free" /\ ka'[i][t][l] = "none"
    PROVE  AllExecutors' /\ OneExecutor'
  <1>1. ASSUME NEW j \in Instances, NEW t \in TaskIds, NEW l \in Gens,
               ~(pc'[j][t][l] = "free" /\ ka'[j][t][l] = "none")
        PROVE  /\ ExecutorOK(j, t, l)'
               /\ Active(j, t, l)' => Active(j, t, l) /\ rows'[t] = rows[t]
    <2>1. /\ ExecutorOK(j, t, l)
          /\ pc'[j][t][l] = pc[j][t][l] /\ ka'[j][t][l] = ka[j][t][l]
          /\ up'[j] = up[j] \/ up'[j] # "down"
      BY <1>1 DEF Clears, PInv, AllExecutors
    <2>2. CASE rows'[t] = rows[t]
      BY <2>1, <2>2, Undisturbed DEF Active
    <2>3. CASE rows'[t] # rows[t]
      <3>1. ~Active(j, t, l)
        BY <1>1, <2>3, SweptUntaken
      <3>. QED
        BY <2>1, <3>1, IdleKept DEF Active
    <2>. QED
      BY <2>2, <2>3
  <1>2. AllExecutors'
    BY <1>1, IdleOK DEF AllExecutors
  <1>3. OneExecutor'
    BY <1>1 DEF PInv, OneExecutor, Active, Holds, Stored
  <1>. QED
    BY <1>2, <1>3

LEMMA ClaimPunctual ==
    ASSUME Punctual, PInv, NEW i \in Instances, NEW o, NEW reclaim \in BOOLEAN,
           NEW skipped, DispatchClaim(i, o, reclaim, skipped),
           Sweeps(i) \/ UNCHANGED dbVars
    PROVE  AllExecutors' /\ OneExecutor'
  <1>1. IInv /\ pc \in [Instances -> [TaskIds -> [Gens -> PC]]]
    BY DEF PInv, IInv, ControlOK
  <1>2. UNCHANGED <<life, up, ka>> /\ up[i] \in {"up", "draining"}
    BY DEF DispatchClaim
  <1>3. PICK S \in SUBSET TaskIds :
           /\ Schedule(i, S) \/ (S = {} /\ pc' = pc)
           /\ \A t \in S : /\ Stored(t)
                           /\ \/ rows[t].status = "pending"
                              \/ /\ rows[t].status \in InFlight
                                 /\ LeaseExpired(rows[t])
                           /\ rows'[t].status = "transcribing"
                           /\ rows'[t].locked_by = WorkerId[i]
                           /\ rows'[t].lease_expires_at = LeaseSeconds
    BY <1>1, ClaimEffect
  <1>4. \A t \in S, j \in Instances, l \in Gens : ~Active(j, t, l)
    BY <1>3, Untaken
  <1>5. ASSUME NEW t \in S
        PROVE  /\ FreeGen(i, t) \in Gens /\ pc[i][t][FreeGen(i, t)] = "free"
               /\ \A l \in Gens : pc'[i][t][l] =
                     IF l = FreeGen(i, t) THEN "check" ELSE pc[i][t][l]
    <2>1. Schedule(i, S)
      BY <1>3
    <2>2. FreeGen(i, t) \in Gens /\ pc[i][t][FreeGen(i, t)] = "free"
      BY <2>1 DEF Schedule, FreeGen
    <2>. QED
      BY <1>1, <2>1, <2>2 DEF Schedule
  <1>6. ASSUME NEW t \in TaskIds, NEW j \in Instances, NEW l \in Gens,
               j # i \/ t \notin S
        PROVE  pc'[j][t][l] = pc[j][t][l]
    BY <1>1, <1>3, <1>6 DEF Schedule
  <1>7. ASSUME NEW t \in TaskIds, NEW j \in Instances, NEW l \in Gens,
               pc'[j][t][l] = pc[j][t][l]
        PROVE  /\ ExecutorOK(j, t, l)'
               /\ Active(j, t, l)' => Active(j, t, l) /\ rows'[t] = rows[t]
    <2>1. ExecutorOK(j, t, l)
      BY DEF PInv, AllExecutors
    <2>2. CASE rows'[t] = rows[t]
      BY <1>2, <1>7, <2>1, <2>2, Undisturbed DEF Active
    <2>3. CASE rows'[t] # rows[t]
      <3>1. ~Active(j, t, l)
        BY <1>2, <2>3, SweptUntaken DEF dbVars
      <3>. QED
        BY <1>2, <1>7, <2>1, <3>1, IdleKept DEF Active
    <2>. QED
      BY <2>2, <2>3
  <1>8. ASSUME NEW t \in S, NEW k \in Gens, k = FreeGen(i, t)
        PROVE  ExecutorOK(i, t, k)'
    <2>1. pc'[i][t][k] = "check" /\ ka'[i][t][k] = "none"
      <3>1. ~Active(i, t, k) /\ ExecutorOK(i, t, k)
        BY <1>4 DEF PInv, AllExecutors
      <3>. QED
        BY <1>2, <1>5, <1>8, <3>1 DEF ExecutorOK
    <2>2. Holds(i, t)' /\ ~LeaseExpired(rows'[t]) /\ rows'[t].status = "transcribing"
      BY <1>2, <1>3, LeaseAssumption DEF Holds, Stored, LockedBy, LeaseExpired
    <2>. QED
      BY <1>2, <2>1, <2>2 DEF ExecutorOK, Active
  <1>9. AllExecutors'
    <2>. SUFFICES ASSUME NEW j \in Instances, NEW t \in TaskIds, NEW l \in Gens
                  PROVE  ExecutorOK(j, t, l)'
      BY DEF AllExecutors
    <2>. QED
      BY <1>5, <1>6, <1>7, <1>8
  <1>10. OneExecutor'
    <2>. SUFFICES ASSUME NEW j \in Instances, NEW t \in TaskIds,
                         NEW l \in Gens, NEW m \in Gens,
                         Holds(j, t)', Active(j, t, l)', Active(j, t, m)'
                  PROVE  l = m
      BY DEF OneExecutor
    <2>1. CASE j = i /\ t \in S
      BY <1>4, <1>5, <2>1 DEF Active
    <2>2. CASE ~(j = i /\ t \in S)
      <3>1. /\ Active(j, t, l) /\ Active(j, t, m) /\ rows'[t] = rows[t]
        BY <1>6, <1>7, <2>2
      <3>. QED
        BY <1>2, <3>1 DEF PInv, OneExecutor, Holds, Stored
    <2>. QED
      BY <2>1, <2>2
  <1>. QED
    BY <1>9, <1>10

LEMMA WorkerPunctual ==
    ASSUME Punctual, PInv, NEW i \in Instances, WorkerStep(Faults, i)
    PROVE  AllExecutors' /\ OneExecutor' /\ DoneHasTranscript'
  <1>1. ControlOK /\ (Sweeps(i) \/ UNCHANGED dbVars)
    BY WorkerEffect DEF PInv, IInv
  <1>2. DoneHasTranscript'
    BY <1>1, SweptNotDone
  <1>3. ASSUME NEW o, NEW reclaim \in BOOLEAN, NEW skipped,
               DispatchClaim(i, o, reclaim, skipped)
        PROVE  AllExecutors' /\ OneExecutor'
    BY <1>1, <1>3, ClaimPunctual
  <1>4. ASSUME UNCHANGED <<pc, ka, life>>, up[i] # "aborting",
               \A j \in Instances : up'[j] = up[j] \/ up'[j] # "down"
        PROVE  AllExecutors' /\ OneExecutor'
    BY <1>1, <1>4, NoneStarted DEF Clears, dbVars
  <1>5. ASSUME Exit(i), UNCHANGED life
        PROVE  AllExecutors' /\ OneExecutor'
    <2>1. /\ \A t \in TaskIds, k \in Gens :
                pc'[i][t][k] = "free" /\ ka'[i][t][k] = "none"
          /\ \A j \in Instances : j # i =>
                pc'[j] = pc[j] /\ ka'[j] = ka[j] /\ up'[j] = up[j]
      BY <1>1, <1>5, ExitIdle
    <2>2. \A j \in Instances, t \in TaskIds, l \in Gens : Clears(j, t, l)
      BY <2>1 DEF Clears
    <2>3. Sweeps(i) \/ UNCHANGED rows
      BY <1>1 DEF dbVars
    <2>4. ASSUME NEW j \in Instances
          PROVE  \/ up'[j] = up[j] \/ up'[j] # "down"
                 \/ \A t \in TaskIds, l \in Gens :
                       pc'[j][t][l] = "free" /\ ka'[j][t][l] = "none"
      BY <2>1
    <2>. QED
      BY <1>5, <2>1, <2>2, <2>3, <2>4, NoneStarted
  <1>6. DrainTimeout(i) => AllExecutors' /\ OneExecutor'
    <2>. SUFFICES ASSUME DrainTimeout(i) PROVE AllExecutors' /\ OneExecutor'
      OBVIOUS
    <2>1. /\ UNCHANGED <<life, rows>>
          /\ \A j \in Instances : up'[j] = up[j] \/ up'[j] # "down"
      BY <1>1 DEF DrainTimeout, dbVars, ControlOK
    <2>2. \A j \in Instances, t \in TaskIds, l \in Gens : Clears(j, t, l)
      BY <1>1 DEF DrainTimeout, Clears, ControlOK
    <2>3. up[i] # "aborting"
      BY DEF DrainTimeout
    <2>. QED
      BY <2>1, <2>2, <2>3, NoneStarted
  <1>7. DispatchBegin(i) \/ ReclaimOnly(i) \/ Stop(i) \/ (\E o : Start(i, o))
          => AllExecutors' /\ OneExecutor'
    BY <1>1, <1>4 DEF DispatchBegin, ReclaimOnly, Stop, Start, loopVars, dbVars, ControlOK
  <1>8. Crash(i) \/ Drained(i) \/ (\E o : ResetAborted(i, o))
          => AllExecutors' /\ OneExecutor'
    BY <1>5 DEF Crash, Drained, ResetAborted, dbVars
  <1>. QED
    BY <1>2, <1>3, <1>6, <1>7, <1>8 DEF WorkerStep

\* The HTTP operations write a row nobody is at work on, or end the task.
LEMMA ApiPunctual ==
    ASSUME PInv, NEW t \in TaskIds, ApiStep(t)
    PROVE  AllExecutors' /\ OneExecutor' /\ DoneHasTranscript'
  <1>1. /\ rows = [u \in TaskIds |-> rows[u]] /\ life = [u \in TaskIds |-> life[u]]
        /\ RowOK(rows[t])
    BY DEF PInv, IInv, ControlOK, RowInv
  <1>2. /\ UNCHANGED <<pc, ka, up>>
        /\ \A u \in TaskIds : u # t => rows'[u] = rows[u] /\ life'[u] = life[u]
    BY <1>1 DEF ApiStep, Upload, Requeue, Delete, loopVars
  <1>3. /\ rows'[t].status = "pending" /\ rows'[t].locked_by = NULL
        /\ \/ life'[t] = "deleted" /\ life[t] = "stored"
           \/ life[t] = "unborn"
           \/ Stored(t) /\ rows[t].status = "failed"
    BY <1>1 DEF ApiStep, Upload, Requeue, Delete, RequeuedRow, NewRow, Requeueable, Stored
  <1>4. ASSUME NEW j \in Instances, NEW u \in TaskIds, NEW l \in Gens
        PROVE  ExecutorOK(j, u, l)'
    <2>1. ExecutorOK(j, u, l)
      BY DEF PInv, AllExecutors
    <2>2. CASE u # t
      BY <1>2, <2>1, <2>2, Undisturbed
    <2>3. CASE u = t /\ life'[t] = "deleted"
      BY <1>2, <2>1, <2>3 DEF ExecutorOK, Active, Over, Holds, Stored
    <2>4. CASE u = t /\ life'[t] # "deleted"
      <3>1. ~Active(j, t, l)
        BY <1>3, <2>4, Untaken
      <3>. QED
        BY <1>2, <2>1, <2>4, <3>1, IdleKept
    <2>. QED
      BY <2>2, <2>3, <2>4
  <1>5. \A j \in Instances : ~Holds(j, t)'
    BY <1>3, WorkerIdType, NullAssumption DEF Holds, LockedBy
  <1>6. OneExecutor'
    BY <1>2, <1>5 DEF PInv, OneExecutor, Active, Holds, Stored
  <1>7. DoneHasTranscript'
    BY <1>2, <1>3 DEF PInv, DoneHasTranscript
  <1>. QED
    BY <1>4, <1>6, <1>7 DEF AllExecutors

\* No tick passes while an executor that holds its task must act: a lease
\* that still runs has at least the tick left that passes.
LEMMA TickPunctual ==
    ASSUME Punctual, PInv, Tick(Faults)
    PROVE  AllExecutors' /\ OneExecutor' /\ DoneHasTranscript'
  <1>1. /\ UNCHANGED <<life, pc, ka, up>>
        /\ \A t \in TaskIds : rows'[t] = AgeRow(rows[t]) /\ RowOK(rows[t])
        /\ \A i \in Instances, t \in TaskIds, k \in Gens : ~MustActNow(i, t, k)
    BY DEF Tick, loopVars, Punctual, PInv, IInv, RowInv
  <1>2. ASSUME NEW t \in TaskIds
        PROVE  /\ rows'[t].status = rows[t].status
               /\ rows'[t].locked_by = rows[t].locked_by
               /\ rows'[t].transcript = rows[t].transcript
               /\ rows'[t].lease_expires_at =
                    IF \/ rows[t].lease_expires_at = NULL
                       \/ rows[t].lease_expires_at = -1
                    THEN rows[t].lease_expires_at
                    ELSE rows[t].lease_expires_at - 1
    BY <1>1, Zenon DEF RowOK, Row, AgeRow
  <1>3. ASSUME NEW i \in Instances, NEW t \in TaskIds, NEW k \in Gens
        PROVE  ExecutorOK(i, t, k)'
    <2>1. ExecutorOK(i, t, k)
      BY DEF PInv, AllExecutors
    <2>2. ASSUME Active(i, t, k), Holds(i, t) PROVE ~LeaseExpired(rows'[t])
      <3>1. ~Over(t) /\ rows[t].status \in InFlight
        BY <2>2, HeldNotOver DEF PInv
      <3>2. ka[i][t][k] \in {"none", "alive"}
        BY <2>1, <3>1 DEF ExecutorOK, PInv, IInv, ControlOK, Keepalive
      <3>3. rows[t].lease_expires_at # 0
        BY <1>1, <2>2, <3>2 DEF MustActNow
      <3>4. rows[t].lease_expires_at \in -1 .. LeaseSeconds
        BY <1>1, <3>1 DEF RowOK, Row
      <3>5. ~(rows[t].lease_expires_at < 0)
        BY <2>1, <2>2, <3>4, NullAssumption DEF ExecutorOK, LeaseExpired
      <3>. QED
        BY <1>2, <3>3, <3>4, <3>5, LeaseAssumption, NullAssumption DEF LeaseExpired
    <2>. QED
      BY <1>1, <1>2, <2>1, <2>2 DEF ExecutorOK, Active, Over, Holds, Stored, LockedBy
  <1>4. OneExecutor'
    BY <1>1, <1>2 DEF PInv, OneExecutor, Active, Holds, Stored, LockedBy
  <1>5. DoneHasTranscript'
    BY <1>2 DEF PInv, DoneHasTranscript
  <1>. QED
    BY <1>3, <1>4, <1>5 DEF AllExecutors

-----------------------------------------------------------------------------
(* The theorems.                                                           *)

\* PInv holds in every reachable state of a pipeline with punctual renewals.
THEOREM PunctualInvariance == Punctual => (Spec => []PInv)
  <1>. SUFFICES ASSUME Punctual PROVE Spec => []PInv
    OBVIOUS
  <1>1. Init => PInv
    <2>1. Init => IInv
      BY InitRows, InitControl DEF IInv
    <2>. QED
      BY <2>1 DEF Init, PInv, AllExecutors, ExecutorOK, OneExecutor, Active,
         DoneHasTranscript, NoExecutors, NoKeepalives, NewRow
  <1>2. PInv /\ [Next]_vars => PInv'
    <2>. SUFFICES ASSUME PInv, [Next]_vars PROVE PInv'
      OBVIOUS
    <2>1. IInv'
      BY NextRows, NextControl DEF PInv, IInv
    <2>2. UNCHANGED vars => AllExecutors' /\ OneExecutor' /\ DoneHasTranscript'
      BY DEF vars, PInv, AllExecutors, ExecutorOK, OneExecutor, Active, Over,
         Holds, Stored, DoneHasTranscript
    <2>. QED
      BY <2>1, <2>2, ExecutorPunctual, WorkerPunctual, ApiPunctual, TickPunctual
         DEF Next, Steps, PInv
  <1>. QED
    BY <1>1, <1>2, PTL DEF Spec

\* At most one executor passes the fence of a task, whatever crashes, shuts
\* down or fails, as long as renewals are punctual and worker ids distinct.
THEOREM OneHolder == Punctual => (Spec => []SoleHolder)
  <1>. SUFFICES ASSUME Punctual PROVE Spec => []SoleHolder
    OBVIOUS
  <1>1. PInv => SoleHolder
    BY Alone DEF SoleHolder
  <1>. QED
    BY <1>1, PunctualInvariance, PTL

\* Under the same conditions no task is done without its transcript.
THEOREM TranscriptBeforeDone == Punctual => (Spec => []DoneHasTranscript)
  <1>. SUFFICES ASSUME Punctual PROVE Spec => []DoneHasTranscript
    OBVIOUS
  <1>1. PInv => DoneHasTranscript
    BY DEF PInv
  <1>. QED
    BY <1>1, PunctualInvariance, PTL

\* The body of StateMachine, of one task.
LegalChange(t) ==
    LET old == rows[t].status
        new == rows'[t].status
    IN  Stored(t) /\ life'[t] = "stored" /\ old # new =>
          \/ old = "pending" /\ new = "transcribing"
          \/ old = "transcribing" /\ new = "summarizing"
          \/ old = "summarizing" /\ new = "done"
          \/ old \in InFlight /\ new \in {"pending", "failed"}
          \/ old = "summarizing" /\ new = "transcribing"
             /\ LeaseExpired(rows[t])
          \/ old = "failed" /\ new = "pending"

LEMMA LegalStep ==
    ASSUME Punctual, PInv, [Next]_vars, NEW t \in TaskIds
    PROVE  LegalChange(t)
  <1>1. /\ RowOK(rows[t]) /\ IInv
        /\ rows = [u \in TaskIds |-> rows[u]] /\ life = [u \in TaskIds |-> life[u]]
    BY DEF PInv, IInv, RowInv, ControlOK
  <1>2. rows'[t].status = rows[t].status => LegalChange(t)
    BY DEF LegalChange
  <1>3. CASE UNCHANGED vars
    BY <1>2, <1>3 DEF vars
  <1>4. ASSUME NEW i \in Instances, NEW u \in TaskIds, NEW k \in Gens,
               ExecutorStep(Faults, i, u, k)
        PROVE  LegalChange(t)
    <2>1. PICK next, lease :
             Reads(i, u, k, next, lease) \/ Commits(i, u, k, next, lease)
      BY <1>1, <1>4, ExecutorMoves DEF IInv, Moves
    <2>2. CASE u # t \/ Reads(i, u, k, next, lease)
      BY <1>1, <1>2, <2>1, <2>2 DEF Reads, Commits
    <2>3. CASE u = t /\ Commits(i, u, k, next, lease)
      <3>1. /\ Holds(i, t) /\ LockedBy(rows[t], WorkerId[i])
            /\ ExecutorOK(i, t, k) /\ WorkerId[i] \in WorkerIds
        BY <2>3, WorkerIdType DEF Commits, Holds, PInv, AllExecutors
      <3>2. rows[t].status \in InFlight
        BY <1>1, <3>1, HeldNotOver
      <3>3. /\ RenewRow(rows[t]).status = rows[t].status
            /\ SummarizingRow(rows[t]).status = "summarizing"
            /\ DoneRow(rows[t]).status = "done"
            /\ FailureRow(rows[t]).status \in {"pending", "failed"}
        BY <1>1, <3>1, WrittenFields
      <3>4. \/ rows'[t] = RenewRow(rows[t])
            \/ /\ pc[i][t][k] = "transcribed"
               /\ rows'[t] = SummarizingRow(rows[t])
            \/ pc[i][t][k] = "summarized" /\ rows'[t] = DoneRow(rows[t])
            \/ rows'[t] = FailureRow(rows[t])
        BY <1>1, <2>3 DEF Commits
      <3>5. /\ pc[i][t][k] = "transcribed" => rows[t].status = "transcribing"
            /\ pc[i][t][k] = "summarized" => rows[t].status = "summarizing"
        BY <3>1 DEF ExecutorOK, Active
      <3>. QED
        BY <3>2, <3>3, <3>4, <3>5 DEF LegalChange
    <2>. QED
      BY <2>1, <2>2, <2>3
  <1>5. ASSUME NEW i \in Instances, WorkerStep(Faults, i) PROVE LegalChange(t)
    <2>1. CASE UNCHANGED dbVars
      BY <1>2, <2>1 DEF dbVars
    <2>2. CASE Sweeps(i)
      <3>1. ASSUME NEW r \in Row
            PROVE  /\ ClaimRow(r, WorkerId[i]).status = "transcribing"
                   /\ ReleasedRow(r).status = "pending"
        BY <3>1, Zenon DEF Row, ClaimRow, ReleasedRow
      <3>2. CASE Released(i, t) /\ rows'[t] = ReleasedRow(rows[t])
        BY <1>1, <3>1, <3>2
           DEF Released, Reclaimable, Abortable, RowOK, LegalChange
      <3>3. CASE Claimable(rows[t]) /\ rows'[t] = ClaimRow(rows[t], WorkerId[i])
        BY <1>1, <3>1, <3>3 DEF Claimable, RowOK, LegalChange
      <3>4. CASE /\ Reclaimable(rows[t], WorkerId[i], FALSE)
                 /\ rows'[t] = ClaimRow(ReleasedRow(rows[t]), WorkerId[i])
        <4>1. rows[t].status \in InFlight /\ LeaseExpired(rows[t])
          BY <3>4 DEF Reclaimable
        <4>2. ReleasedRow(rows[t]) \in Row
          BY <1>1, <4>1, ReleasedRowOK DEF RowOK
        <4>. QED
          BY <3>1, <3>4, <4>1, <4>2 DEF LegalChange, InFlight
      <3>. QED
        BY <1>2, <2>2, <3>2, <3>3, <3>4 DEF Sweeps
    <2>. QED
      BY <1>1, <1>5, <2>1, <2>2, WorkerEffect
  <1>6. ASSUME NEW u \in TaskIds, ApiStep(u) PROVE LegalChange(t)
    <2>1. CASE u # t
      BY <1>1, <1>2, <1>6, <2>1 DEF ApiStep, Upload, Requeue, Delete
    <2>2. CASE u = t
      BY <1>1, <1>6, <2>2 DEF ApiStep, Upload, Requeue, Delete, RequeuedRow,
         NewRow, Requeueable, Stored, LegalChange
    <2>. QED
      BY <2>1, <2>2
  <1>7. CASE Tick(Faults)
    <2>1. AgeRow(rows[t]).status = rows[t].status
      BY <1>1, Zenon DEF RowOK, Row, AgeRow
    <2>. QED
      BY <1>2, <1>7, <2>1 DEF Tick
  <1>. QED
    BY <1>3, <1>4, <1>5, <1>6, <1>7 DEF Next, Steps

\* Under the same conditions a task goes through its stages in order.
THEOREM StagesInOrder == Punctual => (Spec => StateMachine)
  <1>. SUFFICES ASSUME Punctual PROVE Spec => StateMachine
    OBVIOUS
  <1>1. PInv /\ [Next]_vars => [\A t \in TaskIds : LegalChange(t)]_vars
    BY LegalStep
  <1>2. Spec => [][\A t \in TaskIds : LegalChange(t)]_vars
    BY <1>1, PunctualInvariance, PTL DEF Spec
  <1>. QED
    BY <1>2 DEF StateMachine, LegalChange

-----------------------------------------------------------------------------
(* What a process leaves behind.                                           *)

\* Every process has a worker id of its own.
OwnId == \A i, j \in Instances : WorkerId[i] = WorkerId[j] => i = j

\* Of a task the process had no accident with.
Kept(i, t) ==
    /\ \A k \in Gens : pc[i][t][k] # "free" => running[i][t] = k
    /\ Holds(i, t) => \/ \E k \in Gens : Active(i, t, k)
                      \/ up[i] = "aborting" /\ t \in aborted[i]
    /\ up[i] = "aborting" => \A k \in Gens : ~Active(i, t, k)
    /\ \A k \in Gens :
          Holds(i, t) /\ Active(i, t, k) =>
             /\ ka[i][t][k] # "lost"
             /\ pc[i][t][k] = "check" => rows[t].status = "transcribing"

\* Only an executor at work has a keepalive, and no process that is down any.
Idle ==
    \A i \in Instances, t \in TaskIds, k \in Gens :
        /\ ka[i][t][k] # "none" => Active(i, t, k)
        /\ up[i] = "down" => pc[i][t][k] = "free"

SInv ==
    /\ IInv /\ Idle
    /\ excused \in [Instances -> SUBSET TaskIds]
    /\ \A i \in Instances : \A t \in TaskIds \ excused[i] : Kept(i, t)

\* The lock in the rows the statements write.
LEMMA LockFields ==
    ASSUME NEW r \in Row, NEW id
    PROVE  /\ ClaimRow(r, id).locked_by = id
           /\ ClaimRow(r, id).status = "transcribing"
           /\ ReleasedRow(r).locked_by = NULL
           /\ DoneRow(r).locked_by = NULL
           /\ FailureRow(r).locked_by = NULL
           /\ RenewRow(r).locked_by = r.locked_by
           /\ RenewRow(r).status = r.status
           /\ SummarizingRow(r).locked_by = r.locked_by
           /\ AgeRow(r).locked_by = r.locked_by
           /\ AgeRow(r).status = r.status
           /\ \A skew : NewRow(skew).locked_by = NULL
  BY Zenon DEF Row, ClaimRow, ReleasedRow, DoneRow, FailureRow, CountedFailure,
     RenewRow, SummarizingRow, AgeRow, NewRow

\* The step gives the process no lock, and leaves the stage of what it holds.
NotGained(i, t) ==
    Holds(i, t)' => Holds(i, t) /\ rows'[t].status = rows[t].status

\* A step of somebody else leaves what the process keeps.
LEMMA KeptStays ==
    ASSUME NEW i \in Instances, NEW t \in TaskIds, Kept(i, t), NotGained(i, t),
           UNCHANGED <<pc[i][t], ka[i][t], running[i][t], aborted[i]>>,
           up'[i] = up[i] \/ (up[i] # "aborting" /\ up'[i] # "aborting")
    PROVE  Kept(i, t)'
  BY DEF Kept, NotGained, Active

\* Nothing to keep: no executor and no lock.
LEMMA KeptNothing ==
    ASSUME NEW i \in Instances, NEW t \in TaskIds,
           \A k \in Gens : pc'[i][t][k] = "free", ~Holds(i, t)'
    PROVE  Kept(i, t)'
  BY DEF Kept, Active

\* The executors of other tasks and of other processes.
LEMMA OthersExecutor ==
    ASSUME OwnId, IInv, NEW i \in Instances, NEW t \in TaskIds, Kept(i, t),
           NEW j \in Instances, NEW u \in TaskIds, NEW k \in Gens,
           ExecutorStep(Faults, j, u, k), j # i \/ u # t
    PROVE  Kept(i, t)'
  <1>1. /\ ControlOK /\ rows = [x \in TaskIds |-> rows[x]]
        /\ rows[t] \in Row /\ WorkerId[i] \in WorkerIds
    BY WorkerIdType DEF IInv, RowInv, RowOK
  <1>2. /\ UNCHANGED <<up, aborted>>
        /\ UNCHANGED <<pc[i][t], ka[i][t], running[i][t]>>
    <2>1. /\ UNCHANGED <<up, aborted>>
          /\ running' = running \/ running' = [running EXCEPT ![j][u] = 0]
      BY DEF ExecutorStep, CheckClaim, FirstRenew, LoadRecording,
         MarkSummarizing, MarkDone, HandleFailure, RenewLoop, AsrDone, AsrFail,
         LlmDone, LlmFail, AbortLost, DoneCallback, Work, Mark, loopVars
    <2>2. \/ \E next, lease : Goto(j, u, k, next, lease)
          \/ pc' = pc /\ \E lease : ka' = [ka EXCEPT ![j][u][k] = lease]
          \/ pc' = pc /\ ka' = ka
      BY DEF ExecutorStep, CheckClaim, FirstRenew, LoadRecording,
         MarkSummarizing, MarkDone, HandleFailure, RenewLoop, AsrDone, AsrFail,
         LlmDone, LlmFail, AbortLost, DoneCallback, Work, Mark, Raise, Finish
    <2>3. /\ running \in [Instances -> [TaskIds -> Gens \cup {0}]]
          /\ pc \in [Instances -> [TaskIds -> [Gens -> PC]]]
          /\ ka \in [Instances -> [TaskIds -> [Gens -> Keepalive]]]
      BY <1>1 DEF ControlOK
    <2>4. running'[i][t] = running[i][t]
      BY <2>1, <2>3
    <2>5. \A next : [pc EXCEPT ![j][u][k] = next][i][t] = pc[i][t]
      BY <2>3
    <2>6. \A lease : [ka EXCEPT ![j][u][k] = lease][i][t] = ka[i][t]
      BY <2>3
    <2>. QED
      BY <2>1, <2>2, <2>4, <2>5, <2>6, Zenon DEF Goto
  <1>3. NotGained(i, t)
    <2>1. CASE UNCHANGED dbVars
      BY <2>1 DEF NotGained, dbVars, Holds, Stored
    <2>2. CASE Writes(j, u, k)
      <3>1. CASE u # t
        BY <1>1, <2>2, <3>1 DEF Writes, NotGained, Holds, Stored
      <3>2. CASE u = t
        <4>1. rows[t].locked_by # WorkerId[i] /\ life' = life
          BY <2>2, <3>2 DEF Writes, Holds, LockedBy, OwnId
        <4>2. rows'[t].locked_by \in {rows[t].locked_by, NULL}
          BY <1>1, <2>2, <3>2, LockFields DEF Writes
        <4>. QED
          BY <1>1, <4>1, <4>2, NullAssumption DEF NotGained, Holds, LockedBy
      <3>. QED
        BY <3>1, <3>2
    <2>. QED
      BY <2>1, <2>2, ExecutorEffect
  <1>. QED
    BY <1>2, <1>3, KeptStays

\* The one executor of the task moves on: it keeps the lock in its hands, or
\* there is none left to keep.
LEMMA KeptMoves ==
    ASSUME ControlOK, NEW i \in Instances, NEW t \in TaskIds, NEW k \in Gens,
           Kept(i, t), Active(i, t, k), NEW next, NEW lease,
           Goto(i, t, k, next, lease), UNCHANGED <<up, running, aborted>>,
           next \notin {"free", "check"},
           Holds(i, t)' => Holds(i, t) /\ next # "ended" /\ lease # "lost"
    PROVE  Kept(i, t)'
  <1>1. /\ pc'[i][t][k] = next /\ ka'[i][t][k] = lease
        /\ \A l \in Gens : l # k => pc'[i][t][l] = pc[i][t][l]
    BY DEF ControlOK, Goto
  <1>2. \A l \in Gens : l # k => pc[i][t][l] = "free"
    BY DEF Kept, Active
  <1>3. up[i] # "aborting" /\ running[i][t] = k
    BY DEF Kept, Active
  <1>. QED
    BY <1>1, <1>2, <1>3 DEF Kept, Active

\* A round of its renew loop.
LEMMA KeptRenews ==
    ASSUME IInv, NEW i \in Instances, NEW t \in TaskIds, NEW k \in Gens, NEW o,
           Kept(i, t), RenewLoop(i, t, k, o)
    PROVE  Kept(i, t)'
  <1>1. /\ rows[t] \in Row /\ rows = [x \in TaskIds |-> rows[x]]
        /\ ka \in [Instances -> [TaskIds -> [Gens -> Keepalive]]]
    BY DEF IInv, RowInv, RowOK, ControlOK
  <1>2. NotGained(i, t)
    BY <1>1, LockFields DEF RenewLoop, NotGained, Holds, Stored, LockedBy
  <1>3. \A l \in Gens : \/ ka'[i][t][l] = ka[i][t][l]
                        \/ ka'[i][t][l] = "dead"
                        \/ ka'[i][t][l] = "lost" /\ ~Holds(i, t)
    <2>1. \/ ka' = ka
          \/ ka' = [ka EXCEPT ![i][t][k] = "dead"]
          \/ ka' = [ka EXCEPT ![i][t][k] = "lost"] /\ ~Holds(i, t)
      BY DEF RenewLoop
    <2>2. \A l \in Gens, lease \in {"dead", "lost"} :
             [ka EXCEPT ![i][t][k] = lease][i][t][l] =
                IF l = k THEN lease ELSE ka[i][t][l]
      BY <1>1
    <2>. QED
      BY <2>1, <2>2, Zenon
  <1>. QED
    BY <1>2, <1>3 DEF Kept, NotGained, Active, RenewLoop, loopVars

\* The executor of the task itself.
LEMMA OwnExecutor ==
    ASSUME IInv, NEW i \in Instances, NEW t \in TaskIds, NEW k \in Gens,
           Kept(i, t), ExecutorStep(Faults, i, t, k), ~Accident(i, t)
    PROVE  Kept(i, t)'
  <1>1. /\ ControlOK /\ rows = [x \in TaskIds |-> rows[x]] /\ RowOK(rows[t])
        /\ rows[t] \in Row /\ WorkerId[i] \in WorkerIds
        /\ NULL # WorkerId[i]
    BY WorkerIdType, NullAssumption DEF IInv, RowInv, RowOK
  <1>2. ASSUME UNCHANGED <<up, running, aborted>>, Active(i, t, k),
               Holds(i, t)' => Holds(i, t),
               \/ Raise(i, t, k)
               \/ Finish(i, t, k) /\ ~Holds(i, t)'
               \/ \E next \in PC \ {"free", "check", "ended"} : \E lease :
                     Goto(i, t, k, next, lease) /\ lease # "lost"
        PROVE  Kept(i, t)'
    BY <1>1, <1>2, KeptMoves DEF Raise, Finish
  <1>3. ASSUME UNCHANGED dbVars PROVE Holds(i, t)' <=> Holds(i, t)
    BY <1>3 DEF dbVars, Holds, Stored
  <1>4. ASSUME NEW o, CheckClaim(i, t, k, o) PROVE Kept(i, t)'
    <2>1. Active(i, t, k) /\ UNCHANGED <<dbVars, loopVars>>
      BY <1>4 DEF CheckClaim, Active
    <2>2. Holds(i, t) => rows[t].status = "transcribing"
      BY <1>4, <2>1 DEF Kept, CheckClaim
    <2>3. \/ Raise(i, t, k) \/ Goto(i, t, k, "renew", "none")
          \/ Finish(i, t, k) /\ ~Holds(i, t)
      BY <1>4, <2>2 DEF CheckClaim
    <2>. QED
      BY <1>2, <1>3, <2>1, <2>3 DEF loopVars, PC
  <1>5. ASSUME NEW o, FirstRenew(i, t, k, o) PROVE Kept(i, t)'
    <2>1. Active(i, t, k) /\ UNCHANGED <<life, loopVars>>
      BY <1>5 DEF FirstRenew, Active
    <2>2. Holds(i, t)' <=> Holds(i, t)
      BY <1>1, <1>5, LockFields DEF FirstRenew, Holds, Stored, LockedBy
    <2>3. \/ Raise(i, t, k) \/ Goto(i, t, k, "load", "alive")
          \/ Finish(i, t, k) /\ ~Holds(i, t)
      BY <1>5 DEF FirstRenew
    <2>. QED
      BY <1>2, <2>1, <2>2, <2>3 DEF loopVars, PC
  <1>6. AbortLost(i, t, k) => Kept(i, t)'
    <2>. SUFFICES ASSUME AbortLost(i, t, k) PROVE Kept(i, t)'
      OBVIOUS
    <2>1. Active(i, t, k) /\ UNCHANGED <<dbVars, loopVars>> /\ Finish(i, t, k)
      BY DEF AbortLost, Active
    <2>2. ~Holds(i, t)
      BY <2>1 DEF AbortLost, Kept
    <2>. QED
      BY <1>2, <1>3, <2>1, <2>2 DEF loopVars
  <1>7. ASSUME NEW from \in {"load", "asr", "llm"},
               NEW next \in {"asr", "transcribed", "summarized", "fail"},
               Work(i, t, k, from, next)
        PROVE  Kept(i, t)'
    <2>1. Active(i, t, k) /\ UNCHANGED <<dbVars, loopVars>>
      BY <1>7 DEF Work, Active
    <2>2. Raise(i, t, k) \/ (Goto(i, t, k, next, ka[i][t][k]) /\ ka[i][t][k] # "lost")
      BY <1>7 DEF Work
    <2>. QED
      BY <1>2, <1>3, <2>1, <2>2 DEF loopVars, PC
  <1>8. ASSUME NEW o, MarkSummarizing(i, t, k, o), ka[i][t][k] # "lost" \/ ~Holds(i, t)
        PROVE  Kept(i, t)'
    <2>1. Active(i, t, k) /\ UNCHANGED <<life, loopVars>>
      BY <1>8 DEF MarkSummarizing, Mark, Active
    <2>2. Holds(i, t)' <=> Holds(i, t)
      BY <1>1, <1>8, LockFields DEF MarkSummarizing, Mark, Holds, Stored, LockedBy
    <2>3. \/ Raise(i, t, k)
          \/ Finish(i, t, k) /\ ~Holds(i, t)
          \/ Goto(i, t, k, "llm", ka[i][t][k]) /\ Holds(i, t)
      BY <1>8, Zenon DEF MarkSummarizing, Mark
    <2>. QED
      BY <1>2, <1>8, <2>1, <2>2, <2>3 DEF loopVars, PC
  <1>9. ASSUME NEW o, MarkDone(i, t, k, o) PROVE Kept(i, t)'
    <2>1. Active(i, t, k) /\ UNCHANGED <<life, loopVars>>
      BY <1>9 DEF MarkDone, Mark, Active
    <2>2. ASSUME Holds(i, t)' PROVE Holds(i, t) /\ rows' = rows
      BY <1>1, <1>9, <2>2, LockFields DEF MarkDone, Mark, Holds, Stored, LockedBy
    <2>3. \/ Raise(i, t, k)
          \/ Finish(i, t, k) /\ ~Holds(i, t)
          \/ Finish(i, t, k) /\ rows' = [rows EXCEPT ![t] = DoneRow(rows[t])]
      BY <1>9, Zenon DEF MarkDone, Mark, Finish
    <2>4. rows' = [rows EXCEPT ![t] = DoneRow(rows[t])] => ~Holds(i, t)'
      BY <1>1, LockFields DEF Holds, LockedBy
    <2>. QED
      BY <1>2, <2>1, <2>2, <2>3, <2>4 DEF loopVars
  <1>10. ASSUME NEW o, HandleFailure(i, t, k, o) PROVE Kept(i, t)'
    <2>1. /\ Active(i, t, k) /\ UNCHANGED <<life, loopVars>>
          /\ Finish(i, t, k) /\ pc[i][t][k] = "fail"
      BY <1>10 DEF HandleFailure, Active
    <2>2. ASSUME Holds(i, t)' PROVE FALSE
      <3>1. rows' # [rows EXCEPT ![t] = FailureRow(@)]
        BY <1>1, <2>2, LockFields DEF Holds, LockedBy
      <3>2. rows' = rows
        BY <1>10, <3>1 DEF HandleFailure
      <3>3. Holds(i, t)
        BY <2>1, <2>2, <3>2 DEF Holds, Stored
      <3>4. HandleFailure(i, t, k, "db_error") /\ ~HandleFailure(i, t, k, "ok")
        BY <2>1, <3>1, <3>2, <3>3 DEF HandleFailure
      <3>. QED
        BY <3>4 DEF Accident, FailureUnwritten
    <2>. QED
      BY <1>2, <2>1, <2>2 DEF loopVars
  <1>11. DoneCallback(i, t, k) => Kept(i, t)'
    <2>. SUFFICES ASSUME DoneCallback(i, t, k) PROVE Kept(i, t)'
      OBVIOUS
    <2>1. pc[i][t][k] = "ended" /\ UNCHANGED <<dbVars, up, aborted>>
      BY DEF DoneCallback
    <2>2. \A l \in Gens : l # k => pc[i][t][l] = "free"
      BY <2>1 DEF Kept
    <2>3. \A l \in Gens : pc'[i][t][l] = "free"
      BY <1>1, <2>2 DEF DoneCallback, Goto, ControlOK
    <2>. QED
      BY <1>3, <2>1, <2>2, <2>3 DEF Kept, Active
  <1>12. ASSUME NEW o, MarkSummarizing(i, t, k, o)
         PROVE  ka[i][t][k] # "lost" \/ ~Holds(i, t)
    BY <1>12 DEF MarkSummarizing, Mark, Kept, Active
  <1>. QED
    BY <1>4, <1>5, <1>6, <1>7, <1>8, <1>9, <1>10, <1>11, <1>12, KeptRenews, Zenon
       DEF ExecutorStep, LoadRecording, AsrDone, AsrFail, LlmDone, LlmFail

\* A sweep of the table gives the lock only to the process that makes it, and
\* to that one only by a claim.
LEMMA SweepGains ==
    ASSUME OwnId, IInv, NEW i \in Instances, NEW t \in TaskIds,
           NEW j \in Instances, WorkerStep(Faults, j),
           j # i \/ up[j] \notin {"up", "draining"}
    PROVE  NotGained(i, t)
  <1>1. /\ rows[t] \in Row /\ WorkerId[i] \in WorkerIds /\ NULL # WorkerId[i]
        /\ j # i => WorkerId[j] # WorkerId[i]
    BY WorkerIdType, NullAssumption DEF IInv, RowInv, RowOK, OwnId
  <1>2. CASE UNCHANGED dbVars
    BY <1>2 DEF dbVars, NotGained, Holds, Stored
  <1>3. CASE Sweeps(j)
    <2>1. /\ ReleasedRow(rows[t]).locked_by = NULL
          /\ ClaimRow(rows[t], WorkerId[j]).locked_by = WorkerId[j]
      BY <1>1, LockFields
    <2>2. rows[t].status \in InFlight => ReleasedRow(rows[t]) \in Row
      BY ReleasedRowOK DEF IInv, RowInv, RowOK
    <2>3. rows[t].status \in InFlight =>
             ClaimRow(ReleasedRow(rows[t]), WorkerId[j]).locked_by = WorkerId[j]
      BY <2>2, LockFields
    <2>4. \/ rows'[t] = rows[t]
          \/ rows'[t].locked_by = NULL
          \/ rows'[t].locked_by = WorkerId[j]
      BY <1>3, <2>1, <2>3 DEF Sweeps, Reclaimable
    <2>5. CASE j # i
      BY <1>1, <1>3, <2>4, <2>5 DEF Sweeps, NotGained, Holds, Stored, LockedBy
    <2>6. CASE up[j] \notin {"up", "draining"}
      <3>1. ASSUME NEW o, Start(j, o) \/ ResetAborted(j, o)
            PROVE  rows'[t] = rows[t] \/ rows'[t] = ReleasedRow(rows[t])
        BY <3>1 DEF Start, ResetAborted, Reclaimed, IInv, RowInv
      <3>2. Crash(j) => rows'[t] = rows[t]
        BY DEF Crash, dbVars
      <3>3. rows'[t] = rows[t] \/ rows'[t] = ReleasedRow(rows[t])
        BY <2>6, <3>1, <3>2 DEF WorkerStep, DispatchBegin, DispatchClaim,
           ReclaimOnly, Stop, Drained, DrainTimeout
      <3>. QED
        BY <1>1, <1>3, <2>1, <3>3 DEF Sweeps, NotGained, Holds, Stored, LockedBy
    <2>. QED
      BY <2>5, <2>6
  <1>. QED
    BY <1>2, <1>3, WorkerEffect

\* The dispatchers, starts, stops and crashes of other processes.
LEMMA OthersWorker ==
    ASSUME OwnId, IInv, NEW i \in Instances, NEW t \in TaskIds, Kept(i, t),
           NEW j \in Instances, WorkerStep(Faults, j), j # i
    PROVE  Kept(i, t)'
  <1>. DEFINE Same ==
         /\ up'[i] = up[i] /\ aborted'[i] = aborted[i]
         /\ pc'[i] = pc[i] /\ ka'[i] = ka[i] /\ running'[i] = running[i]
  <1>1. ControlOK
    BY DEF IInv
  <1>2. Same
    <2>1. ASSUME NEW o, NEW reclaim, NEW skipped,
                 DispatchClaim(j, o, reclaim, skipped)
          PROVE  Same
      BY <1>1, <2>1 DEF DispatchClaim, Schedule, ControlOK
    <2>2. Exit(j) => Same
      BY <1>1 DEF Exit, ControlOK
    <2>3. (\E o : Start(j, o)) \/ Stop(j) \/ DispatchBegin(j) \/ ReclaimOnly(j)
            => Same
      BY <1>1 DEF Start, Stop, DispatchBegin, ReclaimOnly, loopVars, ControlOK
    <2>4. DrainTimeout(j) => Same
      BY <1>1 DEF DrainTimeout, ControlOK
    <2>. HIDE DEF Same
    <2>. QED
      BY <2>1, <2>2, <2>3, <2>4 DEF WorkerStep, Crash, Drained, ResetAborted
  <1>. QED
    BY <1>2, SweepGains, KeptStays

\* A claim of the process itself, of this task or of others.
LEMMA OwnClaim ==
    ASSUME IInv, Idle, NEW i \in Instances, NEW t \in TaskIds, Kept(i, t),
           NEW o, NEW reclaim \in BOOLEAN, NEW skipped,
           DispatchClaim(i, o, reclaim, skipped), ~Accident(i, t)
    PROVE  Kept(i, t)'
  <1>. DEFINE swept == IF reclaim THEN Reclaimed(i, FALSE) ELSE rows
              due == {u \in TaskIds : Stored(u) /\ Claimable(swept[u])}
              picked == Oldest(due \ skipped, batch[i])
              f == [u \in TaskIds |->
                      IF u \in picked THEN ClaimRow(swept[u], WorkerId[i])
                                      ELSE swept[u]]
  <1>1. /\ ControlOK /\ RowOK(rows[t]) /\ rows[t] \in Row
        /\ WorkerId[i] # NULL
    BY WorkerIdType, NullAssumption DEF IInv, RowInv, RowOK
  <1>2. /\ UNCHANGED <<life, up, ka, aborted>> /\ up[i] # "aborting"
        /\ batch[i] > 0 /\ batch'[i] = 0
        /\ \/ rows' = rows /\ UNCHANGED <<pc, running>>
           \/ rows' = f /\ (Schedule(i, picked) \/ UNCHANGED <<pc, running>>)
    BY <1>1 DEF DispatchClaim, ControlOK
  <1>3. t \in picked => Stored(t) /\ Claimable(swept[t])
    BY DEF Oldest
  <1>4. /\ RowOK(swept[t])
        /\ \/ swept[t] = rows[t]
           \/ /\ rows[t].status \in InFlight /\ LeaseExpired(rows[t])
              /\ swept[t] = ReleasedRow(rows[t])
    BY <1>1, ReclaimedOK DEF IInv, RowInv, Reclaimed, Reclaimable
  <1>. HIDE DEF swept, picked
  <1>5. CASE rows' = rows /\ UNCHANGED <<pc, running>>
    BY <1>2, <1>5, KeptStays DEF NotGained, Holds, Stored
  <1>6. ASSUME rows' = f, t \notin picked,
               Schedule(i, picked) \/ UNCHANGED <<pc, running>>
        PROVE  Kept(i, t)'
    <2>1. pc'[i][t] = pc[i][t] /\ running'[i][t] = running[i][t]
      BY <1>1, <1>6 DEF Schedule, ControlOK
    <2>2. ReleasedRow(rows[t]).locked_by = NULL
      BY <1>1, LockFields
    <2>3. NotGained(i, t)
      BY <1>1, <1>2, <1>4, <1>6, <2>2 DEF NotGained, Holds, Stored, LockedBy
    <2>. QED
      BY <1>2, <2>1, <2>3, KeptStays
  <1>7. ASSUME rows' = f, t \in picked,
               Schedule(i, picked) \/ UNCHANGED <<pc, running>>
        PROVE  Kept(i, t)'
    <2>1. /\ rows'[t].locked_by = WorkerId[i]
          /\ rows'[t].status = "transcribing"
          /\ rows'[t].lease_expires_at = LeaseSeconds
      <3>1. rows'[t] = ClaimRow(swept[t], WorkerId[i]) /\ swept[t] \in Row
        BY <1>4, <1>7 DEF RowOK
      <3>2. ClaimRow(swept[t], WorkerId[i]).lease_expires_at = LeaseSeconds
        BY <3>1, Zenon DEF ClaimRow, Row
      <3>. QED
        BY <3>1, <3>2, LockFields
    <2>2. rows'[t] # rows[t]
      <3>1. CASE swept[t] = rows[t]
        BY <1>3, <1>7, <2>1, <3>1 DEF Claimable
      <3>2. CASE LeaseExpired(rows[t])
        BY <2>1, <3>2, LeaseAssumption DEF LeaseExpired
      <3>. QED
        BY <1>4, <3>1, <3>2
    <2>3. Claims(i, t)
      BY <1>2, <1>3, <1>7, <2>1, <2>2 DEF Claims, Holds, Stored, LockedBy
    <2>4. pc'[i][t] # pc[i][t] /\ \A k \in Gens : pc[i][t][k] = "free"
      BY <2>3 DEF Accident, ClaimGoesWrong
    <2>5. Schedule(i, picked)
      BY <1>7, <2>4
    <2>. DEFINE n == FreeGen(i, t)
    <2>6. n \in Gens
      BY <1>7, <2>5 DEF Schedule, FreeGen
    <2>7. /\ running'[i][t] = n
          /\ \A k \in Gens : pc'[i][t][k] = IF k = n THEN "check" ELSE pc[i][t][k]
      BY <1>1, <1>7, <2>5, <2>6 DEF Schedule, ControlOK
    <2>8. \A k \in Gens : ka'[i][t][k] = "none"
      BY <1>2, <2>4 DEF Idle, Active
    <2>. HIDE DEF n
    <2>. QED
      BY <1>2, <2>1, <2>4, <2>6, <2>7, <2>8 DEF Kept, Active
  <1>. QED
    BY <1>2, <1>5, <1>6, <1>7

\* An orderly end of the process leaves no lock on the task.
LEMMA OrderlyEnd ==
    ASSUME IInv, NEW i \in Instances, NEW t \in TaskIds, Kept(i, t),
           Drained(i) \/ (\E o : o # "db_error" /\ ResetAborted(i, o))
    PROVE  ~Holds(i, t)'
  <1>1. /\ ControlOK /\ RowOK(rows[t]) /\ rows[t] \in Row
        /\ WorkerId[i] \in WorkerIds /\ WorkerId[i] # NULL
    BY WorkerIdType, NullAssumption DEF IInv, RowInv, RowOK
  <1>2. CASE Drained(i)
    <2>. DEFINE keys == {u \in TaskIds : running[i][u] # 0}
    <2>1. IsFiniteSet(keys)
      BY TaskAssumption, FS_Subset
    <2>2. keys = {}
      BY <1>2, <2>1, FS_EmptySet DEF Drained, Inflight
    <2>3. \A k \in Gens : ~Active(i, t, k)
      BY <2>2, GensAssumption DEF Kept, Active
    <2>4. ~Holds(i, t) /\ UNCHANGED dbVars
      BY <1>2, <2>3 DEF Drained, Kept
    <2>. QED
      BY <2>4 DEF dbVars, Holds, Stored
  <1>3. ASSUME NEW o, o # "db_error", ResetAborted(i, o) PROVE ~Holds(i, t)'
    <2>1. /\ up[i] = "aborting" /\ life' = life
          /\ rows'[t] = IF t \in aborted[i] /\ Stored(t) /\ Abortable(rows[t], WorkerId[i])
                        THEN ReleasedRow(rows[t]) ELSE rows[t]
      BY <1>3 DEF ResetAborted
    <2>2. Holds(i, t) => t \in aborted[i] /\ Stored(t)
      BY <2>1 DEF Kept, Holds
    <2>3. Holds(i, t) => Abortable(rows[t], WorkerId[i])
      BY <1>1, LockedInFlight DEF Abortable, Holds
    <2>4. ReleasedRow(rows[t]).locked_by = NULL
      BY <1>1, LockFields
    <2>. QED
      BY <1>1, <2>1, <2>2, <2>3, <2>4 DEF Holds, Stored, LockedBy
  <1>. QED
    BY <1>2, <1>3

\* The timeout of the drain hands the locks over to reset_aborted.
LEMMA OwnTimeout ==
    ASSUME IInv, NEW i \in Instances, NEW t \in TaskIds, Kept(i, t),
           DrainTimeout(i)
    PROVE  Kept(i, t)'
  <1>. DEFINE pending == {u \in TaskIds :
                            \E k \in Gens : running[i][u] = k /\ Active(i, u, k)}
  <1>1. ControlOK
    BY DEF IInv
  <1>2. /\ up[i] = "draining" /\ up'[i] = "aborting" /\ UNCHANGED dbVars
        /\ aborted'[i] = pending
        /\ running'[i][t] = IF t \in pending THEN 0 ELSE running[i][t]
        /\ \A k \in Gens : pc'[i][t][k] =
              IF t \in pending /\ running[i][t] = k THEN "free" ELSE pc[i][t][k]
    BY <1>1 DEF DrainTimeout, ControlOK
  <1>3. \A k \in Gens : Active(i, t, k) => t \in pending /\ running[i][t] = k
    BY DEF Kept, Active
  <1>. HIDE DEF pending
  <1>4. \A k \in Gens : ~Active(i, t, k)'
    BY <1>2, <1>3 DEF Active
  <1>5. Holds(i, t)' => t \in aborted'[i]
    BY <1>2, <1>3 DEF Kept, Holds, Stored, dbVars
  <1>6. \A k \in Gens : pc'[i][t][k] # "free" => running'[i][t] = k
    BY <1>2 DEF Kept
  <1>. QED
    BY <1>2, <1>4, <1>5, <1>6 DEF Kept

\* Every step of the process's own dispatcher, start-up, shutdown and crash.
LEMMA OwnWorker ==
    ASSUME OwnId, IInv, Idle, NEW i \in Instances, NEW t \in TaskIds, Kept(i, t),
           WorkerStep(Faults, i), ~Accident(i, t)
    PROVE  Kept(i, t)'
  <1>1. /\ ControlOK /\ RowOK(rows[t]) /\ rows[t] \in Row
        /\ rows = [u \in TaskIds |-> rows[u]] /\ WorkerId[i] # NULL
    BY WorkerIdType, NullAssumption DEF IInv, RowInv, RowOK
  <1>2. ASSUME NEW o, NEW reclaim \in BOOLEAN, NEW skipped,
               DispatchClaim(i, o, reclaim, skipped)
        PROVE  Kept(i, t)'
    BY <1>2, OwnClaim
  <1>3. ASSUME DispatchBegin(i) \/ Stop(i) PROVE Kept(i, t)'
    BY <1>1, <1>3, KeptStays DEF DispatchBegin, Stop, ControlOK, dbVars,
       NotGained, Holds, Stored
  <1>4. ASSUME ReclaimOnly(i) PROVE Kept(i, t)'
    <2>1. ReleasedRow(rows[t]).locked_by = NULL
      BY <1>1, LockFields
    <2>2. life' = life /\ (rows'[t] = rows[t] \/ rows'[t] = ReleasedRow(rows[t]))
      BY <1>4 DEF ReclaimOnly, Reclaimed
    <2>3. NotGained(i, t)
      BY <1>1, <2>1, <2>2 DEF NotGained, Holds, Stored, LockedBy
    <2>. QED
      BY <1>4, <2>3, KeptStays DEF ReclaimOnly, loopVars
  <1>5. ASSUME NEW o, Start(i, o) PROVE Kept(i, t)'
    <2>1. NotGained(i, t)
      BY <1>5, SweepGains DEF Start
    <2>. QED
      BY <1>1, <1>5, <2>1, KeptStays DEF Start, ControlOK
  <1>6. ASSUME Exit(i), ~Holds(i, t)' PROVE Kept(i, t)'
    BY <1>1, <1>6, ExitIdle, KeptNothing
  <1>7. Drained(i) => Kept(i, t)'
    BY <1>6, OrderlyEnd DEF Drained
  <1>8. Crash(i) => Kept(i, t)'
    <2>. SUFFICES ASSUME Crash(i), Holds(i, t)' PROVE FALSE
      BY <1>6 DEF Crash
    <2>1. Holds(i, t)
      BY DEF Crash, dbVars, Holds, Stored
    <2>2. Drained(i) \/ ResetAborted(i, "ok")
      BY <2>1 DEF Accident, DiesHolding
    <2>. QED
      BY <2>2, OrderlyEnd
  <1>9. ASSUME NEW o, ResetAborted(i, o) PROVE Kept(i, t)'
    <2>1. CASE o # "db_error"
      BY <1>6, <1>9, <2>1, OrderlyEnd DEF ResetAborted
    <2>2. CASE o = "db_error"
      BY <1>1, <1>8, <1>9, <2>2 DEF ResetAborted, Crash, dbVars
    <2>. QED
      BY <2>1, <2>2
  <1>. QED
    BY <1>2, <1>3, <1>4, <1>5, <1>7, <1>8, <1>9, OwnTimeout DEF WorkerStep

\* The HTTP operations and the clock lock nothing.
LEMMA OthersKept ==
    ASSUME IInv, NEW i \in Instances, NEW t \in TaskIds, Kept(i, t),
           (\E u \in TaskIds : ApiStep(u)) \/ Tick(Faults)
    PROVE  Kept(i, t)'
  <1>1. /\ rows[t] \in Row /\ WorkerId[i] # NULL
        /\ rows = [u \in TaskIds |-> rows[u]] /\ life = [u \in TaskIds |-> life[u]]
    BY WorkerIdType, NullAssumption DEF IInv, RowInv, RowOK, ControlOK
  <1>2. UNCHANGED <<up, pc, ka, running, aborted>>
    BY DEF ApiStep, Upload, Requeue, Delete, Tick, loopVars
  <1>3. /\ AgeRow(rows[t]).locked_by = rows[t].locked_by
        /\ AgeRow(rows[t]).status = rows[t].status
        /\ \A skew : NewRow(skew).locked_by = NULL
    BY <1>1, LockFields
  <1>4. ASSUME NEW u \in TaskIds, ApiStep(u) PROVE NotGained(i, t)
    BY <1>1, <1>3, <1>4 DEF ApiStep, Upload, Requeue, RequeuedRow, Delete,
       NotGained, Holds, Stored, LockedBy
  <1>5. Tick(Faults) => NotGained(i, t)
    BY <1>1, <1>3 DEF Tick, NotGained, Holds, Stored, LockedBy
  <1>. QED
    BY <1>2, <1>4, <1>5, KeptStays

\* An executor starts its keepalive at work and drops it when it ends.
LEMMA ExecutorIdle ==
    ASSUME ControlOK, Idle, NEW i \in Instances, NEW t \in TaskIds, NEW k \in Gens,
           ExecutorStep(Faults, i, t, k)
    PROVE  Idle'
  <1>1. /\ pc \in [Instances -> [TaskIds -> [Gens -> PC]]]
        /\ ka \in [Instances -> [TaskIds -> [Gens -> Keepalive]]]
    BY DEF ControlOK
  <1>2. UNCHANGED up
    BY DEF ExecutorStep, CheckClaim, FirstRenew, LoadRecording, MarkSummarizing,
       MarkDone, HandleFailure, RenewLoop, AsrDone, AsrFail, LlmDone, LlmFail,
       AbortLost, DoneCallback, Work, Mark, loopVars
  <1>3. ASSUME NEW next, NEW lease, Goto(i, t, k, next, lease),
               pc[i][t][k] # "free",
               lease = "none" \/ next \notin {"free", "ended"}
        PROVE  Idle'
    <2>1. up[i] # "down"
      BY <1>3 DEF Idle
    <2>2. \A j \in Instances, u \in TaskIds, l \in Gens :
             /\ [pc EXCEPT ![i][t][k] = next][j][u][l] =
                   IF j = i /\ u = t /\ l = k THEN next ELSE pc[j][u][l]
             /\ [ka EXCEPT ![i][t][k] = lease][j][u][l] =
                   IF j = i /\ u = t /\ l = k THEN lease ELSE ka[j][u][l]
      BY <1>1
    <2>. QED
      BY <1>2, <1>3, <2>1, <2>2 DEF Idle, Active, Goto
  <1>4. ASSUME NEW o, RenewLoop(i, t, k, o) PROVE Idle'
    <2>1. /\ ka[i][t][k] = "alive" /\ pc' = pc
          /\ ka' = ka \/ \E lease : ka' = [ka EXCEPT ![i][t][k] = lease]
      BY <1>4 DEF RenewLoop
    <2>2. Active(i, t, k)
      BY <2>1 DEF Idle
    <2>3. \A j \in Instances, u \in TaskIds, l \in Gens :
             ka'[j][u][l] = ka[j][u][l] \/ (j = i /\ u = t /\ l = k)
      <3>1. CASE ka' = ka
        BY <3>1
      <3>2. ASSUME NEW lease, ka' = [ka EXCEPT ![i][t][k] = lease]
            PROVE  \A j \in Instances, u \in TaskIds, l \in Gens :
                      ka'[j][u][l] = ka[j][u][l] \/ (j = i /\ u = t /\ l = k)
        BY <1>1, <3>2
      <3>. QED
        BY <2>1, <3>1, <3>2
    <2>. QED
      BY <1>2, <2>1, <2>2, <2>3 DEF Idle, Active
  <1>5. ASSUME pc[i][t][k] # "free", Raise(i, t, k) \/ Finish(i, t, k)
        PROVE  Idle'
    BY <1>3, <1>5 DEF Raise, Finish
  <1>6. ASSUME NEW o, CheckClaim(i, t, k, o) PROVE Idle'
    BY <1>3, <1>5, <1>6 DEF CheckClaim
  <1>7. ASSUME NEW o, FirstRenew(i, t, k, o) PROVE Idle'
    BY <1>3, <1>5, <1>7 DEF FirstRenew
  <1>8. ASSUME NEW from \in {"load", "asr", "llm"},
               NEW next \in {"asr", "transcribed", "summarized", "fail"},
               Work(i, t, k, from, next)
        PROVE  Idle'
    BY <1>3, <1>5, <1>8 DEF Work
  <1>9. ASSUME NEW o, MarkSummarizing(i, t, k, o) PROVE Idle'
    BY <1>3, <1>5, <1>9, Zenon DEF MarkSummarizing, Mark
  <1>10. ASSUME NEW o, MarkDone(i, t, k, o) PROVE Idle'
    BY <1>3, <1>5, <1>10, Zenon DEF MarkDone, Mark
  <1>11. ASSUME NEW o, HandleFailure(i, t, k, o) PROVE Idle'
    BY <1>5, <1>11 DEF HandleFailure
  <1>12. AbortLost(i, t, k) => Idle'
    BY <1>5 DEF AbortLost
  <1>13. DoneCallback(i, t, k) => Idle'
    BY <1>3 DEF DoneCallback
  <1>. QED
    BY <1>4, <1>6, <1>7, <1>8, <1>9, <1>10, <1>11, <1>12, <1>13, Zenon
       DEF ExecutorStep, LoadRecording, AsrDone, AsrFail, LlmDone, LlmFail

\* A worker starts executors only while it is up, and takes them along.
LEMMA WorkerIdle ==
    ASSUME ControlOK, Idle, NEW i \in Instances, WorkerStep(Faults, i)
    PROVE  Idle'
  <1>1. ASSUME Exit(i) PROVE Idle'
    BY <1>1, ExitIdle DEF Idle, Active
  <1>2. ASSUME NEW o, NEW reclaim, NEW skipped, DispatchClaim(i, o, reclaim, skipped)
        PROVE  Idle'
    <2>1. UNCHANGED <<up, ka>> /\ up[i] # "down"
      BY <1>2 DEF DispatchClaim
    <2>2. CASE pc' = pc
      BY <2>1, <2>2 DEF Idle, Active
    <2>3. ASSUME NEW S, Schedule(i, S) PROVE Idle'
      <3>1. \A u \in TaskIds : u \in S => FreeGen(i, u) \in Gens
        BY <2>3 DEF Schedule, FreeGen
      <3>2. /\ \A j \in Instances : j # i => pc'[j] = pc[j]
            /\ \A u \in TaskIds, l \in Gens : pc'[i][u][l] \in {pc[i][u][l], "check"}
        BY <2>3, <3>1 DEF Schedule, ControlOK
      <3>. QED
        BY <2>1, <3>2 DEF Idle, Active
    <2>. QED
      BY <1>2, <2>2, <2>3, Zenon DEF DispatchClaim
  <1>3. DispatchBegin(i) \/ ReclaimOnly(i) \/ Stop(i) \/ (\E o : Start(i, o)) => Idle'
    <2>1. ASSUME UNCHANGED <<pc, ka>>,
                 \A j \in Instances : up'[j] = "down" => up[j] = "down"
          PROVE  Idle'
      BY <2>1 DEF Idle, Active
    <2>. QED
      BY <2>1 DEF DispatchBegin, ReclaimOnly, Stop, Start, loopVars, ControlOK
  <1>4. DrainTimeout(i) => Idle'
    <2>. SUFFICES ASSUME DrainTimeout(i) PROVE Idle'
      OBVIOUS
    <2>1. \A j \in Instances, t \in TaskIds, l \in Gens : Clears(j, t, l)
      BY DEF DrainTimeout, Clears, ControlOK
    <2>2. \A j \in Instances : up'[j] = "down" => up[j] = "down"
      BY DEF DrainTimeout, ControlOK
    <2>. QED
      BY <2>1, <2>2 DEF Idle, Clears, Active
  <1>. QED
    BY <1>1, <1>2, <1>3, <1>4 DEF WorkerStep, Crash, Drained, ResetAborted

\* SInv is inductive: a task leaves excused with nothing left to keep, and
\* every other one without an accident stays in somebody's hands.
LEMMA ShutdownStep ==
    ASSUME OwnId, SInv, [ShutdownNext]_shutdownVars
    PROVE  SInv'
  <1>1. CASE UNCHANGED shutdownVars
    BY <1>1 DEF shutdownVars, vars, SInv, IInv, ControlOK, RowInv, Idle, Kept,
       Active, Holds, Stored
  <1>2. CASE ShutdownNext
    <2>1. IInv /\ Idle /\ Next
      BY <1>2 DEF SInv, ShutdownNext
    <2>2. IInv'
      BY <2>1, NextRows, NextControl DEF IInv
    <2>3. Idle'
      <3>1. (\E t \in TaskIds : ApiStep(t)) \/ Tick(Faults) => Idle'
        BY <2>1 DEF ApiStep, Upload, Requeue, Delete, Tick, loopVars, Idle, Active
      <3>. QED
        BY <2>1, <3>1, ExecutorIdle, WorkerIdle DEF Next, Steps, IInv
    <2>4. /\ excused' \in [Instances -> SUBSET TaskIds]
          /\ \A i \in Instances : \A t \in TaskIds \ excused'[i] :
                \/ t \notin excused[i] /\ ~Accident(i, t)
                \/ ~Holds(i, t)' /\ \A k \in Gens : pc'[i][t][k] = "free"
      BY <1>2 DEF ShutdownNext
    <2>5. ASSUME NEW i \in Instances, NEW t \in TaskIds, Kept(i, t), ~Accident(i, t)
          PROVE  Kept(i, t)'
      BY <2>1, <2>5, OwnExecutor, OthersExecutor, OwnWorker, OthersWorker, OthersKept
         DEF Next, Steps
    <2>6. ASSUME NEW i \in Instances, NEW t \in TaskIds \ excused'[i]
          PROVE  Kept(i, t)'
      BY <2>4, <2>5, KeptNothing DEF SInv
    <2>. QED
      BY <2>2, <2>3, <2>4, <2>6 DEF SInv
  <1>. QED
    BY <1>1, <1>2

\* Whatever fails, and whoever takes tasks over meanwhile, a process that is
\* gone holds no task it had no accident with: worker.stop gives every lock
\* back, as long as every process has a worker id of its own.
THEOREM StopIsClean == OwnId => (ShutdownSpec => []CleanStop)
  <1>. SUFFICES ASSUME OwnId PROVE ShutdownSpec => []CleanStop
    OBVIOUS
  <1>1. ShutdownInit => SInv
    <2>1. ShutdownInit => IInv
      BY InitRows, InitControl DEF ShutdownInit, IInv
    <2>2. ShutdownInit => \A i \in Instances, t \in TaskIds : ~Holds(i, t)
      BY DEF ShutdownInit, Init, Holds, Stored
    <2>. QED
      BY <2>1, <2>2 DEF ShutdownInit, Init, SInv, Idle, Kept, Active,
         NoExecutors, NoKeepalives
  <1>2. SInv /\ [ShutdownNext]_shutdownVars => SInv'
    BY ShutdownStep
  <1>3. SInv => CleanStop
    BY DEF SInv, Idle, Kept, Active, CleanStop
  <1>. QED
    BY <1>1, <1>2, <1>3, PTL DEF ShutdownSpec
=============================================================================
