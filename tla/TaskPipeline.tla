---------------------------- MODULE TaskPipeline ----------------------------
(***************************************************************************)
(* The task pipeline: worker processes ("instances") that claim rows of    *)
(* the tasks table under a lease, run ASR and the summary for them, and    *)
(* write the result back behind a fence; the HTTP operations that insert,  *)
(* requeue and delete rows; and the SQL clock.                             *)
(*                                                                         *)
(*   src/api/worker/worker.py      start, stop                             *)
(*   src/api/worker/dispatcher.py  the dispatcher loop, reclaim, schedule  *)
(*   src/api/worker/executor.py    one task from claim to result           *)
(*                                                                         *)
(* A step is one database transaction, or one stretch of event-loop code   *)
(* between two awaits.  Each transaction has an outcome:                   *)
(*   "ok"        it committed and the caller knows;                        *)
(*   "db_error"  it rolled back and an exception was raised;               *)
(*   "lost_ack"  it committed, but the caller got an exception (or was     *)
(*               cancelled while it awaited the commit).                   *)
(***************************************************************************)
EXTENDS TaskTable, FiniteSets

CONSTANTS Instances,       \* worker processes
          WorkerId,        \* the id resolve_worker_id gives each of them
          TaskIds,         \* tasks, numbered in the order of created_at
          Gens,            \* bound: executors of one task one process may overlap
          MaxConcurrency,  \* WORKER_MAX_CONCURRENCY of each process
          MaxBatchSize,    \* WORKER_MAX_BATCH_SIZE
          Faults           \* what may go wrong, see Steps

ASSUME WorkerAssumption == WorkerId \in [Instances -> WorkerIds]
ASSUME TaskAssumption == TaskIds \subseteq Nat /\ IsFiniteSet(TaskIds)
ASSUME GensAssumption == Gens \subseteq Nat \ {0}
ASSUME LimitsAssumption ==
    MaxConcurrency \in [Instances -> Nat \ {0}] /\ MaxBatchSize \in Nat \ {0}

VARIABLES life,      \* has the task's row been inserted, or deleted again
          rows,      \* the tasks table
          up,        \* phase of each process
          batch,     \* dispatcher: size of the claim it is awaiting, 0 if none
          running,   \* dispatcher.running_tasks: the executor under each key
          pc,        \* where each executor is in TaskExecutor.process
          ka,        \* its _lease_keepalive: the renew loop and lease_lost
          aborted    \* worker.stop: pending_ids it is about to reset

vars == <<life, rows, up, batch, running, pc, ka, aborted>>
dbVars == <<life, rows>>
loopVars == <<up, batch, running, aborted>>

PC == {"free", "check", "renew", "load", "asr", "transcribed", "llm",
       "summarized", "fail", "ended"}
\* "alive": the renew loop runs; "lost": lease_lost is set; "dead": the loop
\* ended by an exception, which nobody looks at until the keepalive exits.
Keepalive == {"none", "alive", "lost", "dead"}

TypeOK ==
    /\ life \in [TaskIds -> {"unborn", "stored", "deleted"}]
    /\ rows \in [TaskIds -> Row]
    /\ up \in [Instances -> {"down", "up", "draining", "aborting"}]
    /\ batch \in [Instances -> 0 .. MaxBatchSize]
    /\ running \in [Instances -> [TaskIds -> Gens \cup {0}]]
    /\ pc \in [Instances -> [TaskIds -> [Gens -> PC]]]
    /\ ka \in [Instances -> [TaskIds -> [Gens -> Keepalive]]]
    /\ aborted \in [Instances -> SUBSET TaskIds]

NoExecutors == [t \in TaskIds |-> [k \in Gens |-> "free"]]
NoKeepalives == [t \in TaskIds |-> [k \in Gens |-> "none"]]
NothingRunning == [t \in TaskIds |-> 0]

Init ==
    /\ life = [t \in TaskIds |-> "unborn"]
    /\ rows = [t \in TaskIds |-> NewRow(0)]
    /\ up = [i \in Instances |-> "down"]
    /\ batch = [i \in Instances |-> 0]
    /\ running = [i \in Instances |-> NothingRunning]
    /\ pc = [i \in Instances |-> NoExecutors]
    /\ ka = [i \in Instances |-> NoKeepalives]
    /\ aborted = [i \in Instances |-> {}]

Stored(t) == life[t] = "stored"

\* The fence: UPDATE ... WHERE id = t AND locked_by = worker_id found a row.
Holds(i, t) == Stored(t) /\ LockedBy(rows[t], WorkerId[i])

\* An executor that may still write to the table.
Active(i, t, k) == pc[i][t][k] \notin {"free", "ended"}

-----------------------------------------------------------------------------
(* TaskExecutor: one task, from the claim to its result.                   *)

Goto(i, t, k, next, lease) ==
    /\ pc' = [pc EXCEPT ![i][t][k] = next]
    /\ ka' = [ka EXCEPT ![i][t][k] = lease]

\* An exception leaves the keepalive, which cancels the renew loop.
Raise(i, t, k) == Goto(i, t, k, "fail", "none")
Finish(i, t, k) == Goto(i, t, k, "ended", "none")

\* process re-reads the row it was scheduled for.
CheckClaim(i, t, k, o) ==
    LET mine == Holds(i, t) /\ rows[t].status = "transcribing"
    IN  /\ pc[i][t][k] = "check"
        /\ \/ o # "ok" /\ Raise(i, t, k)
           \/ o = "ok" /\ mine /\ Goto(i, t, k, "renew", "none")
           \/ o = "ok" /\ ~mine /\ Finish(i, t, k)
        /\ UNCHANGED <<dbVars, loopVars>>

\* Entering _lease_keepalive.  A refused first renewal sets lease_lost, and
\* _await_while_leased raises LeaseLostError before the ASR is started.
FirstRenew(i, t, k, o) ==
    /\ pc[i][t][k] = "renew"
    /\ rows' = IF Holds(i, t) /\ o # "db_error"
               THEN [rows EXCEPT ![t] = RenewRow(@)] ELSE rows
    /\ \/ o # "ok" /\ Raise(i, t, k)
       \/ o = "ok" /\ Holds(i, t) /\ Goto(i, t, k, "load", "alive")
       \/ o = "ok" /\ ~Holds(i, t) /\ Finish(i, t, k)
    /\ UNCHANGED <<life, loopVars>>

\* One round of _lease_renew_loop, concurrent with the executor's own steps.
RenewLoop(i, t, k, o) ==
    /\ ka[i][t][k] = "alive"
    /\ rows' = IF Holds(i, t) /\ o # "db_error"
               THEN [rows EXCEPT ![t] = RenewRow(@)] ELSE rows
    /\ \/ o # "ok" /\ ka' = [ka EXCEPT ![i][t][k] = "dead"]
       \/ o = "ok" /\ Holds(i, t) /\ UNCHANGED ka
       \/ o = "ok" /\ ~Holds(i, t) /\ ka' = [ka EXCEPT ![i][t][k] = "lost"]
    /\ UNCHANGED <<life, pc, loopVars>>

\* _await_while_leased: lease_lost wins over a result that is ready too.
AbortLost(i, t, k) ==
    /\ pc[i][t][k] \in {"load", "asr", "llm"}
    /\ ka[i][t][k] = "lost"
    /\ Finish(i, t, k)
    /\ UNCHANGED <<dbVars, loopVars>>

\* The work under _await_while_leased came to its end.
Work(i, t, k, from, next) ==
    /\ pc[i][t][k] = from
    /\ ka[i][t][k] # "lost"
    /\ IF next = "fail" THEN Raise(i, t, k)
                        ELSE Goto(i, t, k, next, ka[i][t][k])
    /\ UNCHANGED <<dbVars, loopVars>>

\* _do_asr reads the recording (deleted together with the task's row).
LoadRecording(i, t, k, o) ==
    Work(i, t, k, "load", IF o = "ok" /\ Stored(t) THEN "asr" ELSE "fail")

AsrDone(i, t, k) == Work(i, t, k, "asr", "transcribed")
AsrFail(i, t, k) == Work(i, t, k, "asr", "fail")
LlmDone(i, t, k) == Work(i, t, k, "llm", "summarized")
LlmFail(i, t, k) == Work(i, t, k, "llm", "fail")

\* mark_summarizing and mark_done: a refused write raises LeaseLostError in
\* the transaction, so nothing is left to commit.
Mark(i, t, k, o, from, new, next, lease) ==
    /\ pc[i][t][k] = from
    /\ \/ /\ o = "db_error"
          /\ UNCHANGED rows
          /\ Raise(i, t, k)
       \/ /\ o # "db_error"
          /\ ~Holds(i, t)
          /\ UNCHANGED rows
          /\ Finish(i, t, k)
       \/ /\ o # "db_error"
          /\ Holds(i, t)
          /\ rows' = [rows EXCEPT ![t] = new]
          /\ IF o = "ok" THEN Goto(i, t, k, next, lease) ELSE Raise(i, t, k)
    /\ UNCHANGED <<life, loopVars>>

MarkSummarizing(i, t, k, o) ==
    Mark(i, t, k, o, "transcribed", SummarizingRow(rows[t]),
         "llm", ka[i][t][k])

MarkDone(i, t, k, o) ==
    Mark(i, t, k, o, "summarized", DoneRow(rows[t]), "ended", "none")

\* _handle_task_failure; when its transaction fails, process just ends.
HandleFailure(i, t, k, o) ==
    /\ pc[i][t][k] = "fail"
    /\ rows' = IF Holds(i, t) /\ o # "db_error"
               THEN [rows EXCEPT ![t] = FailureRow(@)] ELSE rows
    /\ Finish(i, t, k)
    /\ UNCHANGED <<life, loopVars>>

DoneCallback_KeepsKey(i, t, k) ==
    /\ pc[i][t][k] = "ended"
    /\ Goto(i, t, k, "free", "none")
    /\ UNCHANGED <<dbVars, loopVars>>

\* The asyncio task is done: its callback pops the key, whoever is under it.
DoneCallback(i, t, k) ==
    /\ pc[i][t][k] = "ended"
    /\ Goto(i, t, k, "free", "none")
    /\ running' = [running EXCEPT ![i][t] = 0]
    /\ UNCHANGED <<dbVars, up, batch, aborted>>

-----------------------------------------------------------------------------
(* TaskDispatcher.                                                         *)

Inflight(i) == Cardinality({t \in TaskIds : running[i][t] # 0})

\* reclaim_in_flight over the whole table.
Reclaimed(i, ownLocks) ==
    [t \in TaskIds |->
        IF Stored(t) /\ Reclaimable(rows[t], WorkerId[i], ownLocks)
        THEN ReleasedRow(rows[t]) ELSE rows[t]]

\* ORDER BY created_at LIMIT n.
Oldest(S, n) == {t \in S : Cardinality({u \in S : u < t}) < n}

\* The loop reads len(running_tasks) and then awaits the claim.
DispatchBegin(i) ==
    LET free == MaxConcurrency[i] - Inflight(i)
    IN  /\ up[i] = "up"
        /\ batch[i] = 0
        /\ free > 0
        /\ batch' = [batch EXCEPT ![i] =
                        IF free < MaxBatchSize THEN free ELSE MaxBatchSize]
        /\ UNCHANGED <<dbVars, up, running, pc, ka, aborted>>

FreeGen(i, t) == CHOOSE k \in Gens : pc[i][t][k] = "free"

\* _schedule_task for every claimed id.
Schedule(i, S) ==
    /\ \A t \in S : \E k \in Gens : pc[i][t][k] = "free"
    /\ pc' = [pc EXCEPT ![i] = [t \in TaskIds |->
                IF t \in S THEN [pc[i][t] EXCEPT ![FreeGen(i, t)] = "check"]
                           ELSE pc[i][t]]]
    /\ running' = [running EXCEPT ![i] = [t \in TaskIds |->
                IF t \in S THEN FreeGen(i, t) ELSE running[i][t]]]

\* _reclaim_and_claim, one transaction, and the scheduling after it.
\* "skipped" are rows FOR UPDATE SKIP LOCKED passed over because of a
\* transaction of another process that rolls back later.
DispatchClaim(i, o, reclaim, skipped) ==
    LET swept == IF reclaim THEN Reclaimed(i, FALSE) ELSE rows
        due == {t \in TaskIds : Stored(t) /\ Claimable(swept[t])}
        picked == Oldest(due \ skipped, batch[i])
    IN  /\ up[i] \in {"up", "draining"}
        /\ batch[i] > 0
        /\ batch' = [batch EXCEPT ![i] = 0]
        /\ rows' = IF o = "db_error" THEN rows
                   ELSE [t \in TaskIds |->
                            IF t \in picked
                            THEN ClaimRow(swept[t], WorkerId[i])
                            ELSE swept[t]]
        /\ IF o = "ok" THEN Schedule(i, picked) ELSE UNCHANGED <<pc, running>>
        /\ UNCHANGED <<life, up, ka, aborted>>

\* _maybe_reclaim_expired_leases, while every slot is taken.  A loop that is
\* stopped during it still finishes it; if it raises, the loop goes on.
ReclaimOnly(i) ==
    /\ up[i] \in {"up", "draining"}
    /\ batch[i] = 0
    /\ Inflight(i) >= MaxConcurrency[i]
    /\ rows' = Reclaimed(i, FALSE)
    /\ UNCHANGED <<life, loopVars, pc, ka>>

-----------------------------------------------------------------------------
(* TaskWorker: start-up, graceful shutdown, and the crash of the process.  *)

\* worker.start; if the recovery transaction raises, the process exits.
Start(i, o) ==
    /\ up[i] = "down"
    /\ rows' = IF o = "db_error" THEN rows ELSE Reclaimed(i, TRUE)
    /\ up' = IF o = "ok" THEN [up EXCEPT ![i] = "up"] ELSE up
    /\ UNCHANGED <<life, batch, running, pc, ka, aborted>>

\* The process is gone, and every coroutine with it.
Exit(i) ==
    /\ up' = [up EXCEPT ![i] = "down"]
    /\ batch' = [batch EXCEPT ![i] = 0]
    /\ running' = [running EXCEPT ![i] = NothingRunning]
    /\ pc' = [pc EXCEPT ![i] = NoExecutors]
    /\ ka' = [ka EXCEPT ![i] = NoKeepalives]
    /\ aborted' = [aborted EXCEPT ![i] = {}]

Crash(i) ==
    /\ up[i] # "down"
    /\ Exit(i)
    /\ UNCHANGED dbVars

\* worker.stop: the loop leaves at its next test of stop_event.
Stop(i) ==
    /\ up[i] = "up"
    /\ up' = [up EXCEPT ![i] = "draining"]
    /\ UNCHANGED <<dbVars, batch, running, pc, ka, aborted>>

\* The loop has ended and running_tasks is empty, or became so in time.
Drained(i) ==
    /\ up[i] = "draining"
    /\ batch[i] = 0
    /\ Inflight(i) = 0
    /\ Exit(i)
    /\ UNCHANGED dbVars

\* asyncio.wait timed out: the pending tasks are cancelled and awaited.
DrainTimeout(i) ==
    LET pending == {t \in TaskIds :
                      \E k \in Gens : running[i][t] = k /\ Active(i, t, k)}
        cancelled(t, k) == t \in pending /\ running[i][t] = k
    IN  /\ up[i] = "draining"
        /\ batch[i] = 0
        /\ pending # {}
        /\ up' = [up EXCEPT ![i] = "aborting"]
        /\ aborted' = [aborted EXCEPT ![i] = pending]
        /\ pc' = [pc EXCEPT ![i] = [t \in TaskIds |-> [k \in Gens |->
                    IF cancelled(t, k) THEN "free" ELSE pc[i][t][k]]]]
        /\ ka' = [ka EXCEPT ![i] = [t \in TaskIds |-> [k \in Gens |->
                    IF cancelled(t, k) THEN "none" ELSE ka[i][t][k]]]]
        /\ running' = [running EXCEPT ![i] = [t \in TaskIds |->
                    IF t \in pending THEN 0 ELSE running[i][t]]]
        /\ UNCHANGED <<dbVars, batch>>

\* executor.reset_aborted, the last thing worker.stop does.
ResetAborted(i, o) ==
    /\ up[i] = "aborting"
    /\ rows' = [t \in TaskIds |->
                  IF /\ o # "db_error"
                     /\ t \in aborted[i]
                     /\ Stored(t)
                     /\ Abortable(rows[t], WorkerId[i])
                  THEN ReleasedRow(rows[t]) ELSE rows[t]]
    /\ Exit(i)
    /\ UNCHANGED life

-----------------------------------------------------------------------------
(* The HTTP operations on tasks, served while some process is up.          *)

Serving == \E i \in Instances : up[i] = "up"

\* create_recording_and_task; the API host's clock may run ahead.
Upload(t, skew) ==
    /\ Serving
    /\ life[t] = "unborn"
    /\ life' = [life EXCEPT ![t] = "stored"]
    /\ rows' = [rows EXCEPT ![t] = NewRow(skew)]
    /\ UNCHANGED <<loopVars, pc, ka>>

\* POST /v1/tasks/{id}/retry
Requeue(t) ==
    /\ Serving
    /\ Stored(t)
    /\ Requeueable(rows[t])
    /\ rows' = [rows EXCEPT ![t] = RequeuedRow(@)]
    /\ UNCHANGED <<life, loopVars, pc, ka>>

\* DELETE /v1/recordings/{id}: whatever state the task is in.
Delete(t) ==
    /\ Serving
    /\ Stored(t)
    /\ life' = [life EXCEPT ![t] = "deleted"]
    /\ rows' = [rows EXCEPT ![t] = NewRow(0)]
    /\ UNCHANGED <<loopVars, pc, ka>>

-----------------------------------------------------------------------------
(* Time.  A process renews every lease_seconds / 3, a transaction is short *)
(* and the event loop calls done callbacks at once, so, unless "stall" is  *)
(* among the faults, an executor whose keepalive works acts before the     *)
(* lease it holds runs out, and an ended one leaves before a tick passes.  *)

MustActNow(i, t, k) ==
    \/ pc[i][t][k] = "ended"
    \/ /\ Active(i, t, k)
       /\ ka[i][t][k] \in {"none", "alive"}
       /\ Holds(i, t)
       /\ rows[t].lease_expires_at = 0

Tick(F) ==
    /\ \/ "stall" \in F
       \/ \A i \in Instances, t \in TaskIds, k \in Gens : ~MustActNow(i, t, k)
    /\ rows' = [t \in TaskIds |-> AgeRow(rows[t])]
    /\ UNCHANGED <<life, loopVars, pc, ka>>

-----------------------------------------------------------------------------
(* The steps of the system when only the faults in F happen:               *)
(*   "crash"        a process dies at any point                            *)
(*   "stop"         a process is told to shut down gracefully              *)
(*   "db_error", "lost_ack"  outcomes of any transaction but the next      *)
(*   "renew_error"  the transaction of a renew loop raises                 *)
(*   "stall"        a process is too slow to renew in time                 *)

Outcomes(F) == {"ok"} \cup (F \cap {"db_error", "lost_ack"})

RenewOutcomes(F) ==
    IF "renew_error" \in F THEN {"ok", "db_error", "lost_ack"} ELSE {"ok"}

\* stop_loop cancels a loop that does not end within five seconds.
LoopOutcomes(F, i) ==
    IF up[i] = "draining" THEN {"ok", "db_error", "lost_ack"} ELSE Outcomes(F)

\* Only a transaction that may yet roll back leaves a row to be skipped.
Skippable(F, i) ==
    IF \E j \in Instances \ {i} :
          batch[j] > 0 /\ "db_error" \in LoopOutcomes(F, j)
    THEN SUBSET TaskIds ELSE {{}}

ExecutorStep(F, i, t, k) ==
    \/ \E o \in Outcomes(F) :
          \/ CheckClaim(i, t, k, o)
          \/ FirstRenew(i, t, k, o)
          \/ LoadRecording(i, t, k, o)
          \/ MarkSummarizing(i, t, k, o)
          \/ MarkDone(i, t, k, o)
          \/ HandleFailure(i, t, k, o)
    \/ \E o \in RenewOutcomes(F) : RenewLoop(i, t, k, o)
    \/ AsrDone(i, t, k)
    \/ AsrFail(i, t, k)
    \/ LlmDone(i, t, k)
    \/ LlmFail(i, t, k)
    \/ AbortLost(i, t, k)
    \/ DoneCallback(i, t, k)

WorkerStep(F, i) ==
    \/ DispatchBegin(i)
    \/ \E o \in LoopOutcomes(F, i), reclaim \in BOOLEAN,
          skipped \in Skippable(F, i) : DispatchClaim(i, o, reclaim, skipped)
    \/ ReclaimOnly(i)
    \/ \E o \in Outcomes(F) : Start(i, o)
    \/ "crash" \in F /\ Crash(i)
    \/ "stop" \in F /\ Stop(i)
    \/ Drained(i)
    \/ DrainTimeout(i)
    \/ \E o \in Outcomes(F) : ResetAborted(i, o)

ApiStep(t) ==
    \/ \E skew \in 0 .. MaxSkew : Upload(t, skew)
    \/ Requeue(t)
    \/ Delete(t)

Steps(F) ==
    \/ \E i \in Instances, t \in TaskIds, k \in Gens : ExecutorStep(F, i, t, k)
    \/ \E i \in Instances : WorkerStep(F, i)
    \/ \E t \in TaskIds : ApiStep(t)
    \/ Tick(F)

Next == Steps(Faults)

Spec == Init /\ [][Next]_vars

-----------------------------------------------------------------------------
(* What holds under every fault.                                           *)

\* locked_by and lease_expires_at are set exactly while a task is in flight:
\* no write of the executor, the reclaim or the shutdown leaves a lock on a
\* task nobody may reclaim, or an in-flight task without a lease to expire.
LockIffInFlight ==
    \A t \in TaskIds :
        /\ rows[t].locked_by # NULL <=> rows[t].status \in InFlight
        /\ rows[t].lease_expires_at # NULL <=> rows[t].status \in InFlight

\* What a reader of the row sees agrees with its status: a summary exactly
\* when done, a transcript while summarizing, an error when failed and none
\* when done, however attempts of several executors interleave.
ResultsMatchStatus ==
    \A t \in TaskIds :
        /\ rows[t].summary # NULL <=> rows[t].status = "done"
        /\ rows[t].status = "summarizing" => rows[t].transcript # NULL
        /\ rows[t].status = "done" => rows[t].error_msg = NULL
        /\ rows[t].status = "failed" => rows[t].error_msg # NULL

\* A task is failed exactly when mark_failure was applied MaxRetries + 1
\* times; before that it stays retryable.
RetryBudget ==
    \A t \in TaskIds :
        rows[t].status = "failed" <=> rows[t].retry_count = MaxRetries + 1

KeepsDone ==
    \A t \in TaskIds :
        Stored(t) /\ rows[t].status = "done" =>
            life'[t] = "deleted" \/ rows'[t] = rows[t]

\* A finished task is never written again, by a late executor, a reclaim, a
\* second attempt or the manual retry; it can only be deleted.
DoneIsFinal == [][KeepsDone]_vars

\* A task whose lease has not expired is neither moved nor taken from its
\* holder by anybody else: its lock, status and failure count change only by an
\* executor of that worker at its own next step, by that worker's start-up or
\* by the end of its shutdown, or with the deletion of the task.
LeaseRespected ==
    [][\A t \in TaskIds :
          /\ Stored(t) /\ life'[t] = "stored"
          /\ rows[t].lease_expires_at \in 0 .. LeaseSeconds
          /\ \/ rows'[t].locked_by # rows[t].locked_by
             \/ rows'[t].status # rows[t].status
             \/ rows'[t].retry_count # rows[t].retry_count
          => \E i \in Instances :
                /\ LockedBy(rows[t], WorkerId[i])
                /\ \/ \E o \in Outcomes(Faults) : Start(i, o) \/ ResetAborted(i, o)
                   \/ \E k \in Gens : Active(i, t, k) /\ pc'[i][t][k] # pc[i][t][k]
      ]_vars

\* Every key of running_tasks belongs to an executor that still exists: a
\* leaked one would take a concurrency slot for ever.
NoLeakedSlot ==
    \A i \in Instances, t \in TaskIds :
        running[i][t] # 0 => pc[i][t][running[i][t]] # "free"

-----------------------------------------------------------------------------
(* What holds as long as renewals are punctual and do not raise.           *)

\* At most one executor can pass the fence of a task at any time: the fence
\* compares worker ids only, so two executors of one worker both would.
SoleHolder ==
    \A t \in TaskIds, i, j \in Instances, k, l \in Gens :
        /\ Active(i, t, k) /\ Holds(i, t)
        /\ Active(j, t, l) /\ Holds(j, t)
        => i = j /\ k = l

\* A done task has a transcript next to its summary.
DoneHasTranscript ==
    \A t \in TaskIds :
        rows[t].status = "done" => rows[t].transcript # NULL

\* pending -> transcribing -> summarizing -> done, and back to pending or to
\* failed from the stages in between.  (One transaction may reclaim an
\* expired task and claim it again.)
StateMachine ==
    [][\A t \in TaskIds :
          LET old == rows[t].status
              new == rows'[t].status
          IN  Stored(t) /\ life'[t] = "stored" /\ old # new =>
                \/ old = "pending" /\ new = "transcribing"
                \/ old = "transcribing" /\ new = "summarizing"
                \/ old = "summarizing" /\ new = "done"
                \/ old \in InFlight /\ new \in {"pending", "failed"}
                \/ old = "summarizing" /\ new = "transcribing"
                   /\ LeaseExpired(rows[t])
                \/ old = "failed" /\ new = "pending"]_vars

-----------------------------------------------------------------------------
(* The contract.                                                           *)

Phase(t) ==
    CASE life[t] = "unborn" -> "absent"
      [] life[t] = "deleted" -> "deleted"
      [] Stored(t) /\ rows[t].status = "pending" -> "queued"
      [] Stored(t) /\ rows[t].status \in InFlight -> "working"
      [] Stored(t) /\ rows[t].status \in Terminal -> rows[t].status

\* A task as the HTTP side reads it: no worker, lease or waiting time.
View == [t \in TaskIds |-> [phase |-> Phase(t),
                            failures |-> rows[t].retry_count,
                            transcript |-> rows[t].transcript # NULL,
                            summary |-> rows[t].summary # NULL]]

Contract == INSTANCE TaskContract WITH task <- View

\* Whatever fails and however executors overlap, a task moves only as
\* TaskContract allows: in particular each failure is counted once, only the
\* last one ends the task, and what a reclaim or a shutdown puts back keeps
\* its count.
ImplementsContract == Contract!Spec
=============================================================================
