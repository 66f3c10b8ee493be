------------------------- MODULE TaskPipelineProofs -------------------------
(***************************************************************************)
(* Proofs about TaskPipeline, for every number of processes, tasks and     *)
(* retries, every lease and every set of faults.                           *)
(*                                                                         *)
(* The inductive invariant is IInv: the type invariant with RowOK of every *)
(* row.  TypeOK alone is not inductive: retry_count stays in its range     *)
(* only because a row that can still be failed is locked, a locked row is  *)
(* in flight, and an in-flight row has not used up its retries.            *)
(***************************************************************************)
EXTENDS TaskPipeline, TaskTableProofs, FiniteSetTheorems, TLAPS

RowInv ==
    /\ rows = [t \in TaskIds |-> rows[t]]
    /\ \A t \in TaskIds : RowOK(rows[t])

ControlOK ==
    /\ life \in [TaskIds -> {"unborn", "stored", "deleted"}]
    /\ up \in [Instances -> {"down", "up", "draining", "aborting"}]
    /\ batch \in [Instances -> 0 .. MaxBatchSize]
    /\ running \in [Instances -> [TaskIds -> Gens \cup {0}]]
    /\ pc \in [Instances -> [TaskIds -> [Gens -> PC]]]
    /\ ka \in [Instances -> [TaskIds -> [Gens -> Keepalive]]]
    /\ aborted \in [Instances -> SUBSET TaskIds]

IInv == ControlOK /\ RowInv

-----------------------------------------------------------------------------
(* Every step keeps every row well-formed.                                 *)

\* A process writes its own, real id into locked_by.
LEMMA WorkerIdType == \A i \in Instances : WorkerId[i] \in WorkerIds
  BY WorkerAssumption

\* A table none of whose rows changed is still well-formed.
LEMMA RowsKept == RowInv /\ rows' = rows => RowInv'
  BY DEF RowInv

\* A statement on one row, of which it leaves a well-formed one.
LEMMA RowWritten ==
    ASSUME RowInv, NEW t \in TaskIds, NEW new, RowOK(new),
           rows' = [rows EXCEPT ![t] = new]
    PROVE  RowInv'
  BY Zenon DEF RowInv

\* A statement on the whole table.
LEMMA RowsWritten ==
    ASSUME NEW f, f = [t \in TaskIds |-> f[t]],
           \A t \in TaskIds : RowOK(f[t]),
           rows' = f
    PROVE  RowInv'
  BY DEF RowInv

\* reclaim_in_flight keeps the table well-formed, with or without own locks.
LEMMA ReclaimedOK ==
    ASSUME RowInv, NEW i \in Instances, NEW own \in BOOLEAN
    PROVE  \A t \in TaskIds : RowOK(Reclaimed(i, own)[t])
  BY ReleasedRowOK DEF RowInv, Reclaimed, Reclaimable

\* The executor's writes: behind the fence they change a locked row, in
\* front of it nothing.
LEMMA ExecutorRows ==
    ASSUME RowInv, NEW i \in Instances, NEW t \in TaskIds, NEW k \in Gens,
           ExecutorStep(Faults, i, t, k)
    PROVE  RowInv'
  <1>. USE WorkerIdType
  <1>1. Holds(i, t) => RowOK(rows[t]) /\ LockedBy(rows[t], WorkerId[i])
    BY DEF Holds, RowInv
  <1>2. RowInv /\ rows' = rows => RowInv'
    BY RowsKept
  <1>3. ASSUME Holds(i, t), rows' = [rows EXCEPT ![t] = RenewRow(@)]
        PROVE  RowInv'
    BY <1>1, <1>3, RenewRowOK, RowWritten
  <1>4. ASSUME NEW o, CheckClaim(i, t, k, o) PROVE RowInv'
    BY <1>2, <1>4 DEF CheckClaim, dbVars
  <1>5. ASSUME NEW o, FirstRenew(i, t, k, o) PROVE RowInv'
    BY <1>2, <1>3, <1>5 DEF FirstRenew
  <1>6. ASSUME NEW o, RenewLoop(i, t, k, o) PROVE RowInv'
    BY <1>2, <1>3, <1>6 DEF RenewLoop
  <1>7. ASSUME NEW from, NEW next, Work(i, t, k, from, next) PROVE RowInv'
    BY <1>2, <1>7 DEF Work, dbVars
  <1>8. ASSUME NEW o, MarkSummarizing(i, t, k, o) PROVE RowInv'
    <2>1. Holds(i, t) => RowOK(SummarizingRow(rows[t]))
      BY <1>1, SummarizingRowOK
    <2>. QED
      BY <1>2, <1>8, <2>1, RowWritten DEF MarkSummarizing, Mark
  <1>9. ASSUME NEW o, MarkDone(i, t, k, o) PROVE RowInv'
    <2>1. Holds(i, t) => RowOK(DoneRow(rows[t]))
      BY <1>1, DoneRowOK
    <2>. QED
      BY <1>2, <1>9, <2>1, RowWritten DEF MarkDone, Mark
  <1>10. ASSUME NEW o, HandleFailure(i, t, k, o) PROVE RowInv'
    <2>1. Holds(i, t) => RowOK(FailureRow(rows[t]))
      BY <1>1, FailureRowOK
    <2>. QED
      BY <1>2, <1>10, <2>1, RowWritten DEF HandleFailure
  <1>11. AbortLost(i, t, k) \/ DoneCallback(i, t, k) => RowInv'
    BY <1>2 DEF AbortLost, DoneCallback, dbVars
  <1>. QED
    BY <1>4, <1>5, <1>6, <1>7, <1>8, <1>9, <1>10, <1>11
       DEF ExecutorStep, LoadRecording, AsrDone, AsrFail, LlmDone, LlmFail

\* The dispatcher's and the worker's writes release or claim rows.
LEMMA WorkerRows ==
    ASSUME RowInv, NEW i \in Instances, WorkerStep(Faults, i)
    PROVE  RowInv'
  <1>. USE WorkerIdType
  <1>1. RowInv /\ rows' = rows => RowInv'
    BY RowsKept
  <1>2. ASSUME NEW own \in BOOLEAN, rows' = Reclaimed(i, own)
        PROVE  RowInv'
    <2>1. Reclaimed(i, own) = [t \in TaskIds |-> Reclaimed(i, own)[t]]
      BY DEF Reclaimed
    <2>. QED
      BY <1>2, <2>1, ReclaimedOK, RowsWritten
  <1>3. ASSUME NEW o, NEW reclaim \in BOOLEAN, NEW skipped,
               DispatchClaim(i, o, reclaim, skipped)
        PROVE  RowInv'
    <2>. DEFINE swept == IF reclaim THEN Reclaimed(i, FALSE) ELSE rows
                due == {t \in TaskIds : Stored(t) /\ Claimable(swept[t])}
                picked == Oldest(due \ skipped, batch[i])
                f == [t \in TaskIds |->
                        IF t \in picked THEN ClaimRow(swept[t], WorkerId[i])
                                        ELSE swept[t]]
    <2>1. \A t \in TaskIds : RowOK(swept[t])
      BY ReclaimedOK DEF RowInv
    <2>2. \A t \in picked : t \in TaskIds /\ Claimable(swept[t])
      BY DEF Oldest
    <2>3. rows' = rows \/ rows' = f
      BY <1>3 DEF DispatchClaim
    <2>. HIDE DEF swept, picked
    <2>4. \A t \in TaskIds : RowOK(f[t])
      BY <2>1, <2>2, ClaimRowOK
    <2>5. f = [t \in TaskIds |-> f[t]]
      OBVIOUS
    <2>. HIDE DEF f
    <2>. QED
      BY <1>1, <2>3, <2>4, <2>5, RowsWritten
  <1>4. ASSUME NEW o, Start(i, o) PROVE RowInv'
    BY <1>1, <1>2, <1>4 DEF Start
  <1>5. ReclaimOnly(i) => RowInv'
    BY <1>2 DEF ReclaimOnly
  <1>6. ASSUME NEW o, ResetAborted(i, o) PROVE RowInv'
    <2>. DEFINE f == [t \in TaskIds |->
                        IF /\ o # "db_error"
                           /\ t \in aborted[i]
                           /\ Stored(t)
                           /\ Abortable(rows[t], WorkerId[i])
                        THEN ReleasedRow(rows[t]) ELSE rows[t]]
    <2>1. rows' = f
      BY <1>6 DEF ResetAborted
    <2>2. \A t \in TaskIds : RowOK(f[t])
      BY ReleasedRowOK DEF RowInv, Abortable
    <2>3. f = [t \in TaskIds |-> f[t]]
      OBVIOUS
    <2>. HIDE DEF f
    <2>. QED
      BY <2>1, <2>2, <2>3, RowsWritten
  <1>7. DispatchBegin(i) \/ Crash(i) \/ Stop(i) \/ Drained(i) => RowInv'
    BY <1>1 DEF DispatchBegin, Crash, Stop, Drained, dbVars
  <1>8. DrainTimeout(i) => rows' = rows
    BY Zenon DEF DrainTimeout, dbVars
  <1>. QED
    BY <1>1, <1>3, <1>4, <1>5, <1>6, <1>7, <1>8 DEF WorkerStep

\* The HTTP operations and the clock.
LEMMA ApiRows ==
    ASSUME RowInv, NEW t \in TaskIds, ApiStep(t)
    PROVE  RowInv'
  <1>1. RowOK(NewRow(0)) /\ \A skew \in 0 .. MaxSkew : RowOK(NewRow(skew))
    BY NewRowOK, SkewAssumption
  <1>. QED
    BY <1>1, RowWritten DEF ApiStep, Upload, Requeue, RequeuedRow, Delete

LEMMA TickRows == RowInv /\ Tick(Faults) => RowInv'
  <1>. SUFFICES ASSUME RowInv, Tick(Faults) PROVE RowInv'
    OBVIOUS
  <1>. DEFINE f == [t \in TaskIds |-> AgeRow(rows[t])]
  <1>1. rows' = f
    BY DEF Tick
  <1>2. \A t \in TaskIds : RowOK(f[t])
    BY AgeRowOK DEF RowInv
  <1>3. f = [t \in TaskIds |-> f[t]]
    OBVIOUS
  <1>. HIDE DEF f
  <1>. QED
    BY <1>1, <1>2, <1>3, RowsWritten

LEMMA NextRows == RowInv /\ [Next]_vars => RowInv'
  <1>1. RowInv /\ UNCHANGED vars => RowInv'
    BY RowsKept DEF vars
  <1>2. RowInv /\ Next => RowInv'
    BY ExecutorRows, WorkerRows, ApiRows, TickRows DEF Next, Steps
  <1>. QED
    BY <1>1, <1>2

LEMMA InitRows == Init => RowInv
  BY NewRowOK DEF Init, RowInv

-----------------------------------------------------------------------------
(* The control state stays within its types.                               *)

\* An executor moves to another place of process.
LEMMA GotoOK ==
    ASSUME ControlOK, NEW i \in Instances, NEW t \in TaskIds, NEW k \in Gens,
           NEW next \in PC, NEW lease \in Keepalive,
           Goto(i, t, k, next, lease)
    PROVE  /\ pc' \in [Instances -> [TaskIds -> [Gens -> PC]]]
           /\ ka' \in [Instances -> [TaskIds -> [Gens -> Keepalive]]]
  BY DEF ControlOK, Goto

LEMMA ExecutorControl ==
    ASSUME ControlOK, NEW i \in Instances, NEW t \in TaskIds, NEW k \in Gens,
           ExecutorStep(Faults, i, t, k)
    PROVE  ControlOK'
  <1>. DEFINE Typed == /\ pc' \in [Instances -> [TaskIds -> [Gens -> PC]]]
                       /\ ka' \in [Instances -> [TaskIds -> [Gens -> Keepalive]]]
  <1>1. ASSUME Typed, UNCHANGED <<life, loopVars>> PROVE ControlOK'
    BY <1>1 DEF ControlOK, loopVars
  <1>2. ka[i][t][k] \in Keepalive
    BY DEF ControlOK
  <1>3. Raise(i, t, k) \/ Finish(i, t, k) => Typed
    BY GotoOK DEF Raise, Finish, PC, Keepalive
  <1>4. ASSUME NEW next \in PC, NEW lease \in Keepalive,
               Goto(i, t, k, next, lease)
        PROVE  Typed
    BY <1>4, GotoOK
  <1>. HIDE DEF Typed
  <1>5. ASSUME NEW o, CheckClaim(i, t, k, o) PROVE ControlOK'
    BY <1>1, <1>3, <1>4, <1>5, Zenon DEF CheckClaim, dbVars, PC, Keepalive
  <1>6. ASSUME NEW o, FirstRenew(i, t, k, o) PROVE ControlOK'
    BY <1>1, <1>3, <1>4, <1>6, Zenon DEF FirstRenew, PC, Keepalive
  <1>7. ASSUME NEW o, RenewLoop(i, t, k, o) PROVE ControlOK'
    <2>1. /\ pc' = pc /\ UNCHANGED <<life, loopVars>>
          /\ \/ ka' = ka
             \/ ka' = [ka EXCEPT ![i][t][k] = "dead"]
             \/ ka' = [ka EXCEPT ![i][t][k] = "lost"]
      BY <1>7 DEF RenewLoop
    <2>2. ka' \in [Instances -> [TaskIds -> [Gens -> Keepalive]]]
      <3>1. ASSUME NEW x \in Keepalive, ka' = [ka EXCEPT ![i][t][k] = x]
            PROVE  ka' \in [Instances -> [TaskIds -> [Gens -> Keepalive]]]
        BY <3>1 DEF ControlOK
      <3>2. ka \in [Instances -> [TaskIds -> [Gens -> Keepalive]]]
        BY DEF ControlOK
      <3>. QED
        BY <2>1, <3>1, <3>2, Zenon DEF Keepalive
    <2>. QED
      BY <1>1, <2>1, <2>2 DEF ControlOK, Typed
  <1>8. ASSUME NEW from, NEW next \in PC, Work(i, t, k, from, next)
        PROVE  ControlOK'
    BY <1>1, <1>2, <1>3, <1>4, <1>8, Zenon DEF Work, dbVars
  <1>9. ASSUME NEW o, NEW from, NEW new, NEW next \in PC,
               NEW lease \in Keepalive, Mark(i, t, k, o, from, new, next, lease)
        PROVE  ControlOK'
    BY <1>1, <1>3, <1>4, <1>9, Zenon DEF Mark
  <1>10. ASSUME NEW o, HandleFailure(i, t, k, o) PROVE ControlOK'
    BY <1>1, <1>3, <1>10 DEF HandleFailure
  <1>11. AbortLost(i, t, k) => ControlOK'
    BY <1>1, <1>3 DEF AbortLost, dbVars
  <1>12. DoneCallback(i, t, k) => ControlOK'
    <2>. SUFFICES ASSUME DoneCallback(i, t, k) PROVE ControlOK'
      OBVIOUS
    <2>1. Typed
      BY <1>4 DEF DoneCallback, PC, Keepalive
    <2>. QED
      BY <2>1 DEF DoneCallback, ControlOK, dbVars, Typed
  <1>13. ASSUME NEW o, LoadRecording(i, t, k, o) PROVE ControlOK'
    BY <1>8, <1>13 DEF LoadRecording, PC
  <1>14. ASSUME \/ AsrDone(i, t, k) \/ AsrFail(i, t, k)
                \/ LlmDone(i, t, k) \/ LlmFail(i, t, k)
         PROVE  ControlOK'
    BY <1>8, <1>14 DEF AsrDone, AsrFail, LlmDone, LlmFail, PC
  <1>15. ASSUME NEW o, MarkSummarizing(i, t, k, o) PROVE ControlOK'
    BY <1>2, <1>9, <1>15, "llm" \in PC DEF MarkSummarizing, PC
  <1>16. ASSUME NEW o, MarkDone(i, t, k, o) PROVE ControlOK'
    BY <1>9, <1>16 DEF MarkDone, PC, Keepalive
  <1>. QED
    BY <1>5, <1>6, <1>7, <1>10, <1>11, <1>12, <1>13, <1>14, <1>15, <1>16, Zenon
       DEF ExecutorStep

LEMMA WorkerControl ==
    ASSUME ControlOK, NEW i \in Instances, WorkerStep(Faults, i)
    PROVE  ControlOK'
  <1>1. DispatchBegin(i) => ControlOK'
    <2>. SUFFICES ASSUME DispatchBegin(i) PROVE ControlOK'
      OBVIOUS
    <2>. DEFINE n == Inflight(i)
    <2>1. n \in Nat
      <3>1. IsFiniteSet({t \in TaskIds : running[i][t] # 0})
        BY TaskAssumption, FS_Subset
      <3>. QED
        BY <3>1, FS_CardinalityType DEF Inflight
    <2>. HIDE DEF n
    <2>2. (IF MaxConcurrency[i] - n < MaxBatchSize
           THEN MaxConcurrency[i] - n ELSE MaxBatchSize) \in 0 .. MaxBatchSize
      BY <2>1, LimitsAssumption DEF DispatchBegin, n
    <2>3. batch' \in [Instances -> 0 .. MaxBatchSize]
      BY <2>2 DEF DispatchBegin, ControlOK, n
    <2>. QED
      BY <2>3 DEF DispatchBegin, ControlOK, dbVars
  <1>2. ASSUME NEW o, NEW reclaim, NEW skipped,
               DispatchClaim(i, o, reclaim, skipped)
        PROVE  ControlOK'
    <2>. PICK S \in SUBSET TaskIds : Schedule(i, S) \/ UNCHANGED <<pc, running>>
      BY <1>2, Zenon DEF DispatchClaim, Oldest
    <2>1. 0 \in 0 .. MaxBatchSize
      BY LimitsAssumption
    <2>2. batch' \in [Instances -> 0 .. MaxBatchSize]
      BY <1>2, <2>1 DEF DispatchClaim, ControlOK
    <2>3. /\ pc' \in [Instances -> [TaskIds -> [Gens -> PC]]]
          /\ running' \in [Instances -> [TaskIds -> Gens \cup {0}]]
      <3>1. CASE UNCHANGED <<pc, running>>
        BY <3>1 DEF ControlOK
      <3>2. CASE Schedule(i, S)
        <4>1. \A t \in S : FreeGen(i, t) \in Gens
          BY <3>2 DEF Schedule, FreeGen
        <4>2. "check" \in PC
          BY DEF PC
        <4>. QED
          BY <3>2, <4>1, <4>2 DEF Schedule, ControlOK
      <3>. QED
        BY <3>1, <3>2
    <2>4. UNCHANGED <<life, up, ka, aborted>>
      BY <1>2 DEF DispatchClaim
    <2>. QED
      BY <2>2, <2>3, <2>4 DEF ControlOK
  <1>3. ReclaimOnly(i) => ControlOK'
    BY DEF ReclaimOnly, ControlOK, loopVars
  <1>4. ASSUME NEW o, Start(i, o) PROVE ControlOK'
    BY <1>4 DEF Start, ControlOK
  <1>5. Exit(i) /\ UNCHANGED life => ControlOK'
    BY LimitsAssumption DEF Exit, ControlOK, NothingRunning, NoExecutors,
       NoKeepalives, PC, Keepalive
  <1>6. Stop(i) => ControlOK'
    BY DEF Stop, ControlOK, dbVars
  <1>7. DrainTimeout(i) => ControlOK'
    BY DEF DrainTimeout, ControlOK, dbVars, PC, Keepalive
  <1>8. Crash(i) \/ Drained(i) \/ (\E o : ResetAborted(i, o)) => ControlOK'
    BY <1>5 DEF Crash, Drained, ResetAborted, dbVars
  <1>. QED
    BY <1>1, <1>2, <1>3, <1>4, <1>6, <1>7, <1>8 DEF WorkerStep

LEMMA NextControl == ControlOK /\ [Next]_vars => ControlOK'
  <1>1. ControlOK /\ UNCHANGED vars => ControlOK'
    BY DEF ControlOK, vars
  <1>2. ASSUME ControlOK, NEW t \in TaskIds, ApiStep(t) PROVE ControlOK'
    BY <1>2 DEF ControlOK, ApiStep, Upload, Requeue, Delete, loopVars
  <1>3. ControlOK /\ Tick(Faults) => ControlOK'
    BY DEF ControlOK, Tick, loopVars
  <1>. QED
    BY <1>1, <1>2, <1>3, ExecutorControl, WorkerControl DEF Next, Steps

LEMMA InitControl == Init => ControlOK
  BY LimitsAssumption
     DEF Init, ControlOK, NothingRunning, NoExecutors, NoKeepalives, PC, Keepalive

-----------------------------------------------------------------------------
(* The theorems.                                                           *)

\* IInv holds in every reachable state of every instance of the pipeline.
THEOREM Invariance == Spec => []IInv
  <1>1. Init => IInv
    BY InitRows, InitControl DEF IInv
  <1>2. IInv /\ [Next]_vars => IInv'
    BY NextRows, NextControl DEF IInv
  <1>. QED
    BY <1>1, <1>2, PTL DEF Spec

\* Every variable keeps its type; in particular mark_failure never counts
\* beyond MaxRetries + 1, whatever executors of whichever workers do.
THEOREM TypeCorrect == Spec => []TypeOK
  <1>1. IInv => TypeOK
    BY DEF IInv, ControlOK, RowInv, RowOK, TypeOK
  <1>. QED
    BY <1>1, Invariance, PTL

\* Lock and lease are set exactly on in-flight rows, whatever the faults.
THEOREM LocksCorrect == Spec => []LockIffInFlight
  <1>1. IInv => LockIffInFlight
    BY DEF IInv, RowInv, RowOK, LockIffInFlight
  <1>. QED
    BY <1>1, Invariance, PTL

\* Summary, transcript and error agree with the status, whatever the faults.
THEOREM ResultsCorrect == Spec => []ResultsMatchStatus
  <1>1. IInv => ResultsMatchStatus
    BY DEF IInv, RowInv, RowOK, ResultsMatchStatus
  <1>. QED
    BY <1>1, Invariance, PTL

\* A task is failed exactly when its retries are used up.
THEOREM BudgetCorrect == Spec => []RetryBudget
  <1>1. IInv => RetryBudget
    BY DEF IInv, RowInv, RowOK, RetryBudget
  <1>. QED
    BY <1>1, Invariance, PTL

-----------------------------------------------------------------------------
(* What a step can do to the table.                                        *)

\* An executor behind its fence renews the lease, or writes what its place in
\* process lets it write and moves on.
Writes(i, t, k) ==
    /\ Holds(i, t)
    /\ UNCHANGED life
    /\ \/ rows' = [rows EXCEPT ![t] = RenewRow(@)]
       \/ /\ pc[i][t][k] = "transcribed" /\ pc'[i][t][k] # "transcribed"
          /\ rows' = [rows EXCEPT ![t] = SummarizingRow(@)]
       \/ /\ pc[i][t][k] = "summarized" /\ pc'[i][t][k] # "summarized"
          /\ rows' = [rows EXCEPT ![t] = DoneRow(@)]
       \/ /\ pc[i][t][k] = "fail" /\ pc'[i][t][k] # "fail"
          /\ rows' = [rows EXCEPT ![t] = FailureRow(@)]

\* A dispatcher or worker goes over the table: rows are released, claimed, or
\* released and claimed in one transaction.
Released(i, t) ==
    /\ Stored(t)
    /\ \/ Reclaimable(rows[t], WorkerId[i], up[i] = "down")
       \/ up[i] = "aborting" /\ Abortable(rows[t], WorkerId[i])

Sweeps(i) ==
    /\ UNCHANGED life
    /\ \A t \in TaskIds :
          \/ rows'[t] = rows[t]
          \/ Released(i, t) /\ rows'[t] = ReleasedRow(rows[t])
          \/ /\ Stored(t) /\ Claimable(rows[t])
             /\ rows'[t] = ClaimRow(rows[t], WorkerId[i])
          \/ /\ Stored(t) /\ Reclaimable(rows[t], WorkerId[i], FALSE)
             /\ rows'[t] = ClaimRow(ReleasedRow(rows[t]), WorkerId[i])

LEMMA ExecutorEffect ==
    ASSUME IInv, NEW i \in Instances, NEW t \in TaskIds, NEW k \in Gens,
           ExecutorStep(Faults, i, t, k)
    PROVE  UNCHANGED dbVars \/ Writes(i, t, k)
  <1>1. /\ pc \in [Instances -> [TaskIds -> [Gens -> PC]]]
        /\ rows = [u \in TaskIds |-> rows[u]]
    BY DEF IInv, ControlOK, RowInv
  <1>2. ASSUME NEW next, NEW lease, Goto(i, t, k, next, lease)
        PROVE  pc'[i][t][k] = next
    BY <1>1, <1>2 DEF Goto
  <1>3. ASSUME NEW o, CheckClaim(i, t, k, o) PROVE UNCHANGED dbVars
    BY <1>3 DEF CheckClaim
  <1>4. ASSUME NEW o, FirstRenew(i, t, k, o) \/ RenewLoop(i, t, k, o)
        PROVE  UNCHANGED dbVars \/ Writes(i, t, k)
    BY <1>4 DEF FirstRenew, RenewLoop, Writes, dbVars
  <1>5. ASSUME NEW from, NEW next, Work(i, t, k, from, next)
        PROVE  UNCHANGED dbVars
    BY <1>5 DEF Work
  <1>6. ASSUME NEW o, MarkSummarizing(i, t, k, o)
        PROVE  UNCHANGED dbVars \/ Writes(i, t, k)
    <2>1. Raise(i, t, k) \/ Goto(i, t, k, "llm", ka[i][t][k])
              => pc'[i][t][k] # "transcribed"
      BY <1>2 DEF Raise
    <2>. QED
      BY <1>6, <2>1, Zenon DEF MarkSummarizing, Mark, Writes, dbVars
  <1>7. ASSUME NEW o, MarkDone(i, t, k, o)
        PROVE  UNCHANGED dbVars \/ Writes(i, t, k)
    <2>1. Raise(i, t, k) \/ Goto(i, t, k, "ended", "none")
              => pc'[i][t][k] # "summarized"
      BY <1>2 DEF Raise
    <2>. QED
      BY <1>7, <2>1, Zenon DEF MarkDone, Mark, Writes, dbVars
  <1>8. ASSUME NEW o, HandleFailure(i, t, k, o)
        PROVE  UNCHANGED dbVars \/ Writes(i, t, k)
    <2>1. pc'[i][t][k] # "fail"
      BY <1>2, <1>8 DEF HandleFailure, Finish
    <2>. QED
      BY <1>8, <2>1 DEF HandleFailure, Writes, dbVars
  <1>9. AbortLost(i, t, k) \/ DoneCallback(i, t, k) => UNCHANGED dbVars
    BY DEF AbortLost, DoneCallback
  <1>. QED
    BY <1>3, <1>4, <1>5, <1>6, <1>7, <1>8, <1>9, Zenon
       DEF ExecutorStep, LoadRecording, AsrDone, AsrFail, LlmDone, LlmFail

LEMMA WorkerEffect ==
    ASSUME IInv, NEW i \in Instances, WorkerStep(Faults, i)
    PROVE  UNCHANGED dbVars \/ Sweeps(i)
  <1>1. rows = [t \in TaskIds |-> rows[t]] /\ \A t \in TaskIds : RowOK(rows[t])
    BY DEF IInv, RowInv
  <1>2. ASSUME NEW own \in BOOLEAN, own => up[i] = "down", NEW t \in TaskIds
        PROVE  \/ Reclaimed(i, own)[t] = rows[t]
               \/ /\ Released(i, t)
                  /\ Stored(t) /\ Reclaimable(rows[t], WorkerId[i], own)
                  /\ Reclaimed(i, own)[t] = ReleasedRow(rows[t])
    BY <1>2 DEF Reclaimed, Released, Reclaimable
  <1>3. ASSUME NEW o, NEW reclaim \in BOOLEAN, NEW skipped,
               DispatchClaim(i, o, reclaim, skipped)
        PROVE  UNCHANGED dbVars \/ Sweeps(i)
    <2>. DEFINE swept == IF reclaim THEN Reclaimed(i, FALSE) ELSE rows
                due == {t \in TaskIds : Stored(t) /\ Claimable(swept[t])}
                picked == Oldest(due \ skipped, batch[i])
                f == [t \in TaskIds |->
                        IF t \in picked THEN ClaimRow(swept[t], WorkerId[i])
                                        ELSE swept[t]]
    <2>1. \A t \in picked : Stored(t) /\ Claimable(swept[t])
      BY DEF Oldest
    <2>2. life' = life /\ (rows' = rows \/ rows' = f)
      BY <1>3 DEF DispatchClaim
    <2>3. \A t \in TaskIds :
             \/ swept[t] = rows[t]
             \/ /\ Released(i, t)
                /\ Stored(t) /\ Reclaimable(rows[t], WorkerId[i], FALSE)
                /\ swept[t] = ReleasedRow(rows[t])
      BY <1>2
    <2>. HIDE DEF swept, picked
    <2>4. ASSUME rows' = f PROVE Sweeps(i)
      BY <2>1, <2>2, <2>3, <2>4 DEF Sweeps
    <2>. QED
      BY <2>2, <2>4 DEF dbVars
  <1>4. ASSUME NEW o, Start(i, o) PROVE UNCHANGED dbVars \/ Sweeps(i)
    BY <1>2, <1>4 DEF Start, Sweeps, dbVars
  <1>5. ReclaimOnly(i) => Sweeps(i)
    BY <1>2 DEF ReclaimOnly, Sweeps
  <1>6. ASSUME NEW o, ResetAborted(i, o) PROVE Sweeps(i)
    BY <1>1, <1>6 DEF ResetAborted, Sweeps, Released
  <1>7. DispatchBegin(i) \/ Crash(i) \/ Stop(i) \/ Drained(i) => UNCHANGED dbVars
    BY DEF DispatchBegin, Crash, Stop, Drained
  <1>8. DrainTimeout(i) => UNCHANGED dbVars
    BY Zenon DEF DrainTimeout
  <1>. QED
    BY <1>3, <1>4, <1>5, <1>6, <1>7, <1>8 DEF WorkerStep

LEMMA TableEffect ==
    ASSUME IInv, [Next]_vars
    PROVE  \/ UNCHANGED dbVars
           \/ \E i \in Instances, t \in TaskIds, k \in Gens : Writes(i, t, k)
           \/ \E i \in Instances : Sweeps(i)
           \/ \E t \in TaskIds : ApiStep(t)
           \/ Tick(Faults)
  BY ExecutorEffect, WorkerEffect DEF Next, Steps, vars, dbVars

-----------------------------------------------------------------------------
(* A finished task is final.                                               *)

LEMMA DoneStep == IInv /\ [Next]_vars => KeepsDone
  <1>. SUFFICES ASSUME IInv, [Next]_vars, NEW t \in TaskIds,
                       Stored(t), rows[t].status = "done"
                PROVE  life'[t] = "deleted" \/ rows'[t] = rows[t]
    BY DEF KeepsDone
  <1>1. /\ RowOK(rows[t])
        /\ rows = [u \in TaskIds |-> rows[u]]
        /\ life = [u \in TaskIds |-> life[u]]
    BY DEF IInv, RowInv, ControlOK
  <1>2. /\ \A i \in Instances : ~Holds(i, t) /\ ~Released(i, t)
        /\ \A id, own : ~Reclaimable(rows[t], id, own)
        /\ ~Claimable(rows[t]) /\ ~Requeueable(rows[t])
        /\ AgeRow(rows[t]) = rows[t]
    BY <1>1, WorkerIdType, DoneUntouched DEF Holds, Released
  <1>3. UNCHANGED dbVars => rows'[t] = rows[t]
    BY DEF dbVars
  <1>4. ASSUME NEW i \in Instances, NEW u \in TaskIds, NEW k \in Gens,
               Writes(i, u, k)
        PROVE  rows'[t] = rows[t]
    <2>1. u # t
      BY <1>2, <1>4 DEF Writes
    <2>. QED
      BY <1>1, <1>4, <2>1 DEF Writes
  <1>5. ASSUME NEW i \in Instances, Sweeps(i) PROVE rows'[t] = rows[t]
    BY <1>2, <1>5 DEF Sweeps
  <1>6. ASSUME NEW u \in TaskIds, ApiStep(u)
        PROVE  life'[t] = "deleted" \/ rows'[t] = rows[t]
    BY <1>1, <1>2, <1>6 DEF ApiStep, Upload, Requeue, Delete, Stored
  <1>7. Tick(Faults) => rows'[t] = rows[t]
    BY <1>2 DEF Tick
  <1>. QED
    BY <1>3, <1>4, <1>5, <1>6, <1>7, TableEffect

\* Once done, a task is never written again until it is deleted.
THEOREM DoneFinal == Spec => DoneIsFinal
  <1>1. IInv /\ [Next]_vars => [KeepsDone]_vars
    BY DoneStep
  <1>. QED
    BY <1>1, Invariance, PTL DEF Spec, DoneIsFinal
-----------------------------------------------------------------------------
(* An unexpired lease is respected.                                        *)

\* The body of LeaseRespected, of one task.
Moved(r, s) ==
    \/ s.locked_by # r.locked_by
    \/ s.status # r.status
    \/ s.retry_count # r.retry_count

LeaseTaken(t) ==
    /\ Stored(t) /\ life'[t] = "stored"
    /\ rows[t].lease_expires_at \in 0 .. LeaseSeconds
    /\ Moved(rows[t], rows'[t])

Restores(i) == \E o \in Outcomes(Faults) : Start(i, o) \/ ResetAborted(i, o)

ByItsHolder(t) ==
    \E i \in Instances :
        /\ LockedBy(rows[t], WorkerId[i])
        /\ \/ Restores(i)
           \/ \E k \in Gens : Active(i, t, k) /\ pc'[i][t][k] # pc[i][t][k]

\* A row with a valid lease is in flight, so it is not claimed, and its lease
\* has not expired, so only its own worker may reclaim it.
LEMMA LeasedRow ==
    ASSUME NEW r, RowOK(r), r.lease_expires_at \in 0 .. LeaseSeconds
    PROVE  /\ r.status \in InFlight /\ ~LeaseExpired(r)
           /\ ~Claimable(r) /\ ~Requeueable(r)
           /\ ~Moved(r, r) /\ ~Moved(r, RenewRow(r)) /\ ~Moved(r, AgeRow(r))
  <1>1. r.lease_expires_at # NULL /\ r.lease_expires_at >= 0
    BY NullAssumption, LeaseAssumption, SMT
  <1>2. /\ r.status \in InFlight /\ ~LeaseExpired(r)
        /\ ~Claimable(r) /\ ~Requeueable(r)
    BY <1>1 DEF RowOK, InFlight, LeaseExpired, Claimable, Requeueable
  <1>3. ~Moved(r, r) /\ ~Moved(r, RenewRow(r)) /\ ~Moved(r, AgeRow(r))
    BY Zenon DEF RowOK, Row, RenewRow, AgeRow, Moved
  <1>. QED
    BY <1>2, <1>3

\* A process that releases a row whose lease has not expired is starting, or
\* finishing its shutdown: its dispatcher never does.
LEMMA LeasedRelease ==
    ASSUME IInv, NEW i \in Instances, WorkerStep(Faults, i),
           NEW t \in TaskIds, LeaseTaken(t)
    PROVE  LockedBy(rows[t], WorkerId[i]) /\ Restores(i)
  <1>. DEFINE r == rows[t]
  <1>1. /\ r.status \in InFlight /\ ~LeaseExpired(r)
        /\ ~Claimable(r) /\ ~Moved(r, r)
    BY LeasedRow DEF LeaseTaken, IInv, RowInv
  <1>2. Moved(r, rows'[t]) /\ ~UNCHANGED dbVars
    BY <1>1 DEF LeaseTaken, dbVars
  <1>3. Released(i, t)
    BY <1>1, <1>2, WorkerEffect DEF Sweeps, Reclaimable
  <1>4. up[i] \in {"down", "aborting"} /\ LockedBy(r, WorkerId[i])
    BY <1>1, <1>3 DEF Released, Reclaimable, Abortable
  <1>5. ~Crash(i)
    BY <1>2 DEF Crash
  <1>. QED
    BY <1>4, <1>5 DEF Restores, WorkerStep, DispatchBegin, DispatchClaim,
          ReclaimOnly, Stop, Drained, DrainTimeout

LEMMA LeaseStep ==
    ASSUME IInv, [Next]_vars, NEW t \in TaskIds, LeaseTaken(t)
    PROVE  ByItsHolder(t)
  <1>. DEFINE r == rows[t]
  <1>1. /\ RowOK(r)
        /\ rows = [u \in TaskIds |-> rows[u]]
        /\ life = [u \in TaskIds |-> life[u]]
    BY DEF IInv, RowInv, ControlOK
  <1>2. /\ ~Requeueable(r)
        /\ ~Moved(r, r) /\ ~Moved(r, RenewRow(r)) /\ ~Moved(r, AgeRow(r))
    BY <1>1, LeasedRow DEF LeaseTaken
  <1>3. Moved(r, rows'[t])
    BY DEF LeaseTaken
  <1>4. CASE UNCHANGED vars
    BY <1>2, <1>3, <1>4 DEF vars
  <1>5. ASSUME NEW i \in Instances, NEW u \in TaskIds, NEW k \in Gens,
               ExecutorStep(Faults, i, u, k)
        PROVE  ByItsHolder(t)
    <2>1. Writes(i, u, k)
      BY <1>2, <1>3, <1>5, ExecutorEffect DEF dbVars
    <2>2. u = t
      BY <1>1, <1>2, <1>3, <2>1 DEF Writes
    <2>3. /\ pc[i][t][k] \in {"transcribed", "summarized", "fail"}
          /\ pc'[i][t][k] # pc[i][t][k]
      BY <1>1, <1>2, <1>3, <2>1, <2>2 DEF Writes
    <2>. QED
      BY <2>1, <2>2, <2>3 DEF ByItsHolder, Writes, Holds, Active
  <1>6. ASSUME NEW i \in Instances, WorkerStep(Faults, i) PROVE ByItsHolder(t)
    BY <1>6, LeasedRelease DEF ByItsHolder
  <1>7. ASSUME NEW u \in TaskIds, ApiStep(u) PROVE FALSE
    <2>1. CASE u # t
      BY <1>1, <1>2, <1>3, <1>7, <2>1 DEF ApiStep, Upload, Requeue, Delete
    <2>2. CASE u = t
      BY <1>1, <1>2, <1>7, <2>2
         DEF ApiStep, Upload, Requeue, Delete, LeaseTaken, Stored
    <2>. QED
      BY <2>1, <2>2
  <1>8. CASE Tick(Faults)
    BY <1>2, <1>3, <1>8 DEF Tick
  <1>. QED
    BY <1>4, <1>5, <1>6, <1>7, <1>8 DEF Next, Steps

\* Under every fault and whatever ids the processes have, a task whose lease
\* has not expired is moved only by an executor of its worker, by that worker's
\* start-up or the end of its shutdown, or it is deleted.
THEOREM LeaseKept == Spec => LeaseRespected
  <1>1. IInv /\ [Next]_vars
           => [\A t \in TaskIds : LeaseTaken(t) => ByItsHolder(t)]_vars
    BY LeaseStep
  <1>2. Spec => [][\A t \in TaskIds : LeaseTaken(t) => ByItsHolder(t)]_vars
    BY <1>1, Invariance, PTL DEF Spec
  <1>. QED
    BY <1>2 DEF LeaseRespected, LeaseTaken, Moved, ByItsHolder, Restores

-----------------------------------------------------------------------------
(* No slot leaks.                                                          *)

LEMMA SlotExecutor ==
    ASSUME ControlOK, NoLeakedSlot, NEW i \in Instances, NEW t \in TaskIds,
           NEW k \in Gens, ExecutorStep(Faults, i, t, k)
    PROVE  NoLeakedSlot'
  <1>. USE DEF ControlOK
  <1>1. ASSUME UNCHANGED loopVars, NEW next, next # "free", NEW lease,
               Goto(i, t, k, next, lease)
        PROVE  NoLeakedSlot'
    BY <1>1 DEF NoLeakedSlot, Goto, loopVars
  <1>2. ASSUME UNCHANGED loopVars, Raise(i, t, k) \/ Finish(i, t, k)
        PROVE  NoLeakedSlot'
    BY <1>1, <1>2 DEF Raise, Finish
  <1>3. ASSUME NEW o, CheckClaim(i, t, k, o) PROVE NoLeakedSlot'
    BY <1>1, <1>2, <1>3, Zenon DEF CheckClaim
  <1>4. ASSUME NEW o, FirstRenew(i, t, k, o) PROVE NoLeakedSlot'
    BY <1>1, <1>2, <1>4, Zenon DEF FirstRenew
  <1>5. ASSUME NEW o, RenewLoop(i, t, k, o) PROVE NoLeakedSlot'
    BY <1>5 DEF RenewLoop, NoLeakedSlot, loopVars
  <1>6. ASSUME NEW from, NEW next, next # "free", Work(i, t, k, from, next)
        PROVE  NoLeakedSlot'
    BY <1>1, <1>2, <1>6, Zenon DEF Work
  <1>7. ASSUME NEW o, NEW from, NEW new, NEW next, next # "free", NEW lease,
               Mark(i, t, k, o, from, new, next, lease)
        PROVE  NoLeakedSlot'
    BY <1>1, <1>2, <1>7, Zenon DEF Mark
  <1>8. ASSUME NEW o, HandleFailure(i, t, k, o) PROVE NoLeakedSlot'
    BY <1>2, <1>8 DEF HandleFailure
  <1>9. AbortLost(i, t, k) => NoLeakedSlot'
    BY <1>2 DEF AbortLost
  <1>10. DoneCallback(i, t, k) => NoLeakedSlot'
    BY DEF DoneCallback, Goto, NoLeakedSlot
  <1>11. ASSUME NEW o, LoadRecording(i, t, k, o) PROVE NoLeakedSlot'
    BY <1>6, <1>11 DEF LoadRecording
  <1>12. ASSUME \/ AsrDone(i, t, k) \/ AsrFail(i, t, k)
                \/ LlmDone(i, t, k) \/ LlmFail(i, t, k)
         PROVE  NoLeakedSlot'
    BY <1>6, <1>12 DEF AsrDone, AsrFail, LlmDone, LlmFail
  <1>13. ASSUME NEW o, MarkSummarizing(i, t, k, o) \/ MarkDone(i, t, k, o)
         PROVE  NoLeakedSlot'
    BY <1>7, <1>13 DEF MarkSummarizing, MarkDone
  <1>. QED
    BY <1>3, <1>4, <1>5, <1>8, <1>9, <1>10, <1>11, <1>12, <1>13, Zenon
       DEF ExecutorStep

LEMMA SlotWorker ==
    ASSUME ControlOK, NoLeakedSlot, NEW i \in Instances, WorkerStep(Faults, i)
    PROVE  NoLeakedSlot'
  <1>. USE DEF ControlOK, NoLeakedSlot
  <1>1. UNCHANGED <<pc, running>> => NoLeakedSlot'
    OBVIOUS
  <1>2. ASSUME NEW S \in SUBSET TaskIds, Schedule(i, S) PROVE NoLeakedSlot'
    <2>1. \A t \in S : FreeGen(i, t) \in Gens
      BY <1>2 DEF Schedule, FreeGen
    <2>. QED
      BY <1>2, <2>1 DEF Schedule
  <1>3. ASSUME NEW o, NEW reclaim, NEW skipped,
               DispatchClaim(i, o, reclaim, skipped)
        PROVE  NoLeakedSlot'
    <2>. PICK S \in SUBSET TaskIds : Schedule(i, S) \/ UNCHANGED <<pc, running>>
      BY <1>3, Zenon DEF DispatchClaim, Oldest
    <2>. QED
      BY <1>1, <1>2
  <1>4. Exit(i) => NoLeakedSlot'
    BY DEF Exit, NothingRunning
  <1>5. DrainTimeout(i) => NoLeakedSlot'
    BY DEF DrainTimeout
  <1>6. Crash(i) \/ Drained(i) \/ (\E o : ResetAborted(i, o)) => NoLeakedSlot'
    BY <1>4 DEF Crash, Drained, ResetAborted
  <1>7. DispatchBegin(i) \/ ReclaimOnly(i) \/ Stop(i) \/ (\E o : Start(i, o))
          => NoLeakedSlot'
    BY <1>1 DEF DispatchBegin, ReclaimOnly, Stop, Start, loopVars
  <1>. QED
    BY <1>3, <1>5, <1>6, <1>7 DEF WorkerStep

\* A key of running_tasks never outlives its executor, although a callback
\* pops whatever it finds under the key: every slot comes free again.
THEOREM SlotsKept == Spec => []NoLeakedSlot
  <1>1. Init => NoLeakedSlot
    BY DEF Init, NoLeakedSlot, NothingRunning
  <1>2. IInv /\ NoLeakedSlot /\ [Next]_vars => NoLeakedSlot'
    <2>1. NoLeakedSlot /\ UNCHANGED <<pc, running>> => NoLeakedSlot'
      BY DEF NoLeakedSlot
    <2>2. ASSUME NEW t \in TaskIds, ApiStep(t) PROVE UNCHANGED <<pc, running>>
      BY <2>2 DEF ApiStep, Upload, Requeue, Delete, loopVars
    <2>3. Tick(Faults) \/ UNCHANGED vars => UNCHANGED <<pc, running>>
      BY DEF Tick, loopVars, vars
    <2>. QED
      BY <2>1, <2>2, <2>3, SlotExecutor, SlotWorker DEF Next, Steps, IInv
  <1>. QED
    BY <1>1, <1>2, Invariance, PTL DEF Spec
-----------------------------------------------------------------------------
(* The pipeline implements TaskContract.                                   *)

\* View, of one task.
Abstract(l, r) ==
    [phase |-> IF l = "unborn" THEN "absent"
               ELSE IF l = "deleted" THEN "deleted"
               ELSE IF r.status = "pending" THEN "queued"
               ELSE IF r.status \in InFlight THEN "working" ELSE r.status,
     failures |-> r.retry_count,
     transcript |-> r.transcript # NULL,
     summary |-> r.summary # NULL]

LEMMA ViewIs == IInv => View = [t \in TaskIds |-> Abstract(life[t], rows[t])]
  <1>. SUFFICES ASSUME IInv, NEW t \in TaskIds
                PROVE  Phase(t) = Abstract(life[t], rows[t]).phase
    BY DEF View, Abstract
  <1>1. /\ life[t] \in {"unborn", "stored", "deleted"}
        /\ rows[t].status \in TaskStatus
    BY DEF IInv, ControlOK, RowInv, RowOK, Row
  <1>. QED
    BY <1>1 DEF Phase, Abstract, Stored, TaskStatus, InFlight, Terminal

LEMMA ViewIsNext ==
    IInv' => View' = [t \in TaskIds |-> Abstract(life'[t], rows'[t])]
  <1>1. (IInv => View = [t \in TaskIds |-> Abstract(life[t], rows[t])])'
    BY ViewIs, PTL
  <1>. QED
    BY <1>1

\* What each statement of TaskDao is to the user of a stored task.
LEMMA AbstractClaim ==
    ASSUME NEW r, RowOK(r), NEW id \in WorkerIds
    PROVE  /\ Claimable(r) => Abstract("stored", ClaimRow(r, id)) =
                [Abstract("stored", r) EXCEPT !.phase = "working"]
           /\ r.status \in InFlight =>
                /\ Abstract("stored", ReleasedRow(r)) =
                     [Abstract("stored", r) EXCEPT !.phase = "queued"]
                /\ Abstract("stored", ClaimRow(ReleasedRow(r), id)) =
                     Abstract("stored", r)
  <1>1. r \in Row
    BY DEF RowOK
  <1>2. /\ ClaimRow(r, id).status = "transcribing"
        /\ ClaimRow(r, id).retry_count = r.retry_count
        /\ ClaimRow(r, id).transcript = r.transcript
        /\ ClaimRow(r, id).summary = r.summary
    BY <1>1, Zenon DEF Row, ClaimRow
  <1>3. /\ ReleasedRow(r).status = "pending"
        /\ ReleasedRow(r).retry_count = r.retry_count
        /\ ReleasedRow(r).transcript = r.transcript
        /\ ReleasedRow(r).summary = r.summary
    BY <1>1, Zenon DEF Row, ReleasedRow
  <1>4. ASSUME r.status \in InFlight
        PROVE  /\ ClaimRow(ReleasedRow(r), id).status = "transcribing"
               /\ ClaimRow(ReleasedRow(r), id).retry_count = r.retry_count
               /\ ClaimRow(ReleasedRow(r), id).transcript = r.transcript
               /\ ClaimRow(ReleasedRow(r), id).summary = r.summary
    <2>1. ReleasedRow(r) \in Row
      BY <1>4, ReleasedRowOK DEF RowOK
    <2>. QED
      BY <1>3, <2>1, Zenon DEF Row, ClaimRow
  <1>. QED
    BY <1>2, <1>3, <1>4 DEF Abstract, InFlight, Claimable

\* The record a user sees is made of its four fields.
LEMMA RecordIs ==
    ASSUME NEW a,
           a = [f \in {"phase", "failures", "transcript", "summary"} |-> a[f]]
    PROVE  a = [phase |-> a.phase, failures |-> a.failures,
                transcript |-> a.transcript, summary |-> a.summary]
  <1>. DEFINE b == [phase |-> a.phase, failures |-> a.failures,
                    transcript |-> a.transcript, summary |-> a.summary]
  <1>1. /\ b.phase = a.phase /\ b.failures = a.failures
        /\ b.transcript = a.transcript /\ b.summary = a.summary
    OBVIOUS
  <1>2. b = [f \in {"phase", "failures", "transcript", "summary"} |-> b[f]]
    OBVIOUS
  <1>. HIDE DEF b
  <1>3. a = b
    BY <1>1, <1>2
  <1>. QED
    BY <1>3 DEF b

LEMMA AbstractWrite ==
    ASSUME NEW r, RowOK(r), NEW id \in WorkerIds, LockedBy(r, id)
    PROVE  LET a == Abstract("stored", r)
           IN  /\ a.phase = "working"
               /\ Abstract("stored", RenewRow(r)) = a
               /\ Abstract("stored", SummarizingRow(r)) =
                    [a EXCEPT !.transcript = TRUE]
               /\ Abstract("stored", DoneRow(r)) =
                    [a EXCEPT !.phase = "done", !.summary = TRUE]
               /\ Abstract("stored", FailureRow(r)) =
                    [a EXCEPT !.failures = @ + 1,
                              !.phase = IF a.failures < MaxRetries
                                        THEN "queued" ELSE "failed"]
  <1>. DEFINE n == r.retry_count + 1
  <1>1. /\ r \in Row /\ r.status \in InFlight
        /\ n <= MaxRetries <=> r.retry_count < MaxRetries
    BY LockedInFlight, RetriesAssumption DEF RowOK, Row
  <1>. HIDE DEF n
  <1>2. /\ RenewRow(r).status = r.status
        /\ RenewRow(r).retry_count = r.retry_count
        /\ RenewRow(r).transcript = r.transcript
        /\ RenewRow(r).summary = r.summary
    BY <1>1, Zenon DEF Row, RenewRow
  <1>3. /\ SummarizingRow(r).status = "summarizing"
        /\ SummarizingRow(r).retry_count = r.retry_count
        /\ SummarizingRow(r).transcript = "text"
        /\ SummarizingRow(r).summary = r.summary
    BY <1>1, Zenon DEF Row, SummarizingRow
  <1>4. /\ DoneRow(r).status = "done"
        /\ DoneRow(r).retry_count = r.retry_count
        /\ DoneRow(r).transcript = r.transcript
        /\ DoneRow(r).summary = "json"
    BY <1>1, Zenon DEF Row, DoneRow
  <1>5. /\ FailureRow(r).status = (IF n <= MaxRetries THEN "pending" ELSE "failed")
        /\ FailureRow(r).retry_count = n
        /\ FailureRow(r).transcript = r.transcript
        /\ FailureRow(r).summary = r.summary
    BY <1>1, Zenon DEF n, Row, FailureRow, CountedFailure
  <1>. DEFINE a == Abstract("stored", r)
              tr == r.transcript # NULL
              su == r.summary # NULL
  <1>6. a = [phase |-> "working", failures |-> r.retry_count,
             transcript |-> tr, summary |-> su]
    BY <1>1 DEF Abstract, InFlight
  <1>7. Abstract("stored", RenewRow(r)) = a
    BY <1>2 DEF Abstract
  <1>8. Abstract("stored", SummarizingRow(r)) =
          [phase |-> "working", failures |-> r.retry_count,
           transcript |-> TRUE, summary |-> su]
    <2>1. ("text" # NULL) = TRUE
      BY NullAssumption
    <2>. QED
      BY <1>3, <2>1 DEF Abstract, InFlight
  <1>9. Abstract("stored", DoneRow(r)) =
          [phase |-> "done", failures |-> r.retry_count,
           transcript |-> tr, summary |-> TRUE]
    <2>1. ("json" # NULL) = TRUE
      BY NullAssumption
    <2>. QED
      BY <1>4, <2>1 DEF Abstract, InFlight
  <1>10. Abstract("stored", FailureRow(r)) =
          [phase |-> IF n <= MaxRetries THEN "queued" ELSE "failed",
           failures |-> n, transcript |-> tr, summary |-> su]
    BY <1>5 DEF Abstract, InFlight
  <1>. HIDE DEF a, tr, su
  <1>11. a.phase = "working" /\ a.failures = r.retry_count
    BY <1>6
  <1>12. [a EXCEPT !.transcript = TRUE] =
           [phase |-> "working", failures |-> r.retry_count, transcript |-> TRUE, summary |-> su]
    <2>. DEFINE b == [a EXCEPT !.transcript = TRUE]
    <2>1. b.phase = "working" /\ b.failures = r.retry_count /\ b.transcript = TRUE /\ b.summary = su
      BY <1>6, Zenon
    <2>2. b = [f \in {"phase", "failures", "transcript", "summary"} |-> b[f]]
      BY <1>6, Zenon
    <2>. HIDE DEF b
    <2>3. b = [phase |-> b.phase, failures |-> b.failures,
               transcript |-> b.transcript, summary |-> b.summary]
      BY <2>2, RecordIs
    <2>4. b = [phase |-> "working", failures |-> r.retry_count, transcript |-> TRUE, summary |-> su]
      BY <2>1, <2>3, Zenon
    <2>. QED
      BY <2>4, Zenon DEF b
  <1>13. [a EXCEPT !.phase = "done", !.summary = TRUE] =
           [phase |-> "done", failures |-> r.retry_count, transcript |-> tr, summary |-> TRUE]
    <2>. DEFINE b == [a EXCEPT !.phase = "done", !.summary = TRUE]
    <2>1. b.phase = "done" /\ b.failures = r.retry_count /\ b.transcript = tr /\ b.summary = TRUE
      BY <1>6, Zenon
    <2>2. b = [f \in {"phase", "failures", "transcript", "summary"} |-> b[f]]
      BY <1>6, Zenon
    <2>. HIDE DEF b
    <2>3. b = [phase |-> b.phase, failures |-> b.failures,
               transcript |-> b.transcript, summary |-> b.summary]
      BY <2>2, RecordIs
    <2>4. b = [phase |-> "done", failures |-> r.retry_count, transcript |-> tr, summary |-> TRUE]
      BY <2>1, <2>3, Zenon
    <2>. QED
      BY <2>4, Zenon DEF b
  <1>. DEFINE q == IF a.failures < MaxRetries THEN "queued" ELSE "failed"
  <1>14. (IF n <= MaxRetries THEN "queued" ELSE "failed") = q /\ a.failures + 1 = n
    BY <1>1, <1>11 DEF n
  <1>. HIDE DEF q
  <1>15. [a EXCEPT !.failures = @ + 1, !.phase = q] =
           [phase |-> q, failures |-> n, transcript |-> tr, summary |-> su]
    <2>. DEFINE b == [a EXCEPT !.failures = @ + 1, !.phase = q]
    <2>1. b.phase = q /\ b.failures = n /\ b.transcript = tr /\ b.summary = su
      BY <1>6, <1>14, Zenon
    <2>2. b = [f \in {"phase", "failures", "transcript", "summary"} |-> b[f]]
      BY <1>6, Zenon
    <2>. HIDE DEF b
    <2>3. b = [phase |-> b.phase, failures |-> b.failures,
               transcript |-> b.transcript, summary |-> b.summary]
      BY <2>2, RecordIs
    <2>4. b = [phase |-> q, failures |-> n, transcript |-> tr, summary |-> su]
      BY <2>1, <2>3, Zenon
    <2>. QED
      BY <2>4, Zenon DEF b
  <1>. QED
    BY <1>7, <1>8, <1>9, <1>10, <1>11, <1>12, <1>13, <1>14, <1>15 DEF a, q

LEMMA AbstractAge ==
    ASSUME NEW r, RowOK(r), NEW l
    PROVE  Abstract(l, AgeRow(r)) = Abstract(l, r)
  <1>1. /\ AgeRow(r).status = r.status
        /\ AgeRow(r).retry_count = r.retry_count
        /\ AgeRow(r).transcript = r.transcript
        /\ AgeRow(r).summary = r.summary
    BY Zenon DEF RowOK, Row, AgeRow
  <1>. QED
    BY <1>1 DEF Abstract

LEMMA AbstractNew ==
    \A skew : /\ Abstract("unborn", NewRow(skew)) = Contract!Blank("absent")
              /\ Abstract("stored", NewRow(skew)) = Contract!Blank("queued")
              /\ Abstract("deleted", NewRow(skew)) = Contract!Blank("deleted")
  BY DEF Abstract, NewRow, Contract!Blank, InFlight

\* A step that writes one row changes the view of one task.
LEMMA ViewChange ==
    ASSUME IInv, IInv', NEW t \in TaskIds,
           \A u \in TaskIds \ {t} : rows'[u] = rows[u] /\ life'[u] = life[u]
    PROVE  View' = [View EXCEPT ![t] = Abstract(life'[t], rows'[t])]
  <1>1. /\ View = [u \in TaskIds |-> Abstract(life[u], rows[u])]
        /\ View' = [u \in TaskIds |-> Abstract(life'[u], rows'[u])]
    BY ViewIs, ViewIsNext
  <1>. QED
    BY <1>1

LEMMA RefineWrites ==
    ASSUME IInv, IInv', NEW i \in Instances, NEW t \in TaskIds, NEW k \in Gens,
           Writes(i, t, k)
    PROVE  Contract!Workers \/ View' = View
  <1>. DEFINE a == Abstract("stored", rows[t])
  <1>1. /\ life' = life /\ life[t] = "stored"
        /\ RowOK(rows[t]) /\ LockedBy(rows[t], WorkerId[i])
        /\ rows = [u \in TaskIds |-> rows[u]]
    BY DEF Writes, Holds, Stored, IInv, RowInv
  <1>2. \A u \in TaskIds \ {t} : rows'[u] = rows[u]
    BY <1>1 DEF Writes
  <1>3. /\ View = [u \in TaskIds |-> Abstract(life[u], rows[u])]
        /\ View' = [View EXCEPT ![t] = Abstract("stored", rows'[t])]
    BY <1>1, <1>2, ViewIs, ViewChange
  <1>4. View[t] = a
    BY <1>1, <1>3
  <1>5. /\ a.phase = "working"
        /\ Abstract("stored", RenewRow(rows[t])) = a
        /\ Abstract("stored", SummarizingRow(rows[t])) =
             [a EXCEPT !.transcript = TRUE]
        /\ Abstract("stored", DoneRow(rows[t])) =
             [a EXCEPT !.phase = "done", !.summary = TRUE]
        /\ Abstract("stored", FailureRow(rows[t])) =
             [a EXCEPT !.failures = @ + 1,
                       !.phase = IF a.failures < MaxRetries
                                 THEN "queued" ELSE "failed"]
    BY <1>1, WorkerIdType, AbstractWrite
  <1>. HIDE DEF a
  <1>6. CASE rows' = [rows EXCEPT ![t] = RenewRow(@)]
    <2>1. View' = [View EXCEPT ![t] = View[t]]
      BY <1>1, <1>3, <1>4, <1>5, <1>6
    <2>. QED
      BY <1>3, <2>1
  <1>7. CASE rows' = [rows EXCEPT ![t] = SummarizingRow(@)]
    <2>1. Contract!WriteTranscript(t)
      BY <1>1, <1>3, <1>4, <1>5, <1>7 DEF Contract!WriteTranscript, Contract!Become
    <2>. QED
      BY <2>1 DEF Contract!Workers
  <1>8. CASE rows' = [rows EXCEPT ![t] = DoneRow(@)]
    <2>1. Contract!Complete(t)
      BY <1>1, <1>3, <1>4, <1>5, <1>8 DEF Contract!Complete, Contract!Become
    <2>. QED
      BY <2>1 DEF Contract!Workers
  <1>9. CASE rows' = [rows EXCEPT ![t] = FailureRow(@)]
    <2>1. Contract!Fail(t)
      BY <1>1, <1>3, <1>4, <1>5, <1>9 DEF Contract!Fail, Contract!Become
    <2>. QED
      BY <2>1 DEF Contract!Workers
  <1>. QED
    BY <1>6, <1>7, <1>8, <1>9 DEF Writes

LEMMA RefineSweeps ==
    ASSUME IInv, IInv', NEW i \in Instances, Sweeps(i)
    PROVE  Contract!Workers
  <1>. DEFINE claimed(t) == /\ Stored(t) /\ Claimable(rows[t])
                            /\ rows'[t] = ClaimRow(rows[t], WorkerId[i])
              put(t) == Released(i, t) /\ rows'[t] = ReleasedRow(rows[t])
              taken == {t \in TaskIds : claimed(t)}
              released == {t \in TaskIds : put(t)}
  <1>1. /\ View = [t \in TaskIds |-> Abstract(life[t], rows[t])]
        /\ View' = [t \in TaskIds |-> Abstract(life[t], rows'[t])]
    BY ViewIs, ViewIsNext DEF Sweeps
  <1>2. \A t \in TaskIds : RowOK(rows[t])
    BY DEF IInv, RowInv
  <1>3. ASSUME NEW t \in TaskIds, claimed(t)
        PROVE  /\ View[t].phase = "queued" /\ t \notin released
               /\ View'[t] = [View[t] EXCEPT !.phase = "working"]
    <2>1. rows[t].status = "pending"
      BY <1>3 DEF Claimable
    <2>2. t \notin released
      BY <2>1 DEF Released, Reclaimable, Abortable, InFlight
    <2>3. View[t] = Abstract("stored", rows[t])
      BY <1>1, <1>3 DEF Stored
    <2>4. View'[t] = Abstract("stored", ClaimRow(rows[t], WorkerId[i]))
      BY <1>1, <1>3 DEF Stored
    <2>5. View[t].phase = "queued"
      BY <2>1, <2>3 DEF Abstract
    <2>. QED
      BY <1>2, <1>3, <2>2, <2>3, <2>4, <2>5, AbstractClaim, WorkerIdType
  <1>4. ASSUME NEW t \in TaskIds, put(t)
        PROVE  /\ View[t].phase = "working"
               /\ View'[t] = [View[t] EXCEPT !.phase = "queued"]
    <2>1. Stored(t) /\ rows[t].status \in InFlight
      BY <1>4 DEF Released, Reclaimable, Abortable
    <2>2. View[t] = Abstract("stored", rows[t])
      BY <1>1, <2>1 DEF Stored
    <2>3. View'[t] = Abstract("stored", ReleasedRow(rows[t]))
      BY <1>1, <1>4, <2>1 DEF Stored
    <2>4. View[t].phase = "working"
      BY <2>1, <2>2 DEF Abstract, InFlight
    <2>. QED
      BY <1>2, <2>1, <2>2, <2>3, <2>4, AbstractClaim, WorkerIdType
  <1>5. ASSUME NEW t \in TaskIds, ~claimed(t), ~put(t)
        PROVE  View'[t] = View[t]
    <2>1. CASE rows'[t] = rows[t]
      BY <1>1, <2>1
    <2>2. CASE /\ Stored(t) /\ Reclaimable(rows[t], WorkerId[i], FALSE)
               /\ rows'[t] = ClaimRow(ReleasedRow(rows[t]), WorkerId[i])
      BY <1>1, <1>2, <2>2, AbstractClaim, WorkerIdType DEF Stored, Reclaimable
    <2>. QED
      BY <1>5, <2>1, <2>2 DEF Sweeps
  <1>. HIDE DEF claimed, put
  <1>6. View' = [t \in TaskIds |->
                   IF t \in taken THEN [View[t] EXCEPT !.phase = "working"]
                   ELSE IF t \in released
                        THEN [View[t] EXCEPT !.phase = "queued"]
                   ELSE View[t]]
    BY <1>1, <1>3, <1>4, <1>5
  <1>7. Contract!Dispatch(taken, released)
    BY <1>3, <1>4, <1>6 DEF Contract!Dispatch
  <1>. QED
    BY <1>7 DEF Contract!Workers

LEMMA RefineApi ==
    ASSUME IInv, IInv', NEW t \in TaskIds, ApiStep(t)
    PROVE  Contract!Users(t)
  <1>1. /\ rows = [u \in TaskIds |-> rows[u]]
        /\ life = [u \in TaskIds |-> life[u]]
    BY DEF IInv, RowInv, ControlOK
  <1>2. \A u \in TaskIds \ {t} : rows'[u] = rows[u] /\ life'[u] = life[u]
    BY <1>1 DEF ApiStep, Upload, Requeue, Delete
  <1>3. /\ View = [u \in TaskIds |-> Abstract(life[u], rows[u])]
        /\ View' = [View EXCEPT ![t] = Abstract(life'[t], rows'[t])]
    BY <1>2, ViewIs, ViewChange
  <1>4. ASSUME NEW skew, Upload(t, skew) PROVE Contract!Submit(t)
    BY <1>1, <1>3, <1>4, AbstractNew
       DEF Upload, Contract!Submit, Contract!Become, Abstract
  <1>5. ASSUME Requeue(t) PROVE Contract!Retry(t)
    <2>1. /\ life[t] = "stored" /\ life'[t] = "stored"
          /\ rows[t].status = "failed" /\ rows'[t] = NewRow(0)
      BY <1>1, <1>5 DEF Requeue, Requeueable, RequeuedRow, Stored
    <2>2. View[t].phase = "failed"
      BY <1>3, <2>1 DEF Abstract, InFlight
    <2>. QED
      BY <1>3, <2>1, <2>2, AbstractNew DEF Contract!Retry, Contract!Become
  <1>6. Delete(t) => Contract!Delete(t)
    <2>1. Stored(t) => View[t].phase \notin {"absent", "deleted"}
      <3>1. rows[t].status \in TaskStatus
        BY DEF IInv, RowInv, RowOK, Row
      <3>. QED
        BY <1>3, <3>1 DEF Stored, Abstract, TaskStatus, InFlight, Terminal
    <2>. QED
      BY <1>1, <1>3, <2>1, AbstractNew
         DEF Delete, Contract!Delete, Contract!Become, Contract!Gone
  <1>. QED
    BY <1>4, <1>5, <1>6 DEF ApiStep, Contract!Users

LEMMA RefineStep ==
    ASSUME IInv, IInv', [Next]_vars
    PROVE  [Contract!Next]_View
  <1>1. /\ View = [t \in TaskIds |-> Abstract(life[t], rows[t])]
        /\ View' = [t \in TaskIds |-> Abstract(life'[t], rows'[t])]
    BY ViewIs, ViewIsNext
  <1>2. UNCHANGED dbVars => View' = View
    BY <1>1 DEF dbVars
  <1>3. Tick(Faults) => View' = View
    <2>1. \A t \in TaskIds :
             Abstract(life[t], AgeRow(rows[t])) = Abstract(life[t], rows[t])
      BY AbstractAge DEF IInv, RowInv
    <2>. QED
      BY <1>1, <2>1 DEF Tick
  <1>. QED
    BY <1>2, <1>3, RefineWrites, RefineSweeps, RefineApi, TableEffect
       DEF Contract!Next

\* Any number of processes with leases, locks and faults of every kind move a
\* task only as TaskContract allows: every step of the pipeline is a step of
\* the contract, or changes nothing a user can see.
THEOREM Refinement == Spec => ImplementsContract
  <1>1. Init => Contract!Init
    <2>. SUFFICES ASSUME Init PROVE Contract!Init
      OBVIOUS
    <2>1. IInv
      BY InitRows, InitControl DEF IInv
    <2>. QED
      BY <2>1, ViewIs, AbstractNew DEF Init, Contract!Init
  <1>2. IInv /\ IInv' /\ [Next]_vars => [Contract!Next]_View
    BY RefineStep
  <1>. QED
    BY <1>1, <1>2, Invariance, PTL DEF Spec, ImplementsContract, Contract!Spec
=============================================================================
