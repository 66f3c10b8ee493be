---------------------------- MODULE TaskRecovery ----------------------------
(***************************************************************************)
(* TaskPipeline in two periods: one in which every fault in Faults may     *)
(* happen, in any number and order, and then, from any state that left     *)
(* with some process up, one in which none does.  The question is whether  *)
(* the leases, the reclaim and the retries bring every task to an end      *)
(* from whatever the faults left behind.  Manual retries end with the      *)
(* faults: claims go to the oldest row first, so a user who requeues an    *)
(* old task over and over starves the younger ones.                        *)
(***************************************************************************)
EXTENDS TaskPipeline

VARIABLE calm   \* have the faults ceased

recoveryVars == <<vars, calm>>

RecoveryInit == Init /\ calm = FALSE

FaultsCease ==
    /\ ~calm
    /\ Serving
    /\ calm' = TRUE
    /\ UNCHANGED vars

Calmly(A) == calm /\ A /\ UNCHANGED calm

NoManualRetry ==
    \A t \in TaskIds :
        Stored(t) /\ rows[t].status = "failed" =>
            life'[t] = "deleted" \/ rows'[t].status = "failed"

RecoveryNext ==
    \/ ~calm /\ Next /\ UNCHANGED calm
    \/ FaultsCease
    \/ Calmly(Steps({}) /\ NoManualRetry)

-----------------------------------------------------------------------------
(* Fairness.  The event loop runs every coroutine that is ready, the ASR   *)
(* and the LLM call end (both are bounded by timeouts), the renew loop and *)
(* the dispatcher loop go round, and time passes.                          *)

\* The steps of TaskExecutor.process itself, in calm times.
Process(i, t, k) ==
    \/ CheckClaim(i, t, k, "ok")
    \/ FirstRenew(i, t, k, "ok")
    \/ LoadRecording(i, t, k, "ok")
    \/ AsrDone(i, t, k) \/ AsrFail(i, t, k)
    \/ MarkSummarizing(i, t, k, "ok")
    \/ LlmDone(i, t, k) \/ LlmFail(i, t, k)
    \/ MarkDone(i, t, k, "ok")
    \/ AbortLost(i, t, k)
    \/ HandleFailure(i, t, k, "ok")
    \/ DoneCallback(i, t, k)

\* A claim whose transaction also sweeps the expired leases.  Strong fairness:
\* _reclaim_due stays true until a sweep is made, so one of the transactions
\* that keep coming makes it.
SweepingClaim(i) == DispatchClaim(i, "ok", TRUE, {})

Fairness ==
    /\ WF_recoveryVars(FaultsCease)
    /\ WF_recoveryVars(Calmly(Tick({})))
    /\ \A i \in Instances :
         /\ WF_recoveryVars(Calmly(DispatchBegin(i)))
         /\ SF_recoveryVars(Calmly(SweepingClaim(i)))
         /\ SF_recoveryVars(Calmly(ReclaimOnly(i)))
         /\ \A t \in TaskIds, k \in Gens :
              /\ WF_recoveryVars(Calmly(Process(i, t, k)))
              /\ WF_recoveryVars(Calmly(RenewLoop(i, t, k, "ok")))

RecoverySpec ==
    RecoveryInit /\ [][RecoveryNext]_recoveryVars /\ Fairness

-----------------------------------------------------------------------------
\* Once the faults have ceased, every task ends: it becomes done or failed,
\* or its recording is deleted.  In particular no row stays in flight because
\* its process died, its claim was never scheduled or its failure was never
\* written, and no leaked slot or zombie executor stops the dispatcher.
EveryTaskEnds ==
    \A t \in TaskIds :
        (calm /\ Stored(t) /\ rows[t].status \notin Terminal)
            ~> (~Stored(t) \/ rows[t].status \in Terminal)

\* Once the faults have ceased, every slot of a process that is up comes back:
\* an executor whose task was reclaimed, finished by another process or
\* deleted, and one whose renew loop is dead, ends all the same, and takes its
\* key out of running_tasks.
SlotsComeBack ==
    \A i \in Instances :
        (calm /\ up[i] = "up" /\ Inflight(i) > 0) ~> Inflight(i) = 0
=============================================================================
