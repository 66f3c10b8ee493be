---------------------------- MODULE TaskShutdown ----------------------------
(***************************************************************************)
(* TaskPipeline with a history variable: which tasks a process may leave   *)
(* locked when it is gone, because of an accident with that very task in   *)
(* that very process.                                                      *)
(***************************************************************************)
EXTENDS TaskPipeline

VARIABLE excused   \* of each process, the tasks it had an accident with

shutdownVars == <<vars, excused>>

\* The process dies with the task in hand, or reset_aborted raises, which
\* leaves the same behind.  A step that is also one of an orderly end is none.
DiesHolding(i, t) ==
    /\ Crash(i)
    /\ ~Drained(i) /\ ~ResetAborted(i, "ok")
    /\ Holds(i, t)

\* A claim of the task is committed, ...
Claims(i, t) ==
    /\ batch[i] > 0 /\ batch'[i] = 0
    /\ Holds(i, t)'
    /\ rows'[t] # rows[t]

\* ... but not acknowledged, so no executor is scheduled; or scheduled next to
\* an older executor of the task, with which it has to share a key.
ClaimGoesWrong(i, t) ==
    /\ Claims(i, t)
    /\ \/ pc'[i][t] = pc[i][t]
       \/ \E k \in Gens : pc[i][t][k] # "free"

\* _handle_task_failure raises, and the executor ends with the row locked.
FailureUnwritten(i, t) ==
    \E k \in Gens :
        HandleFailure(i, t, k, "db_error") /\ ~HandleFailure(i, t, k, "ok")

Accident(i, t) ==
    DiesHolding(i, t) \/ ClaimGoesWrong(i, t) \/ FailureUnwritten(i, t)

ShutdownInit == Init /\ excused = [i \in Instances |-> {}]

\* An accident is over once the process has neither the lock nor an executor
\* of the task any more.
ShutdownNext ==
    /\ Next
    /\ excused' = [i \in Instances |->
          {t \in TaskIds : /\ t \in excused[i] \/ Accident(i, t)
                           /\ \/ Holds(i, t)'
                              \/ \E k \in Gens : pc'[i][t][k] # "free"}]

ShutdownSpec == ShutdownInit /\ [][ShutdownNext]_shutdownVars

\* A process that is gone holds no task, unless it was killed with the task in
\* hand, lost sight of its claim, ran two executors of the task at once, or
\* could not write that it gives the task back.  In particular a graceful stop
\* in whatever state of the loop and of the executors, with or without a
\* timeout, a claim under way or tasks taken over by others meanwhile, leaves
\* no row that has to wait for its lease to run out.
CleanStop ==
    \A i \in Instances, t \in TaskIds :
        up[i] = "down" /\ Holds(i, t) => t \in excused[i]
=============================================================================
