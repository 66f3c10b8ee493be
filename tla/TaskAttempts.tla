---------------------------- MODULE TaskAttempts ----------------------------
(* TaskPipeline with a history variable: how many executions of a task      *)
(* were started since it was uploaded or last requeued by hand.             *)
EXTENDS TaskPipeline

VARIABLE attempts

attemptVars == <<vars, attempts>>

\* Executors of t that _schedule_task starts in this step.
Started(t) ==
    Cardinality({e \in Instances \X Gens :
        pc[e[1]][t][e[2]] = "free" /\ pc'[e[1]][t][e[2]] = "check"})

AttemptInit == Init /\ attempts = [t \in TaskIds |-> 0]

AttemptNext ==
    /\ Next
    /\ attempts' = [t \in TaskIds |->
          IF \/ life'[t] # "stored"
             \/ rows[t].status = "failed" /\ rows'[t].status = "pending"
          THEN 0 ELSE attempts[t] + Started(t)]

AttemptSpec == AttemptInit /\ [][AttemptNext]_attemptVars

\* "At most 4 executions in all" (with the default WORKER_MAX_RETRIES = 3): a
\* task is executed at most MaxRetries + 1 times before it has to be done or
\* failed.
AttemptBound == \A t \in TaskIds : attempts[t] <= MaxRetries + 1
=============================================================================
