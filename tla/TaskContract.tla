---------------------------- MODULE TaskContract ----------------------------
(***************************************************************************)
(* What the service promises about a task, whoever works on it: a task is  *)
(* queued, worked on, and ends done with a summary or failed after         *)
(* MaxRetries + 1 failures; a failed one can be started over, a done one   *)
(* never changes, and a deleted one never comes back.  There are no        *)
(* processes, leases, locks, clocks or faults here: TaskPipeline           *)
(* implements this specification with all of them, and TaskApi is the      *)
(* HTTP requests on top of it.                                             *)
(*                                                                         *)
(* An operator whose name has a suffix, like Retry_Done, is a slip in the  *)
(* operator of that name; the runs must notice it (README, Mutants).       *)
(***************************************************************************)
EXTENDS Naturals

CONSTANTS TaskIds,
          MaxRetries   \* WORKER_MAX_RETRIES

VARIABLE task   \* each task as its row is read by the HTTP side

Phases == {"absent", "queued", "working", "done", "failed", "deleted"}

TaskRecord == [phase : Phases,
               failures : 0 .. MaxRetries + 1,
               transcript : BOOLEAN,
               summary : BOOLEAN]

Blank(phase) == [phase |-> phase, failures |-> 0,
                 transcript |-> FALSE, summary |-> FALSE]

Init == task = [t \in TaskIds |-> Blank("absent")]

Gone(t) == task[t].phase \in {"absent", "deleted"}

Become(t, new) == task' = [task EXCEPT ![t] = new]

-----------------------------------------------------------------------------
(* What users do.                                                          *)

Submit(t) == task[t].phase = "absent" /\ Become(t, Blank("queued"))

Retry_Done(t) ==
    task[t].phase \in {"failed", "done"} /\ Become(t, Blank("queued"))

\* The manual retry starts a failed task over, with nothing left of it.
Retry(t) == task[t].phase = "failed" /\ Become(t, Blank("queued"))

Delete(t) == ~Gone(t) /\ Become(t, Blank("deleted"))

-----------------------------------------------------------------------------
(* What workers do.                                                        *)

\* One transaction may take several queued tasks, and put back others whose
\* workers are gone; that counts as no failure and keeps the transcript.
Dispatch(taken, released) ==
    /\ \A t \in taken : task[t].phase = "queued"
    /\ \A t \in released : task[t].phase = "working"
    /\ task' = [t \in TaskIds |->
                  IF t \in taken THEN [task[t] EXCEPT !.phase = "working"]
                  ELSE IF t \in released THEN [task[t] EXCEPT !.phase = "queued"]
                  ELSE task[t]]

WriteTranscript(t) ==
    /\ task[t].phase = "working"
    /\ Become(t, [task[t] EXCEPT !.transcript = TRUE])

Complete(t) ==
    /\ task[t].phase = "working"
    /\ Become(t, [task[t] EXCEPT !.phase = "done", !.summary = TRUE])

Fail_Uncapped(t) ==
    /\ task[t].phase = "working"
    /\ Become(t, [task[t] EXCEPT !.failures = @ + 1, !.phase = "queued"])

\* A failure is counted; the last one the budget allows ends the task.
Fail(t) ==
    /\ task[t].phase = "working"
    /\ Become(t, [task[t] EXCEPT
                    !.failures = @ + 1,
                    !.phase = IF task[t].failures < MaxRetries
                              THEN "queued" ELSE "failed"])

-----------------------------------------------------------------------------

Users(t) == Submit(t) \/ Retry(t) \/ Delete(t)

Workers ==
    \/ \E taken, released \in SUBSET TaskIds : Dispatch(taken, released)
    \/ \E t \in TaskIds : WriteTranscript(t) \/ Complete(t) \/ Fail(t)

Next == Workers \/ \E t \in TaskIds : Users(t)

Spec == Init /\ [][Next]_task
=============================================================================
