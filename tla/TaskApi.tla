------------------------------- MODULE TaskApi -------------------------------
(***************************************************************************)
(* The HTTP requests about tasks, concurrent with each other and with the  *)
(* workers, whose effect on a task is TaskContract's:                      *)
(*                                                                         *)
(*   src/api/service/task.py       get, retry                              *)
(*   src/api/service/recording.py  get_recording, list_recordings,         *)
(*                                 delete_recording, prepare_summary_stream*)
(*   src/api/repository/recording.py, task.py   the statements behind them *)
(*                                                                         *)
(* A step is one SQL statement (READ COMMITTED: each sees what is committed*)
(* when it starts), or one transaction that writes.  A request names a     *)
(* recording that was uploaded; recording and task come and go together,   *)
(* so one id stands for both.                                              *)
(*                                                                         *)
(* "seen", "base" and "told" are history: what happened while a request    *)
(* was open, and what clients had been told before it began.               *)
(***************************************************************************)
EXTENDS TaskContract

CONSTANT Requests   \* requests that may be open at once

ASSUME BudgetAssumption == MaxRetries \in Nat

VARIABLES req,    \* each request: what it is, where it is, what it answered
          seen,   \* the states its tasks had while it was open
          base,   \* what clients knew of its tasks when it began
          told    \* what clients have been told for good

apiVars == <<task, req, seen, base, told>>

Single == {"status", "detail", "stream", "retry", "delete"}
Ops == Single \cup {"list"}
Steps == {"read", "recording", "task", "requeue", "requeue_again", "reread",
          "remove", "page", "statuses", "over"}

Known == {"nothing", "done", "deleted"}
Codes == {"none", "200", "draft", "204", "400", "404", "409", "500", "503"}

\* An answer says the phase of some tasks; a listed one may be without.
Says == UNION {[S -> Phases \cup {"unknown"}] : S \in SUBSET TaskIds}
Nothing == [t \in {} |-> "unknown"]

\* What a request may witness of its tasks: their phases, that a failed one
\* was restarted, and that it failed again after that.
Sights == Phases \cup {"restarted", "refailed"}

TypeOK ==
    /\ task \in [TaskIds -> TaskRecord]
    /\ req \in [Requests -> [op : Ops, on : SUBSET TaskIds, pc : Steps,
                             code : Codes, says : Says]]
    /\ seen \in [Requests -> SUBSET (TaskIds \X Sights)]
    /\ base \in [Requests -> [TaskIds -> Known]]
    /\ told \in [TaskIds -> Known]

ApiInit ==
    /\ Init
    /\ req = [r \in Requests |-> [op |-> "list", on |-> {}, pc |-> "over",
                                  code |-> "none", says |-> Nothing]]
    /\ seen = [r \in Requests |-> {}]
    /\ base = [r \in Requests |-> [t \in TaskIds |-> "nothing"]]
    /\ told = [t \in TaskIds |-> "nothing"]

Open(r) == req[r].pc # "over"
At(r, t, pc) == req[r].pc = pc /\ req[r].on = {t}

-----------------------------------------------------------------------------
(* Where a request goes next.                                              *)

Goto(r, pc) == req' = [req EXCEPT ![r].pc = pc] /\ UNCHANGED told

\* Clients remember that a task is done or gone; nothing else is for good.
Learn(code, on, says) ==
    [t \in TaskIds |->
        IF t \in on /\ code \in {"204", "404"} THEN "deleted"
        ELSE IF t \in DOMAIN says /\ says[t] = "done" /\ told[t] = "nothing"
             THEN "done" ELSE told[t]]

\* errors.py maps each exception of the services to a status code.
Answer(r, code, says) ==
    /\ req' = [req EXCEPT ![r].pc = "over", ![r].code = code, ![r].says = says]
    /\ told' = Learn(code, req[r].on, says)

Refuse(r, code) == Answer(r, code, Nothing)
Tell(r, t, phase) == Answer(r, "200", [u \in {t} |-> phase])

\* TaskNotRetryableError names the status that was read.
Conflict(r, t) == Answer(r, "409", [u \in {t} |-> task[t].phase])

-----------------------------------------------------------------------------
(* POST /v1/tasks/{id}/retry                                               *)

Recoverable(t) == task[t].phase \in {"queued", "working"}

\* requeue_failed: an UPDATE that finds the task failed, or nothing.
TryRequeue(r, t, from, missed) ==
    /\ At(r, t, from)
    /\ \/ Retry(t) /\ Tell(r, t, "queued")
       \/ task[t].phase # "failed" /\ Goto(r, missed) /\ UNCHANGED task

Requeue(r, t) == TryRequeue(r, t, "requeue", "read")

RequeueAgain(r, t) == TryRequeue(r, t, "requeue_again", "reread")

\* The reads between and after the attempts, and GET /v1/tasks/{id}.
ReadTask(r, t) ==
    /\ At(r, t, "read")
    /\ \/ Gone(t) /\ Refuse(r, "404")
       \/ ~Gone(t) /\ req[r].op = "status" /\ Tell(r, t, task[t].phase)
       \/ req[r].op = "retry" /\ Recoverable(t) /\ Tell(r, t, task[t].phase)
       \/ /\ req[r].op = "retry"
          /\ task[t].phase = "failed"
          /\ Goto(r, "requeue_again")
       \/ /\ req[r].op = "retry"
          /\ task[t].phase = "done"
          /\ Conflict(r, t)
    /\ UNCHANGED task

Reread_Strict(r, t) ==
    /\ At(r, t, "reread")
    /\ \/ Gone(t) /\ Refuse(r, "404")
       \/ ~Gone(t) /\ Conflict(r, t)
    /\ UNCHANGED task

Reread(r, t) ==
    /\ At(r, t, "reread")
    /\ \/ Gone(t) /\ Refuse(r, "404")
       \/ Recoverable(t) /\ Tell(r, t, task[t].phase)
       \/ task[t].phase \in {"failed", "done"} /\ Conflict(r, t)
    /\ UNCHANGED task

-----------------------------------------------------------------------------
(* GET and DELETE /v1/recordings/{id}, and the summary stream.             *)

\* get_by_id and delete read the recording first.
ReadRecording(r, t) ==
    /\ At(r, t, "recording")
    /\ \/ Gone(t) /\ Refuse(r, "404")
       \/ ~Gone(t) /\ Goto(r, IF req[r].op = "delete" THEN "remove" ELSE "task")
    /\ UNCHANGED task

\* to_detail_response: the results belong to the answer only when done.
Detail(r, t) ==
    /\ At(r, t, "task")
    /\ req[r].op = "detail"
    /\ \/ Gone(t) /\ Refuse(r, "404")
       \/ ~Gone(t) /\ Tell(r, t, task[t].phase)
    /\ UNCHANGED task

PrepareStream_TranscriptFirst(r, t) ==
    /\ At(r, t, "task")
    /\ req[r].op = "stream"
    /\ \/ Gone(t) /\ Refuse(r, "404")
       \/ ~Gone(t) /\ ~task[t].transcript /\ Refuse(r, "400")
       \/ ~Gone(t) /\ task[t].transcript
          /\ IF task[t].summary THEN Tell(r, t, "done") ELSE Refuse(r, "draft")
    /\ UNCHANGED task

\* prepare_summary_stream: replay what is stored, or ("draft") generate a
\* summary that is not stored, if there is a transcript and an LLM.
PrepareStream(r, t) ==
    LET stored == task[t].summary /\ task[t].phase = "done"
    IN  /\ At(r, t, "task")
        /\ req[r].op = "stream"
        /\ \/ Gone(t) /\ Refuse(r, "404")
           \/ ~Gone(t) /\ stored /\ Tell(r, t, "done")
           \/ ~Gone(t) /\ ~stored /\ ~task[t].transcript /\ Refuse(r, "400")
           \/ /\ ~Gone(t) /\ ~stored /\ task[t].transcript
              /\ Refuse(r, "503") \/ Refuse(r, "draft")
        /\ UNCHANGED task

\* The transaction of delete: another request may have deleted the rows
\* since this one read the recording, which it does not notice.
Remove(r, t) ==
    /\ At(r, t, "remove")
    /\ Delete(t) \/ (Gone(t) /\ UNCHANGED task)
    /\ Refuse(r, "204")

-----------------------------------------------------------------------------
(* GET /v1/recordings                                                      *)

\* page and page_size select some of the recordings, in any position.
ListPage(r) ==
    /\ req[r].pc = "page"
    /\ \E items \in SUBSET {t \in TaskIds : ~Gone(t)} :
          req' = [req EXCEPT ![r].pc = "statuses",
                             ![r].says = [t \in items |-> "unknown"]]
    /\ UNCHANGED <<task, told>>

\* list_by_recording_ids, a second statement: a recording deleted in between
\* is listed without a task.
ListStatuses(r) ==
    /\ req[r].pc = "statuses"
    /\ Answer(r, "200", [t \in DOMAIN req[r].says |->
                           IF Gone(t) THEN "unknown" ELSE task[t].phase])
    /\ UNCHANGED task

-----------------------------------------------------------------------------
(* The end of a request by an exception, its beginning, and the workers.   *)

\* Any statement may raise; a requeue or a deletion may have taken effect.
Raises(r) ==
    /\ Open(r)
    /\ \/ UNCHANGED task
       \/ \E t \in TaskIds :
             \/ At(r, t, "requeue") /\ Retry(t)
             \/ At(r, t, "requeue_again") /\ Retry(t)
             \/ At(r, t, "remove") /\ Delete(t)
    /\ Refuse(r, "500")

First == [status |-> "read", detail |-> "recording", stream |-> "recording",
          retry |-> "requeue", delete |-> "recording", list |-> "page"]

States(on) == {<<t, task[t].phase>> : t \in on}

Begin(r, op, on) ==
    /\ ~Open(r)
    /\ req' = [req EXCEPT ![r] = [op |-> op, on |-> on, pc |-> First[op],
                                  code |-> "none", says |-> Nothing]]
    /\ seen' = [seen EXCEPT ![r] = States(on)]
    /\ base' = [base EXCEPT ![r] = [t \in TaskIds |->
                   IF t \in on THEN told[t] ELSE "nothing"]]
    /\ UNCHANGED <<task, told>>

Uploaded == {t \in TaskIds : task[t].phase # "absent"}

BeginAny(r) ==
    \/ \E op \in Single, t \in Uploaded : Begin(r, op, {t})
    \/ Begin(r, "list", TaskIds)

\* What the open requests witness of a step.
Observe ==
    /\ seen' = [r \in Requests |->
          IF ~Open(r) THEN seen[r]
          ELSE seen[r] \cup {<<t, task'[t].phase>> : t \in req[r].on}
                       \cup {<<t, "restarted">> : t \in {u \in req[r].on :
                               /\ task[u].phase = "failed"
                               /\ task'[u].phase = "queued"}}
                       \cup {<<t, "refailed">> : t \in {u \in req[r].on :
                               /\ <<u, "restarted">> \in seen[r]
                               /\ task[u].phase # "failed"
                               /\ task'[u].phase = "failed"}}]
    /\ UNCHANGED base

Serve(r) ==
    \/ \E t \in TaskIds :
          \/ Requeue(r, t) \/ ReadTask(r, t)
          \/ RequeueAgain(r, t) \/ Reread(r, t)
          \/ ReadRecording(r, t) \/ Detail(r, t)
          \/ PrepareStream(r, t) \/ Remove(r, t)
    \/ ListPage(r)
    \/ ListStatuses(r)
    \/ Raises(r)

Elsewhere ==
    /\ Workers \/ \E t \in TaskIds : Submit(t)
    /\ UNCHANGED <<req, told>>

ApiNext ==
    \/ \E r \in Requests : BeginAny(r)
    \/ \E r \in Requests : Serve(r) /\ Observe
    \/ Elsewhere /\ Observe

ApiSpec == ApiInit /\ [][ApiNext]_apiVars

-----------------------------------------------------------------------------
(* Properties.                                                             *)

Answered(r, op, t) == req[r].op = op /\ req[r].on = {t} /\ ~Open(r)
Was(r, t, phase) == <<t, phase>> \in seen[r]

\* The answer to a retry is one that a retry made in one step at some moment
\* of the request would have got: 200 with a status that shows it waiting or
\* at work and that it had (the retry itself may have put it there), 404 if it
\* was deleted, 409 if it was done.  One exception: the last read may refuse a
\* failed task, but only if another retry restarted it meanwhile and it has
\* failed again since.
RetryAnswers ==
    \A r \in Requests, t \in TaskIds :
        Answered(r, "retry", t) =>
            CASE req[r].code = "200" -> /\ req[r].says[t] \in {"queued", "working"}
                                        /\ Was(r, t, req[r].says[t])
              [] req[r].code = "404" -> Was(r, t, "deleted")
              [] req[r].code = "409" ->
                    \/ req[r].says[t] = "done" /\ Was(r, t, "done")
                    \/ req[r].says[t] = "failed" /\ Was(r, t, "refailed")
              [] OTHER -> req[r].code = "500"

\* As the README has it (POST /v1/tasks/{task_id}/retry): a failed task can be
\* retried, a waiting or working one is returned as it is; so only a done one
\* is refused.
RefusedOnlyDone ==
    \A r \in Requests, t \in TaskIds :
        Answered(r, "retry", t) /\ req[r].code = "409" => Was(r, t, "done")

\* What a read answers was so at some moment of it, although it takes several
\* statements: every phase it names, every 404, every listed recording
\* without a task; and a stream is refused or drafted anew only if the task
\* was not done all the time.
ReadAnswers ==
    \A r \in Requests, t \in TaskIds :
        /\ ~Open(r) /\ req[r].op # "retry" /\ t \in req[r].on
        => /\ t \in DOMAIN req[r].says =>
                Was(r, t, IF req[r].says[t] = "unknown" THEN "deleted"
                          ELSE req[r].says[t])
           /\ req[r].code \in {"404", "204"} => Was(r, t, "deleted")
           /\ req[r].code \in {"400", "503", "draft"} =>
                \E p \in Phases \ {"done", "deleted"} : Was(r, t, p)

\* What a client was told for good is not taken back by any request that
\* begins later: a done task (in a status, a detail, a list or a replayed
\* stream) stays done with its result or is deleted, a deleted one stays away.
NeverTakenBack ==
    \A r \in Requests, t \in TaskIds :
        /\ ~Open(r) /\ base[r][t] # "nothing"
        => /\ t \in DOMAIN req[r].says =>
                base[r][t] = "done" /\ req[r].says[t] \in {"done", "unknown"}
           /\ req[r].op \in Single =>
                \/ req[r].code \in {"404", "204", "500"}
                \/ base[r][t] = "done" /\ req[r].code = "409"
                \/ base[r][t] = "done" /\ t \in DOMAIN req[r].says
=============================================================================
