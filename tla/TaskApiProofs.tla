--------------------------- MODULE TaskApiProofs ----------------------------
(***************************************************************************)
(* Proofs about TaskApi, for any number of tasks and of concurrent         *)
(* requests.                                                               *)
(*                                                                         *)
(* A request is answered in its last statement from what it read in        *)
(* earlier ones, so the invariant keeps, for every open request, what the  *)
(* reads it has behind it still say of its tasks (Reading), and what its   *)
(* answer rests on once it is given (Answering).                           *)
(***************************************************************************)
EXTENDS TaskApi, TLAPS

\* A row: the count stays within the budget and a summary comes with "done".
TasksOK ==
    \A t \in TaskIds :
        /\ task[t].phase # "failed" => task[t].failures <= MaxRetries
        /\ task[t].phase = "done" => task[t].summary

\* Which requests get to which statement.
Serves == [read          |-> {"status", "retry"},
           recording     |-> {"detail", "stream", "delete"},
           task          |-> {"detail", "stream"},
           requeue       |-> {"retry"},
           requeue_again |-> {"retry"},
           reread        |-> {"retry"},
           remove        |-> {"delete"},
           page          |-> {"list"},
           statuses      |-> {"list"},
           over          |-> Ops]

Shape(r) ==
    /\ req[r].op \in Serves[req[r].pc]
    /\ req[r].op \in Single => \E t \in TaskIds : req[r].on = {t}
    /\ req[r].pc \in {"page", "statuses"} => req[r].on = TaskIds
    /\ DOMAIN req[r].says \subseteq req[r].on
    /\ req[r].pc \notin {"statuses", "over"} => DOMAIN req[r].says = {}

\* An open request has seen each of its tasks as it is now; what it named was
\* uploaded, what it listed was there.  A retry that found its task failed and
\* could not restart it twice has seen somebody else restart it, and a task
\* that was restarted and is failed has failed again since.
Reading(r) ==
    Open(r) =>
        \A t \in req[r].on :
            /\ Was(r, t, task[t].phase)
            /\ req[r].op \in Single \/ t \in DOMAIN req[r].says =>
                  task[t].phase # "absent"
            /\ req[r].pc = "requeue_again" =>
                  \/ task[t].phase \in {"failed", "deleted"}
                  \/ Was(r, t, "restarted")
            /\ req[r].pc = "reread" =>
                  \/ task[t].phase = "deleted"
                  \/ Was(r, t, "restarted")
            /\ Was(r, t, "restarted") /\ task[t].phase = "failed" =>
                  Was(r, t, "refailed")

\* What the answer of a request rests on.
Answering(r) ==
    ~Open(r) =>
        /\ \A t \in DOMAIN req[r].says :
              /\ req[r].says[t] \notin {"absent", "deleted"}
              /\ Was(r, t, IF req[r].says[t] = "unknown" THEN "deleted"
                           ELSE req[r].says[t])
        /\ req[r].code \in {"404", "204"} =>
              \A t \in req[r].on : Was(r, t, "deleted")
        /\ req[r].code \in {"400", "503", "draft"} =>
              /\ req[r].op # "retry"
              /\ \A t \in req[r].on :
                    \E p \in Phases \ {"done", "deleted"} : Was(r, t, p)
        /\ req[r].code = "409" =>
              /\ req[r].op = "retry"
              /\ DOMAIN req[r].says = req[r].on
              /\ \A t \in req[r].on :
                    \/ req[r].says[t] = "done"
                    \/ req[r].says[t] = "failed" /\ Was(r, t, "refailed")
        /\ req[r].code = "200" =>
              req[r].op = "list" \/ DOMAIN req[r].says = req[r].on
        /\ req[r].op = "retry" =>
              /\ req[r].code \in {"200", "404", "409", "500"}
              /\ req[r].code = "200" => \A t \in req[r].on :
                    req[r].says[t] \in {"queued", "working"}
        /\ req[r].code = "none" => req[r].op = "list"

\* What was known when a request began bounds what it sees.
After(known) ==
    IF known = "nothing" THEN Sights
    ELSE IF known = "done" THEN {"done", "deleted"} ELSE {"deleted"}

Past(r) ==
    \A t \in TaskIds :
        /\ \A p \in Sights : Was(r, t, p) => p \in After(base[r][t])
        /\ base[r][t] # "nothing" => t \in req[r].on
        /\ t \in DOMAIN req[r].says => base[r][t] # "deleted"

ToldOK == \A t \in TaskIds : task[t].phase \in After(told[t])

ApiInv ==
    /\ TypeOK
    /\ TasksOK
    /\ ToldOK
    /\ \A r \in Requests : Shape(r) /\ Reading(r) /\ Answering(r) /\ Past(r)
-----------------------------------------------------------------------------
(* How a task may change in one step, whoever takes it.                    *)

Typed == task \in [TaskIds -> TaskRecord]

\* A record of TaskContract that keeps to the budget and to its summary.
Sound(new) ==
    /\ new \in TaskRecord
    /\ new.phase # "failed" => new.failures <= MaxRetries
    /\ new.phase = "done" => new.summary

Moves(old, new) ==
    /\ old # "absent" => new # "absent"
    /\ old = "done" => new \in {"done", "deleted"}
    /\ old = "deleted" => new = "deleted"
    /\ old = "failed" => new \in {"failed", "queued", "deleted"}

TaskStep ==
    /\ Typed' /\ TasksOK'
    /\ \A t \in TaskIds : Moves(task[t].phase, task'[t].phase)

\* A step that leaves all tasks alone.
LEMMA IdleStep ==
    ASSUME Typed, TasksOK, UNCHANGED task
    PROVE  TaskStep
  <1>1. Typed' /\ TasksOK'
    BY DEF Typed, TasksOK
  <1>2. ASSUME NEW t \in TaskIds PROVE Moves(task[t].phase, task'[t].phase)
    BY DEF Moves
  <1>. QED
    BY <1>1, <1>2 DEF TaskStep

\* A step that rewrites one task.
LEMMA BecomeStep ==
    ASSUME Typed, TasksOK, NEW t \in TaskIds, NEW new, Become(t, new),
           Sound(new), Moves(task[t].phase, new.phase)
    PROVE  TaskStep
  <1>1. /\ task' \in [TaskIds -> TaskRecord] /\ task'[t] = new
        /\ \A u \in TaskIds \ {t} : task'[u] = task[u]
    BY DEF Typed, Become, Sound
  <1>2. TasksOK'
    BY <1>1 DEF TasksOK, Sound
  <1>3. ASSUME NEW u \in TaskIds PROVE Moves(task[u].phase, task'[u].phase)
    BY <1>1 DEF Moves
  <1>. QED
    BY <1>1, <1>2, <1>3 DEF TaskStep, Typed

\* A blank record starts a task over or buries it.
LEMMA BlankSound ==
    ASSUME NEW p \in {"queued", "deleted"}
    PROVE  Sound(Blank(p)) /\ Blank(p).phase = p
  <1>1. Blank(p).phase = p /\ Blank(p).failures = 0
    BY DEF Blank
  <1>2. 0 \in 0 .. MaxRetries + 1 /\ 0 <= MaxRetries
    BY BudgetAssumption
  <1>3. Blank(p) \in TaskRecord
    BY <1>2, Zenon DEF Blank, TaskRecord, Phases
  <1>. QED
    BY <1>1, <1>2, <1>3 DEF Sound

\* What users do to a task.
LEMMA UserStep ==
    ASSUME Typed, TasksOK, NEW t \in TaskIds, Users(t)
    PROVE  TaskStep
  <1>1. CASE Submit(t)
    <2>1. Become(t, Blank("queued")) /\ Moves(task[t].phase, "queued")
      BY <1>1 DEF Submit, Moves
    <2>. QED
      BY <2>1, BlankSound, BecomeStep
  <1>2. CASE Retry(t)
    <2>1. Become(t, Blank("queued")) /\ Moves(task[t].phase, "queued")
      BY <1>2 DEF Retry, Moves
    <2>. QED
      BY <2>1, BlankSound, BecomeStep
  <1>3. CASE Delete(t)
    <2>1. Become(t, Blank("deleted")) /\ Moves(task[t].phase, "deleted")
      BY <1>3 DEF Delete, Moves
    <2>. QED
      BY <2>1, BlankSound, BecomeStep
  <1>. QED
    BY <1>1, <1>2, <1>3 DEF Users

\* What workers do to tasks.
LEMMA WorkerStep ==
    ASSUME Typed, TasksOK, Workers
    PROVE  TaskStep
  <1>1. ASSUME NEW taken \in SUBSET TaskIds, NEW released \in SUBSET TaskIds,
               Dispatch(taken, released)
        PROVE  TaskStep
    <2>1. ASSUME NEW t \in TaskIds
          PROVE  /\ task'[t] \in TaskRecord
                 /\ task'[t].failures = task[t].failures
                 /\ \/ task'[t] = task[t]
                    \/ task[t].phase = "queued" /\ task'[t].phase = "working"
                    \/ task[t].phase = "working" /\ task'[t].phase = "queued"
      <3>1. task[t] \in TaskRecord
        BY DEF Typed
      <3>2. CASE t \in taken
        <4>1. task'[t] = [task[t] EXCEPT !.phase = "working"]
          BY <1>1, <3>2 DEF Dispatch
        <4>2. task[t].phase = "queued"
          BY <1>1, <3>2 DEF Dispatch
        <4>. QED
          BY <3>1, <4>1, <4>2, Zenon DEF TaskRecord, Phases
      <3>3. CASE t \notin taken /\ t \in released
        <4>1. task'[t] = [task[t] EXCEPT !.phase = "queued"]
          BY <1>1, <3>3 DEF Dispatch
        <4>2. task[t].phase = "working"
          BY <1>1, <3>3 DEF Dispatch
        <4>. QED
          BY <3>1, <4>1, <4>2, Zenon DEF TaskRecord, Phases
      <3>4. CASE t \notin taken /\ t \notin released
        BY <1>1, <3>1, <3>4 DEF Dispatch
      <3>. QED
        BY <3>2, <3>3, <3>4
    <2>2. Typed'
      <3>1. \E f : task' = [t \in TaskIds |-> f[t]]
        <4>1. task' = [t \in TaskIds |-> task'[t]]
          BY <1>1 DEF Dispatch
        <4>. QED
          BY <4>1
      <3>. QED
        BY <2>1, <3>1 DEF Typed
    <2>3. TasksOK'
      BY <2>1 DEF TasksOK
    <2>4. ASSUME NEW t \in TaskIds PROVE Moves(task[t].phase, task'[t].phase)
      BY <2>1 DEF Moves
    <2>. QED
      BY <2>2, <2>3, <2>4 DEF TaskStep
  <1>2. ASSUME NEW t \in TaskIds, WriteTranscript(t) \/ Complete(t) \/ Fail(t)
        PROVE  TaskStep
    <2>1. /\ task[t] \in TaskRecord /\ task[t].phase = "working"
          /\ task[t].failures \in 0 .. MaxRetries
      BY <1>2, BudgetAssumption
      DEF Typed, TasksOK, WriteTranscript, Complete, Fail, TaskRecord
    <2>2. CASE WriteTranscript(t)
      <3>. DEFINE new == [task[t] EXCEPT !.transcript = TRUE]
      <3>1. new \in TaskRecord /\ new.phase = "working"
            /\ new.failures = task[t].failures
        BY <2>1, Zenon DEF TaskRecord
      <3>2. Become(t, new)
        BY <2>2 DEF WriteTranscript
      <3>. HIDE DEF new
      <3>3. Sound(new) /\ Moves(task[t].phase, new.phase)
        BY <2>1, <3>1, BudgetAssumption DEF Sound, Moves
      <3>. QED
        BY <3>2, <3>3, BecomeStep
    <2>3. CASE Complete(t)
      <3>. DEFINE new == [task[t] EXCEPT !.phase = "done", !.summary = TRUE]
      <3>1. /\ new \in TaskRecord /\ new.phase = "done" /\ new.summary
            /\ new.failures = task[t].failures
        BY <2>1, Zenon DEF TaskRecord, Phases
      <3>2. Become(t, new)
        BY <2>3 DEF Complete
      <3>. HIDE DEF new
      <3>3. Sound(new) /\ Moves(task[t].phase, new.phase)
        BY <2>1, <3>1, BudgetAssumption DEF Sound, Moves
      <3>. QED
        BY <3>2, <3>3, BecomeStep
    <2>4. CASE Fail(t)
      <3>. DEFINE n == task[t].failures + 1
                  p == IF task[t].failures < MaxRetries THEN "queued" ELSE "failed"
                  new == [task[t] EXCEPT !.failures = n, !.phase = p]
      <3>1. /\ n \in 0 .. MaxRetries + 1 /\ p \in {"queued", "failed"}
            /\ p = "queued" => n <= MaxRetries
        BY <2>1, BudgetAssumption
      <3>2. Become(t, new)
        BY <2>4 DEF Fail
      <3>. HIDE DEF n, p
      <3>3. new \in TaskRecord /\ new.phase = p /\ new.failures = n
        BY <2>1, <3>1, Zenon DEF TaskRecord, Phases
      <3>. HIDE DEF new
      <3>4. Sound(new) /\ Moves(task[t].phase, new.phase)
        BY <2>1, <3>1, <3>3, BudgetAssumption DEF Sound, Moves
      <3>. QED
        BY <3>2, <3>4, BecomeStep
    <2>. QED
      BY <1>2, <2>2, <2>3, <2>4
  <1>. QED
    BY <1>1, <1>2 DEF Workers
-----------------------------------------------------------------------------
(* What an open request sees of a step.                                    *)

Sees(r, t, sight) == <<t, sight>> \in seen'[r]

FailsAgain(r, t) ==
    /\ Was(r, t, "restarted")
    /\ task[t].phase # "failed"
    /\ task'[t].phase = "failed"

LEMMA Observed ==
    ASSUME TypeOK, TaskStep, Observe
    PROVE  /\ base' = base
           /\ seen' \in [Requests -> SUBSET (TaskIds \X Sights)]
           /\ \A q \in Requests :
                /\ ~Open(q) => seen'[q] = seen[q]
                /\ \A t \in TaskIds, p \in Sights : Was(q, t, p) => Sees(q, t, p)
                /\ Open(q) => \A t \in req[q].on :
                      /\ Sees(q, t, task'[t].phase)
                      /\ task[t].phase = "failed" /\ task'[t].phase = "queued"
                            => Sees(q, t, "restarted")
                      /\ FailsAgain(q, t) => Sees(q, t, "refailed")
                      /\ (Sees(q, t, "restarted") /\ ~Was(q, t, "restarted"))
                         => task'[t].phase = "queued"
                /\ \A t \in TaskIds, p \in Sights :
                      Sees(q, t, p) =>
                        \/ Was(q, t, p)
                        \/ Open(q) /\ t \in req[q].on /\ p = task'[t].phase
                        \/ /\ Open(q) /\ t \in req[q].on /\ p = "restarted"
                           /\ task[t].phase = "failed"
                        \/ /\ Open(q) /\ t \in req[q].on /\ p = "refailed"
                           /\ task'[t].phase = "failed"
  <1>. DEFINE now(q) == {<<t, task'[t].phase>> : t \in req[q].on}
              again(q) == {<<t, "restarted">> : t \in {u \in req[q].on :
                             task[u].phase = "failed" /\ task'[u].phase = "queued"}}
              fails(q) == {<<t, "refailed">> : t \in {u \in req[q].on :
                             /\ <<u, "restarted">> \in seen[q]
                             /\ task[u].phase # "failed" /\ task'[u].phase = "failed"}}
  <1>1. /\ base' = base
        /\ seen' = [q \in Requests |->
                      IF ~Open(q) THEN seen[q]
                      ELSE seen[q] \cup now(q) \cup again(q) \cup fails(q)]
    BY DEF Observe
  <1>2. /\ seen \in [Requests -> SUBSET (TaskIds \X Sights)]
        /\ \A q \in Requests : req[q].on \subseteq TaskIds
        /\ \A t \in TaskIds : task'[t].phase \in Sights
    <2>1. \A q \in Requests : req[q].on \subseteq TaskIds
      BY DEF TypeOK
    <2>2. \A t \in TaskIds : task'[t].phase \in Sights
      BY DEF TaskStep, Typed, TaskRecord, Sights
    <2>. QED
      BY <2>1, <2>2 DEF TypeOK, Sights
  <1>3. ASSUME NEW q \in Requests
        PROVE  /\ now(q) \subseteq TaskIds \X Sights
               /\ again(q) \subseteq TaskIds \X Sights
               /\ fails(q) \subseteq TaskIds \X Sights
    <2>1. now(q) \subseteq TaskIds \X Sights
      BY <1>2
    <2>2. again(q) \subseteq TaskIds \X Sights
      BY <1>2 DEF Sights
    <2>3. fails(q) \subseteq TaskIds \X Sights
      <3>1. \A x \in fails(q) : \E t \in req[q].on : x = <<t, "refailed">>
        OBVIOUS
      <3>2. "refailed" \in Sights
        BY DEF Sights
      <3>. HIDE DEF fails
      <3>. QED
        BY <1>2, <3>1, <3>2
    <2>. QED
      BY <2>1, <2>2, <2>3
  <1>4. seen' \in [Requests -> SUBSET (TaskIds \X Sights)]
    BY <1>1, <1>2, <1>3
  <1>5. ASSUME NEW q \in Requests
        PROVE  /\ ~Open(q) => seen'[q] = seen[q]
               /\ Open(q) => seen'[q] = seen[q] \cup now(q) \cup again(q) \cup fails(q)
    BY <1>1
  <1>6. ASSUME NEW q \in Requests, NEW t, NEW p
        PROVE  /\ <<t, p>> \in now(q) <=> t \in req[q].on /\ p = task'[t].phase
               /\ <<t, p>> \in again(q) <=>
                     /\ t \in req[q].on /\ p = "restarted"
                     /\ task[t].phase = "failed" /\ task'[t].phase = "queued"
               /\ <<t, p>> \in fails(q) <=>
                     t \in req[q].on /\ p = "refailed" /\ FailsAgain(q, t)
    <2>1. <<t, p>> \in now(q) <=> t \in req[q].on /\ p = task'[t].phase
      OBVIOUS
    <2>2. <<t, p>> \in again(q) <=>
             /\ t \in req[q].on /\ p = "restarted"
             /\ task[t].phase = "failed" /\ task'[t].phase = "queued"
      OBVIOUS
    <2>3. <<t, p>> \in fails(q) <=>
             t \in req[q].on /\ p = "refailed" /\ FailsAgain(q, t)
      BY DEF FailsAgain, Was
    <2>. QED
      BY <2>1, <2>2, <2>3
  <1>. HIDE DEF now, again, fails
  <1>7. ASSUME NEW q \in Requests, NEW t \in TaskIds, NEW p \in Sights
        PROVE  Was(q, t, p) => Sees(q, t, p)
    BY <1>5 DEF Was, Sees
  <1>8. ASSUME NEW q \in Requests, Open(q), NEW t \in req[q].on
        PROVE  /\ Sees(q, t, task'[t].phase)
               /\ task[t].phase = "failed" /\ task'[t].phase = "queued"
                     => Sees(q, t, "restarted")
               /\ FailsAgain(q, t) => Sees(q, t, "refailed")
               /\ (Sees(q, t, "restarted") /\ ~Was(q, t, "restarted"))
                  => task'[t].phase = "queued"
    <2>1. /\ Sees(q, t, task'[t].phase)
          /\ task[t].phase = "failed" /\ task'[t].phase = "queued"
                => Sees(q, t, "restarted")
      BY <1>5, <1>8, <1>6 DEF Was, Sees
    <2>2. FailsAgain(q, t) => Sees(q, t, "refailed")
      BY <1>5, <1>8, <1>6 DEF Was, Sees
    <2>3. (Sees(q, t, "restarted") /\ ~Was(q, t, "restarted"))
          => task'[t].phase = "queued"
      <3>1. t \in TaskIds /\ task'[t].phase # "restarted"
        BY <1>2, <1>8 DEF TaskStep, Typed, TaskRecord, Phases
      <3>. QED
        BY <1>5, <1>8, <1>6, <3>1 DEF Was, Sees
    <2>. QED
      BY <2>1, <2>2, <2>3
  <1>9. ASSUME NEW q \in Requests, NEW t \in TaskIds, NEW p \in Sights,
               Sees(q, t, p)
        PROVE  \/ Was(q, t, p)
               \/ Open(q) /\ t \in req[q].on /\ p = task'[t].phase
               \/ /\ Open(q) /\ t \in req[q].on /\ p = "restarted"
                  /\ task[t].phase = "failed"
               \/ /\ Open(q) /\ t \in req[q].on /\ p = "refailed"
                  /\ task'[t].phase = "failed"
    <2>1. CASE ~Open(q)
      BY <1>5, <1>9, <2>1 DEF Was, Sees
    <2>2. CASE Open(q)
      <3>1. Was(q, t, p) \/ <<t, p>> \in now(q) \/ <<t, p>> \in again(q) \/ <<t, p>> \in fails(q)
        BY <1>5, <1>9, <2>2 DEF Was, Sees
      <3>. QED
        BY <1>6, <2>2, <3>1 DEF FailsAgain
    <2>. QED
      BY <2>1, <2>2
  <1>. QED
    BY <1>1, <1>4, <1>5, <1>7, <1>8, <1>9
\* What is known for good of a task stays true of it.
LEMMA AfterMoves ==
    ASSUME NEW known \in Known, NEW old, NEW new \in Phases,
           Moves(old, new), old \in After(known)
    PROVE  new \in After(known)
  BY DEF Known, Moves, After, Sights

LEMMA PastKept ==
    ASSUME ApiInv, TaskStep, Observe, NEW q \in Requests,
           req'[q].on = req[q].on,
           \A t \in DOMAIN req'[q].says : base[q][t] # "deleted"
    PROVE  Past(q)'
  <1>1. /\ base' = base /\ base[q] \in [TaskIds -> Known]
        /\ Past(q) /\ Reading(q) /\ Shape(q)
    BY Observed DEF ApiInv, TypeOK
  <1>2. ASSUME NEW t \in TaskIds, NEW p \in Sights, Sees(q, t, p)
        PROVE  p \in After(base[q][t])
    <2>1. base[q][t] \in Known
      BY <1>1
    <2>2. CASE Was(q, t, p)
      BY <1>1, <2>2 DEF Past, Sights
    <2>3. CASE Open(q) /\ t \in req[q].on
      <3>1. task[t].phase \in Phases /\ task'[t].phase \in Phases
        BY DEF ApiInv, TypeOK, TaskRecord, TaskStep, Typed
      <3>2. Was(q, t, task[t].phase)
        BY <1>1, <2>3 DEF Reading
      <3>3. task[t].phase \in After(base[q][t])
        BY <1>1, <3>1, <3>2 DEF Past, Sights
      <3>4. task'[t].phase \in After(base[q][t])
        BY <2>1, <3>1, <3>3, AfterMoves DEF TaskStep
      <3>5. task[t].phase = "failed" => "restarted" \in After(base[q][t])
        BY <3>3 DEF After, Sights
      <3>6. task'[t].phase = "failed" => "refailed" \in After(base[q][t])
        BY <3>4 DEF After, Sights
      <3>. QED
        BY <1>2, <2>2, <3>4, <3>5, <3>6, Observed DEF ApiInv
    <2>. QED
      BY <1>2, <2>2, <2>3, Observed DEF ApiInv
  <1>. QED
    BY <1>1, <1>2 DEF Past, Was, Sees, Sights

\* A step of another request, or of the workers.
LEMMA BystanderKeeps ==
    ASSUME ApiInv, TaskStep, Observe, NEW q \in Requests, req'[q] = req[q]
    PROVE  Shape(q)' /\ Reading(q)' /\ Answering(q)' /\ Past(q)'
  <1>1. /\ Shape(q) /\ Reading(q) /\ Answering(q) /\ Past(q)
        /\ req[q].on \subseteq TaskIds
    BY DEF ApiInv, TypeOK
  <1>2. Shape(q)'
    BY <1>1 DEF Shape
  <1>3. Reading(q)'
    <2>. SUFFICES ASSUME Open(q), NEW t \in req[q].on
                  PROVE  /\ Sees(q, t, task'[t].phase)
                         /\ req[q].op \in Single \/ t \in DOMAIN req[q].says =>
                               task'[t].phase # "absent"
                         /\ req[q].pc = "requeue_again" =>
                               \/ task'[t].phase \in {"failed", "deleted"}
                               \/ Sees(q, t, "restarted")
                         /\ req[q].pc = "reread" =>
                               \/ task'[t].phase = "deleted"
                               \/ Sees(q, t, "restarted")
                         /\ Sees(q, t, "restarted") /\ task'[t].phase = "failed" =>
                               Sees(q, t, "refailed")
      BY DEF Reading, Was, Sees, Open
    <2>1. /\ t \in TaskIds
          /\ Moves(task[t].phase, task'[t].phase)
          /\ Sees(q, t, task'[t].phase)
          /\ task[t].phase = "failed" /\ task'[t].phase = "queued"
                => Sees(q, t, "restarted")
          /\ Was(q, t, "restarted") => Sees(q, t, "restarted")
      BY <1>1, Observed DEF ApiInv, TaskStep, Sights
    <2>2. Sees(q, t, "restarted") /\ task'[t].phase = "failed" => Sees(q, t, "refailed")
      <3>1. /\ Was(q, t, "refailed") => Sees(q, t, "refailed")
            /\ FailsAgain(q, t) => Sees(q, t, "refailed")
            /\ (Sees(q, t, "restarted") /\ ~Was(q, t, "restarted"))
               => task'[t].phase = "queued"
        BY <1>1, <2>1, Observed DEF ApiInv, Sights
      <3>. QED
        BY <1>1, <3>1 DEF Reading, FailsAgain
    <2>. QED
      BY <1>1, <2>1, <2>2 DEF Reading, Moves
  <1>4. Answering(q)'
    BY <1>1, Observed DEF ApiInv, Answering, Open, Was
  <1>5. Past(q)'
    <2>1. \A t \in DOMAIN req'[q].says : base[q][t] # "deleted"
      BY <1>1 DEF Shape, Past
    <2>. QED
      BY <2>1, PastKept
  <1>. QED
    BY <1>2, <1>3, <1>4, <1>5
-----------------------------------------------------------------------------
(* What a request does to its own record.                                  *)

Request == [op : Ops, on : SUBSET TaskIds, pc : Steps, code : Codes, says : Says]

LEMMA GotoEffect ==
    ASSUME TypeOK, NEW r \in Requests, NEW pc \in Steps, Goto(r, pc)
    PROVE  /\ req' \in [Requests -> Request] /\ told' = told
           /\ req'[r].pc = pc
           /\ req'[r].op = req[r].op /\ req'[r].on = req[r].on
           /\ req'[r].code = req[r].code /\ req'[r].says = req[r].says
           /\ \A q \in Requests \ {r} : req'[q] = req[q]
  <1>1. req \in [Requests -> Request]
    BY DEF TypeOK, Request
  <1>2. req' = [req EXCEPT ![r] = [req[r] EXCEPT !.pc = pc]] /\ told' = told
    BY DEF Goto
  <1>. DEFINE new == [req[r] EXCEPT !.pc = pc]
  <1>3. /\ new \in Request /\ new.pc = pc
        /\ new.op = req[r].op /\ new.on = req[r].on
        /\ new.code = req[r].code /\ new.says = req[r].says
    BY <1>1, Zenon DEF Request
  <1>. HIDE DEF new
  <1>4. /\ req' \in [Requests -> Request] /\ req'[r] = new
        /\ \A q \in Requests \ {r} : req'[q] = req[q]
    BY <1>1, <1>2, <1>3 DEF new
  <1>. QED
    BY <1>2, <1>3, <1>4

LEMMA AnswerEffect ==
    ASSUME TypeOK, NEW r \in Requests, NEW code \in Codes, NEW says \in Says,
           Answer(r, code, says)
    PROVE  /\ req' \in [Requests -> Request]
           /\ told' = Learn(code, req[r].on, says)
           /\ req'[r].pc = "over"
           /\ req'[r].op = req[r].op /\ req'[r].on = req[r].on
           /\ req'[r].code = code /\ req'[r].says = says
           /\ \A q \in Requests \ {r} : req'[q] = req[q]
  <1>1. req \in [Requests -> Request]
    BY DEF TypeOK, Request
  <1>. DEFINE new == [req[r] EXCEPT !.pc = "over", !.code = code, !.says = says]
  <1>2. /\ req' = [req EXCEPT ![r] = new]
        /\ told' = Learn(code, req[r].on, says)
    BY <1>1 DEF Answer, Request
  <1>3. /\ new \in Request /\ new.pc = "over"
        /\ new.op = req[r].op /\ new.on = req[r].on
        /\ new.code = code /\ new.says = says
    BY <1>1, Zenon DEF Request, Steps
  <1>. HIDE DEF new
  <1>4. /\ req' \in [Requests -> Request] /\ req'[r] = new
        /\ \A q \in Requests \ {r} : req'[q] = req[q]
    BY <1>1, <1>2, <1>3
  <1>. QED
    BY <1>2, <1>3, <1>4

\* The invariant after a step, from what it says of each request.
LEMMA Assembled ==
    ASSUME ApiInv, TaskStep, Observe,
           req' \in [Requests -> Request],
           told' \in [TaskIds -> Known], ToldOK',
           \A q \in Requests : \/ req'[q] = req[q]
                               \/ Shape(q)' /\ Reading(q)' /\ Answering(q)' /\ Past(q)'
    PROVE  ApiInv'
  <1>1. TypeOK'
    BY Observed DEF ApiInv, TypeOK, TaskStep, Typed, Request, Sights
  <1>2. \A q \in Requests : Shape(q)' /\ Reading(q)' /\ Answering(q)' /\ Past(q)'
    BY BystanderKeeps
  <1>. QED
    BY <1>1, <1>2 DEF ApiInv, TaskStep

\* What clients know stays true while they learn nothing.
LEMMA ToldKept ==
    ASSUME ApiInv, TaskStep, told' = told
    PROVE  told' \in [TaskIds -> Known] /\ ToldOK'
  <1>1. told \in [TaskIds -> Known]
    BY DEF ApiInv, TypeOK
  <1>2. ASSUME NEW t \in TaskIds PROVE task'[t].phase \in After(told[t])
    <2>1. task'[t].phase \in Phases /\ told[t] \in Known
      BY <1>1 DEF TaskStep, Typed, TaskRecord
    <2>. QED
      BY <2>1, AfterMoves DEF ApiInv, ToldOK, TaskStep
  <1>. QED
    BY <1>1, <1>2 DEF ToldOK

LEMMA ElsewhereKeeps == ApiInv /\ Elsewhere /\ Observe => ApiInv'
  <1>. SUFFICES ASSUME ApiInv, Elsewhere, Observe PROVE ApiInv'
    OBVIOUS
  <1>1. Typed /\ TasksOK
    BY DEF ApiInv, TypeOK, Typed
  <1>2. TaskStep
    BY <1>1, UserStep, WorkerStep DEF Elsewhere, Users
  <1>3. req' = req /\ told' = told /\ req \in [Requests -> Request]
    BY DEF Elsewhere, ApiInv, TypeOK, Request
  <1>. QED
    BY <1>2, <1>3, ToldKept, Assembled

\* A request goes on to its next statement.
LEMMA GotoKeeps ==
    ASSUME ApiInv, Observe, UNCHANGED task,
           NEW r \in Requests, NEW pc \in Steps \ {"over", "page", "statuses"}, Goto(r, pc),
           Open(r), req[r].pc # "statuses",
           req[r].op \in Serves[pc],
           pc = "requeue_again" => \A t \in req[r].on : task[t].phase = "failed",
           pc = "reread" => /\ req[r].pc = "requeue_again"
                            /\ \A t \in req[r].on : task[t].phase # "failed"
    PROVE  ApiInv'
  <1>1. /\ TypeOK /\ Shape(r) /\ Reading(r) /\ Past(r)
        /\ TaskStep
    BY IdleStep DEF ApiInv, TypeOK, Typed
  <1>2. /\ req' \in [Requests -> Request] /\ told' = told
        /\ req'[r].pc = pc
        /\ req'[r].op = req[r].op /\ req'[r].on = req[r].on
        /\ req'[r].code = req[r].code /\ req'[r].says = req[r].says
        /\ \A q \in Requests \ {r} : req'[q] = req[q]
    BY <1>1, GotoEffect
  <1>3. Open(r)'
    BY <1>2 DEF Open
  <1>4. DOMAIN req[r].says = {}
    BY <1>1 DEF Shape, Open
  <1>5. Shape(r)'
    BY <1>1, <1>2, <1>4 DEF Shape
  <1>6. Reading(r)'
    <2>. SUFFICES ASSUME NEW t \in req[r].on
                  PROVE  /\ Sees(r, t, task[t].phase)
                         /\ req[r].op \in Single => task[t].phase # "absent"
                         /\ pc = "requeue_again" =>
                               \/ task[t].phase \in {"failed", "deleted"}
                               \/ Sees(r, t, "restarted")
                         /\ pc = "reread" =>
                               \/ task[t].phase = "deleted"
                               \/ Sees(r, t, "restarted")
                         /\ Sees(r, t, "restarted") /\ task[t].phase = "failed" =>
                               Sees(r, t, "refailed")
      BY <1>2, <1>4 DEF Reading, Was, Sees
    <2>1. t \in TaskIds
      BY DEF ApiInv, TypeOK
    <2>2. /\ Sees(r, t, task[t].phase)
          /\ Was(r, t, "restarted") => Sees(r, t, "restarted")
          /\ Was(r, t, "refailed") => Sees(r, t, "refailed")
          /\ (Sees(r, t, "restarted") /\ ~Was(r, t, "restarted"))
             => task[t].phase = "queued"
      BY <1>1, <2>1, Observed DEF Sights
    <2>. QED
      BY <1>1, <2>2 DEF Reading
  <1>7. Answering(r)'
    BY <1>3 DEF Answering
  <1>8. Past(r)'
    BY <1>1, <1>2, <1>4, PastKept
  <1>. QED
    BY <1>1, <1>2, <1>5, <1>6, <1>7, <1>8, ToldKept, Assembled
\* An answer that is true when it is given.  A task it names is in that phase;
\* one listed without a task was there when the page was read.
Fits(r, code, says) ==
    /\ code \in Codes \ {"none"} /\ says \in Says
    /\ DOMAIN says \subseteq req[r].on
    /\ \A t \in DOMAIN says :
          \/ /\ says[t] = task'[t].phase
             /\ says[t] \in Phases \ {"absent", "deleted"}
          \/ /\ says[t] = "unknown" /\ task'[t].phase = "deleted"
             /\ t \in DOMAIN req[r].says
    /\ code \in {"404", "204"} => \A t \in req[r].on : task'[t].phase = "deleted"
    /\ code \in {"400", "503", "draft"} =>
          /\ req[r].op # "retry"
          /\ \A t \in req[r].on : task'[t].phase \notin {"done", "deleted"}
    /\ code = "409" =>
          /\ req[r].op = "retry"
          /\ DOMAIN says = req[r].on
          /\ \A t \in req[r].on :
                \/ says[t] = "done"
                \/ says[t] = "failed" /\ Was(r, t, "refailed")
    /\ code = "200" => req[r].op = "list" \/ DOMAIN says = req[r].on
    /\ req[r].op = "retry" =>
          /\ code \in {"200", "404", "409", "500"}
          /\ code = "200" =>
                \A t \in req[r].on : says[t] \in {"queued", "working"}

\* What clients learn from such an answer is true.
LEMMA LearnKeeps ==
    ASSUME ApiInv, TaskStep, NEW r \in Requests, NEW code, NEW says,
           Fits(r, code, says), told' = Learn(code, req[r].on, says)
    PROVE  told' \in [TaskIds -> Known] /\ ToldOK'
  <1>1. told \in [TaskIds -> Known] /\ ToldOK
    BY DEF ApiInv, TypeOK
  <1>2. ASSUME NEW t \in TaskIds
        PROVE  told'[t] \in Known /\ task'[t].phase \in After(told'[t])
    <2>1. /\ task'[t].phase \in Phases /\ told[t] \in Known
          /\ task'[t].phase \in After(told[t])
      <3>1. task'[t].phase \in Phases /\ told[t] \in Known
        BY <1>1 DEF TaskStep, Typed, TaskRecord
      <3>. QED
        BY <1>1, <3>1, AfterMoves DEF ToldOK, TaskStep
    <2>2. CASE t \in req[r].on /\ code \in {"204", "404"}
      BY <2>2 DEF Learn, Fits, Known, After
    <2>3. CASE /\ ~(t \in req[r].on /\ code \in {"204", "404"})
               /\ t \in DOMAIN says /\ says[t] = "done" /\ told[t] = "nothing"
      <3>1. task'[t].phase = "done"
        BY <2>3 DEF Fits
      <3>. QED
        BY <2>3, <3>1 DEF Learn, Known, After
    <2>4. CASE /\ ~(t \in req[r].on /\ code \in {"204", "404"})
               /\ ~(t \in DOMAIN says /\ says[t] = "done" /\ told[t] = "nothing")
      BY <2>1, <2>4 DEF Learn
    <2>. QED
      BY <2>2, <2>3, <2>4
  <1>3. told' \in [TaskIds -> Known]
    BY <1>2 DEF Learn
  <1>. QED
    BY <1>2, <1>3 DEF ToldOK

LEMMA AnswerKeeps ==
    ASSUME ApiInv, TaskStep, Observe, NEW r \in Requests, Open(r),
           NEW code, NEW says, Fits(r, code, says), Answer(r, code, says)
    PROVE  ApiInv'
  <1>1. /\ TypeOK /\ Shape(r) /\ Reading(r) /\ Past(r)
        /\ req[r].on \subseteq TaskIds
        /\ code \in Codes /\ says \in Says
    BY DEF ApiInv, TypeOK, Fits
  <1>2. /\ req' \in [Requests -> Request]
        /\ told' = Learn(code, req[r].on, says)
        /\ req'[r].pc = "over"
        /\ req'[r].op = req[r].op /\ req'[r].on = req[r].on
        /\ req'[r].code = code /\ req'[r].says = says
        /\ \A q \in Requests \ {r} : req'[q] = req[q]
    BY <1>1, AnswerEffect
  <1>3. ASSUME NEW t \in req[r].on
        PROVE  /\ t \in TaskIds /\ task'[t].phase \in Phases
               /\ Sees(r, t, task'[t].phase)
               /\ Was(r, t, "refailed") => Sees(r, t, "refailed")
    BY <1>1, <1>3, Observed DEF Sights, TaskStep, Typed, TaskRecord
  <1>4. Shape(r)'
    BY <1>1, <1>2 DEF Shape, Serves, Fits, TypeOK
  <1>5. Reading(r)'
    BY <1>2 DEF Reading, Open
  <1>6. Answering(r)'
    <2>1. ASSUME NEW t \in DOMAIN says
          PROVE  /\ says[t] \notin {"absent", "deleted"}
                 /\ Sees(r, t, IF says[t] = "unknown" THEN "deleted" ELSE says[t])
      <3>1. t \in req[r].on
        BY DEF Fits
      <3>. QED
        BY <1>3, <3>1 DEF Fits, Phases
    <2>2. code \in {"404", "204"} => \A t \in req[r].on : Sees(r, t, "deleted")
      BY <1>3 DEF Fits
    <2>3. code \in {"400", "503", "draft"} =>
             /\ req[r].op # "retry"
             /\ \A t \in req[r].on :
                   \E p \in Phases \ {"done", "deleted"} : Sees(r, t, p)
      BY <1>3 DEF Fits
    <2>4. code = "409" =>
             /\ req[r].op = "retry"
             /\ DOMAIN says = req[r].on
             /\ \A t \in req[r].on :
                   \/ says[t] = "done"
                   \/ says[t] = "failed" /\ Sees(r, t, "refailed")
      BY <1>3 DEF Fits
    <2>5. req[r].op = "retry" =>
             /\ code \in {"200", "404", "409", "500"}
             /\ code = "200" => \A t \in req[r].on : says[t] \in {"queued", "working"}
      BY <1>3 DEF Fits
    <2>6. /\ code # "none"
          /\ code = "200" => req[r].op = "list" \/ DOMAIN says = req[r].on
      BY DEF Fits
    <2>. QED
      BY <1>2, <2>1, <2>2, <2>3, <2>4, <2>5, <2>6 DEF Answering, Was, Sees
  <1>7. Past(r)'
    <2>1. ASSUME NEW t \in DOMAIN says PROVE base[r][t] # "deleted"
      <3>1. t \in req[r].on /\ t \in TaskIds
        BY <1>1 DEF Fits
      <3>2. CASE t \in DOMAIN req[r].says
        BY <1>1, <3>1, <3>2 DEF Past
      <3>3. CASE task'[t].phase # "deleted"
        <4>1. Was(r, t, task[t].phase) /\ task[t].phase \in Phases
          BY <1>1, <3>1 DEF Reading, ApiInv, TypeOK, TaskRecord
        <4>2. task[t].phase # "deleted"
          BY <3>1, <3>3 DEF TaskStep, Moves
        <4>. QED
          BY <1>1, <3>1, <4>1, <4>2 DEF Past, After, Sights
      <3>. QED
        BY <3>2, <3>3 DEF Fits
    <2>. QED
      BY <1>2, <2>1, PastKept
  <1>8. told' \in [TaskIds -> Known] /\ ToldOK'
    BY <1>2, LearnKeeps
  <1>. QED
    BY <1>2, <1>4, <1>5, <1>6, <1>7, <1>8, Assembled
-----------------------------------------------------------------------------
(* The statements, one by one.                                             *)

LEMMA SaysNothing == DOMAIN Nothing = {} /\ Nothing \in Says
  <1>1. DOMAIN Nothing = {}
    BY DEF Nothing
  <1>2. Nothing \in [{} -> Phases \cup {"unknown"}]
    BY DEF Nothing
  <1>3. {} \in SUBSET TaskIds
    OBVIOUS
  <1>. QED
    BY <1>1, <1>2, <1>3, Zenon DEF Says

\* An answer that names no task.
LEMMA RefuseKeeps ==
    ASSUME ApiInv, TaskStep, Observe, NEW r \in Requests, Open(r),
           NEW code \in Codes \ {"none", "200", "409"}, Refuse(r, code),
           code \in {"404", "204"} =>
              \A t \in req[r].on : task'[t].phase = "deleted",
           code \in {"400", "503", "draft"} =>
              \A t \in req[r].on : task'[t].phase \notin {"done", "deleted"},
           req[r].op = "retry" => code \in {"404", "500"}
    PROVE  ApiInv'
  <1>1. Fits(r, code, Nothing)
    BY SaysNothing DEF Fits
  <1>. QED
    BY <1>1, AnswerKeeps DEF Refuse

\* An answer that names the task of the request.
LEMMA TellKeeps ==
    ASSUME ApiInv, TaskStep, Observe, NEW r \in Requests, Open(r),
           NEW t \in TaskIds, req[r].on = {t}, NEW phase,
           Tell(r, t, phase), phase = task'[t].phase,
           phase \in Phases \ {"absent", "deleted"},
           req[r].op = "retry" => phase \in {"queued", "working"}
    PROVE  ApiInv'
  <1>. DEFINE says == [u \in {t} |-> phase]
  <1>1. says \in Says /\ DOMAIN says = {t} /\ says[t] = phase
    BY DEF Says
  <1>2. Answer(r, "200", says)
    BY DEF Tell
  <1>. HIDE DEF says
  <1>3. Fits(r, "200", says)
    BY <1>1 DEF Fits, Codes
  <1>. QED
    BY <1>2, <1>3, AnswerKeeps

\* A refusal that names the status of the task.
LEMMA ConflictKeeps ==
    ASSUME ApiInv, TaskStep, Observe, NEW r \in Requests, Open(r), UNCHANGED task,
           NEW t \in TaskIds, req[r].on = {t}, req[r].op = "retry", Conflict(r, t),
           \/ task[t].phase = "done"
           \/ task[t].phase = "failed" /\ Was(r, t, "refailed")
    PROVE  ApiInv'
  <1>. DEFINE says == [u \in {t} |-> task[t].phase]
  <1>1. says \in Says /\ DOMAIN says = {t} /\ says[t] = task[t].phase
    BY DEF Says, Phases
  <1>2. Answer(r, "409", says)
    BY DEF Conflict
  <1>. HIDE DEF says
  <1>3. Fits(r, "409", says)
    BY <1>1 DEF Fits, Codes, Phases
  <1>. QED
    BY <1>2, <1>3, AnswerKeeps

\* What is at hand when a request about t is served.
LEMMA Serving ==
    ASSUME ApiInv, NEW r \in Requests, NEW t \in TaskIds, NEW pc \in Steps \ {"over"},
           At(r, t, pc)
    PROVE  /\ Open(r) /\ Typed /\ TasksOK
           /\ req[r].pc = pc /\ req[r].on = {t} /\ req[r].op \in Serves[pc]
           /\ task[t] \in TaskRecord /\ task[t].phase \in Phases
           /\ req[r].op \in Single /\ Gone(t) => task[t].phase = "deleted"
           /\ UNCHANGED task => TaskStep
  <1>1. /\ req[r].pc = pc /\ req[r].on = {t} /\ Open(r)
        /\ Shape(r) /\ Reading(r)
        /\ Typed /\ TasksOK
    BY DEF At, ApiInv, TypeOK, Typed, Open
  <1>2. task[t] \in TaskRecord /\ task[t].phase \in Phases
    BY <1>1 DEF Typed, TaskRecord
  <1>3. req[r].op \in Single /\ Gone(t) => task[t].phase = "deleted"
    BY <1>1 DEF Reading, Gone
  <1>4. UNCHANGED task => TaskStep
    BY <1>1, IdleStep
  <1>. QED
    BY <1>1, <1>2, <1>3, <1>4 DEF Shape

LEMMA TryRequeueKeeps ==
    ASSUME ApiInv, Observe, NEW r \in Requests, NEW t \in TaskIds,
           Requeue(r, t) \/ RequeueAgain(r, t)
    PROVE  ApiInv'
  <1>1. PICK from \in {"requeue", "requeue_again"}, missed \in {"read", "reread"} :
           /\ TryRequeue(r, t, from, missed)
           /\ missed = "reread" => from = "requeue_again"
    BY DEF Requeue, RequeueAgain
  <1>2. At(r, t, from)
    BY <1>1 DEF TryRequeue
  <1>3. /\ Open(r) /\ Typed /\ TasksOK
        /\ req[r].pc = from /\ req[r].on = {t} /\ req[r].op = "retry"
    <2>1. from \in Steps \ {"over"} /\ Serves[from] = {"retry"}
      BY DEF Steps, Serves
    <2>. QED
      BY <1>2, <2>1, Serving
  <1>4. CASE Retry(t) /\ Tell(r, t, "queued")
    <2>1. TaskStep
      BY <1>3, <1>4, UserStep DEF Users
    <2>2. task'[t].phase = "queued"
      BY <1>3, <1>4 DEF Retry, Become, Blank, Typed
    <2>. QED
      BY <1>3, <1>4, <2>1, <2>2, TellKeeps DEF Phases
  <1>5. CASE task[t].phase # "failed" /\ Goto(r, missed) /\ UNCHANGED task
    <2>1. /\ missed \in Steps \ {"over", "page", "statuses"} /\ req[r].op \in Serves[missed]
          /\ missed # "requeue_again" /\ req[r].pc # "statuses"
      BY <1>3 DEF Steps, Serves
    <2>. QED
      BY <1>1, <1>3, <1>5, <2>1, GotoKeeps
  <1>. QED
    BY <1>1, <1>4, <1>5 DEF TryRequeue

LEMMA ReadTaskKeeps ==
    ASSUME ApiInv, Observe, NEW r \in Requests, NEW t \in TaskIds, ReadTask(r, t)
    PROVE  ApiInv'
  <1>0. "read" \in Steps \ {"over"} /\ Serves["read"] = {"status", "retry"}
    BY DEF Steps, Serves
  <1>1. /\ At(r, t, "read") /\ UNCHANGED task
        /\ Open(r) /\ TaskStep
        /\ req[r].pc = "read" /\ req[r].on = {t} /\ req[r].op \in {"status", "retry"}
        /\ task[t].phase \in Phases
        /\ Gone(t) => task[t].phase = "deleted"
    <2>1. At(r, t, "read") /\ UNCHANGED task
      BY DEF ReadTask
    <2>. QED
      BY <1>0, <2>1, Serving DEF Single
  <1>2. CASE Gone(t) /\ Refuse(r, "404")
    BY <1>1, <1>2, RefuseKeeps DEF Codes
  <1>3. CASE ~Gone(t) /\ req[r].op = "status" /\ Tell(r, t, task[t].phase)
    BY <1>1, <1>3, TellKeeps DEF Gone
  <1>4. CASE req[r].op = "retry" /\ Recoverable(t) /\ Tell(r, t, task[t].phase)
    BY <1>1, <1>4, TellKeeps DEF Recoverable
  <1>5. CASE /\ req[r].op = "retry" /\ task[t].phase = "failed"
             /\ Goto(r, "requeue_again")
    <2>1. /\ "requeue_again" \in Steps \ {"over", "page", "statuses"}
          /\ req[r].op \in Serves["requeue_again"]
      BY <1>5 DEF Steps, Serves
    <2>. QED
      BY <1>1, <1>5, <2>1, GotoKeeps
  <1>6. CASE req[r].op = "retry" /\ task[t].phase = "done" /\ Conflict(r, t)
    BY <1>1, <1>6, ConflictKeeps
  <1>. QED
    BY <1>2, <1>3, <1>4, <1>5, <1>6 DEF ReadTask

LEMMA RereadKeeps ==
    ASSUME ApiInv, Observe, NEW r \in Requests, NEW t \in TaskIds, Reread(r, t)
    PROVE  ApiInv'
  <1>0. "reread" \in Steps \ {"over"} /\ Serves["reread"] = {"retry"}
    BY DEF Steps, Serves
  <1>1. /\ At(r, t, "reread") /\ UNCHANGED task
        /\ Open(r) /\ TaskStep
        /\ req[r].pc = "reread" /\ req[r].on = {t} /\ req[r].op = "retry"
        /\ task[t].phase \in Phases
        /\ Gone(t) => task[t].phase = "deleted"
    <2>1. At(r, t, "reread") /\ UNCHANGED task
      BY DEF Reread
    <2>. QED
      BY <1>0, <2>1, Serving DEF Single
  <1>2. CASE Gone(t) /\ Refuse(r, "404")
    BY <1>1, <1>2, RefuseKeeps DEF Codes
  <1>3. CASE Recoverable(t) /\ Tell(r, t, task[t].phase)
    BY <1>1, <1>3, TellKeeps DEF Recoverable
  <1>4. CASE task[t].phase \in {"failed", "done"} /\ Conflict(r, t)
    <2>1. task[t].phase = "failed" => Was(r, t, "refailed")
      BY <1>1 DEF ApiInv, Reading
    <2>. QED
      BY <1>1, <1>4, <2>1, ConflictKeeps
  <1>. QED
    BY <1>2, <1>3, <1>4 DEF Reread
LEMMA ReadRecordingKeeps ==
    ASSUME ApiInv, Observe, NEW r \in Requests, NEW t \in TaskIds,
           ReadRecording(r, t)
    PROVE  ApiInv'
  <1>0. /\ "recording" \in Steps \ {"over"}
        /\ Serves["recording"] = {"detail", "stream", "delete"}
    BY DEF Steps, Serves
  <1>1. /\ At(r, t, "recording") /\ UNCHANGED task
        /\ Open(r) /\ TaskStep
        /\ req[r].pc = "recording" /\ req[r].on = {t}
        /\ req[r].op \in {"detail", "stream", "delete"}
        /\ Gone(t) => task[t].phase = "deleted"
    <2>1. At(r, t, "recording") /\ UNCHANGED task
      BY DEF ReadRecording
    <2>. QED
      BY <1>0, <2>1, Serving DEF Single
  <1>2. CASE Gone(t) /\ Refuse(r, "404")
    BY <1>1, <1>2, RefuseKeeps DEF Codes
  <1>3. CASE ~Gone(t) /\ Goto(r, IF req[r].op = "delete" THEN "remove" ELSE "task")
    <2>1. PICK pc \in {"remove", "task"} :
             Goto(r, pc) /\ (pc = "remove" <=> req[r].op = "delete")
      BY <1>3
    <2>2. pc \in Steps \ {"over", "page", "statuses"} /\ req[r].op \in Serves[pc]
      BY <1>1, <2>1 DEF Steps, Serves
    <2>. QED
      BY <1>1, <2>1, <2>2, GotoKeeps
  <1>. QED
    BY <1>2, <1>3 DEF ReadRecording

LEMMA DetailKeeps ==
    ASSUME ApiInv, Observe, NEW r \in Requests, NEW t \in TaskIds,
           Detail(r, t) \/ PrepareStream(r, t)
    PROVE  ApiInv'
  <1>0. /\ "task" \in Steps \ {"over"}
        /\ Serves["task"] = {"detail", "stream"}
    BY DEF Steps, Serves
  <1>1. /\ At(r, t, "task") /\ UNCHANGED task
        /\ Open(r) /\ TaskStep
        /\ req[r].pc = "task" /\ req[r].on = {t}
        /\ req[r].op \in {"detail", "stream"}
        /\ task[t].phase \in Phases
        /\ Gone(t) => task[t].phase = "deleted"
        /\ task[t].phase = "done" => task[t].summary
    <2>1. At(r, t, "task") /\ UNCHANGED task
      BY DEF Detail, PrepareStream
    <2>2. task[t].phase = "done" => task[t].summary
      BY DEF ApiInv, TasksOK
    <2>. QED
      BY <1>0, <2>1, <2>2, Serving DEF Single
  <1>2. CASE Gone(t) /\ Refuse(r, "404")
    BY <1>1, <1>2, RefuseKeeps DEF Codes
  <1>3. CASE ~Gone(t) /\ Tell(r, t, task[t].phase)
    BY <1>1, <1>3, TellKeeps DEF Gone
  <1>4. ASSUME NEW code \in {"400", "503", "draft"}, ~Gone(t), Refuse(r, code),
               ~(task[t].summary /\ task[t].phase = "done")
        PROVE  ApiInv'
    <2>1. task[t].phase \notin {"done", "deleted"} /\ code \in Codes \ {"none", "200"}
      BY <1>1, <1>4 DEF Gone, Codes
    <2>. QED
      BY <1>1, <1>4, <2>1, RefuseKeeps
  <1>5. CASE Detail(r, t)
    BY <1>2, <1>3, <1>5 DEF Detail
  <1>6. CASE PrepareStream(r, t)
    BY <1>2, <1>3, <1>4, <1>6 DEF PrepareStream
  <1>. QED
    BY <1>5, <1>6

LEMMA RemoveKeeps ==
    ASSUME ApiInv, Observe, NEW r \in Requests, NEW t \in TaskIds, Remove(r, t)
    PROVE  ApiInv'
  <1>0. "remove" \in Steps \ {"over"} /\ Serves["remove"] = {"delete"}
    BY DEF Steps, Serves
  <1>1. /\ Open(r) /\ Typed /\ TasksOK
        /\ req[r].on = {t} /\ req[r].op = "delete"
        /\ Gone(t) => task[t].phase = "deleted"
        /\ UNCHANGED task => TaskStep
    <2>1. At(r, t, "remove")
      BY DEF Remove
    <2>. QED
      BY <1>0, <2>1, Serving DEF Single
  <1>2. TaskStep /\ task'[t].phase = "deleted"
    <2>1. CASE Delete(t)
      <3>1. task'[t].phase = "deleted"
        BY <1>1, <2>1 DEF Delete, Become, Blank, Typed
      <3>. QED
        BY <1>1, <2>1, <3>1, UserStep DEF Users
    <2>2. CASE Gone(t) /\ UNCHANGED task
      BY <1>1, <2>2
    <2>. QED
      BY <2>1, <2>2 DEF Remove
  <1>3. Refuse(r, "204")
    BY DEF Remove
  <1>. QED
    BY <1>1, <1>2, <1>3, RefuseKeeps DEF Codes

LEMMA RaisesKeeps ==
    ASSUME ApiInv, Observe, NEW r \in Requests, Raises(r)
    PROVE  ApiInv'
  <1>1. Typed /\ TasksOK
    BY DEF ApiInv, TypeOK, Typed
  <1>2. TaskStep
    BY <1>1, IdleStep, UserStep DEF Raises, Users
  <1>3. Open(r) /\ Refuse(r, "500")
    BY DEF Raises
  <1>. QED
    BY <1>2, <1>3, RefuseKeeps DEF Codes

\* The page lists recordings that are there; none of them was known deleted.
LEMMA ListPageKeeps ==
    ASSUME ApiInv, Observe, NEW r \in Requests, ListPage(r)
    PROVE  ApiInv'
  <1>1. PICK items \in SUBSET {t \in TaskIds : ~Gone(t)} :
           req' = [req EXCEPT ![r].pc = "statuses",
                              ![r].says = [t \in items |-> "unknown"]]
    BY DEF ListPage
  <1>. DEFINE says == [t \in items |-> "unknown"]
              new == [req[r] EXCEPT !.pc = "statuses", !.says = says]
  <1>2. says \in Says /\ DOMAIN says = items
    <2>1. says \in [items -> Phases \cup {"unknown"}] /\ DOMAIN says = items
      OBVIOUS
    <2>2. items \in SUBSET TaskIds
      OBVIOUS
    <2>. QED
      BY <2>1, <2>2, Zenon DEF Says
  <1>3. /\ req[r].pc = "page" /\ UNCHANGED <<task, told>> /\ TaskStep
        /\ req \in [Requests -> Request]
        /\ Shape(r) /\ Reading(r) /\ Past(r) /\ Open(r)
    BY IdleStep DEF ListPage, ApiInv, TypeOK, Typed, Request, Open
  <1>. HIDE DEF says
  <1>4. /\ req' \in [Requests -> Request]
        /\ req'[r].pc = "statuses" /\ req'[r].says = says
        /\ req'[r].op = req[r].op /\ req'[r].on = req[r].on
        /\ \A q \in Requests \ {r} : req'[q] = req[q]
    <2>1. /\ new \in Request /\ new.pc = "statuses" /\ new.says = says
          /\ new.op = req[r].op /\ new.on = req[r].on
      BY <1>2, <1>3, Zenon DEF Request, Steps
    <2>2. req' = [req EXCEPT ![r] = new]
      BY <1>1, <1>3 DEF says, Request
    <2>. HIDE DEF new
    <2>. QED
      BY <1>3, <2>1, <2>2
  <1>5. req[r].op = "list" /\ req[r].on = TaskIds
    BY <1>3 DEF Shape, Serves
  <1>6. Shape(r)'
    BY <1>2, <1>4, <1>5 DEF Shape, Serves, Single
  <1>7. ASSUME NEW t \in items
        PROVE  /\ t \in TaskIds /\ task[t].phase \notin {"absent", "deleted"}
               /\ base[r][t] # "deleted"
    <2>1. t \in TaskIds /\ task[t].phase \notin {"absent", "deleted"}
      BY DEF Gone
    <2>2. Was(r, t, task[t].phase) /\ task[t].phase \in Phases
      BY <1>3, <1>5, <2>1 DEF Reading, ApiInv, TypeOK, TaskRecord
    <2>. QED
      BY <1>3, <2>1, <2>2 DEF Past, After, Sights
  <1>8. Reading(r)'
    <2>1. ASSUME NEW t \in TaskIds PROVE Sees(r, t, task'[t].phase)
      BY <1>3, <1>5, Observed DEF ApiInv
    <2>2. ASSUME NEW t \in TaskIds
          PROVE  Sees(r, t, "restarted") /\ task[t].phase = "failed" => Sees(r, t, "refailed")
      <3>1. /\ Was(r, t, "refailed") => Sees(r, t, "refailed")
            /\ (Sees(r, t, "restarted") /\ ~Was(r, t, "restarted"))
               => task'[t].phase = "queued"
        BY <1>3, <1>5, Observed DEF ApiInv, Sights
      <3>. QED
        BY <1>2, <1>3, <1>5, <3>1 DEF Reading
    <2>. QED
      BY <1>2, <1>3, <1>4, <1>5, <1>7, <2>1, <2>2 DEF Reading, Was, Sees, Single
  <1>9. Answering(r)'
    BY <1>4 DEF Answering, Open
  <1>10. Past(r)'
    BY <1>2, <1>3, <1>4, <1>7, PastKept
  <1>. QED
    BY <1>3, <1>4, <1>6, <1>8, <1>9, <1>10, ToldKept, Assembled

LEMMA ListStatusesKeeps ==
    ASSUME ApiInv, Observe, NEW r \in Requests, ListStatuses(r)
    PROVE  ApiInv'
  <1>. DEFINE says == [t \in DOMAIN req[r].says |->
                         IF Gone(t) THEN "unknown" ELSE task[t].phase]
  <1>1. /\ req[r].pc = "statuses" /\ UNCHANGED task /\ TaskStep
        /\ Answer(r, "200", says)
        /\ Shape(r) /\ Reading(r) /\ Open(r)
    BY IdleStep DEF ListStatuses, ApiInv, TypeOK, Typed, Open
  <1>2. /\ req[r].op = "list" /\ req[r].on = TaskIds
        /\ DOMAIN req[r].says \subseteq TaskIds
    BY <1>1 DEF Shape, Serves
  <1>3. ASSUME NEW t \in DOMAIN req[r].says
        PROVE  /\ task[t].phase \in Phases
               /\ Gone(t) => task[t].phase = "deleted"
    BY <1>1, <1>2 DEF Reading, Gone, ApiInv, TypeOK, TaskRecord
  <1>4. /\ DOMAIN says = DOMAIN req[r].says
        /\ \A t \in DOMAIN says :
              says[t] = IF Gone(t) THEN "unknown" ELSE task[t].phase
    OBVIOUS
  <1>5. says \in Says
    <2>1. says \in [DOMAIN req[r].says -> Phases \cup {"unknown"}]
      BY <1>3
    <2>. HIDE DEF says
    <2>. QED
      BY <1>2, <2>1, Zenon DEF Says
  <1>. HIDE DEF says
  <1>6. Fits(r, "200", says)
    BY <1>1, <1>2, <1>3, <1>4, <1>5 DEF Fits, Codes, Gone
  <1>. QED
    BY <1>1, <1>6, AnswerKeeps
\* A request begins: it has seen its tasks as they are.
LEMMA BeginKeeps ==
    ASSUME ApiInv, NEW r \in Requests, NEW op \in Ops, NEW on \in SUBSET TaskIds,
           Begin(r, op, on),
           \/ op \in Single /\ \E t \in Uploaded : on = {t}
           \/ op = "list" /\ on = TaskIds
    PROVE  ApiInv'
  <1>. DEFINE new == [op |-> op, on |-> on, pc |-> First[op],
                      code |-> "none", says |-> Nothing]
              known == [t \in TaskIds |-> IF t \in on THEN told[t] ELSE "nothing"]
  <1>1. /\ TypeOK /\ TasksOK /\ ToldOK
        /\ req \in [Requests -> Request]
        /\ UNCHANGED <<task, told>>
        /\ req' = [req EXCEPT ![r] = new]
        /\ seen' = [seen EXCEPT ![r] = States(on)]
        /\ base' = [base EXCEPT ![r] = known]
    BY DEF ApiInv, TypeOK, Begin, Request
  <1>2. /\ First[op] \in Steps \ {"over", "statuses", "requeue_again", "reread"}
        /\ op \in Serves[First[op]]
        /\ First[op] = "page" => op = "list"
    BY DEF First, Steps, Ops, Single, Serves
  <1>3. /\ new \in Request /\ new.op = op /\ new.on = on /\ new.pc = First[op]
        /\ new.says = Nothing
    <2>1. First[op] \in Steps /\ "none" \in Codes
      BY <1>2 DEF Codes
    <2>. HIDE DEF First
    <2>. QED
      BY <2>1, SaysNothing, Zenon DEF Request
  <1>4. States(on) \in SUBSET (TaskIds \X Sights)
    BY <1>1 DEF States, Sights, TypeOK, TaskRecord
  <1>5. known \in [TaskIds -> Known]
    BY <1>1 DEF TypeOK, Known
  <1>. HIDE DEF new, known
  <1>6. /\ req' \in [Requests -> Request] /\ req'[r] = new
        /\ seen'[r] = States(on) /\ base'[r] = known
        /\ \A q \in Requests \ {r} :
              req'[q] = req[q] /\ seen'[q] = seen[q] /\ base'[q] = base[q]
    BY <1>1, <1>3 DEF TypeOK
  <1>7. TypeOK'
    <2>1. seen' \in [Requests -> SUBSET (TaskIds \X Sights)]
      BY <1>1, <1>4 DEF TypeOK, Sights
    <2>2. base' \in [Requests -> [TaskIds -> Known]]
      BY <1>1, <1>5 DEF TypeOK
    <2>. QED
      BY <1>1, <1>6, <2>1, <2>2 DEF TypeOK, Request, Sights
  <1>8. ASSUME NEW q \in Requests
        PROVE  Shape(q)' /\ Reading(q)' /\ Answering(q)' /\ Past(q)'
    <2>1. CASE q # r
      BY <1>1, <1>6, <2>1
      DEF ApiInv, Shape, Reading, Answering, Past, Open, Was
    <2>2. CASE q = r
      <3>1. op \in Single => /\ \E t \in TaskIds : on = {t}
                             /\ \A t \in on : task[t].phase # "absent"
        BY DEF Uploaded, Single
      <3>2. Shape(r)'
        BY <1>2, <1>3, <1>6, <3>1, SaysNothing DEF Shape, Single
      <3>3. Reading(r)'
        BY <1>1, <1>2, <1>3, <1>6, <3>1, SaysNothing DEF Reading, Was, States
      <3>4. Answering(r)'
        BY <1>2, <1>3, <1>6 DEF Answering, Open
      <3>5. Past(r)'
        <4>1. ASSUME NEW t \in TaskIds, NEW p \in Sights, Sees(r, t, p)
              PROVE  p \in After(known[t])
          <5>1. t \in on /\ p = task[t].phase
            BY <1>6, <4>1 DEF Sees, States
          <5>2. known[t] = told[t]
            BY <5>1 DEF known
          <5>. QED
            BY <1>1, <5>1, <5>2 DEF ToldOK
        <4>2. \A t \in TaskIds : known[t] # "nothing" => t \in on
          BY DEF known
        <4>. QED
          BY <1>3, <1>6, <4>1, <4>2, SaysNothing DEF Past, Was, Sees, Sights
      <3>. QED
        BY <2>2, <3>2, <3>3, <3>4, <3>5
    <2>. QED
      BY <2>1, <2>2
  <1>9. TasksOK' /\ ToldOK'
    BY <1>1 DEF TasksOK, ToldOK
  <1>. QED
    BY <1>7, <1>8, <1>9 DEF ApiInv

LEMMA InitInv == ApiInit => ApiInv
  <1>. SUFFICES ASSUME ApiInit PROVE ApiInv
    OBVIOUS
  <1>1. \A t \in TaskIds : task[t] = Blank("absent")
    BY DEF ApiInit, Init
  <1>2. Typed /\ TasksOK
    <2>1. 0 \in 0 .. MaxRetries + 1 /\ 0 <= MaxRetries
      BY BudgetAssumption
    <2>2. Blank("absent") \in TaskRecord
      BY <2>1, Zenon DEF Blank, TaskRecord, Phases
    <2>3. Blank("absent").phase = "absent" /\ Blank("absent").failures = 0
      BY DEF Blank
    <2>4. Typed
      BY <2>2 DEF ApiInit, Init, Typed
    <2>5. TasksOK
      BY <1>1, <2>1, <2>3 DEF TasksOK
    <2>. QED
      BY <2>4, <2>5
  <1>. DEFINE idle == [op |-> "list", on |-> {}, pc |-> "over",
                       code |-> "none", says |-> Nothing]
  <1>3. /\ idle \in Request /\ idle.op = "list" /\ idle.on = {}
        /\ idle.pc = "over" /\ idle.code = "none" /\ idle.says = Nothing
    BY SaysNothing, Zenon DEF Request, Ops, Steps, Codes
  <1>4. \A r \in Requests : req[r] = idle /\ seen[r] = {}
    BY DEF ApiInit
  <1>5. req \in [Requests -> Request]
    BY <1>3 DEF ApiInit
  <1>. HIDE DEF idle
  <1>6. TypeOK
    BY <1>2, <1>5 DEF ApiInit, Typed, TypeOK, Request, Known
  <1>7. ToldOK
    <2>1. ASSUME NEW t \in TaskIds PROVE task[t].phase \in After(told[t])
      BY <1>1 DEF ApiInit, Blank, After, Phases, Sights
    <2>. QED
      BY <2>1 DEF ToldOK
  <1>8. ASSUME NEW r \in Requests
        PROVE  Shape(r) /\ Reading(r) /\ Answering(r) /\ Past(r)
    <2>1. Shape(r)
      BY <1>3, <1>4, SaysNothing DEF Shape, Serves, Ops, Single
    <2>2. Reading(r)
      BY <1>3, <1>4 DEF Reading, Open
    <2>3. Answering(r)
      BY <1>3, <1>4, SaysNothing DEF Answering
    <2>4. Past(r)
      BY <1>3, <1>4, SaysNothing DEF ApiInit, Past, Was
    <2>. QED
      BY <2>1, <2>2, <2>3, <2>4
  <1>. QED
    BY <1>2, <1>6, <1>7, <1>8 DEF ApiInv

LEMMA StepInv == ApiInv /\ [ApiNext]_apiVars => ApiInv'
  <1>. SUFFICES ASSUME ApiInv, [ApiNext]_apiVars PROVE ApiInv'
    OBVIOUS
  <1>1. ASSUME NEW r \in Requests, BeginAny(r) PROVE ApiInv'
    <2>1. ASSUME NEW op \in Single, NEW t \in Uploaded, Begin(r, op, {t})
          PROVE  ApiInv'
      <3>1. {t} \in SUBSET TaskIds /\ op \in Ops
        BY DEF Uploaded, Ops
      <3>. QED
        BY <2>1, <3>1, BeginKeeps
    <2>2. CASE Begin(r, "list", TaskIds)
      BY <2>2, BeginKeeps DEF Ops
    <2>. QED
      BY <1>1, <2>1, <2>2 DEF BeginAny
  <1>2. ASSUME NEW r \in Requests, Serve(r), Observe PROVE ApiInv'
    <2>1. ASSUME NEW t \in TaskIds,
                 \/ Requeue(r, t) \/ ReadTask(r, t)
                 \/ RequeueAgain(r, t) \/ Reread(r, t)
                 \/ ReadRecording(r, t) \/ Detail(r, t)
                 \/ PrepareStream(r, t) \/ Remove(r, t)
          PROVE  ApiInv'
      BY <1>2, <2>1, TryRequeueKeeps, ReadTaskKeeps, RereadKeeps,
         ReadRecordingKeeps, DetailKeeps, RemoveKeeps
    <2>2. CASE ListPage(r) \/ ListStatuses(r) \/ Raises(r)
      BY <1>2, <2>2, ListPageKeeps, ListStatusesKeeps, RaisesKeeps
    <2>. QED
      BY <1>2, <2>1, <2>2 DEF Serve
  <1>3. CASE Elsewhere /\ Observe
    BY <1>3, ElsewhereKeeps
  <1>4. CASE UNCHANGED apiVars
    <2>1. UNCHANGED <<task, req, seen, base, told>>
      BY <1>4 DEF apiVars
    <2>2. TypeOK' /\ TasksOK' /\ ToldOK'
      BY <2>1 DEF ApiInv, TypeOK, TasksOK, ToldOK
    <2>3. ASSUME NEW r \in Requests
          PROVE  Shape(r)' /\ Reading(r)' /\ Answering(r)' /\ Past(r)'
      BY <2>1 DEF ApiInv, Shape, Reading, Answering, Past, Open, Was
    <2>. QED
      BY <2>2, <2>3 DEF ApiInv
  <1>. QED
    BY <1>1, <1>2, <1>3, <1>4 DEF ApiNext

\* The inductive invariant of the requests holds in every behaviour.
THEOREM Invariance == ApiSpec => []ApiInv
  BY InitInv, StepInv, PTL DEF ApiSpec

-----------------------------------------------------------------------------
(* What follows from it.                                                   *)

\* Tasks, requests and history are of their types.
THEOREM TypeCorrect == ApiSpec => []TypeOK
  <1>1. ApiInv => TypeOK
    BY DEF ApiInv
  <1>. QED
    BY <1>1, Invariance, PTL

\* A retry in up to four statements answers what one in a single step could
\* have answered, however other requests and the workers interleave with it;
\* a failed task it refuses was restarted by another retry and failed again.
THEOREM RetryIsAtomic == ApiSpec => []RetryAnswers
  <1>1. ApiInv => RetryAnswers
    <2>. SUFFICES ASSUME ApiInv, NEW r \in Requests, NEW t \in TaskIds,
                         Answered(r, "retry", t)
                  PROVE  CASE req[r].code = "200" ->
                                 /\ req[r].says[t] \in {"queued", "working"}
                                 /\ Was(r, t, req[r].says[t])
                           [] req[r].code = "404" -> Was(r, t, "deleted")
                           [] req[r].code = "409" ->
                                 \/ req[r].says[t] = "done" /\ Was(r, t, "done")
                                 \/ req[r].says[t] = "failed" /\ Was(r, t, "refailed")
                           [] OTHER -> req[r].code = "500"
      BY DEF RetryAnswers
    <2>1. /\ req[r].op = "retry" /\ t \in req[r].on
          /\ Answering(r) /\ ~Open(r)
      BY DEF ApiInv, Answered
    <2>2. CASE req[r].code = "200"
      BY <2>1, <2>2 DEF Answering
    <2>3. CASE req[r].code = "404"
      BY <2>1, <2>3 DEF Answering
    <2>4. CASE req[r].code = "409"
      BY <2>1, <2>4 DEF Answering
    <2>5. CASE req[r].code = "500"
      BY <2>5
    <2>. QED
      BY <2>1, <2>2, <2>3, <2>4, <2>5 DEF Answering
  <1>. QED
    BY <1>1, Invariance, PTL

\* What a read answers was so at a moment of it.
THEOREM ReadsAreTrue == ApiSpec => []ReadAnswers
  <1>1. ApiInv => ReadAnswers
    BY DEF ApiInv, Answering, ReadAnswers
  <1>. QED
    BY <1>1, Invariance, PTL

\* No later request contradicts what a client was told for good.
THEOREM AnswersLast == ApiSpec => []NeverTakenBack
  <1>1. ApiInv => NeverTakenBack
    <2>. SUFFICES ASSUME ApiInv, NEW r \in Requests, NEW t \in TaskIds,
                         ~Open(r), base[r][t] # "nothing"
                  PROVE  /\ t \in DOMAIN req[r].says =>
                              /\ base[r][t] = "done"
                              /\ req[r].says[t] \in {"done", "unknown"}
                         /\ req[r].op \in Single =>
                              \/ req[r].code \in {"404", "204", "500"}
                              \/ base[r][t] = "done" /\ req[r].code = "409"
                              \/ base[r][t] = "done" /\ t \in DOMAIN req[r].says
      BY DEF NeverTakenBack
    <2>1. /\ TypeOK /\ Answering(r) /\ Past(r)
          /\ t \in req[r].on
          /\ base[r][t] \in {"done", "deleted"}
      BY DEF ApiInv, TypeOK, Past, Known
    <2>2. ASSUME NEW p \in Sights, Was(r, t, p)
          PROVE  p = "deleted" \/ (base[r][t] = "done" /\ p = "done")
      BY <2>1, <2>2 DEF Past, After, Sights
    <2>3. ASSUME t \in DOMAIN req[r].says
          PROVE  base[r][t] = "done" /\ req[r].says[t] \in {"done", "unknown"}
      <3>1. base[r][t] = "done"
        BY <2>1, <2>3 DEF Past
      <3>2. req[r].says[t] \in Phases \cup {"unknown"}
        BY <2>1, <2>3 DEF TypeOK, Says
      <3>. QED
        BY <2>1, <2>2, <2>3, <3>1, <3>2 DEF Answering, Sights
    <2>4. ASSUME req[r].op \in Single
          PROVE  \/ req[r].code \in {"404", "204", "500"}
                 \/ base[r][t] = "done" /\ req[r].code = "409"
                 \/ base[r][t] = "done" /\ t \in DOMAIN req[r].says
      <3>1. req[r].code \in Codes /\ req[r].op # "list"
        BY <2>1, <2>4 DEF TypeOK, Single
      <3>2. req[r].code # "none"
        BY <2>1, <3>1 DEF Answering
      <3>3. req[r].code \notin {"400", "503", "draft"}
        BY <2>1, <2>2 DEF Answering, Sights
      <3>4. CASE req[r].code = "409"
        <4>1. t \in DOMAIN req[r].says
          BY <2>1, <3>4 DEF Answering
        <4>. QED
          BY <2>3, <3>4, <4>1
      <3>5. CASE req[r].code = "200"
        BY <2>1, <2>3, <3>1, <3>5 DEF Answering
      <3>. QED
        BY <3>1, <3>2, <3>3, <3>4, <3>5 DEF Codes
    <2>. QED
      BY <2>3, <2>4
  <1>. QED
    BY <1>1, Invariance, PTL
=============================================================================
