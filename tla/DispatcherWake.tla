--------------------------- MODULE DispatcherWake ---------------------------
(***************************************************************************)
(* When the dispatcher of one process looks at the table: its loop with    *)
(* the two events and three time-outs it sleeps on, the request handlers   *)
(* that wake it, and the periodic sweep of expired leases.                 *)
(*                                                                         *)
(*   src/api/worker/dispatcher.py  _dispatcher_loop, _wait_for_work,       *)
(*                                 _interruptible_sleep, _reclaim_due      *)
(*   src/api/worker/worker.py      submit, stop                            *)
(*                                                                         *)
(* TaskPipeline says what the loop does to rows and leaves open when; here *)
(* a row is only where it is on its way to the dispatcher.  Code between   *)
(* two awaits is one step; a transaction takes effect in one step and is   *)
(* acknowledged in another, so that handlers may run in between.           *)
(*                                                                         *)
(* An operator whose name has a suffix, like Resume_Waits, is a slip in    *)
(* the operator of that name; the runs must notice it (README, Mutants).   *)
(***************************************************************************)
EXTENDS Naturals, FiniteSets

CONSTANTS Tasks,
          MaxConcurrency, MaxBatchSize,
          PollIdle,         \* WORKER_POLL_IDLE_SECONDS
          FullSleep,        \* the sleep when every slot is taken
          ErrorSleep,       \* the sleep after an exception
          ReclaimInterval,  \* reclaim_interval
          MaxFailures,      \* bound: transactions that fail, and renewals
          Horizon           \* bound: waiting times are not counted further

ASSUME WakeAssumption ==
    /\ MaxConcurrency \in Nat \ {0} /\ MaxBatchSize \in Nat \ {0}
    /\ {PollIdle, FullSleep, ErrorSleep, ReclaimInterval, MaxFailures, Horizon}
          \subseteq Nat \ {0}
    /\ IsFiniteSet(Tasks)
    /\ \A n \in {PollIdle, FullSleep, ErrorSleep} : n <= Horizon

VARIABLES row,        \* where each task's row is, see Places
          handlers,   \* tasks whose handler has committed and not yet submitted
          running,    \* keys of running_tasks
          strays,     \* tasks with an executor that is not behind their key
          loop,       \* where _dispatcher_loop is
          batch,      \* the limit of the claim it awaits, 0 if it awaits none
          sweeping,   \* do_reclaim of that claim
          got,        \* task_ids of a claim that took effect
          wake, stop, \* _wake_event and stop_event
          timer,      \* ticks since the loop fell asleep
          sinceSweep, \* ticks since _last_reclaim_at
          failures,   \* failed transactions and dead renewals so far
          waited,     \* ticks each row has been due with a slot free, or stranded
          hits,       \* transactions of the loop that failed meanwhile
          fresh,      \* rows that became due since the last SELECT
          called      \* rows submitted while the loop waited, till it looks

loopVars == <<running, strays, loop, batch, sweeping, got, wake, stop, timer,
              sinceSweep>>
ghosts == <<waited, hits, fresh, called>>
vars == <<row, handlers, loopVars, failures, ghosts>>

\* "later": due at some time to come (back-off, skewed clock, held by another
\* process); "claimed": in flight and worked on here; "adrift": in flight and
\* not; "stranded": in flight with its lease expired.
Places == {"absent", "later", "due", "claimed", "adrift", "stranded", "over"}
Asleep == {"wait", "full", "error"}
Loop == Asleep \cup {"top", "claim", "claimed", "sweep", "ended"}

\* Types, and the range of each counter.
TypeOK ==
    /\ row \in [Tasks -> Places]
    /\ handlers \subseteq Tasks /\ got \subseteq Tasks
    /\ running \subseteq Tasks /\ strays \subseteq Tasks
    /\ loop \in Loop
    /\ batch \in 0 .. MaxBatchSize
    /\ {sweeping, wake, stop} \subseteq BOOLEAN
    /\ timer \in 0 .. Horizon
    /\ sinceSweep \in 0 .. ReclaimInterval
    /\ failures \in 0 .. MaxFailures
    /\ waited \in [Tasks -> 0 .. Horizon]
    /\ hits \in [Tasks -> 0 .. MaxFailures]
    /\ fresh \subseteq Tasks /\ called \subseteq Tasks

Due == {t \in Tasks : row[t] = "due"}

Init ==
    /\ row \in [Tasks -> {"absent", "later", "due", "adrift"}]
    /\ handlers = {} /\ running = {} /\ strays = {} /\ got = {}
    /\ loop = "top" /\ batch = 0 /\ sweeping = FALSE
    /\ wake = FALSE /\ stop = FALSE
    /\ timer = 0 /\ sinceSweep = 0 /\ failures = 0
    /\ waited = [t \in Tasks |-> 0]
    /\ hits = [t \in Tasks |-> 0]
    /\ fresh = Due /\ called = {}

Full == Cardinality(running) >= MaxConcurrency

\* What is due or stranded waits, for a claim or for a sweep.  The rows in S
\* start to; n transactions of the loop fail in this step.
Waiting == {t \in Tasks : row[t] \in {"due", "stranded"}}

Wait(S, n) ==
    /\ waited' = [t \in Tasks |-> IF t \in Waiting' \ S THEN waited[t] ELSE 0]
    /\ hits' = [t \in Tasks |->
                  IF t \notin Waiting' THEN 0
                  ELSE IF t \in S THEN n ELSE hits[t] + n]

-----------------------------------------------------------------------------
(* The loop.                                                               *)

ReclaimDue_WhenFree == sinceSweep = ReclaimInterval /\ ~Full

ReclaimDue == sinceSweep = ReclaimInterval

Limit_WholeBatch == MaxBatchSize

Limit_AllFree == MaxConcurrency - Cardinality(running)

Limit ==
    LET free == MaxConcurrency - Cardinality(running)
    IN  IF free < MaxBatchSize THEN free ELSE MaxBatchSize

FallAsleep(where) == loop' = where /\ timer' = 0

\* One look at stop_event and running_tasks.  _last_reclaim_at is set before
\* the sweep is made, whether or not it will succeed.
LoopTop ==
    /\ loop = "top"
    /\ \/ stop /\ loop' = "ended" /\ UNCHANGED <<batch, sweeping, sinceSweep, timer>>
       \/ /\ ~stop /\ ~Full
          /\ loop' = "claim"
          /\ batch' = Limit
          /\ sweeping' = ReclaimDue
          /\ sinceSweep' = IF ReclaimDue THEN 0 ELSE sinceSweep
          /\ UNCHANGED timer
       \/ /\ ~stop /\ Full /\ ReclaimDue
          /\ loop' = "sweep"
          /\ sinceSweep' = 0
          /\ UNCHANGED <<batch, sweeping, timer>>
       \/ /\ ~stop /\ Full /\ ~ReclaimDue
          /\ FallAsleep("full")
          /\ UNCHANGED <<batch, sweeping, sinceSweep>>
    /\ UNCHANGED <<row, handlers, running, strays, got, wake, stop, failures, ghosts>>

Swept(on) ==
    [t \in Tasks |-> IF on /\ row[t] = "stranded" THEN "due" ELSE row[t]]

NewlyDue(table) == {t \in Tasks : table[t] = "due" /\ row[t] # "due"}

\* _reclaim_and_claim takes effect; if the acknowledgement is lost, nobody
\* will work on what it claimed.
Claim(acknowledged) ==
    LET table == Swept(sweeping)
        due == {t \in Tasks : table[t] = "due"}
        size == IF Cardinality(due) < batch THEN Cardinality(due) ELSE batch
    IN  /\ loop = "claim"
        /\ \E picked \in SUBSET due :
              /\ Cardinality(picked) = size
              /\ row' = [t \in Tasks |->
                           IF t \notin picked THEN table[t]
                           ELSE IF acknowledged THEN "claimed" ELSE "adrift"]
              /\ Wait(NewlyDue(table), IF acknowledged THEN 0 ELSE 1)
              /\ got' = IF acknowledged THEN picked ELSE {}
        /\ fresh' = {}
        /\ called' = {}
        /\ \/ acknowledged /\ loop' = "claimed" /\ UNCHANGED <<failures, timer>>
           \/ /\ ~acknowledged /\ failures < MaxFailures
              /\ failures' = failures + 1
              /\ FallAsleep("error")
        /\ batch' = IF acknowledged THEN batch ELSE 0
        /\ sweeping' = FALSE
        /\ UNCHANGED <<handlers, running, strays, wake, stop, sinceSweep>>

\* A transaction of the loop rolls back: except Exception.
LoopRaises ==
    /\ loop \in {"claim", "sweep"}
    /\ failures < MaxFailures
    /\ failures' = failures + 1
    /\ UNCHANGED row
    /\ Wait({}, 1)
    /\ FallAsleep("error")
    /\ called' = {}
    /\ batch' = 0 /\ sweeping' = FALSE
    /\ UNCHANGED <<handlers, running, strays, got, wake, stop, sinceSweep, fresh>>

Resume_Waits ==
    /\ loop = "claimed"
    /\ running' = running \cup got
    /\ strays' = strays \cup (running \cap got)
    /\ got' = {}
    /\ wake' = FALSE
    /\ FallAsleep("wait")
    /\ batch' = 0
    /\ UNCHANGED <<row, handlers, sweeping, stop, sinceSweep, failures, ghosts>>

\* The claim returns: schedule and go round at once, or clear the wake-up and
\* wait for work.  If this takes the last slot, the others wait anew.  A task
\* that is still in running_tasks gets a second executor behind the same key.
Resume ==
    /\ loop = "claimed"
    /\ running' = running \cup got
    /\ strays' = strays \cup (running \cap got)
    /\ got' = {}
    /\ UNCHANGED row
    /\ Wait(IF Cardinality(running') >= MaxConcurrency THEN Due ELSE {}, 0)
    /\ \/ got # {} /\ loop' = "top" /\ UNCHANGED <<wake, timer>>
       \/ got = {} /\ wake' = FALSE /\ FallAsleep("wait")
    /\ batch' = 0
    /\ UNCHANGED <<handlers, sweeping, stop, sinceSweep, failures, fresh, called>>

\* _maybe_reclaim_expired_leases, and the sleep after it.
SweepOnly ==
    /\ loop = "sweep"
    /\ row' = Swept(TRUE)
    /\ Wait(NewlyDue(Swept(TRUE)), 0)
    /\ fresh' = fresh \cup NewlyDue(Swept(TRUE))
    /\ FallAsleep("full")
    /\ UNCHANGED <<handlers, running, strays, batch, sweeping, got, wake, stop,
                   sinceSweep, failures, called>>

TimedOut_NoPoll ==
    \/ loop = "full" /\ timer >= FullSleep
    \/ loop = "error" /\ timer >= ErrorSleep

TimedOut ==
    \/ loop = "wait" /\ timer >= PollIdle
    \/ loop = "full" /\ timer >= FullSleep
    \/ loop = "error" /\ timer >= ErrorSleep

\* What ends a sleep: the time-out, stop_event in all of them, _wake_event in
\* _wait_for_work alone.
Rouse == loop \in Asleep /\ (TimedOut \/ stop \/ (loop = "wait" /\ wake))

WakeUp ==
    /\ Rouse
    /\ loop' = "top"
    /\ timer' = 0
    /\ UNCHANGED <<row, handlers, running, strays, batch, sweeping, got, wake, stop,
                   sinceSweep, failures, ghosts>>

-----------------------------------------------------------------------------
(* Handlers, executors, other processes, shutdown, and time.               *)

\* An upload or a manual retry commits a row that is due ...
Insert(t) ==
    /\ ~stop
    /\ row[t] \in {"absent", "over"}
    /\ row' = [row EXCEPT ![t] = "due"]
    /\ handlers' = handlers \cup {t}
    /\ Wait({t}, 0)
    /\ fresh' = fresh \cup {t}
    /\ UNCHANGED <<loopVars, failures, called>>

Submit_Silent(t) ==
    /\ t \in handlers
    /\ handlers' = handlers \ {t}
    /\ called' = IF loop = "wait" /\ row[t] = "due" THEN called \cup {t} ELSE called
    /\ UNCHANGED <<row, loopVars, failures, waited, hits, fresh>>

\* ... and then calls worker.submit, unless its request is cancelled.
Submit(t) ==
    /\ t \in handlers
    /\ handlers' = handlers \ {t}
    /\ wake' = TRUE
    /\ called' = IF loop = "wait" /\ row[t] = "due" THEN called \cup {t} ELSE called
    /\ UNCHANGED <<row, running, strays, loop, batch, sweeping, got, stop, timer,
                   sinceSweep, failures, waited, hits, fresh>>

CancelHandler(t) ==
    /\ t \in handlers
    /\ handlers' = handlers \ {t}
    /\ UNCHANGED <<row, loopVars, failures, ghosts>>

Fail == failures < MaxFailures /\ failures' = failures + 1

\* An executor ends and its callback pops the key of its task, also when the
\* key is another executor's.  It has finished the row or had it wait for a
\* retry; or its last transaction has failed and leaves the row in flight; or
\* the row was not its own any more.
ExecutorEnds(t, next) ==
    /\ t \in running \cup strays
    /\ running' = running \ {t}
    /\ strays' = IF t \in running THEN strays ELSE strays \ {t}
    /\ \/ /\ next \in {"over", "later"}
          /\ row[t] \in {"claimed", "adrift", "stranded"}
          /\ row' = [row EXCEPT ![t] = next]
          /\ UNCHANGED failures
       \/ /\ next = "adrift"
          /\ row[t] = "claimed"
          /\ row' = IF t \in strays' \cup got THEN row ELSE [row EXCEPT ![t] = next]
          /\ Fail
       \/ /\ next = "adrift"
          /\ row[t] # "claimed" \/ t \in strays' \cup got
          /\ UNCHANGED <<row, failures>>
    /\ Wait({}, 0)
    /\ UNCHANGED <<handlers, loop, batch, sweeping, got, wake, stop, timer,
                   sinceSweep, fresh, called>>

\* Time or another process makes a row due, or a lease run out of a row that
\* is left alone; there is no wake-up.
Ripen(t) ==
    /\ \/ row[t] \in {"later", "stranded"} /\ row' = [row EXCEPT ![t] = "due"]
       \/ row[t] = "adrift" /\ row' = [row EXCEPT ![t] = "stranded"]
    /\ Wait({t}, 0)
    /\ fresh' = fresh \cup ({t} \cap Due')
    /\ UNCHANGED <<handlers, loopVars, failures, called>>

\* The renewals of an executor die and its lease runs out (bound: a task with
\* two executors is not claimed for a third).
RenewalDies(t) ==
    /\ row[t] = "claimed"
    /\ t \in (running \cup strays) \ (running \cap strays)
    /\ row' = [row EXCEPT ![t] = "stranded"]
    /\ Fail
    /\ Wait({t}, 0)
    /\ UNCHANGED <<handlers, loopVars, fresh, called>>

\* Another process has a due row in one of its transactions, so that SKIP
\* LOCKED passes it over here, or claims it for itself; or it is deleted.
Taken(t, next) ==
    /\ row[t] = "due"
    /\ row' = [row EXCEPT ![t] = next]
    /\ Wait({}, 0)
    /\ fresh' = fresh \ {t} /\ called' = called \ {t}
    /\ UNCHANGED <<handlers, loopVars, failures>>

\* worker.stop, called when no request is being served any more.
Stop ==
    /\ ~stop
    /\ handlers = {}
    /\ stop' = TRUE
    /\ wake' = TRUE
    /\ UNCHANGED <<row, handlers, running, strays, loop, batch, sweeping, got, timer,
                   sinceSweep, failures, ghosts>>

Count(n, bound) == IF n < bound THEN n + 1 ELSE n

\* A transaction and a stretch of event-loop code are much shorter than a
\* tick: time passes only while the loop sleeps, nothing rouses it and no
\* handler is on its way from its commit to submit.
Tick ==
    /\ loop \in Asleep /\ ~Rouse
    /\ handlers = {}
    /\ timer' = Count(timer, Horizon)
    /\ sinceSweep' = Count(sinceSweep, ReclaimInterval)
    /\ waited' = [t \in Tasks |->
          IF row[t] = "stranded" \/ (row[t] = "due" /\ ~Full)
          THEN Count(waited[t], Horizon) ELSE waited[t]]
    /\ UNCHANGED <<row, handlers, running, strays, loop, batch, sweeping, got, wake,
                   stop, failures, hits, fresh, called>>

Elsewhere ==
    \E t \in Tasks :
        \/ Insert(t) \/ Submit(t) \/ CancelHandler(t)
        \/ Ripen(t) \/ RenewalDies(t)
        \/ \E next \in {"over", "later", "adrift"} :
              ExecutorEnds(t, next) \/ Taken(t, next)

\* What happens once the loop has ended is TaskPipeline's.
Next ==
    \/ LoopTop \/ LoopRaises \/ Resume \/ SweepOnly \/ WakeUp
    \/ \E acknowledged \in BOOLEAN : Claim(acknowledged)
    \/ loop # "ended" /\ (Elsewhere \/ Stop)
    \/ Tick
    \/ loop = "ended" /\ UNCHANGED vars

Spec == Init /\ [][Next]_vars

-----------------------------------------------------------------------------
(* Properties.                                                             *)

\* The keys of running_tasks and the rows on their way there never outnumber
\* WORKER_MAX_CONCURRENCY, although the free slots are counted before the claim
\* is awaited and used after it, and executors end meanwhile.  Strays have no
\* key: they come on top.
ConcurrencyBound == Cardinality(running \cup got) <= MaxConcurrency

\* The loop waits for work only if there was none: every row that is due then
\* became so after its last SELECT, also when there were more rows than one
\* batch could take.
NoOverlooked == loop = "wait" => Due \subseteq fresh

\* A task submitted while the loop waits for work is looked at before any
\* time passes; only a wake-up that comes during a claim can be lost.
PromptPickup ==
    \A t \in called : row[t] = "due" => waited[t] = 0

Longest ==
    CHOOSE n \in {PollIdle, FullSleep, ErrorSleep} :
        \A m \in {PollIdle, FullSleep, ErrorSleep} : m <= n

\* A due row is not left for longer than the longest sleep while a slot is
\* free, lost wake-ups and rows nobody announces included; each failing
\* transaction of the loop adds one sleep.
PickupBound ==
    \A t \in Due : waited[t] <= Longest + hits[t] * ErrorSleep

\* An expired lease is swept within one interval and one sleep.  A sweep that
\* fails is not repeated at once: it costs another interval.
SweepBound ==
    \A t \in Tasks : row[t] = "stranded" =>
        waited[t] <= (ReclaimInterval + Longest) * (1 + hits[t])
=============================================================================
