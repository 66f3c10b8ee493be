# Verification of recording-transcription-api

A FastAPI service takes audio uploads, transcribes them (mock ASR), summarises
the transcript with an LLM and serves the result. There is no queue server: the
`tasks` table in PostgreSQL is the queue, and every API process runs an
`asyncio` worker that claims rows under a lease. What can go wrong lies in the
orders in which executors, renew loops, dispatchers, HTTP requests, crashes and
the clock meet on one row or one file; that is what these modules model.

Source paths below are relative to `src/`.

## 1. Inventory

| Part | State | Operations | Hard behaviour | What makes it correct |
|---|---|---|---|---|
| `TaskDao` (`api/repository/dao/task.py`) | a row: status, retry count, `locked_by`, lease, `next_retry_at`, results | insert, claim, renew, mark_summarizing / done / failure, requeue, reclaim, reset, delete | every write is one UPDATE whose WHERE clause is the only protection | lock and lease exactly while in flight; results agree with status; retry budget |
| `TaskExecutor` (`api/worker/executor.py`) | position in `process`, `lease_lost`, the renew loop | check, renew, ASR, summary, fenced writes, failure | the renew loop runs beside the work; each transaction may fail or commit without acknowledgement | only the holder writes; a done task stays done |
| `TaskDispatcher` (`api/worker/dispatcher.py`) | `running_tasks`, the loop, time of the last reclaim | reclaim, claim, schedule, done callback, wake | free slots are read before an await and used after it; one key per task id; wake-ups during a claim; a sweep marked as made before it succeeds | no leaked slot, concurrency limit, nothing due is overlooked, every task ends |
| `TaskWorker` (`api/worker/worker.py`, `api/app.py`) | up, draining, aborting, down | start, stop, submit | shutdown races executors that finish; restart with a persisted worker id | no task stays stuck after a restart; a stop leaves no lock behind |
| Upload and delete (`api/service/recording.py`, `api/repository/recording.py`, `api/utils/file.py`) | `.part` and final files, rows of `recordings` | stage, look-up by hash, rename, insert, roll back, delete | same contents uploaded concurrently, cancelled requests, threads that outlive a cancelled await | one row per hash; a file for each row; no stray file without a fault of its own request |
| Manual retry (`api/service/task.py`) | none of its own | requeue, read, requeue again | races with executors and other retries | the answer is true of some moment of the request |
| Summary stream and reads (`api/service/recording.py`) | none of its own | prepare, replay, stream, list, detail | several statements that a deletion or a worker may separate | answers were true once; a result once shown is not denied later |
| LLM client (`api/core/llm/llm.py`, `api/service/summarizer.py`) | attempt counter, what was yielded | call, fall back, retry, parse, stream | retry ladder, Retry-After, layered parsing, a stream that breaks off | bounded requests and waiting; never a part of another object for the result; one ending |
| Worker identity (`api/worker/identity.py`) | the state file, its `.tmp` | read, create, fall back | replicas on one directory; crashes and I/O errors during start-up | a restart frees its own tasks and nobody else's; a persisted id is kept |
| HTTP layer, settings, logging, DB set-up | – | formatting, I/O | – | – |

Interaction: `upload` inserts a recording with its task in one transaction and
wakes the dispatcher of its own process; dispatchers of all processes claim from
the table; an executor writes its results back behind a fence
(`WHERE locked_by = worker_id`); the HTTP side reads, requeues and deletes rows
whatever the executors do. Processes share nothing but the table and the upload
directory. The full list of hazards, each with its line, is in `PROJECT.json`.

## 2. Modules

| Module | Models |
|---|---|
| `TaskTable` | the row and what each statement of `TaskDao` does to it, as operators |
| `TaskPipeline` | worker processes, dispatchers, executors, renew loops, HTTP operations on tasks, SQL clock |
| `TaskContract` | the abstract specification: a task as its users see it; `TaskPipeline` implements it |
| `TaskApi` | the HTTP requests about tasks, on top of `TaskContract` |
| `TaskRecovery` | `TaskPipeline` with a period of faults followed by a calm one, with fairness |
| `TaskAttempts` | `TaskPipeline` with a history variable that counts executions |
| `TaskShutdown` | `TaskPipeline` with a history variable: which tasks a process had an accident with |
| `DispatcherWake` | when the dispatcher looks at the table: sleeps, wake-ups, reclaim interval |
| `WorkerIdentity` | the state file and ids of replicas, and what a start-up takes back |
| `RecordingStore` | concurrent uploads and deletions over the upload directory and the `recordings` table |
| `StoreBlame` | `RecordingStore` with a history variable: which fault hit which request |
| `LlmClient` | one summary: the awaited call, and the streams of the SSE endpoint |
| `TaskTableProofs` | what each statement of `TaskDao` does to a well-formed row |
| `TaskPipelineProofs`, `TaskExecutorProofs` | the pipeline under every fault, its refinement of `TaskContract`; with punctual renewals; and what a stop leaves behind (`TaskShutdown`) |
| `TaskApiProofs`, `DispatcherWakeProofs`, `WorkerIdentityProofs`, `RecordingStoreProofs` (with `StoreBlame`), `LlmClientProofs` | theorems and proofs about the module of that name |
| `MC...` | values of constants for TLC |

`TaskContract` is in the middle: below it `TaskPipeline` shows that processes,
leases and faults amount to the contract's steps (`ImplementsContract`), above it
`TaskApi` needs nothing but those steps to ask what clients are told.

### TaskTable

One operator per statement: a predicate for the WHERE clause (`Claimable`,
`Reclaimable`, `Abortable`, `Requeueable`, `LockedBy`) and the row it leaves
(`ClaimRow`, `RenewRow`, `SummarizingRow`, `DoneRow`, `FailureRow`,
`RequeuedRow`, `ReleasedRow`). Instants are kept as ticks still to go, so the
clock is `AgeRow` and the state space stays finite: a due row has
`next_retry_at = 0`, an expired lease is `-1`. Texts are reduced to presence.
`updated_at` is left out (nothing reads it to decide anything).

### TaskPipeline

A step is one database transaction or one stretch of event-loop code between two
awaits. Variables: `life` and `rows` (the table), `up` (phase of each process),
`batch` (a claim the dispatcher is awaiting), `running` (`running_tasks`, a
dictionary with one entry per task id), `pc` and `ka` (each executor, with the
state of its keepalive), `aborted` (ids `stop` is about to reset).

Two executors of one task may exist in one process, because a row that was
reclaimed can be claimed by the same process again; `Gens` numbers them. The
key in `running` points at the newest, and the callback of any of them removes
the key, as in `dispatcher.py:134-137`.

`Work` is `_await_while_leased`: it completes only while `lease_lost` is not
set, otherwise `AbortLost` is the only way on. `Mark` is a fenced write: the
fence looks at `locked_by` and not at the status, as in the code. A renew loop
whose transaction raises becomes `"dead"`: the exception is kept in the asyncio
task until the keepalive exits, and `lease_lost` is never set.

Every transaction has an outcome: `"ok"`, `"db_error"` (rolled back) or
`"lost_ack"` (committed, but the caller got an exception). The constant `Faults`
says which of these, and which of crash, shutdown, a raising renewal and a
process too slow to renew (`"stall"`), a run includes. Without `"stall"`,
`Tick` waits for an executor whose keepalive works and whose lease is about to
end: renewals come every third of a lease and transactions are short.

`SKIP LOCKED` is visible only when the transaction that holds a row rolls back
later (otherwise the two claims are ordered); `DispatchClaim` may then skip any
rows. Reclaiming is allowed in any claim, which over-approximates
`_reclaim_due`.

The HTTP operations `Upload`, `Requeue`, `Delete` are enabled while a process is
up. `Upload` takes the age of the task from its id, so uploads may come in any
order of `created_at`, and its `next_retry_at` from a host clock that may run up
to `MaxSkew` ahead of the SQL clock.

### TaskContract

Six phases (`absent`, `queued`, `working`, `done`, `failed`, `deleted`), the count
of failures, and whether transcript and summary are there. `TaskPipeline!View` is
the refinement mapping: `transcribing` and `summarizing` are both `working`, and
lock, lease and waiting time disappear. One transaction of the dispatcher may
release some tasks and take others (`Dispatch`). `WriteTranscript`, `Complete` and
`Fail` are possible in `working` only; `Fail` keeps a task going until its last
failure. That `Complete` does not require a transcript is deliberate: with a
raising renewal the code can do that (see `DoneHasTranscript`).

### TaskApi

Each open request has an operation and a place in it; a step is one SQL statement
(`READ COMMITTED`) or one writing transaction. `Requeue`, `ReadTask`,
`RequeueAgain`, `Reread` are the ladder of `service/task.py`; `ReadRecording` and
what follows it are the two reads of `get_by_id`; `ListPage` and `ListStatuses`
the statements of `list_page` (`total` is left out). `PrepareStream` decides
between replay, a draft that is not stored, 400 and 503; sending the stream is
`LlmClient`. `Raises` is any exception, after which a write may have taken effect.
The workers and the uploads are `TaskContract`'s steps.

History variables hold what the properties compare with: the phases a task had
while the request was open (`seen`; also that somebody restarted it, and that it
failed after that), and what clients had been told for good before it began (`base`,
`told`).

### TaskShutdown

`TaskPipeline` with one history variable: `excused[i]` are the tasks process `i` has had
an accident with, for as long as it has their lock or an executor of them. There are four
accidents: the process is killed with the task in hand (`reset_aborted` that raises leaves
the same), a claim is committed and not acknowledged (a `stop_loop` that cancels the loop
in its claim included), a claim is scheduled beside an older executor of the task, with
which it shares the key in `running_tasks`, or the transaction of `mark_failure` rolls
back. `CleanStop` says that there is no fifth: whenever else a process goes, it leaves
no lock.

### DispatcherWake

The loop of one process, with a clock. `loop` is where it is: at the top, in a
claim, after a claim, in a sweep, or in one of its three sleeps (`_wait_for_work`,
the half second when every slot is taken, the five seconds after an exception),
which differ in their length and in what ends them. A claim takes effect in one step
and returns in another, so a handler's `submit` can come in between: that wake-up
is cleared by `_wait_for_work`. A row is only where it is on its way (`Places`).
An executor ends with its row finished, put off, or still in flight because its last
transaction failed; renewals may die (`RenewalDies`), so that the loop claims a task
whose key it still has: the older executor becomes a stray, and the first of the two to
end pops the key. A due row that another process has in a transaction is passed over by
`SKIP LOCKED`: `Taken` puts it among the later ones until it is due again. Time passes
only while the loop sleeps and nothing rouses it: transactions and stretches of
event-loop code are short against a tick. `waited`, `hits`, `fresh` and `called` are
history. What a stop does after the loop has ended is `TaskPipeline`'s.

### WorkerIdentity

`resolve_worker_id` in steps (`Launch`, `ReadState`, `WriteTmp`, `Replace`, with
`ReadFails` and `WriteFails` ending in an ephemeral id), then `Recover`, the
reclaim of `dispatcher.start` with `include_own_locks=True`. Rows go through
`TaskTable`; executing a task is holding it and finishing it behind the fence.
`SeparateReplicas` is what the repository's README asks of a deployment: replicas
have ids that differ, or no id and directories that differ. A configured id is the
one left after the cut to 64 characters.

### RecordingStore and StoreBlame

A request writes under a name of its own (uuid4), so one identifier names the
request, its `.part` file, its final file and the recording it inserts. Each
await of `upload` is a step: open, write, look-up (two reads), rename, check,
insert, re-read after an `IntegrityError`, removal. A thread that has begun its job
for `asyncio.to_thread` is not stopped by a cancellation: `CancelOpen` and
`CancelCommit` are the two places where that matters. A job still queued then never
runs; if it was a removal, that leaves what `UnlinkFails` leaves. Deletion is the
transaction and then the removal of the file; `DeleteUnacknowledged` is a request
that ends between the two, `UnlinkFails` a removal whose `OSError` `remove_file`
swallows. `StoreBlame` notes the faults that hit each request.

### LlmClient

`op` is the operation that is called: `summarize_model` (from the executor),
`summarize_stream`, the mock stream or the replay of the stored summary (from the
SSE endpoint; the choice is `stream_summary`'s and `SummarizerService`'s). `Cancel`
is also a client that `event_source` finds disconnected. A step ends where the code awaits or yields. The
gateway is external: any member of `Reply` may come. A text is reduced to what
each layer of `_parse_json_safely` extracts from it (`summary`, an `object` of
another shape, `nothing`, or an exception that is no `JSONDecodeError`: an integer of
too many digits, too deep a nesting), with the one relation the layers have: a text that
is an object as a whole is also its span from the first `{` to the last `}`. Any text
may have been `cut` off by `max_tokens`.
`Fallback` is the second request of an attempt, without `response_format`;
`Backoff`, `Wake` and `Exhausted` are the loop; `Cancel` passes every handler,
since `CancelledError` and `GeneratorExit` are not `Exception`s. The streams do
not retry and do not look at `finish_reason`; `BreakOff` is the exception of the parser
that leaves the generator. A Retry-After header is taken to be a natural number; the code
accepts any float, and `asked` adds up the seconds slept because of one. The SDK's
`max_retries=0` is built in. `LLM_MAX_RETRIES < 1` is excluded by assumption: `__init__`
raises before anything is sent or yielded.

`TaskPipeline` keeps of all this that the call returns or raises.

## 3. Runs

Passing:

| Run | Shows |
|---|---|
| `pipeline_overlap` | one process that may run two executors of one task, stopped at any point, every fault: rows well-formed, `DoneIsFinal`, `NoLeakedSlot`, `CleanStop` (no lock is left without an accident of its own), and every step is one of `TaskContract` |
| `pipeline_punctual` | two processes, of two slots and of one, one task, punctual renewals: `SoleHolder`, `DoneHasTranscript`, `StateMachine` |
| `recovery_faults` | two processes, every fault: while a lease has not expired only its holder touches lock, status and count (`LeaseRespected`); once the faults cease, every task ends and every slot comes back |
| `api` | two concurrent requests of any kind: every answer was true at some moment of the request, and nothing told for good is taken back |
| `wake` | one dispatcher: the keys of `running_tasks` never outnumber the slots, nothing due is overlooked, bounds on how long a due row and an expired lease wait |
| `identity` | three replicas, three lives each, crashes and I/O errors: a restart frees its own tasks, no theft, the persisted id is kept |
| `store_faults` | every fault: contents stored once, a created recording keeps its file, and whatever is stray or missing is the work of a fault of its own request |
| `llm_client` | any gateway: bounded requests and sleep, no fragment served as the summary, one ending of a stream unless it is cancelled or the parser raises what nobody catches |

What the runs say that is not obvious from the code:

- a wake-up is lost only during a claim, and costs one `WORKER_POLL_IDLE_SECONDS`
  (`PromptPickup`, `PickupBound`);
- a failing sweep costs a whole further interval, because `_last_reclaim_at` is set
  before the transaction (`SweepBound`, with the factor `1 + hits`);
- a retry may be refused with 409 although the task is failed, if another retry
  restarted it and it failed again between the reads; `RetryAnswers` shows that this
  is the only untrue answer (see `retry_refused`);
- a graceful stop can leave a lock behind, to be freed by its lease or the next start:
  besides the obvious accidents, when a task is claimed again while its old executor has
  not yet gone, because the callback of the old one pops the key of the new one
  (`CleanStop`). No fault is needed: a failed task, a manual retry and a claim before the
  callback runs;
- when the look-up by hash raises or is cancelled, the `.part` file stays, since
  `recording.py:85` is outside every `try` (`PartsExplained` names the fault
  `"lookup_error"`). `tests/test_utils_file.py:116` ("取消（而非普通异常）也必须清理 `.part`")
  and the comment at `recording.py:102` ask for more;
- a stream can end with neither `done` nor `error`: `_parse_json_safely` catches
  `JSONDecodeError` only, and the `ValueError` of an integer of more than 4300 digits or a
  `RecursionError` leave the generator at `llm.py:256`. `OneEnding` shows that this, and a
  cancellation, are the only ways. The docstring at `llm.py:212` promises an `error`, the one
  at `llm.py:362` an `LLMParseError`;
- a stream that `max_tokens` cut off is served as `done` if a summary object can be parsed
  from it; only the awaited call looks at `finish_reason` (`NoInnerSummary`, last conjunct),
  although the docstring at `llm.py:32` counts a truncated output among the errors;
- a drafted summary is not stored, as `stream_summary` says; the docstring of
  `controller/recording.py:58` ("新生成的会回写数据库") is out of date;
- a `.part` file stays only after `"cancel_open"`, `"lookup_error"`, a crash or a
  failing `unlink`; an orphaned final file only after `"cancel_commit"`, an
  interrupted deletion, a crash or a failing `unlink`; a row loses its file only after
  `"lost_ack"`; each time by a fault of the request that owns the file.

Violations, each a disagreement between the code and what its documents say
(quoted in `PROJECT.json`, "findings"):

| Run | What happens |
|---|---|
| `twin_executors` | a renewal raises, the renew loop ends silently, the lease expires, the same process claims the task again: two executors pass the same fence |
| `attempts_crash` | executions that end in a crash are not counted |
| `store_lost_file` | an insert that committed is taken for a failed one: a row without its file |
| `retry_refused` | two retries meet and the task fails again in between: 409 for a task that is failed and was never done |

The first needs a renewal that raises; `pipeline_punctual` shows that
`SoleHolder` holds when none does, whatever else fails. With raising renewals
`DoneHasTranscript` fails as well: a late executor marks a requeued task done after
the requeue cleared its transcript. And of two executors of one task
`running_tasks` counts one, so the limit `wake` shows is one on tasks.

### Bounds

- Two processes: enough for one to reclaim from the other; nothing in the code
  relates three. One process with two slots where the question is about two
  executors in one event loop; `MaxConcurrency` is a setting of each process, and in
  `pipeline_punctual` one has two slots and the other one, which it fills.
  `Gens = {1, 2}`: two overlapping executors of a task in a process; a claim that
  would need a third is not made.
- One task in the runs of the pipeline: rows interact only through the slots and the
  order of claims, which `wake` checks with four; two tasks with all the faults are
  beyond five minutes. The proofs are for any number.
- `LeaseSeconds = 1`: a lease that is valid, due in this tick (0) and expired
  (-1) are all reached. `MaxRetries` is 0 or 1: with 1 both sides of the budget
  and a back-off occur. In `pipeline_punctual` both are 2. `MaxSkew` is 0 or 1, in
  `recovery_faults` 1.
- Four uploads, three of the same contents (these three are symmetric): a winner,
  a loser in the look-up, a loser in the insert, and an unrelated upload. A request
  runs once, so the store's runs end: deadlock is not checked there.
- `api`: one task, since no request relates two, and two requests that may each be
  used again and again, of any kind; `MaxRetries = 1`. The exception of `RetryAnswers`
  is reached: `retry_refused` has it, for brevity with `MaxRetries = 0`.
- `wake`: four tasks, three slots, batches of two: more is due than a batch, and
  more than the slots. The sleeps are 1, 1 and 2 ticks and the interval 2; the bounds in
  the properties are formulas in them, and the proofs are for any lengths. One failing
  transaction or renewal; `Horizon` is above every bound that is checked.
- `identity`: a replica with a `WORKER_ID` and one without share a directory, a
  third has its own; three lives: one that may fail to persist its id, one that
  persists it, one that must find it.
- `llm_client` has the defaults of the code, three attempts and a base of one
  second, headers of 0 and 3 seconds (shorter and longer than either back-off), and
  two chunks: a stream that fails before, between and after them.

### Fairness (TaskRecovery)

Weak fairness for each executor's own steps (the event loop runs what is ready;
the ASR sleeps a bounded time and the LLM call has a time-out), for each renew
loop, for the start of a claim and for time. Strong fairness for a claim that
also reclaims and for the reclaim without a claim: `_reclaim_due` stays true
until a reclaim is made, so one of the transactions that keep coming makes it.
No fairness for uploads, deletions, shutdowns or restarts. The faults cease at
some moment when a process is up. Manual retries cease with them: claims go to
the oldest row (`order_by(created_at)`), so with small limits a user who
requeues an old failing task for ever keeps the younger ones from ever being
claimed. `DispatcherWake` needs no fairness: its bounds are safety properties over
a clock that waits for nobody but code that is ready to run.

### Mutants

Beside some operators stands a variant with a suffix (`FailureRow_OneLess`,
`DoneCallback_KeepsKey`): the slip that the property named in `PROJECT.json`
must notice. No module uses them.

## 4. Proofs

Every invariant and action property that a passing run checks is also proved, for
arbitrary constants, but for the two liveness properties listed at the end. Each inductive invariant
was first checked by TLC on the configuration of the corresponding run.

Assumptions on the constants stand in the modules, named, and TLC evaluates them:
limits and times are natural numbers, some positive, `NULL` is no id
(`LeaseAssumption` to `LimitsAssumption`, `NullIsNoRequest`, `AttemptsAssumption`,
`BudgetAssumption`, ...); `PowerAssumption` says that powers of two are natural
numbers and double from one to the next, because the provers know nothing of `^`; `IdAssumption` that a minted id
(a uuid) is no configured one; `WakeAssumption` that the tasks are finitely many and
that waiting times are counted up to the longest sleep at least. Nothing is assumed
about the number of processes, tasks or requests.

**TaskTableProofs.** One lemma per statement of `TaskDao` (`ClaimRowOK`,
`FailureRowOK`, ...): it takes a row that is `RowOK` to one that is. `RowOK` is the
conjunction of what the three row invariants say and "only a pending row has to
wait". None of them is inductive alone. `retry_count` keeps its range only because
a row that can be failed is locked, a locked row is in flight, and a row in flight
has retries left; a summary appears only with `done`, because a fenced write reaches
only rows in flight. `TaskPipelineProofs` and `WorkerIdentityProofs` use these lemmas.

**TaskPipelineProofs** (every fault, ids that may coincide).

- `TypeCorrect`, `LocksCorrect`, `ResultsCorrect`, `BudgetCorrect`: the inductive
  invariant `IInv` is the types of the control state and `RowOK` for every row; each
  action leaves a row untouched or takes it through one of the lemmas above.
- `DoneFinal`: a done row is unlocked and not in flight, so no WHERE clause selects it.
- `LeaseKept` (`LeaseRespected`): `TableEffect` says of every step which statement it
  applied to each row, and for whom; a step that changes lock, status or count of a row
  with a valid lease is then a fenced write of an executor that moves on, or the release
  in `Start` or `ResetAborted` of a process with that id.
- `SlotsKept` (`NoLeakedSlot`): with every key of `running` goes an executor that has
  not ended; a callback pops the key whatever executor it points at, so it never
  outlives the last of them.
- `Refinement` (`ImplementsContract`): `Init` maps to the contract's, and each action to
  one of its actions or to a stutter, with `View` as the mapping. `IInv` is needed: a
  failing row has retries left, so the count and the phase change as in `Fail`.

**TaskExecutorProofs.** `OneHolder` (`SoleHolder`), `TranscriptBeforeDone`
(`DoneHasTranscript`) and `StagesInOrder` (`StateMachine`) under `Punctual`: no
`"stall"`, no `"renew_error"`, ids of processes differ. Crashes, shutdowns, rolled-back
and unacknowledged transactions remain. The fence compares ids only, so that one
executor passes it is a global fact. `PInv`: an executor that may still write holds its
task under a lease that has not expired, and is the only one that does, or the task is
done or deleted; its row is in the stage the executor believes it to be in; and a
keepalive has lost its lease only when the task is over. Time cannot undo this because
`Tick` waits for renewals; a reclaim cannot, because the lease has not expired; a
restart cannot, because the executors of a process end with it. `twin_executors` shows
that the assumption on renewals is needed; the one on ids is what
`WorkerIdentityProofs!IdsDiffer` proves of `resolve_worker_id`.

`StopIsClean` (`CleanStop`) assumes only that ids differ (`OwnId`); every fault may occur,
late and raising renewals included. `CleanStop` speaks of processes that are down, so the
invariant must follow the lock while they are up. `SInv`, for each task without an accident
(`Kept`): an executor that exists is the one behind the key, a lock belongs to an executor
at work or, once `stop` has cancelled that, to the ids it is about to reset, and an executor
that holds its task has not been told that its lease is lost, nor finds another status when
it checks its claim: both would make it go without giving the task back. `Idle`: a process
that is down has no executors, and a keepalive never outlives its executor.

**WorkerIdentityProofs.** `TypeCorrect`, `IdentityStays` (`IdentityKept`), `NothingStolen`
(`NoTheft`), `RestartRecovers` (`RestartFrees`), `IdsDiffer`, for any number of replicas,
directories and lives that satisfy `SeparateReplicas`. `IdentityInv`: every id in use, in a
file or in a `.tmp` was minted by the instance that uses the directory, or configured for
it, so two instances never have the same. `RecoveryInv`: a row in flight was taken under an
id that its instance, unless its state file failed it, will find again.

**DispatcherWakeProofs.** All six properties of `wake`, for any limits, sleeps and reclaim
interval and any number of failures. The bounds on waiting are not inductive: a row may
have waited up to its bound when a claim starts, so one must know that no sleep follows
that passes it over. `Patience` gives for each place of the loop how long a due row can
have waited there: nothing while every slot is taken; no more than the sleep itself in a
sleep that began after a look at the table, since a claim that comes back empty has seen
that nothing was due; and in the sleep after an error what is left of its delay.
`Stranding` does the same for an expired lease, whose clock is `_last_reclaim_at`: a sweep
is due when the interval is over, and a failure costs a whole round. `LoopInv` carries the
slots from `Limit` to the return of the claim, and that a called row finds the loop
awake; `ClockInv` that no sleep outlasts its time-out.

**TaskApiProofs.** All four properties of `api`, for any number of tasks and of concurrent
requests. `TaskStep` is what any step, of a request or of a worker, may do to a task: a done
task stays done or is deleted, a deleted one stays deleted, a failed one is restarted or
deleted or stays. `Reading` keeps for an open request what its earlier statements still say:
it has seen its tasks as they are now, and a retry whose second
attempt did not find its task failed, although the read in between had, has been overtaken by
somebody else's restart, or the task is deleted; so that if its last read finds the task failed,
it has failed again since that restart. `Answering` is what an answer rests on
(`Fits`: true in the step that gives it), `Past` that nothing seen contradicts what was known
before. That a stored summary comes with `done` is needed for the stream (`TasksOK`).

**RecordingStoreProofs.** `ContentsUnique`, `CreatedKeepsFile`, `StoreTypeCorrect` under every
fault, from `StoreInv`: a recording exists only once its upload is past the insert, rows and
pending removals are disjoint, an upload between rename and answer has its file, and one
answered as created is over. `RowsKeepFiles` adds, for `"lost_ack" \notin Faults`, that an
upload that is about to remove its file has no row; `store_lost_file` shows the assumption
is needed. `PartsHaveCause`, `OrphansHaveCause`, `MissingHasCause` are the three explanations of
`StoreBlame`: `BlameInv` says for each place of a request which files it may have, and which
fault it must have met to have left one.

**LlmClientProofs.** `TypeCorrect`, `RequestsBounded`, `StreamEndsOnce`, `ServesWholeObject`, for
any number of attempts and chunks. `CallInv` adds to the properties that an attempt whose
first request is out has room for the second, that only `summarize_model` is in the loop, and
that nothing was sent at the start; `ServedUsable` says that what is served passed the parser.
`StreamEndsOnce` (`OneEnding`) covers every end of a stream: that none is without an ending
but by a cancellation or an exception of the parser is proved. `SleepWithinBudget` is `WaitBudget`, for any number of attempts, headers and
base: the invariant adds that a sleep under way is one a header asked for, or one step of the
ladder, which is `BaseBackoff * 2^(n-1)` after attempt `n`.

**Only model-checked:** `EveryTaskEnds` and `SlotsComeBack` (liveness under fairness is out of
the prover's reach). `SoleHolder` (without punctual renewals), `AttemptBound`,
`RowHasFile` and `RefusedOnlyDone` are the properties of the violation runs: they do not hold.

## 5. Not modelled

Routing, request validation and the request-id middleware of the HTTP layer,
settings, logging, migrations and connection set-up hold no state of the protocol.
The contents of transcripts and summaries, the file name and size checks (an upload
is accepted or not), `updated_at` and the `total` of a list page are left out.
The five-second floor of the renew interval (`worker.py:63`) is the fault
`"stall"`. `scripts/` and the mock texts are no part of the service. Database
isolation below the level of one statement is not modelled, except for skipped
rows.

## 6. Plan

What is left: `RowHasFile` and `SoleHolder` have a theorem that says under which faults they
hold (`RowsKeepFiles`, `OneHolder`), `RefusedOnlyDone` one that names its only exception
(`RetryIsAtomic`); `AttemptBound` has none yet:
without crashes, shutdowns and lost leases executions are counted, which needs an invariant
over `TaskAttempts`.
