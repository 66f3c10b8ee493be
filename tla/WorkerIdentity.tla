--------------------------- MODULE WorkerIdentity ---------------------------
(***************************************************************************)
(* Who a worker process is (src/api/worker/identity.py), and what its      *)
(* identity is for: at start-up it takes back the tasks that its own       *)
(* previous life left locked (dispatcher.start), and nobody else's.        *)
(*                                                                         *)
(* An instance is a deployed replica; its processes live one after the     *)
(* other.  Rows go through TaskTable's statements; executing a task is     *)
(* reduced to holding it and finishing it behind the fence.                *)
(*                                                                         *)
(* An operator whose name has a suffix, like ReadFails_Mints, is a slip in *)
(* the operator of that name; the runs must notice it (README, Mutants).   *)
(***************************************************************************)
EXTENDS TaskTable

CONSTANTS Instances,
          Configured,  \* WORKER_ID of each instance (64 characters), or NULL
          Dir,         \* WORKER_STATE_DIR of each
          TaskIds,
          MaxLives     \* bound: processes per instance

\* What the repository's README asks of a deployment with replicas: ids that
\* differ, or state directories that differ.
ASSUME SeparateReplicas ==
    \A i, j \in Instances : i # j /\ Configured[i] = Configured[j] =>
        Configured[i] = NULL /\ Dir[i] # Dir[j]

VARIABLES rows,
          file,    \* the state file of each directory, NULL if there is none
          tmp,     \* the file beside it that os.replace moves over it
          pc,      \* where each instance's process is
          id,      \* its worker id, as far as it is resolved
          lives,   \* processes the instance has had
          work,    \* tasks an executor of the process is at
          taker,   \* history: the process that claimed each task last
          hit      \* history: instances whose state file could not be used

fileVars == <<file, tmp>>
vars == <<rows, fileVars, pc, id, lives, work, taker, hit>>

\* _new_worker_id: a uuid, so every one is new; a process may need two.
NewId(i, n) == <<i, lives[i], n>>
MintedIds == Instances \X (1 .. MaxLives) \X {1, 2}

\* A configured id is no uuid that some process makes up.
ASSUME IdAssumption ==
    /\ MaxLives \in Nat
    /\ MintedIds \subseteq WorkerIds
    /\ \A i \in Instances :
          Configured[i] \in (WorkerIds \ MintedIds) \cup {NULL}

Dirs == {Dir[i] : i \in Instances}

\* Types; a process that serves, or recovers its tasks, knows who it is.
TypeOK ==
    /\ \A i \in Instances : pc[i] \in {"recover", "up"} => id[i] # NULL
    /\ rows \in [TaskIds -> Row]
    /\ file \in [Dirs -> WorkerIds \cup {NULL}]
    /\ tmp \in [Dirs -> WorkerIds \cup {NULL}]
    /\ pc \in [Instances -> {"down", "read", "write", "replace", "recover", "up"}]
    /\ id \in [Instances -> WorkerIds \cup {NULL}]
    /\ lives \in [Instances -> 0 .. MaxLives]
    /\ work \in [Instances -> SUBSET TaskIds]
    /\ taker \in [TaskIds -> (Instances \X (1 .. MaxLives)) \cup {NULL}]
    /\ hit \subseteq Instances

Init ==
    /\ rows = [t \in TaskIds |-> NewRow(0)]
    /\ file = [d \in Dirs |-> NULL]
    /\ tmp = [d \in Dirs |-> NULL]
    /\ pc = [i \in Instances |-> "down"]
    /\ id = [i \in Instances |-> NULL]
    /\ lives = [i \in Instances |-> 0]
    /\ work = [i \in Instances |-> {}]
    /\ taker = [t \in TaskIds |-> NULL]
    /\ hit = {}

-----------------------------------------------------------------------------
(* resolve_worker_id.                                                      *)

Goto(i, next, who) ==
    /\ pc' = [pc EXCEPT ![i] = next]
    /\ id' = [id EXCEPT ![i] = who]

Launch_FileOnly(i) ==
    /\ pc[i] = "down"
    /\ lives[i] < MaxLives
    /\ lives' = [lives EXCEPT ![i] = @ + 1]
    /\ Goto(i, "read", NULL)
    /\ UNCHANGED <<rows, fileVars, work, taker, hit>>

\* A process is started; an explicit WORKER_ID settles the matter.
Launch(i) ==
    /\ pc[i] = "down"
    /\ lives[i] < MaxLives
    /\ lives' = [lives EXCEPT ![i] = @ + 1]
    /\ \/ Configured[i] # NULL /\ Goto(i, "recover", Configured[i])
       \/ Configured[i] = NULL /\ Goto(i, "read", NULL)
    /\ UNCHANGED <<rows, fileVars, work, taker, hit>>

ReadState(i) ==
    /\ pc[i] = "read"
    /\ \/ file[Dir[i]] # NULL /\ Goto(i, "recover", file[Dir[i]])
       \/ file[Dir[i]] = NULL /\ Goto(i, "write", NewId(i, 1))
    /\ UNCHANGED <<rows, fileVars, lives, work, taker, hit>>

WriteTmp(i) ==
    /\ pc[i] = "write"
    /\ tmp' = [tmp EXCEPT ![Dir[i]] = id[i]]
    /\ Goto(i, "replace", id[i])
    /\ UNCHANGED <<rows, file, lives, work, taker, hit>>

Replace_Forgets(i) ==
    /\ pc[i] = "replace"
    /\ Goto(i, "recover", id[i])
    /\ UNCHANGED <<rows, fileVars, lives, work, taker, hit>>

Replace(i) ==
    /\ pc[i] = "replace"
    /\ tmp[Dir[i]] # NULL
    /\ file' = [file EXCEPT ![Dir[i]] = tmp[Dir[i]]]
    /\ tmp' = [tmp EXCEPT ![Dir[i]] = NULL]
    /\ Goto(i, "recover", id[i])
    /\ UNCHANGED <<rows, lives, work, taker, hit>>

Ephemeral_Unset(i) ==
    /\ Goto(i, "recover", NULL)
    /\ hit' = hit \cup {i}

\* An id for this life only.
Ephemeral(i) ==
    /\ Goto(i, "recover", NewId(i, 2))
    /\ hit' = hit \cup {i}

ReadFails_Mints(i) ==
    /\ pc[i] = "read"
    /\ Goto(i, "write", NewId(i, 1))
    /\ hit' = hit \cup {i}
    /\ UNCHANGED <<rows, fileVars, lives, work, taker>>

\* OSError while reading: the file may well be there, so it is left alone.
ReadFails(i) ==
    /\ pc[i] = "read"
    /\ Ephemeral(i)
    /\ UNCHANGED <<rows, fileVars, lives, work, taker>>

\* OSError while writing; the .tmp file may stay behind.
WriteFails(i) ==
    /\ pc[i] \in {"write", "replace"}
    /\ Ephemeral(i)
    /\ UNCHANGED <<rows, fileVars, lives, work, taker>>

-----------------------------------------------------------------------------
(* What the id is used for.                                                *)

Reclaimed(i, ownLocks) ==
    [t \in TaskIds |-> IF Reclaimable(rows[t], id[i], ownLocks)
                       THEN ReleasedRow(rows[t]) ELSE rows[t]]

Recover_ExpiredOnly(i) ==
    /\ pc[i] = "recover"
    /\ rows' = Reclaimed(i, FALSE)
    /\ Goto(i, "up", id[i])
    /\ UNCHANGED <<fileVars, lives, work, taker, hit>>

\* dispatcher.start: recover_zombie_tasks(include_own_locks=True).
Recover(i) ==
    /\ pc[i] = "recover"
    /\ rows' = Reclaimed(i, TRUE)
    /\ Goto(i, "up", id[i])
    /\ UNCHANGED <<fileVars, lives, work, taker, hit>>

Sweep(i) ==
    /\ pc[i] = "up"
    /\ rows' = Reclaimed(i, FALSE)
    /\ UNCHANGED <<fileVars, pc, id, lives, work, taker, hit>>

Claim(i, t) ==
    /\ pc[i] = "up"
    /\ Claimable(rows[t])
    /\ rows' = [rows EXCEPT ![t] = ClaimRow(@, id[i])]
    /\ work' = [work EXCEPT ![i] = @ \cup {t}]
    /\ taker' = [taker EXCEPT ![t] = <<i, lives[i]>>]
    /\ UNCHANGED <<fileVars, pc, id, lives, hit>>

\* The executor writes its result if the fence lets it.
Finish(i, t) ==
    /\ t \in work[i]
    /\ rows' = IF LockedBy(rows[t], id[i])
               THEN [rows EXCEPT ![t] = DoneRow(@)] ELSE rows
    /\ work' = [work EXCEPT ![i] = @ \ {t}]
    /\ UNCHANGED <<fileVars, pc, id, lives, taker, hit>>

\* A finished task is of no more interest; its place is taken by a new one.
Upload(t) ==
    /\ rows[t].status = "done"
    /\ rows' = [rows EXCEPT ![t] = NewRow(0)]
    /\ taker' = [taker EXCEPT ![t] = NULL]
    /\ UNCHANGED <<fileVars, pc, id, lives, work, hit>>

Crash(i) ==
    /\ pc[i] # "down"
    /\ Goto(i, "down", NULL)
    /\ work' = [work EXCEPT ![i] = {}]
    /\ UNCHANGED <<rows, fileVars, lives, taker, hit>>

\* Executors at work renew in time; other leases run out.
Tick ==
    /\ rows' = [t \in TaskIds |->
          IF \E i \in Instances : t \in work[i] /\ LockedBy(rows[t], id[i])
          THEN RenewRow(rows[t]) ELSE AgeRow(rows[t])]
    /\ UNCHANGED <<fileVars, pc, id, lives, work, taker, hit>>

Next ==
    \/ \E i \in Instances :
          \/ Launch(i) \/ ReadState(i) \/ WriteTmp(i) \/ Replace(i)
          \/ ReadFails(i) \/ WriteFails(i)
          \/ Recover(i) \/ Sweep(i) \/ Crash(i)
          \/ \E t \in TaskIds : Claim(i, t) \/ Finish(i, t)
    \/ \E t \in TaskIds : Upload(t)
    \/ Tick

Spec == Init /\ [][Next]_vars

-----------------------------------------------------------------------------
(* Properties.                                                             *)

\* The process that claimed t last is still the one its instance runs.
TakerAlive(t, i) == taker[t] = <<i, lives[i]>> /\ t \in work[i]

\* No process, in its recovery or in a sweep, takes a task with a valid lease
\* from a process that is at work on it, whichever replicas start, crash or
\* lose their state files at whatever moment.
NoTheft ==
    [][\A t \in TaskIds, i \in Instances :
          /\ TakerAlive(t, i)
          /\ LockedBy(rows[t], id[i]) /\ ~LeaseExpired(rows[t])
          /\ rows'[t].locked_by # rows[t].locked_by
          => t \notin work'[i]]_vars

\* An instance that has come up again has taken back whatever its earlier
\* lives left locked, without waiting for a lease, unless its state file once
\* could not be read or written.
RestartFrees ==
    \A t \in TaskIds, i \in Instances :
        /\ pc[i] = "up" /\ i \notin hit
        /\ rows[t].status \in InFlight
        /\ taker[t] # NULL /\ taker[t][1] = i
        => taker[t][2] = lives[i]

\* A persisted identity is never replaced, so an instance that had to use an
\* ephemeral id for one life is itself again in the next.
IdentityKept ==
    [][\A d \in Dirs : file[d] # NULL => file'[d] = file[d]]_vars
=============================================================================
