------------------------ MODULE WorkerIdentityProofs ------------------------
(***************************************************************************)
(* Proofs about WorkerIdentity, for every set of replicas that differ in   *)
(* WORKER_ID or in state directory, and every number of restarts.          *)
(*                                                                         *)
(* IdentityInv says who a process can be: a replica without WORKER_ID is   *)
(* the only one of its directory that uses the state file, so what it      *)
(* reads there it once made up itself.  Two processes therefore never      *)
(* share an id, which is what NoTheft needs.  RecoveryInv adds that an     *)
(* instance whose state file never failed comes back under the id that its *)
(* earlier lives locked their tasks with, which is what RestartFrees needs.*)
(***************************************************************************)
EXTENDS WorkerIdentity, TaskTableProofs, TLAPS

\* What instance i may call itself: its WORKER_ID, or a uuid of its own.
MintedBy(i) == {x \in MintedIds : x[1] = i}
OwnIds(i) == IF Configured[i] # NULL THEN {Configured[i]} ELSE MintedBy(i)

\* The identity i has unless its state file fails it.
Stable(i) == IF Configured[i] # NULL THEN Configured[i] ELSE file[Dir[i]]

IdentityInv ==
    \A i \in Instances :
        /\ id[i] \in OwnIds(i) \cup {NULL}
        /\ pc[i] \in {"write", "replace", "recover", "up"} => id[i] # NULL
        /\ pc[i] \in {"read", "write", "replace"} => Configured[i] = NULL
        /\ pc[i] \in {"write", "replace"} => file[Dir[i]] = NULL
        /\ pc[i] = "replace" => tmp[Dir[i]] = id[i]
        /\ pc[i] # "down" => lives[i] # 0
        /\ work[i] # {} => pc[i] = "up"
        /\ Configured[i] = NULL => file[Dir[i]] \in MintedBy(i) \cup {NULL}

RecoveryInv ==
    \A i \in Instances : i \notin hit =>
        /\ pc[i] \in {"recover", "up"} => id[i] = Stable(i)
        /\ \A t \in TaskIds :
              /\ rows[t].status \in InFlight
              /\ taker[t] # NULL /\ taker[t][1] = i
              => /\ Stable(i) # NULL /\ rows[t].locked_by = Stable(i)
                 /\ pc[i] = "up" => taker[t][2] = lives[i]

RowInv ==
    /\ rows = [t \in TaskIds |-> rows[t]]
    /\ \A t \in TaskIds : RowOK(rows[t])

ControlOK ==
    /\ file \in [Dirs -> WorkerIds \cup {NULL}]
    /\ tmp \in [Dirs -> WorkerIds \cup {NULL}]
    /\ pc \in [Instances -> {"down", "read", "write", "replace", "recover", "up"}]
    /\ id \in [Instances -> WorkerIds \cup {NULL}]
    /\ lives \in [Instances -> 0 .. MaxLives]
    /\ work \in [Instances -> SUBSET TaskIds]
    /\ taker \in [TaskIds -> (Instances \X (1 .. MaxLives)) \cup {NULL}]
    /\ hit \subseteq Instances

IInv == ControlOK /\ IdentityInv /\ RowInv /\ RecoveryInv

-----------------------------------------------------------------------------
(* Who is who.                                                             *)

\* An id of some replica is an id, and not NULL.
LEMMA OwnIdsType ==
    \A i \in Instances : OwnIds(i) \subseteq WorkerIds /\ NULL \notin OwnIds(i)
  BY IdAssumption, NullAssumption DEF OwnIds, MintedBy

\* Two processes with the same id are the same.
LEMMA SameId ==
    ASSUME IdentityInv, NEW i \in Instances, NEW j \in Instances,
           id[i] # NULL, id[i] = id[j]
    PROVE  i = j
  <1>1. id[i] \in OwnIds(i) /\ id[i] \in OwnIds(j)
    BY DEF IdentityInv
  <1>2. CASE Configured[i] # NULL /\ Configured[j] # NULL
    BY <1>1, <1>2, SeparateReplicas DEF OwnIds
  <1>3. CASE Configured[i] # NULL /\ Configured[j] = NULL
    BY <1>1, <1>3, IdAssumption DEF OwnIds, MintedBy
  <1>4. CASE Configured[i] = NULL /\ Configured[j] # NULL
    BY <1>1, <1>4, IdAssumption DEF OwnIds, MintedBy
  <1>5. CASE Configured[i] = NULL /\ Configured[j] = NULL
    BY <1>1, <1>5 DEF OwnIds, MintedBy
  <1>. QED
    BY <1>2, <1>3, <1>4, <1>5

\* A uuid is the process's own.
LEMMA NewIdOwn ==
    ASSUME ControlOK, NEW i \in Instances, lives[i] # 0, NEW n \in {1, 2}
    PROVE  NewId(i, n) \in MintedBy(i)
  <1>1. lives[i] \in 1 .. MaxLives
    BY IdAssumption DEF ControlOK
  <1>. QED
    BY <1>1 DEF NewId, MintedBy, MintedIds

\* Of the replicas without WORKER_ID, each has a directory for itself.
LEMMA OwnDir ==
    ASSUME NEW i \in Instances, NEW j \in Instances, Dir[i] = Dir[j],
           Configured[i] = NULL, Configured[j] = NULL
    PROVE  i = j
  BY SeparateReplicas

LEMMA InitInv == Init => IInv
  <1>. SUFFICES ASSUME Init PROVE IInv
    OBVIOUS
  <1>1. ControlOK
    BY IdAssumption DEF Init, ControlOK
  <1>2. IdentityInv
    BY DEF Init, IdentityInv, Dirs
  <1>3. RowInv
    BY NewRowOK DEF Init, RowInv
  <1>4. RecoveryInv
    BY DEF Init, RecoveryInv
  <1>. QED
    BY <1>1, <1>2, <1>3, <1>4 DEF IInv

-----------------------------------------------------------------------------
(* Types, rows and identities are kept by every step.                      *)

LEMMA GotoOK ==
    ASSUME ControlOK, NEW i \in Instances, NEW who \in WorkerIds \cup {NULL},
           NEW next \in {"down", "read", "write", "replace", "recover", "up"},
           Goto(i, next, who)
    PROVE  /\ pc' \in [Instances -> {"down", "read", "write", "replace", "recover", "up"}]
           /\ id' \in [Instances -> WorkerIds \cup {NULL}]
           /\ \A j \in Instances :
                 /\ pc'[j] = IF j = i THEN next ELSE pc[j]
                 /\ id'[j] = IF j = i THEN who ELSE id[j]
  BY DEF ControlOK, Goto

\* The steps of resolve_worker_id, which leave the tasks alone.
Resolves(i) ==
    \/ Launch(i) \/ ReadState(i) \/ WriteTmp(i) \/ Replace(i)
    \/ ReadFails(i) \/ WriteFails(i)

LEMMA ResolveStep ==
    ASSUME IInv, NEW i \in Instances, Resolves(i)
    PROVE  ControlOK' /\ IdentityInv' /\ RecoveryInv'
  <1>. USE DEF IInv
  <1>1. /\ UNCHANGED <<rows, work, taker>>
        /\ Dir[i] \in Dirs /\ id[i] \in WorkerIds \cup {NULL}
        /\ OwnIds(i) \subseteq WorkerIds /\ NULL \notin OwnIds(i)
        /\ Configured[i] = NULL => MintedBy(i) = OwnIds(i)
        /\ work[i] # {} => pc[i] = "up"
    BY OwnIdsType DEF Resolves, Launch, ReadState, WriteTmp, Replace, ReadFails,
       WriteFails, ControlOK, Dirs, OwnIds, IdentityInv
  <1>2. CASE Launch(i)
    <2>1. PICK next \in {"read", "recover"}, who \in WorkerIds \cup {NULL} :
             /\ Goto(i, next, who)
             /\ \/ next = "recover" /\ Configured[i] # NULL /\ who = Configured[i]
                \/ next = "read" /\ Configured[i] = NULL /\ who = NULL
      BY <1>2, IdAssumption DEF Launch
    <2>2. /\ who \in WorkerIds \cup {NULL} /\ who \in OwnIds(i) \cup {NULL}
      BY <2>1, IdAssumption DEF OwnIds
    <2>3. /\ pc[i] = "down" /\ UNCHANGED <<file, tmp, hit>>
          /\ lives' = [lives EXCEPT ![i] = lives[i] + 1]
          /\ lives[i] + 1 \in 0 .. MaxLives /\ lives[i] + 1 # 0
      BY <1>2, IdAssumption DEF Launch, fileVars, ControlOK
    <2>4. /\ pc' \in [Instances -> {"down", "read", "write", "replace", "recover", "up"}]
          /\ id' \in [Instances -> WorkerIds \cup {NULL}]
          /\ \A j \in Instances :
                /\ pc'[j] = IF j = i THEN next ELSE pc[j]
                /\ id'[j] = IF j = i THEN who ELSE id[j]
      BY <2>1, <2>2, GotoOK
    <2>5. ControlOK'
      BY <1>1, <2>3, <2>4 DEF ControlOK
    <2>6. \A j \in Instances : lives'[j] = IF j = i THEN lives[i] + 1 ELSE lives[j]
      BY <2>3 DEF ControlOK
    <2>7. IdentityInv'
      BY <1>1, <2>1, <2>2, <2>3, <2>4, <2>6 DEF IdentityInv
    <2>8. RecoveryInv'
      BY <1>1, <2>1, <2>3, <2>4, <2>6 DEF RecoveryInv, Stable
    <2>. QED
      BY <2>5, <2>7, <2>8
  <1>3. CASE ReadState(i)
    <2>1. /\ pc[i] = "read" /\ Configured[i] = NULL /\ lives[i] # 0
          /\ UNCHANGED <<file, tmp, hit, lives>>
      BY <1>3 DEF ReadState, fileVars, IdentityInv
    <2>2. PICK next \in {"write", "recover"}, who \in OwnIds(i) :
             /\ Goto(i, next, who)
             /\ \/ next = "recover" /\ who = file[Dir[i]]
                \/ next = "write" /\ file[Dir[i]] = NULL
      BY <1>1, <1>3, <2>1, NewIdOwn DEF ReadState, IdentityInv
    <2>3. /\ pc' \in [Instances -> {"down", "read", "write", "replace", "recover", "up"}]
          /\ id' \in [Instances -> WorkerIds \cup {NULL}]
          /\ \A j \in Instances :
                /\ pc'[j] = IF j = i THEN next ELSE pc[j]
                /\ id'[j] = IF j = i THEN who ELSE id[j]
      BY <1>1, <2>2, GotoOK
    <2>4. ControlOK'
      BY <1>1, <2>1, <2>3 DEF ControlOK
    <2>5. IdentityInv'
      BY <1>1, <2>1, <2>2, <2>3 DEF IdentityInv
    <2>6. RecoveryInv'
      BY <1>1, <2>1, <2>2, <2>3 DEF RecoveryInv, Stable
    <2>. QED
      BY <2>4, <2>5, <2>6
  <1>4. CASE WriteTmp(i)
    <2>1. /\ pc[i] = "write" /\ Configured[i] = NULL /\ lives[i] # 0
          /\ UNCHANGED <<file, hit, lives>> /\ Goto(i, "replace", id[i])
          /\ tmp' = [tmp EXCEPT ![Dir[i]] = id[i]]
          /\ id[i] \in OwnIds(i)
      BY <1>4 DEF WriteTmp, IdentityInv
    <2>2. /\ pc' \in [Instances -> {"down", "read", "write", "replace", "recover", "up"}]
          /\ id' \in [Instances -> WorkerIds \cup {NULL}]
          /\ \A j \in Instances :
                /\ pc'[j] = IF j = i THEN "replace" ELSE pc[j]
                /\ id'[j] = IF j = i THEN id[i] ELSE id[j]
      BY <1>1, <2>1, GotoOK
    <2>3. ControlOK'
      BY <1>1, <2>1, <2>2 DEF ControlOK
    <2>4. tmp'[Dir[i]] = id[i] /\ \A d \in Dirs : d # Dir[i] => tmp'[d] = tmp[d]
      BY <1>1, <2>1 DEF ControlOK
    <2>5. \A j \in Instances : j # i /\ pc[j] = "replace" => tmp'[Dir[j]] = tmp[Dir[j]]
      BY <2>1, <2>4, OwnDir DEF IdentityInv, Dirs
    <2>6. IdentityInv'
      BY <1>1, <2>1, <2>2, <2>4, <2>5 DEF IdentityInv
    <2>7. RecoveryInv'
      BY <1>1, <2>1, <2>2 DEF RecoveryInv, Stable
    <2>. QED
      BY <2>3, <2>6, <2>7
  <1>5. CASE Replace(i)
    <2>1. /\ pc[i] = "replace" /\ Configured[i] = NULL /\ lives[i] # 0
          /\ UNCHANGED <<hit, lives>> /\ Goto(i, "recover", id[i])
          /\ tmp' = [tmp EXCEPT ![Dir[i]] = NULL]
          /\ file' = [file EXCEPT ![Dir[i]] = id[i]]
          /\ id[i] \in OwnIds(i) /\ file[Dir[i]] = NULL
      BY <1>5 DEF Replace, IdentityInv
    <2>2. /\ pc' \in [Instances -> {"down", "read", "write", "replace", "recover", "up"}]
          /\ id' \in [Instances -> WorkerIds \cup {NULL}]
          /\ \A j \in Instances :
                /\ pc'[j] = IF j = i THEN "recover" ELSE pc[j]
                /\ id'[j] = IF j = i THEN id[i] ELSE id[j]
      BY <1>1, <2>1, GotoOK
    <2>3. ControlOK'
      BY <1>1, <2>1, <2>2 DEF ControlOK
    <2>4. /\ file'[Dir[i]] = id[i]
          /\ \A d \in Dirs : d # Dir[i] => tmp'[d] = tmp[d] /\ file'[d] = file[d]
      BY <1>1, <2>1 DEF ControlOK
    <2>5. \A j \in Instances : j # i /\ Configured[j] = NULL =>
             tmp'[Dir[j]] = tmp[Dir[j]] /\ file'[Dir[j]] = file[Dir[j]]
      BY <2>1, <2>4, OwnDir DEF Dirs
    <2>6. IdentityInv'
      BY <1>1, <2>1, <2>2, <2>4, <2>5 DEF IdentityInv
    <2>7. Stable(i) = NULL /\ Stable(i)' = id[i]
          /\ \A j \in Instances : j # i => Stable(j)' = Stable(j)
      BY <2>1, <2>4, <2>5 DEF Stable
    <2>8. RecoveryInv'
      <3>. SUFFICES ASSUME NEW j \in Instances, j \notin hit
           PROVE  /\ pc'[j] \in {"recover", "up"} => id'[j] = Stable(j)'
                  /\ \A t \in TaskIds :
                        /\ rows[t].status \in InFlight
                        /\ taker[t] # NULL /\ taker[t][1] = j
                        => /\ Stable(j)' # NULL /\ rows[t].locked_by = Stable(j)'
                           /\ pc'[j] = "up" => taker[t][2] = lives[j]
        BY <1>1, <2>1 DEF RecoveryInv
      <3>. QED
        BY <2>1, <2>2, <2>7 DEF RecoveryInv
    <2>. QED
      BY <2>3, <2>6, <2>8
  <1>6. CASE ReadFails(i) \/ WriteFails(i)
    <2>1. /\ pc[i] \in {"read", "write", "replace"} /\ Configured[i] = NULL
          /\ lives[i] # 0 /\ UNCHANGED <<file, tmp, lives>>
          /\ Goto(i, "recover", NewId(i, 2)) /\ hit' = hit \cup {i}
      BY <1>6 DEF ReadFails, WriteFails, Ephemeral, fileVars, IdentityInv
    <2>2. NewId(i, 2) \in OwnIds(i)
      BY <1>1, <2>1, NewIdOwn
    <2>3. /\ pc' \in [Instances -> {"down", "read", "write", "replace", "recover", "up"}]
          /\ id' \in [Instances -> WorkerIds \cup {NULL}]
          /\ \A j \in Instances :
                /\ pc'[j] = IF j = i THEN "recover" ELSE pc[j]
                /\ id'[j] = IF j = i THEN NewId(i, 2) ELSE id[j]
      BY <1>1, <2>1, <2>2, GotoOK
    <2>4. ControlOK'
      BY <1>1, <2>1, <2>3 DEF ControlOK
    <2>5. IdentityInv'
      BY <1>1, <2>1, <2>2, <2>3 DEF IdentityInv
    <2>6. RecoveryInv'
      BY <1>1, <2>1, <2>3 DEF RecoveryInv, Stable
    <2>. QED
      BY <2>4, <2>5, <2>6
  <1>. QED
    BY <1>2, <1>3, <1>4, <1>5, <1>6 DEF Resolves

\* The rows that statements leave, as far as locks go.
LEMMA RowFields ==
    ASSUME NEW r, RowOK(r)
    PROVE  /\ \A who : /\ ClaimRow(r, who).status = "transcribing"
                       /\ ClaimRow(r, who).locked_by = who
           /\ ReleasedRow(r).status = "pending"
           /\ DoneRow(r).status = "done"
           /\ RenewRow(r).status = r.status /\ RenewRow(r).locked_by = r.locked_by
           /\ AgeRow(r).status = r.status /\ AgeRow(r).locked_by = r.locked_by
  BY Zenon DEF RowOK, Row, ClaimRow, ReleasedRow, DoneRow, RenewRow, AgeRow

\* A process at work has an id.
LEMMA AtWork ==
    ASSUME IInv, NEW i \in Instances, pc[i] = "up" \/ work[i] # {}
    PROVE  pc[i] = "up" /\ id[i] \in WorkerIds /\ id[i] # NULL
  BY DEF IInv, IdentityInv, ControlOK

\* The steps on the tasks, which leave identities alone.
Serves(i) ==
    \/ Sweep(i) \/ Recover(i)
    \/ \E t \in TaskIds : Claim(i, t) \/ Finish(i, t)

LEMMA TaskRows ==
    ASSUME IInv, \/ \E i \in Instances : Serves(i) \/ Resolves(i) \/ Crash(i)
                 \/ \E t \in TaskIds : Upload(t)
                 \/ Tick
                 \/ UNCHANGED vars
    PROVE  RowInv'
  <1>. USE DEF IInv
  <1>1. rows = [t \in TaskIds |-> rows[t]] /\ \A t \in TaskIds : RowOK(rows[t])
    BY DEF RowInv
  <1>2. rows' = rows => RowInv'
    BY DEF RowInv
  <1>3. ASSUME NEW t \in TaskIds, NEW new, RowOK(new),
               rows' = [rows EXCEPT ![t] = new]
        PROVE  RowInv'
    BY <1>1, <1>3, Zenon DEF RowInv
  <1>4. ASSUME NEW i \in Instances, NEW own \in BOOLEAN, rows' = Reclaimed(i, own)
        PROVE  RowInv'
    BY <1>1, <1>4, ReleasedRowOK DEF RowInv, Reclaimed, Reclaimable
  <1>5. ASSUME NEW i \in Instances, NEW t \in TaskIds, Claim(i, t)
        PROVE  RowInv'
    <2>1. RowOK(ClaimRow(rows[t], id[i]))
      BY <1>1, <1>5, AtWork, ClaimRowOK DEF Claim
    <2>. QED
      BY <1>3, <1>5, <2>1 DEF Claim
  <1>6. ASSUME NEW i \in Instances, NEW t \in TaskIds, Finish(i, t)
        PROVE  RowInv'
    <2>1. id[i] \in WorkerIds
      BY <1>6, AtWork DEF Finish
    <2>2. LockedBy(rows[t], id[i]) => RowOK(DoneRow(rows[t]))
      BY <1>1, <2>1, DoneRowOK
    <2>. QED
      BY <1>2, <1>3, <1>6, <2>2 DEF Finish
  <1>7. ASSUME NEW t \in TaskIds, Upload(t) PROVE RowInv'
    <2>1. RowOK(NewRow(0))
      BY NewRowOK
    <2>. QED
      BY <1>3, <1>7, <2>1 DEF Upload
  <1>8. Tick => RowInv'
    <2>. SUFFICES ASSUME Tick PROVE RowInv'
      OBVIOUS
    <2>. DEFINE f == [t \in TaskIds |->
                        IF \E i \in Instances : t \in work[i] /\ LockedBy(rows[t], id[i])
                        THEN RenewRow(rows[t]) ELSE AgeRow(rows[t])]
    <2>1. rows' = f
      BY DEF Tick
    <2>2. ASSUME NEW t \in TaskIds PROVE RowOK(f[t])
      <3>1. ASSUME NEW i \in Instances, t \in work[i], LockedBy(rows[t], id[i])
            PROVE  RowOK(RenewRow(rows[t]))
        <4>1. id[i] \in WorkerIds
          BY <3>1, AtWork
        <4>. QED
          BY <1>1, <3>1, <4>1, RenewRowOK
      <3>. QED
        BY <1>1, <3>1, AgeRowOK
    <2>3. f = [t \in TaskIds |-> f[t]]
      OBVIOUS
    <2>. HIDE DEF f
    <2>. QED
      BY <2>1, <2>2, <2>3 DEF RowInv
  <1>9. ASSUME NEW i \in Instances, Resolves(i) \/ Crash(i) PROVE rows' = rows
    BY <1>9 DEF Resolves, Launch, ReadState, WriteTmp, Replace, ReadFails, WriteFails, Crash
  <1>. QED
    BY <1>2, <1>4, <1>5, <1>6, <1>7, <1>8, <1>9
       DEF Serves, Sweep, Recover, vars

LEMMA TaskStep ==
    ASSUME IInv, \/ \E i \in Instances : Serves(i) \/ Crash(i)
                 \/ \E t \in TaskIds : Upload(t)
                 \/ Tick
                 \/ UNCHANGED vars
    PROVE  ControlOK' /\ IdentityInv' /\ RecoveryInv'
  <1>. USE DEF IInv
  <1>1. rows = [t \in TaskIds |-> rows[t]] /\ \A t \in TaskIds : RowOK(rows[t])
    BY DEF RowInv
  <1>. DEFINE Same == UNCHANGED <<file, tmp, pc, id, lives, hit>>
  \* A row that is in flight afterwards was so before, under the same lock.
  <1>2. ASSUME Same, UNCHANGED work,
               \A t \in TaskIds : rows'[t].status \in InFlight =>
                  /\ rows[t].status \in InFlight
                  /\ rows'[t].locked_by = rows[t].locked_by,
               \/ UNCHANGED taker
               \/ \E t \in TaskIds : taker' = [taker EXCEPT ![t] = NULL]
        PROVE  ControlOK' /\ IdentityInv' /\ RecoveryInv'
    <2>1. ControlOK'
      BY <1>2 DEF ControlOK
    <2>2. IdentityInv'
      BY <1>2 DEF IdentityInv
    <2>3. \A t \in TaskIds : taker'[t] = taker[t] \/ taker'[t] = NULL
      BY <1>2 DEF ControlOK
    <2>4. RecoveryInv'
      BY <1>2, <2>3 DEF RecoveryInv, Stable
    <2>. QED
      BY <2>1, <2>2, <2>4
  <1>3. ASSUME NEW i \in Instances, NEW own \in BOOLEAN, rows' = Reclaimed(i, own),
               NEW t \in TaskIds, rows'[t].status \in InFlight
        PROVE  /\ rows[t].status \in InFlight /\ rows'[t] = rows[t]
               /\ ~Reclaimable(rows[t], id[i], own)
    <2>1. ReleasedRow(rows[t]).status \notin InFlight
      BY <1>1, RowFields DEF InFlight
    <2>. QED
      BY <1>3, <2>1 DEF Reclaimed
  <1>4. ASSUME NEW i \in Instances, Sweep(i)
        PROVE  ControlOK' /\ IdentityInv' /\ RecoveryInv'
    BY <1>2, <1>3, <1>4 DEF Sweep, fileVars
  <1>5. ASSUME NEW i \in Instances, Recover(i)
        PROVE  ControlOK' /\ IdentityInv' /\ RecoveryInv'
    <2>1. /\ pc[i] = "recover" /\ Goto(i, "up", id[i]) /\ rows' = Reclaimed(i, TRUE)
          /\ UNCHANGED <<file, tmp, lives, work, taker, hit>>
      BY <1>5 DEF Recover, fileVars
    <2>2. /\ pc' \in [Instances -> {"down", "read", "write", "replace", "recover", "up"}]
          /\ id' \in [Instances -> WorkerIds \cup {NULL}]
          /\ \A j \in Instances :
                pc'[j] = (IF j = i THEN "up" ELSE pc[j]) /\ id'[j] = id[j]
      <3>1. id[i] \in WorkerIds \cup {NULL}
        BY DEF ControlOK
      <3>. QED
        BY <2>1, <3>1, GotoOK
    <2>3. ControlOK'
      BY <2>1, <2>2 DEF ControlOK
    <2>4. IdentityInv'
      BY <2>1, <2>2 DEF IdentityInv
    <2>5. \A t \in TaskIds : rows'[t].status \in InFlight =>
             /\ rows[t].status \in InFlight /\ rows'[t] = rows[t]
             /\ ~LockedBy(rows[t], id[i])
      BY <1>3, <2>1 DEF Reclaimable
    <2>6. RecoveryInv'
      <3>1. \A j \in Instances : Stable(j)' = Stable(j)
        BY <2>1 DEF Stable
      <3>2. ASSUME i \notin hit, NEW t \in TaskIds, rows'[t].status \in InFlight,
                   taker[t] # NULL, taker[t][1] = i
            PROVE  FALSE
        <4>1. id[i] = Stable(i) /\ rows[t].locked_by = Stable(i)
          BY <2>1, <2>5, <3>2 DEF RecoveryInv
        <4>. QED
          BY <2>5, <3>2, <4>1 DEF LockedBy
      <3>3. i \notin hit => id[i] = Stable(i)
        BY <2>1 DEF RecoveryInv
      <3>4. ASSUME NEW j \in Instances, j \notin hit
            PROVE  /\ pc'[j] \in {"recover", "up"} => id[j] = Stable(j)
                   /\ \A t \in TaskIds :
                         /\ rows'[t].status \in InFlight
                         /\ taker[t] # NULL /\ taker[t][1] = j
                         => /\ Stable(j) # NULL /\ rows'[t].locked_by = Stable(j)
                            /\ pc'[j] = "up" => taker[t][2] = lives[j]
        <4>1. CASE j = i
          BY <3>2, <3>3, <3>4, <4>1
        <4>2. CASE j # i
          BY <2>2, <2>5, <3>4, <4>2 DEF RecoveryInv
        <4>. QED
          BY <4>1, <4>2
      <3>. QED
        BY <2>1, <2>2, <3>1, <3>4 DEF RecoveryInv
    <2>. QED
      BY <2>3, <2>4, <2>6
  <1>6. ASSUME NEW i \in Instances, NEW t \in TaskIds, Claim(i, t)
        PROVE  ControlOK' /\ IdentityInv' /\ RecoveryInv'
    <2>1. /\ Same /\ pc[i] = "up" /\ id[i] # NULL /\ lives[i] \in 1 .. MaxLives
          /\ work' = [work EXCEPT ![i] = @ \cup {t}]
          /\ taker' = [taker EXCEPT ![t] = <<i, lives[i]>>]
      BY <1>6, AtWork, IdAssumption DEF Claim, fileVars, ControlOK, IdentityInv
    <2>2. ControlOK'
      BY <2>1 DEF ControlOK
    <2>3. IdentityInv'
      BY <2>1 DEF IdentityInv, ControlOK
    <2>4. /\ rows'[t].locked_by = id[i]
          /\ taker'[t] = <<i, lives[i]>>
          /\ \A u \in TaskIds : u # t => rows'[u] = rows[u] /\ taker'[u] = taker[u]
      BY <1>1, <1>6, <2>1, RowFields DEF Claim, ControlOK
    <2>5. RecoveryInv'
      <3>. SUFFICES ASSUME NEW j \in Instances, j \notin hit
           PROVE  /\ pc[j] \in {"recover", "up"} => id[j] = Stable(j)
                  /\ \A u \in TaskIds :
                        /\ rows'[u].status \in InFlight
                        /\ taker'[u] # NULL /\ taker'[u][1] = j
                        => /\ Stable(j) # NULL /\ rows'[u].locked_by = Stable(j)
                           /\ pc[j] = "up" => taker'[u][2] = lives[j]
        BY <2>1 DEF RecoveryInv, Stable
      <3>1. pc[j] \in {"recover", "up"} => id[j] = Stable(j)
        BY DEF RecoveryInv
      <3>. QED
        BY <2>1, <2>4, <3>1 DEF RecoveryInv
    <2>. QED
      BY <2>2, <2>3, <2>5
  <1>7. ASSUME NEW i \in Instances, NEW t \in TaskIds, Finish(i, t)
        PROVE  ControlOK' /\ IdentityInv' /\ RecoveryInv'
    <2>1. /\ Same /\ UNCHANGED taker
          /\ work' = [work EXCEPT ![i] = @ \ {t}]
      BY <1>7 DEF Finish, fileVars
    <2>2. ControlOK'
      BY <2>1 DEF ControlOK
    <2>3. IdentityInv'
      BY <2>1 DEF IdentityInv, ControlOK
    <2>4. \A u \in TaskIds : rows'[u].status \in InFlight =>
             /\ rows[u].status \in InFlight
             /\ rows'[u].locked_by = rows[u].locked_by
      <3>1. DoneRow(rows[t]).status \notin InFlight
        BY <1>1, RowFields DEF InFlight
      <3>. QED
        BY <1>1, <1>7, <3>1 DEF Finish
    <2>5. RecoveryInv'
      <3>1. \A j \in Instances : Stable(j)' = Stable(j)
        BY <2>1 DEF Stable
      <3>. QED
        BY <2>1, <2>4, <3>1 DEF RecoveryInv
    <2>. QED
      BY <2>2, <2>3, <2>5
  <1>8. ASSUME NEW t \in TaskIds, Upload(t)
        PROVE  ControlOK' /\ IdentityInv' /\ RecoveryInv'
    <2>1. \A u \in TaskIds : rows'[u].status \in InFlight => rows'[u] = rows[u]
      BY <1>1, <1>8 DEF Upload, NewRow, InFlight
    <2>. QED
      BY <1>2, <1>8, <2>1 DEF Upload, fileVars
  <1>9. CASE Tick
    <2>1. \A u \in TaskIds : /\ rows'[u].status = rows[u].status
                             /\ rows'[u].locked_by = rows[u].locked_by
      BY <1>1, <1>9, RowFields DEF Tick
    <2>. QED
      BY <1>2, <1>9, <2>1 DEF Tick, fileVars
  <1>10. ASSUME NEW i \in Instances, Crash(i)
         PROVE  ControlOK' /\ IdentityInv' /\ RecoveryInv'
    <2>1. /\ Goto(i, "down", NULL) /\ work' = [work EXCEPT ![i] = {}]
          /\ UNCHANGED <<rows, file, tmp, lives, taker, hit>>
      BY <1>10 DEF Crash, fileVars
    <2>2. /\ pc' \in [Instances -> {"down", "read", "write", "replace", "recover", "up"}]
          /\ id' \in [Instances -> WorkerIds \cup {NULL}]
          /\ \A j \in Instances : /\ pc'[j] = IF j = i THEN "down" ELSE pc[j]
                                  /\ id'[j] = IF j = i THEN NULL ELSE id[j]
      BY <2>1, GotoOK
    <2>3. ControlOK'
      BY <2>1, <2>2 DEF ControlOK
    <2>4. IdentityInv'
      BY <2>1, <2>2 DEF IdentityInv, ControlOK
    <2>5. RecoveryInv'
      BY <2>1, <2>2 DEF RecoveryInv, Stable
    <2>. QED
      BY <2>3, <2>4, <2>5
  <1>11. CASE UNCHANGED vars
    BY <1>2, <1>11 DEF vars, fileVars
  <1>. QED
    BY <1>4, <1>5, <1>6, <1>7, <1>8, <1>9, <1>10, <1>11 DEF Serves

-----------------------------------------------------------------------------
(* The theorems.                                                           *)

LEMMA NextCases ==
    [Next]_vars => \/ \E i \in Instances : Resolves(i) \/ Serves(i) \/ Crash(i)
                   \/ \E t \in TaskIds : Upload(t)
                   \/ Tick
                   \/ UNCHANGED vars
  BY DEF Next, Resolves, Serves

\* IInv holds in every reachable state.
THEOREM Invariance == Spec => []IInv
  <1>1. IInv /\ [Next]_vars => IInv'
    BY NextCases, ResolveStep, TaskStep, TaskRows DEF IInv
  <1>. QED
    BY <1>1, InitInv, PTL DEF Spec

\* Every variable keeps its type, and a process that serves or recovers its
\* tasks knows who it is.
THEOREM TypeCorrect == Spec => []TypeOK
  <1>1. IInv => TypeOK
    BY DEF IInv, ControlOK, IdentityInv, RowInv, RowOK, TypeOK
  <1>. QED
    BY <1>1, Invariance, PTL

\* An instance whose state file never failed it has, once it is up, taken
\* back every task its earlier lives left in flight.
THEOREM RestartRecovers == Spec => []RestartFrees
  <1>1. IInv => RestartFrees
    BY DEF IInv, RecoveryInv, RestartFrees
  <1>. QED
    BY <1>1, Invariance, PTL

\* Two replicas never run under the same id: what TaskExecutorProofs assumes
\* of WorkerId.
DistinctIds ==
    \A i, j \in Instances : id[i] # NULL /\ id[i] = id[j] => i = j

\* resolve_worker_id gives two replicas never the same id, whichever of them
\* have a WORKER_ID, share a directory, or fall back on an ephemeral id.
THEOREM IdsDiffer == Spec => []DistinctIds
  <1>1. IInv => DistinctIds
    BY SameId DEF IInv, DistinctIds
  <1>. QED
    BY <1>1, Invariance, PTL

\* Only Replace writes a state file, and only where there was none.
LEMMA FileStep ==
    ASSUME IInv, [Next]_vars, NEW d \in Dirs, file[d] # NULL
    PROVE  file'[d] = file[d]
  <1>1. ASSUME NEW i \in Instances, Replace(i) PROVE file'[d] = file[d]
    <2>1. file[Dir[i]] = NULL
      BY <1>1 DEF Replace, IInv, IdentityInv
    <2>. QED
      BY <1>1, <2>1 DEF Replace, IInv, ControlOK
  <1>2. ASSUME NEW i \in Instances,
               \/ Launch(i) \/ ReadState(i) \/ WriteTmp(i) \/ ReadFails(i)
               \/ WriteFails(i) \/ Crash(i) \/ Serves(i)
        PROVE  file' = file
    BY <1>2 DEF Launch, ReadState, WriteTmp, ReadFails, WriteFails, Crash,
       Serves, Recover, Sweep, Claim, Finish, fileVars
  <1>3. (\E t \in TaskIds : Upload(t)) \/ Tick \/ UNCHANGED vars => file' = file
    BY DEF Upload, Tick, vars, fileVars
  <1>. QED
    BY <1>1, <1>2, <1>3, NextCases DEF Resolves

\* A persisted identity is never replaced, although replicas with a WORKER_ID
\* may share its directory and processes crash between any two file operations.
THEOREM IdentityStays == Spec => IdentityKept
  <1>1. IInv /\ [Next]_vars
           => [\A d \in Dirs : file[d] # NULL => file'[d] = file[d]]_vars
    BY FileStep
  <1>. QED
    BY <1>1, Invariance, PTL DEF Spec, IdentityKept

\* The body of NoTheft, of one task and its holder.
NotTaken(t, i) ==
    /\ TakerAlive(t, i)
    /\ LockedBy(rows[t], id[i]) /\ ~LeaseExpired(rows[t])
    /\ rows'[t].locked_by # rows[t].locked_by
    => t \notin work'[i]

LEMMA TheftStep ==
    ASSUME IInv, [Next]_vars, NEW t \in TaskIds, NEW i \in Instances
    PROVE  NotTaken(t, i)
  <1>. SUFFICES ASSUME t \in work[i], LockedBy(rows[t], id[i]),
                       ~LeaseExpired(rows[t]),
                       rows'[t].locked_by # rows[t].locked_by
                PROVE  t \notin work'[i]
    BY DEF NotTaken, TakerAlive
  <1>1. pc[i] = "up" /\ id[i] \in WorkerIds /\ id[i] # NULL
    BY AtWork
  <1>2. /\ RowOK(rows[t]) /\ rows[t].status \in InFlight
        /\ rows = [u \in TaskIds |-> rows[u]]
    BY <1>1, LockedInFlight DEF IInv, RowInv
  <1>3. ASSUME NEW j \in Instances, Serves(j) PROVE t \notin work'[i]
    <2>1. ASSUME Recover(j) \/ Sweep(j) PROVE FALSE
      <3>1. pc[j] = "recover" /\ LockedBy(rows[t], id[j])
        BY <2>1 DEF Recover, Sweep, Reclaimed, Reclaimable
      <3>2. j = i
        BY <1>1, <3>1, SameId DEF LockedBy, IInv
      <3>. QED
        BY <1>1, <3>1, <3>2
    <2>2. ASSUME NEW u \in TaskIds, Claim(j, u) PROVE FALSE
      BY <1>2, <2>2 DEF Claim, Claimable, InFlight
    <2>3. ASSUME NEW u \in TaskIds, Finish(j, u) PROVE t \notin work'[i]
      <3>1. u = t /\ LockedBy(rows[t], id[j])
        BY <1>2, <2>3 DEF Finish
      <3>2. j = i
        BY <1>1, <3>1, SameId DEF LockedBy, IInv
      <3>. QED
        BY <2>3, <3>1, <3>2 DEF Finish, IInv, ControlOK
    <2>. QED
      BY <1>3, <2>1, <2>2, <2>3 DEF Serves
  <1>4. ASSUME NEW j \in Instances, Resolves(j) \/ Crash(j) PROVE FALSE
    BY <1>4 DEF Resolves, Launch, ReadState, WriteTmp, Replace, ReadFails,
       WriteFails, Crash
  <1>5. ASSUME NEW u \in TaskIds, Upload(u) PROVE FALSE
    BY <1>2, <1>5 DEF Upload, InFlight
  <1>6. Tick => FALSE
    BY <1>2, RowFields DEF Tick
  <1>7. UNCHANGED vars => FALSE
    BY DEF vars
  <1>. QED
    BY <1>3, <1>4, <1>5, <1>6, <1>7, NextCases

\* No process takes a task with a valid lease from a process at work on it,
\* whichever replicas start, crash or cannot use their state files.
THEOREM NothingStolen == Spec => NoTheft
  <1>1. IInv /\ [Next]_vars
           => [\A t \in TaskIds, i \in Instances : NotTaken(t, i)]_vars
    BY TheftStep
  <1>2. Spec => [][\A t \in TaskIds, i \in Instances : NotTaken(t, i)]_vars
    BY <1>1, Invariance, PTL DEF Spec
  <1>. QED
    BY <1>2 DEF NoTheft, NotTaken
=============================================================================
