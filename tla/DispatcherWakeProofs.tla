------------------------ MODULE DispatcherWakeProofs ------------------------
(***************************************************************************)
(* Proofs about DispatcherWake, for every number of tasks and slots and    *)
(* every choice of the four time-outs.                                     *)
(*                                                                         *)
(* The bounds on waiting are not inductive: a due row may have waited up   *)
(* to its bound when a claim starts, so it must be known that the claim is *)
(* not followed by another sleep.  Patience says, for each place of the    *)
(* loop, how long a due row can have waited there; Stranding does so for   *)
(* an expired lease, whose clock is _last_reclaim_at.                      *)
(***************************************************************************)
EXTENDS DispatcherWake, FiniteSetTheorems, TLAPS

Types ==
    /\ row \in [Tasks -> Places]
    /\ handlers \subseteq Tasks /\ got \subseteq Tasks
    /\ running \subseteq Tasks /\ strays \subseteq Tasks
    /\ loop \in Loop
    /\ batch \in 0 .. MaxBatchSize
    /\ sweeping \in BOOLEAN /\ wake \in BOOLEAN
    /\ stop \in BOOLEAN
    /\ timer \in 0 .. Horizon
    /\ sinceSweep \in 0 .. ReclaimInterval
    /\ failures \in 0 .. MaxFailures
    /\ waited \in [Tasks -> 0 .. Horizon]
    /\ hits \in [Tasks -> Nat]
    /\ fresh \subseteq Tasks /\ called \subseteq Tasks

\* Where the loop is, and what it may rely on there.
LoopInv ==
    /\ \A t \in Tasks : hits[t] <= failures
    /\ Cardinality(running) <= MaxConcurrency
    /\ loop \in {"claim", "claimed"} =>
          batch # 0 /\ Cardinality(running) + batch <= MaxConcurrency
    /\ loop = "claimed" => Cardinality(got) <= batch
    /\ loop # "claimed" => got = {}
    /\ loop = "wait" => ~Full
    /\ called # {} => \/ loop = "wait" /\ wake
                      \/ loop = "top" /\ ~Full
                      \/ loop \in {"claim", "ended"}

\* The clocks of the loop: how long it has slept, and _last_reclaim_at.
ClockInv ==
    /\ loop \in {"claim", "claimed", "sweep"} => sinceSweep < ReclaimInterval
    /\ loop = "wait" => timer <= PollIdle
    /\ loop = "full" => timer <= FullSleep
    /\ loop = "error" => timer <= ErrorSleep

\* How long a due row has waited.  Failing transactions cost it a Delay.
Delay(n) == n * ErrorSleep

Patience(t) ==
    row[t] = "due" =>
        /\ Full \/ t \in handlers \/ t \in called => waited[t] = 0
        /\ loop = "sweep" => waited[t] = 0
        /\ loop = "claimed" /\ got = {} => waited[t] = 0 /\ t \in fresh
        /\ loop = "wait" => t \in fresh
        /\ loop \in {"wait", "full"} => waited[t] <= timer
        /\ loop = "error" =>
              waited[t] + ErrorSleep <= Longest + Delay(hits[t]) + timer
        /\ waited[t] <= Longest + Delay(hits[t])

\* How long a stranded row has waited; a failure costs it a whole Round.
Round == ReclaimInterval + Longest
Rounds(n) == Round * n

Stranding(t) ==
    row[t] = "stranded" =>
        /\ loop \in Asleep =>
              waited[t] <= Rounds(hits[t]) + sinceSweep +
                              (IF sinceSweep = ReclaimInterval THEN timer ELSE 0)
        /\ loop = "top" =>
              waited[t] <= Rounds(hits[t]) + sinceSweep +
                              (IF sinceSweep = ReclaimInterval THEN Longest ELSE 0)
        /\ loop = "claimed" \/ (loop = "claim" /\ ~sweeping) =>
              waited[t] <= Rounds(hits[t]) + sinceSweep
        /\ waited[t] <= Rounds(hits[t]) + Round

IInv ==
    /\ Types
    /\ LoopInv
    /\ ClockInv
    /\ \A t \in Tasks : Patience(t) /\ Stranding(t)

-----------------------------------------------------------------------------
(* Sizes and sleeps.                                                       *)

\* Sets of tasks are finite.
LEMMA SizeType ==
    ASSUME NEW S \in SUBSET Tasks
    PROVE  IsFiniteSet(S) /\ Cardinality(S) \in Nat
  <1>1. IsFiniteSet(S)
    BY WakeAssumption, FS_Subset
  <1>. QED
    BY <1>1, FS_CardinalityType

LEMMA SizeMonotone ==
    ASSUME NEW S \in SUBSET Tasks, NEW T \in SUBSET S
    PROVE  Cardinality(T) <= Cardinality(S)
  BY SizeType, FS_Subset

LEMMA SizeUnion ==
    ASSUME NEW S \in SUBSET Tasks, NEW T \in SUBSET Tasks
    PROVE  Cardinality(S \cup T) <= Cardinality(S) + Cardinality(T)
  <1>1. /\ Cardinality(S \cup T) =
             Cardinality(S) + Cardinality(T) - Cardinality(S \cap T)
    BY SizeType, FS_Union
  <1>2. Cardinality(S \cap T) \in Nat
    BY SizeType
  <1>. QED
    BY <1>1, <1>2, SizeType

\* The longest sleep is one of the three, and as long as each.
LEMMA LongestIs ==
    /\ Longest \in Nat \ {0}
    /\ PollIdle <= Longest /\ FullSleep <= Longest /\ ErrorSleep <= Longest
  <1>. DEFINE S == {PollIdle, FullSleep, ErrorSleep}
  <1>1. S \subseteq Nat \ {0}
    BY WakeAssumption
  <1>2. \E n \in S : \A m \in S : m <= n
    BY WakeAssumption
  <1>3. Longest \in S /\ \A m \in S : m <= Longest
    BY <1>2 DEF Longest
  <1>. QED
    BY <1>1, <1>3

\* Delay and Rounds grow by one sleep and by one round with each failure.
LEMMA DelayGrows ==
    ASSUME NEW n \in Nat
    PROVE  Delay(n) \in Nat /\ Delay(n + 1) = Delay(n) + ErrorSleep
  <1>1. ErrorSleep \in Nat
    BY WakeAssumption
  <1>. QED
    BY <1>1 DEF Delay

LEMMA RoundsGrow ==
    /\ Round \in Nat /\ Round = ReclaimInterval + Longest
    /\ \A n \in Nat : Rounds(n) \in Nat /\ Rounds(n + 1) = Rounds(n) + Round
  <1>1. Round \in Nat
    BY LongestIs, WakeAssumption DEF Round
  <1>2. ASSUME NEW n \in Nat
        PROVE  Rounds(n) \in Nat /\ Rounds(n + 1) = Rounds(n) + Round
    BY <1>1 DEF Rounds
  <1>. QED
    BY <1>1, <1>2 DEF Round

\* What Wait does to the two counters of a row.
LEMMA WaitEffect ==
    ASSUME Types, NEW S, NEW n \in Nat, Wait(S, n)
    PROVE  /\ waited' \in [Tasks -> 0 .. Horizon]
           /\ hits' \in [Tasks -> Nat]
           /\ \A t \in Tasks :
                \/ t \in S \cap Waiting' /\ waited'[t] = 0 /\ hits'[t] = n
                \/ t \notin Waiting' /\ waited'[t] = 0 /\ hits'[t] = 0
                \/ /\ t \in Waiting' \ S
                   /\ waited'[t] = waited[t] /\ hits'[t] = hits[t] + n
  BY WakeAssumption DEF Types, Wait

-----------------------------------------------------------------------------
(* The invariant is preserved.                                             *)

LEMMA InitInv == Init => IInv
  <1>. SUFFICES ASSUME Init PROVE IInv
    OBVIOUS
  <1>1. Cardinality({}) = 0
    BY FS_EmptySet
  <1>2. Types
    <2>1. /\ sweeping \in BOOLEAN /\ wake \in BOOLEAN
          /\ stop \in BOOLEAN
      BY DEF Init
    <2>2. /\ row \in [Tasks -> Places] /\ loop \in Loop
      BY DEF Init, Places, Loop
    <2>3. waited \in [Tasks -> 0 .. Horizon] /\ hits \in [Tasks -> Nat]
      BY WakeAssumption DEF Init
    <2>. QED
      BY <2>1, <2>2, <2>3, WakeAssumption DEF Init, Types, Due
  <1>3. LoopInv
    BY <1>1, WakeAssumption DEF Init, LoopInv
  <1>4. ClockInv
    BY DEF Init, ClockInv
  <1>5. ~Full
    BY <1>1, WakeAssumption DEF Init, Full
  <1>6. \A t \in Tasks : Patience(t)
    BY <1>5, LongestIs, DelayGrows, WakeAssumption DEF Init, Patience
  <1>7. \A t \in Tasks : Stranding(t)
    BY DEF Init, Stranding
  <1>. QED
    BY <1>2, <1>3, <1>4, <1>6, <1>7 DEF IInv
\* LoopTop counts the free slots before it asks for as many rows.
LEMMA LimitFits ==
    ASSUME Types, LoopInv, ~Full
    PROVE  /\ Limit \in 1 .. MaxBatchSize
           /\ Cardinality(running) + Limit <= MaxConcurrency
  <1>1. Cardinality(running) \in Nat
    BY SizeType DEF Types
  <1>. QED
    BY <1>1, WakeAssumption DEF Full, Limit

LEMMA LoopTopKeeps == IInv /\ LoopTop => IInv'
  <1>. SUFFICES ASSUME IInv, LoopTop PROVE IInv'
    OBVIOUS
  <1>. USE DEF IInv
  <1>1. /\ UNCHANGED <<row, handlers, running, strays, got, wake, stop, failures,
                       waited, hits, fresh, called>>
        /\ Full = Full'
    BY DEF LoopTop, ghosts, Full
  <1>2. Types'
    <2>1. sweeping' \in BOOLEAN
      BY Zenon DEF Types, LoopTop, ReclaimDue
    <2>2. /\ loop' \in Loop
          /\ batch' \in 0 .. MaxBatchSize
          /\ timer' \in 0 .. Horizon
          /\ sinceSweep' \in 0 .. ReclaimInterval
      BY LimitFits, WakeAssumption DEF Types, LoopTop, FallAsleep, Loop, Asleep
    <2>. QED
      BY <1>1, <2>1, <2>2 DEF Types
  <1>3. LoopInv'
    BY <1>1, LimitFits DEF Types, LoopInv, LoopTop, FallAsleep
  <1>4. ClockInv'
    BY <1>1, WakeAssumption DEF Types, ClockInv, LoopTop, FallAsleep, ReclaimDue
  <1>5. ASSUME NEW t \in Tasks PROVE Patience(t)'
    BY <1>1, LongestIs DEF Types, Patience, LoopTop, FallAsleep
  <1>6. ASSUME NEW t \in Tasks PROVE Stranding(t)'
    <2>1. CASE loop' = "ended"
      BY <1>1, <2>1 DEF Stranding, Asleep
    <2>2. CASE loop' = "claim"
      <3>1. sinceSweep = ReclaimInterval => sweeping'
        BY <2>2, Zenon DEF LoopTop, ReclaimDue, FallAsleep
      <3>2. sinceSweep' = IF sinceSweep = ReclaimInterval THEN 0 ELSE sinceSweep
        BY <2>2 DEF LoopTop, ReclaimDue, FallAsleep
      <3>3. loop = "top"
        BY DEF LoopTop
      <3>. QED
        BY <1>1, <2>2, <3>1, <3>2, <3>3, LongestIs, RoundsGrow DEF Types, Stranding, Asleep
    <2>3. CASE loop' = "sweep"
      BY <1>1, <2>3 DEF Stranding, Asleep
    <2>4. CASE loop' = "full"
      BY <1>1, <2>4, LongestIs, RoundsGrow, WakeAssumption
      DEF Types, Stranding, LoopTop, FallAsleep, ReclaimDue, Asleep
    <2>. QED
      BY <2>1, <2>2, <2>3, <2>4 DEF LoopTop, FallAsleep
  <1>. QED
    BY <1>2, <1>3, <1>4, <1>5, <1>6

LEMMA LoopRaisesKeeps == IInv /\ LoopRaises => IInv'
  <1>. SUFFICES ASSUME IInv, LoopRaises PROVE IInv'
    OBVIOUS
  <1>. USE DEF IInv
  <1>1. /\ UNCHANGED <<row, handlers, running, strays, got, wake, stop,
                       sinceSweep, fresh>>
        /\ Full = Full'
        /\ called' = {} /\ loop' = "error" /\ timer' = 0
        /\ batch' = 0 /\ sweeping' = FALSE
        /\ loop \in {"claim", "sweep"}
        /\ failures < MaxFailures /\ failures' = failures + 1
    BY DEF LoopRaises, FallAsleep, Full
  <1>2. /\ waited' \in [Tasks -> 0 .. Horizon]
        /\ hits' \in [Tasks -> Nat]
        /\ \A t \in Tasks :
             \/ waited'[t] = waited[t] /\ hits'[t] = hits[t] + 1
             \/ row[t] \notin {"due", "stranded"} /\ hits'[t] = 0
    <2>1. Wait({}, 1)
      BY DEF LoopRaises
    <2>. QED
      BY <1>1, <2>1, WaitEffect DEF Waiting
  <1>3. Types'
    <2>1. sweeping' \in BOOLEAN
      BY <1>1
    <2>. QED
      BY <1>1, <1>2, <2>1, WakeAssumption DEF Types, Loop, Asleep
  <1>4. LoopInv'
    BY <1>1, <1>2 DEF Types, LoopInv
  <1>5. ClockInv'
    BY <1>1, WakeAssumption DEF ClockInv
  <1>6. ASSUME NEW t \in Tasks PROVE Patience(t)'
    BY <1>1, <1>2, LongestIs, DelayGrows, WakeAssumption DEF Types, Patience
  <1>7. ASSUME NEW t \in Tasks PROVE Stranding(t)'
    BY <1>1, <1>2, LongestIs, RoundsGrow, WakeAssumption
    DEF Types, Stranding, Asleep
  <1>. QED
    BY <1>3, <1>4, <1>5, <1>6, <1>7
\* A claim that finds no row has seen that none was due.
LEMMA ClaimKeeps ==
    ASSUME IInv, NEW ack \in BOOLEAN, Claim(ack)
    PROVE  IInv'
  <1>. USE DEF IInv
  <1>. DEFINE table == Swept(sweeping)
              due == {t \in Tasks : table[t] = "due"}
              size == IF Cardinality(due) < batch THEN Cardinality(due) ELSE batch
              cost == IF ack THEN 0 ELSE 1
  <1>1. PICK picked \in SUBSET due :
           /\ Cardinality(picked) = size
           /\ Wait(NewlyDue(table), cost)
           /\ row' = [t \in Tasks |->
                        IF t \notin picked THEN table[t]
                        ELSE IF ack THEN "claimed" ELSE "adrift"]
           /\ got' = IF ack THEN picked ELSE {}
    BY DEF Claim
  <1>2. /\ loop = "claim" /\ fresh' = {} /\ called' = {}
        /\ UNCHANGED <<handlers, running, strays, wake, stop, sinceSweep>>
        /\ batch' = IF ack THEN batch ELSE 0
        /\ sweeping' = FALSE
        /\ Full' = Full
        /\ loop' = IF ack THEN "claimed" ELSE "error"
        /\ failures' = failures + cost /\ failures' <= MaxFailures
        /\ ack \/ timer' = 0
        /\ timer' \in 0 .. Horizon
    BY WakeAssumption DEF Types, Claim, FallAsleep, Full
  <1>3. /\ Cardinality(picked) \in Nat
        /\ Cardinality(picked) <= batch
        /\ picked = {} => due = {}
    <2>1. /\ IsFiniteSet(due)
          /\ Cardinality(due) \in Nat /\ Cardinality(picked) \in Nat
      BY SizeType
    <2>2. batch \in Nat /\ batch # 0
      BY <1>2 DEF Types, LoopInv
    <2>3. Cardinality(picked) <= batch
      BY <1>1, <2>1, <2>2
    <2>4. ASSUME picked = {} PROVE due = {}
      <3>1. Cardinality(picked) = 0
        BY <2>4, FS_EmptySet
      <3>2. Cardinality(due) = 0
        BY <1>1, <2>1, <2>2, <3>1
      <3>. QED
        BY <2>1, <3>2, FS_EmptySet
    <2>. QED
      BY <2>1, <2>3, <2>4
  <1>4. table \in [Tasks -> Places]
    BY DEF Types, Swept, Places
  <1>5. /\ waited' \in [Tasks -> 0 .. Horizon]
        /\ hits' \in [Tasks -> Nat]
        /\ \A t \in Tasks :
             \/ waited'[t] = 0 /\ hits'[t] \in {0, cost}
             \/ /\ t \notin NewlyDue(table)
                /\ waited'[t] = waited[t] /\ hits'[t] = hits[t] + cost
    BY <1>1, WaitEffect
  <1>6. Types'
    <2>1. sweeping' \in BOOLEAN
      BY <1>2
    <2>2. batch' \in 0 .. MaxBatchSize
      BY <1>2, WakeAssumption DEF Types
    <2>. QED
      BY <1>1, <1>2, <1>4, <1>5, <2>1, <2>2 DEF Types, Loop, Asleep, Places
  <1>7. LoopInv'
    BY <1>1, <1>2, <1>3, <1>5 DEF Types, LoopInv
  <1>8. ClockInv'
    BY <1>2, WakeAssumption DEF ClockInv
  <1>9. ASSUME NEW t \in Tasks, row'[t] = "due"
        PROVE  /\ t \in due /\ picked # {}
               /\ waited'[t] # 0 =>
                     /\ row[t] = "due"
                     /\ waited'[t] = waited[t] /\ hits'[t] = hits[t] + cost
    <2>1. t \in due
      BY <1>1, <1>9
    <2>. QED
      BY <1>3, <1>5, <2>1 DEF NewlyDue
  <1>10. ASSUME NEW t \in Tasks PROVE Patience(t)'
    <2>. SUFFICES ASSUME row'[t] = "due" PROVE Patience(t)'
      BY DEF Patience
    <2>1. CASE ack
      BY <1>1, <1>2, <1>5, <1>9, <2>1, LongestIs, DelayGrows DEF Types, Patience
    <2>2. CASE ~ack
      BY <1>1, <1>2, <1>5, <1>9, <2>2, LongestIs, DelayGrows, WakeAssumption
      DEF Types, Patience
    <2>. QED
      BY <2>1, <2>2
  <1>11. ASSUME NEW t \in Tasks PROVE Stranding(t)'
    <2>. SUFFICES ASSUME row'[t] = "stranded" PROVE Stranding(t)'
      BY DEF Stranding
    <2>1. row[t] = "stranded" /\ ~sweeping /\ t \notin picked
      BY <1>1 DEF Swept, Types
    <2>2. waited'[t] = 0 \/ (waited'[t] = waited[t] /\ hits'[t] = hits[t] + cost)
      BY <1>5
    <2>. QED
      BY <1>2, <1>5, <2>1, <2>2, LongestIs, RoundsGrow, WakeAssumption
      DEF Types, Stranding, ClockInv, Asleep
  <1>. QED
    BY <1>6, <1>7, <1>8, <1>10, <1>11

LEMMA ResumeKeeps == IInv /\ Resume => IInv'
  <1>. SUFFICES ASSUME IInv, Resume PROVE IInv'
    OBVIOUS
  <1>. USE DEF IInv
  <1>. DEFINE S == IF Full' THEN Due ELSE {}
  <1>1. /\ loop = "claimed" /\ running' = running \cup got /\ got' = {}
        /\ strays' = strays \cup (running \cap got) /\ batch' = 0
        /\ UNCHANGED <<row, handlers, sweeping, stop, sinceSweep, failures,
                       fresh, called>>
        /\ \/ got # {} /\ loop' = "top" /\ UNCHANGED <<wake, timer>>
           \/ got = {} /\ wake' = FALSE /\ loop' = "wait" /\ timer' = 0
    BY DEF Resume, FallAsleep
  <1>2. Wait(S, 0)
    BY DEF Resume, Full
  <1>3. /\ waited' \in [Tasks -> 0 .. Horizon]
        /\ hits' \in [Tasks -> Nat]
        /\ \A t \in S : waited'[t] = 0 /\ hits'[t] = 0
        /\ \A t \in Tasks : \/ waited'[t] = 0 /\ hits'[t] = 0
                            \/ waited'[t] = waited[t] /\ hits'[t] = hits[t]
    <2>1. S \subseteq Tasks
      BY DEF Due
    <2>2. hits \in [Tasks -> Nat]
      BY DEF Types
    <2>. QED
      BY <1>2, <2>1, <2>2, WaitEffect
  <1>4. /\ Cardinality(running') \in Nat
        /\ Cardinality(running') <= MaxConcurrency
        /\ got = {} => ~Full'
    <2>1. /\ Cardinality(running') \in Nat
          /\ Cardinality(running) \in Nat /\ Cardinality(got) \in Nat
          /\ Cardinality(running') <= Cardinality(running) + Cardinality(got)
      BY <1>1, SizeType, SizeUnion DEF Types
    <2>2. /\ Cardinality(got) <= batch /\ batch # 0 /\ batch \in Nat
          /\ Cardinality(running) + batch <= MaxConcurrency
      BY <1>1 DEF LoopInv, Types
    <2>3. got = {} => running' = running
      BY <1>1
    <2>. QED
      BY <2>1, <2>2, <2>3, WakeAssumption DEF Full
  <1>5. Types'
    <2>1. wake' \in BOOLEAN
      BY <1>1, Zenon DEF Types
    <2>. QED
      BY <1>1, <1>3, <2>1, WakeAssumption DEF Types, Loop, Asleep
  <1>6. LoopInv'
    BY <1>1, <1>3, <1>4 DEF Types, LoopInv
  <1>7. ClockInv'
    BY <1>1, WakeAssumption DEF ClockInv
  <1>8. ASSUME NEW t \in Tasks PROVE Patience(t)'
    <2>. SUFFICES ASSUME row[t] = "due" PROVE Patience(t)'
      BY <1>1 DEF Patience
    <2>1. Full' => waited'[t] = 0 /\ hits'[t] = 0
      BY <1>3 DEF Due
    <2>2. called' = {}
      BY <1>1 DEF LoopInv
    <2>. QED
      BY <1>1, <1>3, <2>1, <2>2, LongestIs, DelayGrows DEF Types, Patience
  <1>9. ASSUME NEW t \in Tasks PROVE Stranding(t)'
    BY <1>1, <1>3, LongestIs, RoundsGrow, WakeAssumption
    DEF Types, Stranding, ClockInv, Asleep
  <1>. QED
    BY <1>5, <1>6, <1>7, <1>8, <1>9
LEMMA SweepOnlyKeeps == IInv /\ SweepOnly => IInv'
  <1>. SUFFICES ASSUME IInv, SweepOnly PROVE IInv'
    OBVIOUS
  <1>. USE DEF IInv
  <1>. DEFINE S == NewlyDue(Swept(TRUE))
  <1>0. row' = Swept(TRUE) /\ fresh' = fresh \cup S
    BY DEF SweepOnly
  <1>1. /\ loop = "sweep" /\ loop' = "full" /\ timer' = 0
        /\ UNCHANGED <<handlers, running, strays, batch, sweeping, got, wake, stop,
                       sinceSweep, failures, called>>
        /\ Full' = Full
    BY DEF SweepOnly, FallAsleep, Full
  <1>2. /\ waited' \in [Tasks -> 0 .. Horizon]
        /\ hits' \in [Tasks -> Nat]
        /\ \A t \in Tasks :
             \/ waited'[t] = 0 /\ hits'[t] = 0
             \/ /\ t \notin S
                /\ waited'[t] = waited[t] /\ hits'[t] = hits[t]
    <2>1. Wait(S, 0) /\ hits \in [Tasks -> Nat]
      BY DEF SweepOnly, Types
    <2>. HIDE DEF S
    <2>. QED
      BY <2>1, WaitEffect
  <1>3. Types'
    BY <1>0, <1>1, <1>2, WakeAssumption DEF Types, Loop, Asleep, Swept, Places, NewlyDue
  <1>4. LoopInv'
    <2>1. \A t \in Tasks : hits'[t] <= failures
      <3>. HIDE DEF S
      <3>. QED
        BY <1>2 DEF Types, LoopInv
    <2>. QED
      BY <1>1, <2>1 DEF LoopInv
  <1>5. ClockInv'
    BY <1>1, WakeAssumption DEF ClockInv
  <1>6. ASSUME NEW t \in Tasks PROVE Patience(t)'
    <2>. SUFFICES ASSUME row'[t] = "due" PROVE Patience(t)'
      BY DEF Patience
    <2>1. waited'[t] = 0
      BY <1>0, <1>1, <1>2 DEF NewlyDue, Patience
    <2>. QED
      BY <1>1, <1>2, <2>1, LongestIs, DelayGrows, WakeAssumption DEF Patience
  <1>7. ASSUME NEW t \in Tasks PROVE Stranding(t)'
    <2>1. row'[t] # "stranded"
      BY <1>0 DEF Swept, Types
    <2>. QED
      BY <2>1 DEF Stranding
  <1>. QED
    BY <1>3, <1>4, <1>5, <1>6, <1>7

LEMMA WakeUpKeeps == IInv /\ WakeUp => IInv'
  <1>. SUFFICES ASSUME IInv, WakeUp PROVE IInv'
    OBVIOUS
  <1>. USE DEF IInv
  <1>1. /\ loop \in Asleep /\ loop' = "top"
        /\ UNCHANGED <<row, handlers, running, strays, batch, sweeping, got, wake, stop,
                       sinceSweep, failures, waited, hits, fresh, called>>
        /\ timer' = 0
        /\ Full' = Full
    BY DEF WakeUp, Rouse, ghosts, Full
  <1>2. Types'
    BY <1>1, WakeAssumption DEF Types, Loop, Asleep
  <1>3. LoopInv'
    BY <1>1 DEF LoopInv, Asleep
  <1>4. ClockInv'
    BY <1>1 DEF ClockInv
  <1>5. ASSUME NEW t \in Tasks PROVE Patience(t)'
    BY <1>1 DEF Patience
  <1>6. ASSUME NEW t \in Tasks PROVE Stranding(t)'
    <2>1. timer <= Longest
      BY <1>1, LongestIs, WakeAssumption DEF Types, ClockInv, Asleep
    <2>. QED
      BY <1>1, <2>1, LongestIs, RoundsGrow, WakeAssumption
      DEF Types, Stranding, Asleep
  <1>. QED
    BY <1>2, <1>3, <1>4, <1>5, <1>6

\* A row becomes due, or its lease expires, outside the loop.
LEMMA ArrivalKeeps ==
    ASSUME IInv, NEW t \in Tasks, NEW place \in {"due", "stranded"},
           row' = [row EXCEPT ![t] = place],
           handlers' \in SUBSET (handlers \cup {t}),
           Wait({t}, 0),
           fresh' = fresh \cup {t} \/ (fresh' = fresh /\ place = "stranded"),
           failures' \in failures .. MaxFailures,
           UNCHANGED <<loopVars, called>>
    PROVE  IInv'
  <1>. USE DEF IInv
  <1>1. /\ UNCHANGED <<running, strays, loop, batch, sweeping, got, wake, stop, timer,
                       sinceSweep, called>>
        /\ Full' = Full
    BY DEF loopVars, Full
  <1>2. /\ waited' \in [Tasks -> 0 .. Horizon]
        /\ hits' \in [Tasks -> Nat]
        /\ waited'[t] = 0 /\ hits'[t] = 0
        /\ \A u \in Tasks \ {t} :
             \/ waited'[u] = waited[u] /\ hits'[u] = hits[u]
             \/ row'[u] \notin {"due", "stranded"} /\ hits'[u] = 0
    <2>1. hits \in [Tasks -> Nat]
      BY DEF Types
    <2>. QED
      BY <2>1, WaitEffect DEF Waiting
  <1>3. /\ row' \in [Tasks -> Places] /\ row'[t] = place
        /\ \A u \in Tasks \ {t} : row'[u] = row[u]
    BY DEF Types, Places
  <1>4. Types'
    BY <1>1, <1>2, <1>3, WakeAssumption DEF Types
  <1>5. LoopInv'
    <2>1. \A u \in Tasks : hits'[u] <= failures'
      BY <1>2, WakeAssumption DEF Types, LoopInv
    <2>. QED
      BY <1>1, <2>1 DEF Types, LoopInv
  <1>6. ClockInv'
    BY <1>1 DEF ClockInv
  <1>7. ASSUME NEW u \in Tasks PROVE Patience(u)'
    <2>1. CASE u = t
      BY <1>1, <1>2, <1>4, <2>1, LongestIs, DelayGrows, WakeAssumption
      DEF Types, Patience
    <2>2. CASE u # t
      BY <1>1, <1>2, <1>3, <2>2 DEF Types, Patience
    <2>. QED
      BY <2>1, <2>2
  <1>8. ASSUME NEW u \in Tasks PROVE Stranding(u)'
    <2>1. CASE u = t
      BY <1>1, <1>2, <1>4, <2>1, LongestIs, RoundsGrow, WakeAssumption
      DEF Types, Stranding
    <2>2. CASE u # t
      BY <1>1, <1>2, <1>3, <2>2 DEF Stranding
    <2>. QED
      BY <2>1, <2>2
  <1>. QED
    BY <1>4, <1>5, <1>6, <1>7, <1>8

LEMMA InsertKeeps ==
    ASSUME IInv, NEW t \in Tasks, Insert(t)
    PROVE  IInv'
  <1>1. failures' \in failures .. MaxFailures
    BY WakeAssumption DEF IInv, Types, Insert
  <1>. QED
    BY <1>1, ArrivalKeeps DEF Insert

LEMMA RipenKeeps ==
    ASSUME IInv, NEW t \in Tasks, Ripen(t) \/ RenewalDies(t)
    PROVE  IInv'
  <1>1. row \in [Tasks -> Places]
    BY DEF IInv, Types
  <1>2. PICK place \in {"due", "stranded"} :
           /\ row' = [row EXCEPT ![t] = place]
           /\ fresh' = fresh \cup {t} \/ (fresh' = fresh /\ place = "stranded")
    BY <1>1 DEF Ripen, RenewalDies, Due
  <1>3. /\ Wait({t}, 0)
        /\ UNCHANGED <<loopVars, called>>
        /\ handlers' \in SUBSET (handlers \cup {t})
    BY DEF Ripen, RenewalDies
  <1>4. failures' \in failures .. MaxFailures
    BY WakeAssumption DEF IInv, Types, Ripen, RenewalDies, Fail
  <1>. QED
    BY <1>2, <1>3, <1>4, ArrivalKeeps

\* The handler leaves, with or without its wake-up.
LEMMA HandlerKeeps ==
    ASSUME IInv, NEW t \in Tasks, Submit(t) \/ CancelHandler(t)
    PROVE  IInv'
  <1>. USE DEF IInv
  <1>1. /\ t \in handlers /\ handlers' = handlers \ {t}
        /\ UNCHANGED <<row, running, strays, loop, batch, sweeping, got, stop, timer,
                       sinceSweep, failures, waited, hits, fresh>>
        /\ Full' = Full
        /\ \/ UNCHANGED <<wake, called>>
           \/ /\ wake' = TRUE
              /\ called' = IF loop = "wait" /\ row[t] = "due"
                           THEN called \cup {t} ELSE called
    BY DEF Submit, CancelHandler, loopVars, ghosts, Full
  <1>2. Types'
    <2>1. wake' \in BOOLEAN
      BY <1>1, Zenon DEF Types
    <2>. QED
      BY <1>1, <2>1 DEF Types
  <1>3. LoopInv'
    BY <1>1 DEF LoopInv
  <1>4. ClockInv'
    BY <1>1 DEF ClockInv
  <1>5. ASSUME NEW u \in Tasks PROVE Patience(u)'
    BY <1>1 DEF Patience
  <1>6. ASSUME NEW u \in Tasks PROVE Stranding(u)'
    BY <1>1 DEF Stranding
  <1>. QED
    BY <1>2, <1>3, <1>4, <1>5, <1>6

\* A row goes to where it does not wait, or stays; a slot may become free, for
\* which nobody has waited yet.
LEMMA DepartureKeeps ==
    ASSUME IInv, NEW t \in Tasks, NEW next \in {"over", "later", "adrift"},
           row' = row \/ row' = [row EXCEPT ![t] = next],
           running' \in SUBSET running, strays' \in SUBSET strays,
           failures' \in failures .. MaxFailures,
           Wait({}, 0),
           UNCHANGED <<fresh, called>>
              \/ (row'[t] = next /\ fresh' = fresh \ {t} /\ called' = called \ {t}),
           UNCHANGED <<handlers, loop, batch, sweeping, got, wake, stop, timer,
                       sinceSweep>>
    PROVE  IInv'
  <1>. USE DEF IInv
  <1>1. /\ Cardinality(running') \in Nat /\ Cardinality(running) \in Nat
        /\ Cardinality(running') <= Cardinality(running)
    BY SizeType, SizeMonotone DEF Types
  <1>2. Full' => Full
    BY <1>1, WakeAssumption DEF Full
  <1>3. /\ row' \in [Tasks -> Places]
        /\ \A u \in Tasks : row'[u] = row[u] \/ (u = t /\ row'[u] = next)
    BY DEF Types, Places
  <1>4. /\ waited' \in [Tasks -> 0 .. Horizon]
        /\ hits' \in [Tasks -> Nat]
        /\ \A u \in Tasks :
             \/ waited'[u] = waited[u] /\ hits'[u] = hits[u]
             \/ row'[u] \notin {"due", "stranded"} /\ hits'[u] = 0
    <2>1. hits \in [Tasks -> Nat]
      BY DEF Types
    <2>. QED
      BY <2>1, WaitEffect DEF Waiting
  <1>5. Types'
    BY <1>3, <1>4, WakeAssumption DEF Types
  <1>6. LoopInv'
    <2>1. \A u \in Tasks : hits'[u] <= failures'
      BY <1>4, WakeAssumption DEF Types, LoopInv
    <2>. QED
      BY <1>1, <1>2, <2>1, WakeAssumption DEF Types, LoopInv
  <1>7. ClockInv'
    BY DEF ClockInv
  <1>8. ASSUME NEW u \in Tasks PROVE Patience(u)'
    <2>. SUFFICES ASSUME row'[u] = "due" PROVE Patience(u)'
      BY DEF Patience
    <2>1. /\ row[u] = "due" /\ waited'[u] = waited[u] /\ hits'[u] = hits[u]
          /\ u \in fresh => u \in fresh'
          /\ u \in called' => u \in called
      BY <1>3, <1>4
    <2>. QED
      BY <1>2, <2>1 DEF Patience
  <1>9. ASSUME NEW u \in Tasks PROVE Stranding(u)'
    <2>. SUFFICES ASSUME row'[u] = "stranded" PROVE Stranding(u)'
      BY DEF Stranding
    <2>1. row[u] = "stranded" /\ waited'[u] = waited[u] /\ hits'[u] = hits[u]
      BY <1>3, <1>4
    <2>. QED
      BY <2>1 DEF Stranding
  <1>. QED
    BY <1>5, <1>6, <1>7, <1>8, <1>9

LEMMA ExecutorEndsKeeps ==
    ASSUME IInv, NEW t \in Tasks, NEW next \in {"over", "later", "adrift"},
           ExecutorEnds(t, next)
    PROVE  IInv'
  <1>1. failures' \in failures .. MaxFailures
    BY WakeAssumption DEF IInv, Types, ExecutorEnds, Fail
  <1>2. /\ running' \in SUBSET running /\ strays' \in SUBSET strays
        /\ row' = row \/ row' = [row EXCEPT ![t] = next]
    BY DEF ExecutorEnds
  <1>. QED
    BY <1>1, <1>2, DepartureKeeps DEF ExecutorEnds

LEMMA TakenKeeps ==
    ASSUME IInv, NEW t \in Tasks, NEW next \in {"over", "later", "adrift"},
           Taken(t, next)
    PROVE  IInv'
  <1>1. failures' \in failures .. MaxFailures /\ row'[t] = next
    BY WakeAssumption DEF IInv, Types, Taken
  <1>. QED
    BY <1>1, DepartureKeeps DEF Taken, loopVars

LEMMA StopKeeps == IInv /\ Stop => IInv'
  <1>. SUFFICES ASSUME IInv, Stop PROVE IInv'
    OBVIOUS
  <1>. USE DEF IInv
  <1>1. /\ UNCHANGED <<row, handlers, running, strays, loop, batch, sweeping, got, timer,
                       sinceSweep, failures, waited, hits, fresh, called>>
        /\ Full' = Full
        /\ stop' = TRUE /\ wake' = TRUE
    BY DEF Stop, ghosts, Full
  <1>2. Types'
    <2>1. stop' \in BOOLEAN /\ wake' \in BOOLEAN
      BY <1>1
    <2>. QED
      BY <1>1, <2>1 DEF Types
  <1>3. LoopInv'
    BY <1>1 DEF LoopInv
  <1>4. ClockInv'
    BY <1>1 DEF ClockInv
  <1>5. ASSUME NEW t \in Tasks PROVE Patience(t)'
    BY <1>1 DEF Patience
  <1>6. ASSUME NEW t \in Tasks PROVE Stranding(t)'
    BY <1>1 DEF Stranding
  <1>. QED
    BY <1>2, <1>3, <1>4, <1>5, <1>6

\* Time passes only in a sleep that nothing ends: no row is called then, and
\* the sleep is shorter than its time-out.
LEMMA TickKeeps == IInv /\ Tick => IInv'
  <1>. SUFFICES ASSUME IInv, Tick PROVE IInv'
    OBVIOUS
  <1>. USE DEF IInv
  <1>1. /\ loop \in Asleep /\ handlers = {}
        /\ UNCHANGED <<row, handlers, running, strays, loop, batch, sweeping, got, wake,
                       stop, failures, hits, fresh, called>>
        /\ Full' = Full
    BY DEF Tick, Full
  <1>2. /\ ~TimedOut /\ ~stop
        /\ loop = "wait" => ~wake
    BY DEF Tick, Rouse
  <1>4. called = {}
    BY <1>1, <1>2 DEF LoopInv, Asleep
  <1>5. /\ timer' = timer + 1
        /\ loop = "wait" => timer < PollIdle
        /\ loop = "full" => timer < FullSleep
        /\ loop = "error" => timer < ErrorSleep
    BY <1>1, <1>2, WakeAssumption DEF Types, Tick, Count, TimedOut, Asleep
  <1>6. /\ sinceSweep' \in 0 .. ReclaimInterval
        /\ \/ sinceSweep < ReclaimInterval /\ sinceSweep' = sinceSweep + 1
           \/ sinceSweep = ReclaimInterval /\ sinceSweep' = sinceSweep
    BY WakeAssumption DEF Types, Tick, Count
  <1>7. /\ waited' \in [Tasks -> 0 .. Horizon]
        /\ \A t \in Tasks : /\ waited'[t] <= waited[t] + 1
                            /\ row[t] = "due" /\ Full => waited'[t] = waited[t]
    <2>1. ASSUME NEW t \in Tasks
          PROVE  /\ Count(waited[t], Horizon) \in 0 .. Horizon
                 /\ Count(waited[t], Horizon) <= waited[t] + 1
                 /\ waited[t] \in 0 .. Horizon
      BY WakeAssumption DEF Types, Count
    <2>2. waited' = [t \in Tasks |->
             IF row[t] = "stranded" \/ (row[t] = "due" /\ ~Full)
             THEN Count(waited[t], Horizon) ELSE waited[t]]
      BY DEF Tick
    <2>. QED
      BY <2>1, <2>2, WakeAssumption
  <1>8. Types'
    BY <1>1, <1>2, <1>5, <1>6, <1>7, WakeAssumption DEF Types, Asleep
  <1>9. LoopInv'
    BY <1>1, <1>4 DEF LoopInv
  <1>10. ClockInv'
    BY <1>1, <1>5, WakeAssumption DEF Types, ClockInv, Asleep
  <1>11. ASSUME NEW t \in Tasks PROVE Patience(t)'
    <2>. SUFFICES ASSUME row[t] = "due" PROVE Patience(t)'
      BY <1>1 DEF Patience
    <2>1. /\ waited[t] \in Nat /\ waited'[t] \in Nat /\ timer \in Nat
          /\ hits[t] \in Nat /\ Delay(hits[t]) \in Nat
          /\ waited'[t] <= waited[t] + 1
          /\ Full => waited'[t] = waited[t]
      BY <1>7, DelayGrows DEF Types
    <2>2. CASE loop \in {"wait", "full"}
      BY <1>1, <1>4, <1>5, <2>1, <2>2, LongestIs, WakeAssumption DEF Patience
    <2>3. CASE loop = "error"
      BY <1>1, <1>4, <1>5, <2>1, <2>3, LongestIs, WakeAssumption DEF Patience
    <2>. QED
      BY <1>1, <2>2, <2>3 DEF Asleep
  <1>12. ASSUME NEW t \in Tasks PROVE Stranding(t)'
    <2>. SUFFICES ASSUME row[t] = "stranded" PROVE Stranding(t)'
      BY <1>1 DEF Stranding
    <2>1. /\ waited[t] \in Nat /\ waited'[t] \in Nat /\ timer \in Nat
          /\ hits[t] \in Nat /\ Rounds(hits[t]) \in Nat /\ sinceSweep \in Nat
          /\ waited'[t] <= waited[t] + 1
      BY <1>7, RoundsGrow DEF Types
    <2>2. waited[t] <= Rounds(hits[t]) + sinceSweep +
                         (IF sinceSweep = ReclaimInterval THEN timer ELSE 0)
      BY <1>1 DEF Stranding
    <2>3. timer + 1 <= Longest
      BY <1>1, <1>5, <2>1, LongestIs, WakeAssumption DEF Asleep
    <2>4. waited'[t] <= Rounds(hits[t]) + sinceSweep' +
                          (IF sinceSweep' = ReclaimInterval THEN timer' ELSE 0)
      BY <1>5, <1>6, <2>1, <2>2, WakeAssumption
    <2>5. waited'[t] <= Rounds(hits[t]) + Round
      BY <1>5, <1>6, <2>1, <2>3, <2>4, LongestIs, RoundsGrow, WakeAssumption
    <2>. QED
      BY <1>1, <2>4, <2>5 DEF Stranding, Asleep
  <1>. QED
    BY <1>8, <1>9, <1>10, <1>11, <1>12

LEMMA StutterKeeps == IInv /\ UNCHANGED vars => IInv'
  <1>. SUFFICES ASSUME IInv, UNCHANGED vars PROVE IInv'
    OBVIOUS
  <1>1. /\ UNCHANGED <<row, handlers, running, strays, loop, batch, sweeping, got, wake,
                       stop, timer, sinceSweep, failures>>
        /\ UNCHANGED <<waited, hits, fresh, called>>
    BY DEF vars, loopVars, ghosts
  <1>. QED
    BY <1>1 DEF IInv, Types, LoopInv, ClockInv, Patience, Stranding, Full
LEMMA StepInv == IInv /\ [Next]_vars => IInv'
  <1>. SUFFICES ASSUME IInv, [Next]_vars PROVE IInv'
    OBVIOUS
  <1>1. CASE LoopTop \/ LoopRaises \/ Resume \/ SweepOnly \/ WakeUp
    BY <1>1, LoopTopKeeps, LoopRaisesKeeps, ResumeKeeps, SweepOnlyKeeps, WakeUpKeeps
  <1>2. ASSUME NEW ack \in BOOLEAN, Claim(ack) PROVE IInv'
    BY <1>2, ClaimKeeps
  <1>3. CASE Elsewhere
    <2>1. PICK t \in Tasks :
             \/ Insert(t) \/ Submit(t) \/ CancelHandler(t)
             \/ Ripen(t) \/ RenewalDies(t)
             \/ \E next \in {"over", "later", "adrift"} :
                   ExecutorEnds(t, next) \/ Taken(t, next)
      BY <1>3 DEF Elsewhere
    <2>. QED
      BY <2>1, InsertKeeps, HandlerKeeps, RipenKeeps, ExecutorEndsKeeps, TakenKeeps
  <1>4. CASE Stop \/ Tick \/ UNCHANGED vars
    BY <1>4, StopKeeps, TickKeeps, StutterKeeps
  <1>. QED
    BY <1>1, <1>2, <1>3, <1>4 DEF Next

\* The inductive invariant of the loop holds in every behaviour.
THEOREM Invariance == Spec => []IInv
  BY InitInv, StepInv, PTL DEF Spec

-----------------------------------------------------------------------------
(* What follows from it.                                                   *)

\* Every counter stays in its range and every set within Tasks.
THEOREM TypeCorrect == Spec => []TypeOK
  <1>1. IInv => TypeOK
    <2>. SUFFICES ASSUME IInv PROVE TypeOK
      OBVIOUS
    <2>1. hits \in [Tasks -> 0 .. MaxFailures]
      BY WakeAssumption DEF IInv, Types, LoopInv
    <2>2. {sweeping, wake, stop} \subseteq BOOLEAN
      BY Zenon DEF IInv, Types
    <2>. QED
      BY <2>1, <2>2 DEF IInv, Types, TypeOK
  <1>. QED
    BY <1>1, Invariance, PTL

\* The executors and the rows on their way to them fit the slots, although
\* they are counted before the claim is awaited.
THEOREM SlotsSuffice == Spec => []ConcurrencyBound
  <1>1. IInv => ConcurrencyBound
    <2>. SUFFICES ASSUME IInv PROVE ConcurrencyBound
      OBVIOUS
    <2>1. /\ Cardinality(running) \in Nat /\ Cardinality(got) \in Nat
          /\ Cardinality(running \cup got) \in Nat
          /\ Cardinality(running \cup got) <= Cardinality(running) + Cardinality(got)
      BY SizeType, SizeUnion DEF IInv, Types
    <2>2. CASE loop = "claimed"
      BY <2>1, <2>2, WakeAssumption DEF IInv, Types, LoopInv, ConcurrencyBound
    <2>3. CASE loop # "claimed"
      <3>1. running \cup got = running
        BY <2>3 DEF IInv, LoopInv
      <3>. QED
        BY <3>1 DEF IInv, LoopInv, ConcurrencyBound
    <2>. QED
      BY <2>2, <2>3
  <1>. QED
    BY <1>1, Invariance, PTL

\* The loop waits for work only when its last SELECT left nothing behind.
THEOREM NothingOverlooked == Spec => []NoOverlooked
  <1>1. IInv => NoOverlooked
    BY DEF IInv, Patience, NoOverlooked, Due
  <1>. QED
    BY <1>1, Invariance, PTL

\* No time passes between submit and the next look at the table, if the loop
\* was waiting for work.
THEOREM SubmitIsPrompt == Spec => []PromptPickup
  <1>1. IInv => PromptPickup
    BY DEF IInv, Types, Patience, PromptPickup
  <1>. QED
    BY <1>1, Invariance, PTL

\* A due row with a free slot waits for one sleep, and one more for each
\* transaction of the loop that fails.
THEOREM PickupIsBounded == Spec => []PickupBound
  <1>1. IInv => PickupBound
    BY DEF IInv, Patience, Delay, PickupBound, Due
  <1>. QED
    BY <1>1, Invariance, PTL

\* An expired lease waits for one interval and one sleep, and as much again
\* for each failure.
THEOREM SweepIsBounded == Spec => []SweepBound
  <1>1. IInv => SweepBound
    <2>. SUFFICES ASSUME IInv, NEW t \in Tasks, row[t] = "stranded"
                  PROVE  waited[t] <= Round * (1 + hits[t])
      BY DEF SweepBound, Round
    <2>1. hits[t] \in Nat /\ Rounds(hits[t] + 1) = Rounds(hits[t]) + Round
      BY RoundsGrow DEF IInv, Types
    <2>2. waited[t] <= Rounds(hits[t] + 1)
      BY <2>1 DEF IInv, Stranding
    <2>3. hits[t] + 1 = 1 + hits[t]
      BY <2>1
    <2>. QED
      BY <2>2, <2>3 DEF Rounds
  <1>. QED
    BY <1>1, Invariance, PTL
=============================================================================
