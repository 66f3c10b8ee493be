--------------------------- MODULE MCTaskRecovery ---------------------------
(* Instances of TaskRecovery for TLC. *)
EXTENDS TaskRecovery

\* Every process has a worker id of its own (the persisted state file).
OwnIds == [i \in Instances |-> i]

\* Every process has one slot.
OneSlot == [i \in Instances |-> 1]
===========================================================================
