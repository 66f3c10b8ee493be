--------------------------- MODULE MCTaskAttempts ---------------------------
(* Instances of TaskAttempts for TLC. *)
EXTENDS TaskAttempts

\* Every process has a worker id of its own (the persisted state file).
OwnIds == [i \in Instances |-> i]

\* Every process has two slots.
TwoSlots == [i \in Instances |-> 2]
===========================================================================
