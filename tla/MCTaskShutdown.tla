--------------------------- MODULE MCTaskShutdown ---------------------------
(* Instances of TaskShutdown for TLC. *)
EXTENDS TaskShutdown

\* Every process has a worker id of its own (the persisted state file).
OwnIds == [i \in Instances |-> i]

\* Two slots: a process can run two executors of one task.
TwoSlots == [i \in Instances |-> 2]
=============================================================================
