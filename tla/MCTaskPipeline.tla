--------------------------- MODULE MCTaskPipeline ---------------------------
(* Instances of TaskPipeline for TLC.                                       *)
EXTENDS TaskPipeline

\* Every process has a worker id of its own (the persisted state file).
OwnIds == [i \in Instances |-> i]

\* Every process has two slots.
TwoSlots == [i \in Instances |-> 2]

\* One process has two slots, so that it can run two executors of one task;
\* the others have one, so that all their slots can be taken.
UnequalSlots ==
    LET wide == CHOOSE i \in Instances : TRUE
    IN  [i \in Instances |-> IF i = wide THEN 2 ELSE 1]
=============================================================================
