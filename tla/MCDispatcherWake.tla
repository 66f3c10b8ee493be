-------------------------- MODULE MCDispatcherWake --------------------------
(* Instances of DispatcherWake for TLC.                                     *)
EXTENDS DispatcherWake, TLC

\* A claim may take any of the due rows, so tasks differ only in name.
TaskSymmetry == Permutations(Tasks)
=============================================================================
