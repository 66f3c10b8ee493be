----------------------------- MODULE MCTaskApi -----------------------------
(* Instances of TaskApi for TLC.                                            *)
EXTENDS TaskApi, TLC

\* Requests differ only in name.
RequestSymmetry == Permutations(Requests)
=============================================================================
