-------------------------- MODULE MCRecordingStore --------------------------
(* Instances of RecordingStore and StoreBlame for TLC: u1, u2 and u3 upload *)
(* the same contents, u4 others.                                            *)
EXTENDS StoreBlame, TLC

CONSTANTS u1, u2, u3, u4

Contents == [r \in Requests |-> IF r = u4 THEN "other" ELSE "same"]

\* The first three differ only in name.
RequestSymmetry == Permutations({u1, u2, u3})
=============================================================================
