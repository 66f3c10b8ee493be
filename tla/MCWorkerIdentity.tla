-------------------------- MODULE MCWorkerIdentity --------------------------
(* An instance of WorkerIdentity for TLC: two replicas share a directory,   *)
(* of which one has a WORKER_ID; a third has a directory of its own.        *)
EXTENDS WorkerIdentity, TLC

CONSTANTS a, b, c, fixed

MCInstances == {a, b, c}
MCConfigured == (a :> fixed) @@ (b :> NULL) @@ (c :> NULL)
MCDir == (a :> "shared") @@ (b :> "shared") @@ (c :> "own")
MCWorkerIds == {fixed} \cup MintedIds
=============================================================================
