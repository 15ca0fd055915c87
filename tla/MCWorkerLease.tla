---------------------------- MODULE MCWorkerLease ----------------------------
(* Instances of WorkerLease for TLC. *)
EXTENDS WorkerLease

CONSTANTS w1, w2

MCWorkers == {w1, w2}

=============================================================================
