---------------------------- MODULE MCWorkerProxy ---------------------------
(* One instrument with a few commands and short queues, for TLC.  Commands   *)
(* are only compared, but a symmetry would not be sound for liveness.        *)
EXTENDS WorkerProxy
=============================================================================
