---------------------------- MODULE MCJobManager ----------------------------
(* The job manager with a few job ids, for TLC.                              *)
EXTENDS JobManager
=============================================================================
