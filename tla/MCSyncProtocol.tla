--------------------------- MODULE MCSyncProtocol ---------------------------
(* SyncProtocol for TLC; the configurations choose which script runs there   *)
(* are and which instruments may be removed.                                 *)
EXTENDS SyncProtocol
=============================================================================
