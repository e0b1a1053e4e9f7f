--------------------------- MODULE MCServerDaemon ---------------------------
(* ServerDaemon for TLC; the configurations choose the processes and what    *)
(* may happen to them.                                                       *)
EXTENDS ServerDaemon
=============================================================================
