------------------------ MODULE MCInstrumentRegistry ------------------------
(* The registry with a few threads, names and pids, for TLC.                 *)
EXTENDS InstrumentRegistry
=============================================================================
