---------------------------- MODULE MCPluginHost ----------------------------
(* One worker and one embedding program, each with any of the plugins.       *)
EXTENDS PluginHost
=============================================================================
