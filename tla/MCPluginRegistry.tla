-------------------------- MODULE MCPluginRegistry --------------------------
(* Two VISA plugins, one of them in a built-in path, a plugin for an old API *)
(* version and a file that is no plugin, for TLC.                            *)
EXTENDS PluginRegistry

CONSTANTS visa, visa2, old, junk

MCKind == [f \in Libs |-> CASE f = old -> "old" [] f = junk -> "broken"
                            [] OTHER -> "good"]
MCProto == [f \in Libs |-> IF f = old THEN "DAQ" ELSE "VISA"]
MCBuiltins == <<junk, visa>>
MCSearches == {{visa2, junk}, {}}
MCUnreadable == {{}}
=============================================================================
