--------------------------- MODULE PluginRegistry ---------------------------
(***************************************************************************)
(* The plugins of the server process: the registry                         *)
(* (src/plugin/PluginRegistry.cpp), the loaders that hold their shared     *)
(* libraries (src/plugin/PluginLoader.cpp) and the handlers that fill and  *)
(* read the registry (handle_discover, handle_plugins, handle_start and    *)
(* handle_test of src/server/CommandHandlers.cpp).  Handlers run in        *)
(* several threads.                                                        *)
(*                                                                         *)
(* One step is one critical section of the registry's mutex_, one loader   *)
(* constructed or destroyed, or entering or leaving std::call_once.        *)
(***************************************************************************)
EXTENDS Naturals, Sequences, FiniteSets

CONSTANTS
  Threads,      (* the threads that run handlers                              *)
  Libs,         (* the plugin files, by path                                  *)
  NoLib,        (* no file: the empty path                                    *)
  Kind,         (* what loading a file gives: a "good" plugin, one for an     *)
                (* "old" API version, or a "broken" one that throws           *)
  Proto,        (* the protocol_type in the metadata of each file             *)
  Builtin,      (* the protocol that has built-in plugins, "VISA"             *)
  Builtins,     (* those of its four paths that exist, in the code's order    *)
  Standard,     (* the plugin files in the standard directories               *)
  Searches,     (* what directories given to handle_discover may hold         *)
  Unreadable,   (* those of them where reading a directory throws             *)
  MaxCalls      (* bounds handler calls and unloads, of all threads together  *)

Protocols == {Proto[f] : f \in Libs} \cup {Builtin}

ASSUME PluginAssumption ==
  /\ IsFiniteSet(Threads)
  /\ IsFiniteSet(Libs) /\ NoLib \notin Libs
  /\ Kind \in [Libs -> {"good", "old", "broken"}]
  /\ DOMAIN Proto = Libs
  /\ Builtins \in Seq(Libs)
  /\ Standard \subseteq Libs
  /\ Searches \subseteq SUBSET Libs
  /\ Unreadable \subseteq Searches
  /\ MaxCalls \in Nat

VARIABLES
  plugins,  (* plugins_ and plugin_paths_, which change together              *)
  mapped,   (* how often dlopen holds each library                            *)
  once,     (* the two once_flags: "new", "done" or the thread inside         *)
  op, pc,   (* the handler each thread runs and where it is                   *)
  want,     (* the files in the directories it searches                       *)
  todo,     (* those the directory iterator still has to visit                *)
  tries,    (* the built-in paths it still has to try                         *)
  temp,     (* the library of the loader on its stack                         *)
  asked,    (* the protocol its instrument needs (handle_start)               *)
  reply,    (* what it answered: the protocols, or the plugin file used       *)
  calls,    (* the handler calls and unloads made                             *)
  unloaded  (* history: protocols unloaded since its handler began            *)

locals == <<op, want, tries, asked, reply, calls, unloaded>>
vars == <<plugins, mapped, once, pc, todo, temp, locals>>

Handlers == {"discover", "plugins", "start"}
Error == [error |-> TRUE]
Listed(ps) == [protocols |-> ps]
Used(f) == [used |-> f]

TypeOK ==
  /\ DOMAIN plugins \subseteq Protocols
  /\ \A p \in DOMAIN plugins : plugins[p] \in Libs
  /\ mapped \in [Libs -> Nat]
  /\ once \in [{"discover", "plugins"} -> {"new", "done"} \cup Threads]
  /\ op \in [Threads -> Handlers \cup {"none"}]
  /\ pc \in [Threads -> {"idle", "once", "builtin", "try", "scan", "check",
                         "load", "drop", "list", "create"}]
  /\ want \in [Threads -> SUBSET Libs]
  /\ todo \in [Threads -> SUBSET Libs]
  /\ tries \in [Threads -> Seq(Libs)]
  /\ temp \in [Threads -> Libs \cup {NoLib}]
  /\ asked \in [Threads -> Protocols]
  /\ reply \in [Threads -> {Error} \cup {Listed(ps) : ps \in SUBSET Protocols}
                             \cup {Used(f) : f \in Libs \cup {NoLib}}]
  /\ calls \in 0..MaxCalls
  /\ unloaded \in [Threads -> SUBSET Protocols]

Init ==
  /\ plugins = <<>>
  /\ mapped = [f \in Libs |-> 0]
  /\ once = [h \in {"discover", "plugins"} |-> "new"]
  /\ op = [t \in Threads |-> "none"]
  /\ pc = [t \in Threads |-> "idle"]
  /\ want = [t \in Threads |-> {}]
  /\ todo = [t \in Threads |-> {}]
  /\ tries = [t \in Threads |-> <<>>]
  /\ temp = [t \in Threads |-> NoLib]
  /\ asked = [t \in Threads |-> Builtin]
  /\ reply = [t \in Threads |-> Listed({})]
  /\ calls = 0
  /\ unloaded = [t \in Threads |-> {}]

-----------------------------------------------------------------------------
(* The registry and its loaders.                                             *)

has_plugin(p) == p \in DOMAIN plugins
get_plugin_path(p) == IF has_plugin(p) THEN plugins[p] ELSE NoLib

(* dlopen and dlclose count their handles.                                   *)
Open(f) == mapped' = [mapped EXCEPT ![f] = @ + 1]
Close(f) == mapped' = [mapped EXCEPT ![f] = @ - 1]

(* plugins_ with one more plugin.                                            *)
With(p, f) == [q \in DOMAIN plugins \cup {p} |-> IF q = p THEN f ELSE plugins[q]]

(* Fault: the plugin of another API version is not unloaded again.           *)
load_plugin_leaks(p, f) ==
  IF has_plugin(p) \/ Kind[f] = "broken" THEN UNCHANGED <<plugins, mapped>>
  ELSE /\ plugins' = IF Kind[f] = "good" THEN With(p, f) ELSE plugins
       /\ Open(f)

(* load_plugin: the first plugin of a protocol stays.  A file that throws or *)
(* has another API version leaves no loader behind.                          *)
load_plugin(p, f) ==
  IF has_plugin(p) \/ Kind[f] # "good" THEN UNCHANGED <<plugins, mapped>>
  ELSE /\ plugins' = With(p, f)
       /\ Open(f)

(* Called by an embedding program; the loader is destroyed.                  *)
unload_plugin(p) ==
  /\ has_plugin(p)
  /\ calls < MaxCalls
  /\ calls' = calls + 1
  /\ Close(plugins[p])
  /\ plugins' = [q \in DOMAIN plugins \ {p} |-> plugins[q]]
  /\ unloaded' = [t \in Threads |-> IF op[t] = "none" THEN unloaded[t]
                                    ELSE unloaded[t] \cup {p}]
  /\ UNCHANGED <<once, pc, todo, temp, op, want, tries, asked, reply>>

-----------------------------------------------------------------------------
(* The handlers, up to their first step on shared state.                     *)

Begin(t, h, first) ==
  /\ pc[t] = "idle"
  /\ calls < MaxCalls
  /\ calls' = calls + 1
  /\ op' = [op EXCEPT ![t] = h]
  /\ pc' = [pc EXCEPT ![t] = first]
  /\ UNCHANGED <<plugins, once, todo, tries, reply, unloaded>>

handle_discover(t, S) ==
  /\ Begin(t, "discover", "once")
  /\ want' = [want EXCEPT ![t] = S]
  /\ UNCHANGED <<mapped, temp, asked>>

handle_plugins(t) ==
  /\ Begin(t, "plugins", "once")
  /\ want' = [want EXCEPT ![t] = Standard]
  /\ UNCHANGED <<mapped, temp, asked>>

(* handle_start, and handle_test up to the same point, for an instrument of  *)
(* protocol p, without a custom plugin, with one, or with one that throws.   *)
handle_start(t, p) ==
  /\ Begin(t, "start", "create")
  /\ asked' = [asked EXCEPT ![t] = p]
  /\ UNCHANGED <<mapped, temp, want>>

handle_start_custom(t, p, f) ==
  /\ Kind[f] # "broken"
  /\ Begin(t, "start", "load")
  /\ asked' = [asked EXCEPT ![t] = p]
  /\ temp' = [temp EXCEPT ![t] = f]
  /\ Open(f)
  /\ UNCHANGED want

(* The handler answers and its local variables are gone.                     *)
Return(t, r) ==
  /\ pc' = [pc EXCEPT ![t] = "idle"]
  /\ op' = [op EXCEPT ![t] = "none"]
  /\ reply' = [reply EXCEPT ![t] = r]
  /\ want' = [want EXCEPT ![t] = {}]
  /\ asked' = [asked EXCEPT ![t] = Builtin]
  /\ unloaded' = [unloaded EXCEPT ![t] = {}]

handle_start_throws(t, f) ==
  /\ pc[t] = "idle"
  /\ calls < MaxCalls
  /\ Kind[f] = "broken"
  /\ calls' = calls + 1
  /\ Return(t, Error)
  /\ UNCHANGED <<plugins, mapped, once, todo, temp, tries>>

-----------------------------------------------------------------------------
(* std::call_once, each handler with a flag of its own.                      *)

Goto(t, l) == pc' = [pc EXCEPT ![t] = l]

call_once_enter(t) ==
  /\ pc[t] = "once"
  /\ once[op[t]] = "new"
  /\ once' = [once EXCEPT ![op[t]] = t]
  /\ Goto(t, "builtin")
  /\ UNCHANGED <<plugins, mapped, todo, temp, locals>>

call_once_skip(t) ==
  /\ pc[t] = "once"
  /\ once[op[t]] = "done"
  /\ todo' = [todo EXCEPT ![t] = want[t]]
  /\ Goto(t, "scan")
  /\ UNCHANGED <<plugins, mapped, once, temp, locals>>

(* load_builtin_plugins: nothing to do if the protocol has a plugin; else    *)
(* each path in turn until one loads.                                        *)
load_builtin_plugins(t) ==
  /\ pc[t] = "builtin"
  /\ tries' = [tries EXCEPT ![t] = IF has_plugin(Builtin) THEN <<>> ELSE Builtins]
  /\ Goto(t, "try")
  /\ UNCHANGED <<plugins, mapped, once, todo, temp, op, want, asked, reply, calls,
                 unloaded>>

try_builtin(t) ==
  /\ pc[t] = "try"
  /\ tries[t] # <<>>
  /\ LET f == Head(tries[t])
     IN  /\ load_plugin(Builtin, f)
         /\ tries' = [tries EXCEPT ![t] =
              IF ~has_plugin(Builtin) /\ Kind[f] = "good" THEN <<>> ELSE Tail(@)]
  /\ UNCHANGED <<once, pc, todo, temp, op, want, asked, reply, calls, unloaded>>

(* handle_plugins leaves call_once here, handle_discover only after a first  *)
(* discover_plugins.                                                         *)
builtins_end(t) ==
  /\ pc[t] = "try"
  /\ tries[t] = <<>>
  /\ once' = IF op[t] = "plugins" THEN [once EXCEPT ![op[t]] = "done"] ELSE once
  /\ todo' = [todo EXCEPT ![t] = want[t]]
  /\ Goto(t, "scan")
  /\ UNCHANGED <<plugins, mapped, temp, locals>>

-----------------------------------------------------------------------------
(* discover_plugins.                                                         *)

(* Fault: a plugin that throws ends the search (try outside the loop).       *)
scan_broken_stops(t) ==
  /\ pc[t] = "scan"
  /\ \E f \in todo[t] : Kind[f] = "broken"
  /\ todo' = [todo EXCEPT ![t] = {}]
  /\ UNCHANGED <<plugins, mapped, once, pc, temp, locals>>

(* Fault: the iterator is not moved on past a plugin that throws.            *)
scan_broken_again(t) ==
  /\ pc[t] = "scan"
  /\ \E f \in todo[t] : Kind[f] = "broken"
  /\ reply' = [reply EXCEPT ![t] = IF @ = Error THEN Listed({}) ELSE Error]
  /\ UNCHANGED <<plugins, mapped, once, pc, todo, temp, op, want, tries, asked,
                 calls, unloaded>>

(* A file whose loader throws is passed over.                                *)
scan_broken(t) ==
  /\ pc[t] = "scan"
  /\ \E f \in todo[t] :
       /\ Kind[f] = "broken"
       /\ todo' = [todo EXCEPT ![t] = @ \ {f}]
  /\ UNCHANGED <<plugins, mapped, once, pc, temp, locals>>

(* The next file: temp_loader.                                               *)
scan(t) ==
  /\ pc[t] = "scan"
  /\ \E f \in todo[t] :
       /\ Kind[f] # "broken"
       /\ todo' = [todo EXCEPT ![t] = @ \ {f}]
       /\ temp' = [temp EXCEPT ![t] = f]
       /\ Open(f)
  /\ Goto(t, "check")
  /\ UNCHANGED <<plugins, once, locals>>

(* has_plugin and load_plugin lock mutex_ one after the other.               *)
check(t) ==
  /\ pc[t] = "check"
  /\ Goto(t, IF has_plugin(Proto[temp[t]]) THEN "drop" ELSE "load")
  /\ UNCHANGED <<plugins, mapped, once, todo, temp, locals>>

(* load_plugin with the metadata of the loader on the stack, by              *)
(* discover_plugins or for a custom plugin; the result is ignored.           *)
load(t) ==
  /\ pc[t] = "load"
  /\ load_plugin(Proto[temp[t]], temp[t])
  /\ Goto(t, "drop")
  /\ UNCHANGED <<once, todo, temp, locals>>

(* ~PluginLoader: plugin_shutdown, then dlclose.                             *)
drop(t) ==
  /\ pc[t] = "drop"
  /\ Close(temp[t])
  /\ temp' = [temp EXCEPT ![t] = NoLib]
  /\ Goto(t, IF op[t] = "start" THEN "create" ELSE "scan")
  /\ UNCHANGED <<plugins, once, todo, locals>>

(* A search inside call_once is done; handle_discover searches once more.    *)
scan_end_once(t) ==
  /\ pc[t] = "scan"
  /\ want[t] \notin Unreadable
  /\ todo[t] = {}
  /\ once["discover"] = t
  /\ once' = [once EXCEPT !["discover"] = "done"]
  /\ todo' = [todo EXCEPT ![t] = want[t]]
  /\ UNCHANGED <<plugins, mapped, pc, temp, locals>>

(* The log line reads plugins_.size() without mutex_.                        *)
scan_end(t) ==
  /\ pc[t] = "scan"
  /\ want[t] \notin Unreadable
  /\ todo[t] = {}
  /\ once["discover"] # t
  /\ Goto(t, "list")
  /\ UNCHANGED <<plugins, mapped, once, todo, temp, locals>>

(* directory_iterator throws; so does the handler, and a call_once it was in *)
(* is open to the next thread.                                               *)
scan_throws(t) ==
  /\ pc[t] = "scan"
  /\ want[t] \in Unreadable
  /\ once' = [h \in DOMAIN once |-> IF once[h] = t THEN "new" ELSE once[h]]
  /\ todo' = [todo EXCEPT ![t] = {}]
  /\ Return(t, Error)
  /\ UNCHANGED <<plugins, mapped, temp, tries, calls>>

-----------------------------------------------------------------------------
(* The answers.                                                              *)

(* list_protocols.  handle_plugins then asks for each path; the answer for a *)
(* protocol unloaded in between is the empty path.                           *)
list_protocols(t) ==
  /\ pc[t] = "list"
  /\ Return(t, Listed(DOMAIN plugins))
  /\ UNCHANGED <<plugins, mapped, once, todo, temp, tries, calls>>

(* create_instrument_from_json looks the plugin up; with no plugin it fails. *)
create_instrument(t) ==
  /\ pc[t] = "create"
  /\ Return(t, Used(get_plugin_path(asked[t])))
  /\ UNCHANGED <<plugins, mapped, once, todo, temp, tries, calls>>

-----------------------------------------------------------------------------
Call(t) ==
  \/ \E S \in Searches : handle_discover(t, S)
  \/ handle_plugins(t)
  \/ \E p \in Protocols : handle_start(t, p)
  \/ \E p \in Protocols, f \in Libs : handle_start_custom(t, p, f)
  \/ \E f \in Libs : handle_start_throws(t, f)

Step(t) ==
  \/ call_once_enter(t) \/ call_once_skip(t)
  \/ load_builtin_plugins(t) \/ try_builtin(t) \/ builtins_end(t)
  \/ scan(t) \/ scan_broken(t) \/ check(t) \/ load(t) \/ drop(t)
  \/ scan_end_once(t) \/ scan_end(t) \/ scan_throws(t)
  \/ list_protocols(t) \/ create_instrument(t)

Next ==
  \/ \E t \in Threads : Call(t) \/ Step(t)
  \/ \E p \in Protocols : unload_plugin(p)

Spec == Init /\ [][Next]_vars

(* A thread that runs a handler goes on, and std::call_once wakes a waiting  *)
(* thread when the one inside returns or throws.                             *)
Fairness == \A t \in Threads : WF_vars(Step(t))

FairSpec == Spec /\ Fairness

-----------------------------------------------------------------------------
(* A library is mapped as often as loaders hold it, in the registry and on   *)
(* the stacks of the handlers: a registered plugin is never unmapped by the  *)
(* temporary loader of the same file, and a file that was only looked at     *)
(* does not stay mapped.                                                     *)
LibrariesStayMapped ==
  \A f \in Libs :
    mapped[f] = Cardinality({p \in DOMAIN plugins : plugins[p] = f})
                  + Cardinality({t \in Threads : temp[t] = f})

(* What handle_discover and handle_plugins list has a plugin for the         *)
(* protocol of every usable file in the directories searched, whatever else  *)
(* is in them and whoever discovers, starts or unloads meanwhile; only what  *)
(* was unloaded since the handler began may be missing.                      *)
DiscoveryIsComplete ==
  [][\A t \in Threads : \A f \in want[t] :
       pc[t] = "list" /\ pc'[t] = "idle" /\ Kind[f] = "good"
       => Proto[f] \in reply'[t].protocols \cup unloaded[t]]_vars

(* Every handler returns: call_once lets a waiting handler through, also     *)
(* after the thread inside has thrown.                                       *)
HandlersReturn == \A t \in Threads : op[t] # "none" ~> op[t] = "none"

(* Not so: "The server includes the following built-in plugins that are      *)
(* automatically loaded", "available without any configuration".  Only       *)
(* handle_discover and handle_plugins load them.                             *)
BuiltinsAreAvailable ==
  [][\A t \in Threads :
       pc[t] = "create" /\ asked[t] = Builtin /\ Builtin \notin unloaded[t]
       /\ (\E i \in DOMAIN Builtins : Kind[Builtins[i]] = "good")
       => get_plugin_path(asked[t]) # NoLib \/ pc'[t] = "create"]_vars

(* Not so: "Start with custom plugin": the instrument uses the plugin given. *)
(* load_plugin refuses it when the protocol has a plugin already, and the    *)
(* handler ignores the result.                                               *)
CustomPluginIsUsed ==
  [][\A t \in Threads :
       pc[t] = "drop" /\ op[t] = "start" /\ Kind[temp[t]] = "good"
       /\ asked[t] = Proto[temp[t]] /\ asked[t] \notin unloaded[t]
       => get_plugin_path(asked[t]) = temp[t]]_vars

=============================================================================
