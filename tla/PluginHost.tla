----------------------------- MODULE PluginHost -----------------------------
(***************************************************************************)
(* The processes that run a plugin, and the large results they keep.       *)
(*                                                                         *)
(* A worker (Instrument in src/workers/generic_worker_main.cpp) loads one  *)
(* plugin, initialises it with an empty connection, executes commands      *)
(* until it is told to stop, and shuts the plugin down.  An embedding      *)
(* program uses PluginLoader (src/plugin/PluginLoader.cpp) itself, as the  *)
(* tests do: it may have several loaders of a library, whose statics they  *)
(* share, and gives the plugin an address.  The plugins are the two VISA   *)
(* plugins of the repository (plugins/visa/visa_plugin.c and               *)
(* src/workers/visa_builtin.cpp), with the VISA sessions they open, and a  *)
(* third-party plugin, external, that keeps large results.  Each process   *)
(* has its own DataBufferManager; the server only learns the ids.          *)
(***************************************************************************)
EXTENDS DataBufferManager, FiniteSets

CONSTANTS
  Workers, Embedders,  (* the processes that run a plugin                     *)
  Idle,                (* a thread that creates no buffer                     *)
  Counts,              (* the element counts that occur                       *)
  MaxInits,            (* bounds the sessions a process opens (two per call)  *)
  MaxLoaders,          (* bounds the loaders alive in a process               *)
  MaxBuffers,          (* bounds the buffers a process creates                *)
  MaxRefs,             (* bounds the references to a buffer                   *)
  MaxMs                (* bounds the clock                                    *)

Hosts == Workers \cup Embedders
Plugins == {"visa_plugin", "visa_builtin", "third_party"}

(* The plugin runs in one thread; a client of the manager in another.        *)
Creators == {"plugin", "client"}

ASSUME HostAssumption ==
  /\ Workers \cap Embedders = {}
  /\ Counts \subseteq Nat
  /\ {MaxInits, MaxLoaders, MaxBuffers, MaxRefs, MaxMs} \subseteq Nat

VARIABLES
  plugin,    (* the library a process loads                                   *)
  phase,     (* where a worker's run() is; "loop" in an embedding program     *)
  loaders,   (* the PluginLoaders alive in a process                          *)
  g,         (* the statics of the library: initialized and the two handles   *)
  opened,    (* the VISA handles given out                                    *)
  open,      (* those that are open                                           *)
  lost,      (* history: sessions that were open when their handle was        *)
             (* overwritten                                                   *)
  misused,   (* history: a closed or unopened handle was closed               *)
  now,       (* the system clock, in milliseconds                             *)
  next_id,   (* next_buffer_id_                                               *)
  making,    (* creations between generating the id and taking mutex_         *)
  buffers,   (* buffers_                                                      *)
  owed,      (* history: references handed out and not released, by id        *)
  cleared,   (* history: ids dropped by clear_all                             *)
  known      (* the buffer ids the server was sent                            *)

session == <<phase, loaders, g, opened, open, lost, misused>>
data == <<now, next_id, making, buffers, owed, cleared, known>>
vars == <<plugin, session, data>>

Unopened == [initialized |-> FALSE, default_rm |-> 0, instrument |-> 0]
Handles == 0..2 * MaxInits
Ids == (0..MaxMs) \X (0..MaxBuffers)
Entries == [element_count : Counts, data_type : Types, byte_size : Nat,
            ref_count : Nat \ {0}]

TypeOK ==
  /\ plugin \in [Hosts -> Plugins]
  /\ phase \in [Hosts -> {"init", "queue", "loop", "leave", "exited"}]
  /\ loaders \in [Hosts -> 0..MaxLoaders]
  /\ g \in [Hosts -> [initialized : BOOLEAN, default_rm : Handles,
                      instrument : Handles]]
  /\ opened \in [Hosts -> Handles]
  /\ \A h \in Hosts : lost[h] \subseteq open[h] /\ open[h] \subseteq 1..opened[h]
  /\ misused \in [Hosts -> BOOLEAN]
  /\ now \in 0..MaxMs
  /\ next_id \in [Hosts -> 0..MaxBuffers]
  /\ \A h \in Hosts, t \in Creators :
       making[h][t] \in {Idle} \cup (Ids \X Types \X Counts)
  /\ \A h \in Hosts :
       /\ DOMAIN buffers[h] \subseteq Ids
       /\ \A i \in DOMAIN buffers[h] : buffers[h][i] \in Entries
       /\ DOMAIN owed[h] \subseteq Ids
       /\ \A i \in DOMAIN owed[h] : owed[h][i] \in 0..MaxRefs
       /\ cleared[h] \subseteq Ids
  /\ known \subseteq Workers \X Ids

Init ==
  /\ plugin \in [Hosts -> Plugins]
  /\ phase = [h \in Hosts |-> IF h \in Workers THEN "init" ELSE "loop"]
  /\ loaders = [h \in Hosts |-> IF h \in Workers THEN 1 ELSE 0]
  /\ g = [h \in Hosts |-> Unopened]
  /\ opened = [h \in Hosts |-> 0]
  /\ open = [h \in Hosts |-> {}]
  /\ lost = [h \in Hosts |-> {}]
  /\ misused = [h \in Hosts |-> FALSE]
  /\ now = 0
  /\ next_id = [h \in Hosts |-> 0]
  /\ making = [h \in Hosts |-> [t \in Creators |-> Idle]]
  /\ buffers = [h \in Hosts |-> <<>>]
  /\ owed = [h \in Hosts |-> <<>>]
  /\ cleared = [h \in Hosts |-> {}]
  /\ known = {}

-----------------------------------------------------------------------------
(* The plugins' entry points, as PluginLoader calls them.                    *)

IsVisa(h) == plugin[h] # "third_party"

Held(h) == {g[h].default_rm, g[h].instrument} \ {0}

(* Overwriting these handles loses the sessions among them that are open.    *)
Overwrites(h, handles) == lost' = [lost EXCEPT ![h] = @ \cup (handles \cap open[h])]

(* No address in the connection, or viOpenDefaultRM fails and leaves the     *)
(* handle as it was.                                                         *)
initialize_fails(h) ==
  UNCHANGED <<g, opened, open, lost, misused>>

(* viOpenDefaultRM fails and sets the null handle.                           *)
initialize_no_rm(h) ==
  /\ IsVisa(h)
  /\ g' = [g EXCEPT ![h].default_rm = 0]
  /\ Overwrites(h, {g[h].default_rm})
  /\ UNCHANGED <<opened, open, misused>>

(* viOpen fails, and sets the null handle or none: the resource manager is   *)
(* closed again; its handle stays in the static.                             *)
initialize_half(h) ==
  /\ IsVisa(h)
  /\ opened' = [opened EXCEPT ![h] = @ + 1]
  /\ \E i \in {0, g[h].instrument} :
       /\ g' = [g EXCEPT ![h].default_rm = opened[h] + 1, ![h].instrument = i]
       /\ Overwrites(h, {g[h].default_rm} \cup ({g[h].instrument} \ {i}))
  /\ UNCHANGED <<open, misused>>

(* Both sessions open.  visa_builtin has no initialized flag.                *)
initialize_opens(h) ==
  /\ IsVisa(h)
  /\ opened' = [opened EXCEPT ![h] = @ + 2]
  /\ open' = [open EXCEPT ![h] = @ \cup {opened[h] + 1, opened[h] + 2}]
  /\ g' = [g EXCEPT ![h] = [initialized |-> plugin[h] = "visa_plugin",
                            default_rm |-> opened[h] + 1,
                            instrument |-> opened[h] + 2]]
  /\ Overwrites(h, Held(h))
  /\ UNCHANGED misused

initialize_third_party(h) ==
  /\ ~IsVisa(h)
  /\ g' = [g EXCEPT ![h].initialized = TRUE]
  /\ UNCHANGED <<opened, open, lost, misused>>

(* Fault: initialized is not tested.                                         *)
Closes_unguarded(h) == Held(h)

(* visa_plugin closes what it holds only when initialized, visa_builtin any  *)
(* handle that is not 0.                                                     *)
Closes(h) ==
  IF g[h].initialized \/ plugin[h] = "visa_builtin" THEN Held(h) ELSE {}

plugin_shutdown(h) ==
  /\ UNCHANGED lost
  /\ open' = [open EXCEPT ![h] = @ \ Closes(h)]
  /\ misused' = [misused EXCEPT ![h] = @ \/ ~(Closes(h) \subseteq open[h])]

(* The statics after plugin_shutdown; a handle that is not closed stays.     *)
Statics(h) ==
  IF g[h].initialized \/ plugin[h] = "visa_builtin" THEN Unopened ELSE g[h]

-----------------------------------------------------------------------------
(* A worker's run().                                                         *)

Goto(h, p) == phase' = [phase EXCEPT ![h] = p]

(* load_and_init_plugin: connection_json is "{}", so a VISA plugin finds no  *)
(* address.                                                                  *)
load_and_init_plugin(h) ==
  /\ phase[h] = "init"
  /\ \/ initialize_fails(h) /\ Goto(h, "leave")
     \/ initialize_third_party(h) /\ Goto(h, "queue")
  /\ UNCHANGED <<plugin, loaders, data>>

connect_ipc_queue(h) ==
  /\ phase[h] = "queue"
  /\ \/ Goto(h, "loop") /\ UNCHANGED <<g, open, lost, misused>>
     \/ Goto(h, "leave") /\ plugin_shutdown(h) /\ g' = [g EXCEPT ![h] = Statics(h)]
  /\ UNCHANGED <<plugin, loaders, opened, data>>

(* SHUTDOWN or a signal ends main_loop between two commands.                 *)
cleanup(h) ==
  /\ h \in Workers /\ phase[h] = "loop"
  /\ making[h]["plugin"] = Idle
  /\ plugin_shutdown(h)
  /\ g' = [g EXCEPT ![h] = Statics(h)]
  /\ Goto(h, "leave")
  /\ UNCHANGED <<plugin, loaders, opened, data>>

(* ~PluginLoader shuts the plugin down once more, and the process ends with  *)
(* its table.                                                                *)
exit(h) ==
  /\ phase[h] = "leave"
  /\ plugin_shutdown(h)
  /\ g' = [g EXCEPT ![h] = Unopened]
  /\ Goto(h, "exited")
  /\ loaders' = [loaders EXCEPT ![h] = 0]
  /\ buffers' = [buffers EXCEPT ![h] = <<>>]
  /\ owed' = [owed EXCEPT ![h] = <<>>]
  /\ UNCHANGED <<plugin, opened, now, next_id, making, cleared, known>>

-----------------------------------------------------------------------------
(* An embedding program.  It may initialise a plugin again, with the loader  *)
(* that did so before or with another.                                       *)

load(h) ==
  /\ loaders[h] < MaxLoaders
  /\ loaders' = [loaders EXCEPT ![h] = @ + 1]
  /\ UNCHANGED <<plugin, phase, g, opened, open, lost, misused, data>>

initialize(h) ==
  /\ loaders[h] > 0
  /\ opened[h] + 2 \in Handles
  /\ \/ initialize_fails(h)
     \/ initialize_no_rm(h)
     \/ initialize_half(h)
     \/ initialize_opens(h)
     \/ initialize_third_party(h)
  /\ UNCHANGED <<plugin, phase, loaders, data>>

shutdown(h) ==
  /\ loaders[h] > 0
  /\ making[h]["plugin"] = Idle
  /\ plugin_shutdown(h)
  /\ g' = [g EXCEPT ![h] = Statics(h)]
  /\ UNCHANGED <<plugin, phase, loaders, opened, data>>

(* ~PluginLoader: another loader of the library sees its statics reset; the  *)
(* last one takes the statics with it.                                       *)
unload(h) ==
  /\ loaders[h] > 0
  /\ making[h]["plugin"] = Idle
  /\ plugin_shutdown(h)
  /\ g' = [g EXCEPT ![h] = IF loaders[h] = 1 THEN Unopened ELSE Statics(h)]
  /\ loaders' = [loaders EXCEPT ![h] = @ - 1]
  /\ UNCHANGED <<plugin, phase, opened, data>>

-----------------------------------------------------------------------------
(* Creating a buffer.                                                        *)

(* data_type_size, malloc and generate_buffer_id, outside mutex_.  With an   *)
(* unknown type or no memory the caller gets "" and nothing happens.         *)
create_begin(h, t, d, n) ==
  /\ making[h][t] = Idle
  /\ data_type_size(d) # 0
  /\ next_id[h] < MaxBuffers
  /\ next_id' = [next_id EXCEPT ![h] = @ + 1]
  /\ making' = [making EXCEPT ![h][t] =
                  <<generate_buffer_id(now, next_id[h]), d, n>>]
  /\ UNCHANGED <<plugin, session, now, buffers, owed, cleared, known>>

(* The plugin executes a command whose answer is large; visa_builtin has no  *)
(* large answers.  A command answered with an error or with text, and one    *)
(* whose buffer could not be created, changes none of this state.            *)
execute_command(h, n) ==
  /\ phase[h] = "loop" /\ loaders[h] > 0
  /\ g[h].initialized
  /\ plugin[h] # "visa_builtin"
  /\ create_begin(h, "plugin", "float32", n)

create_buffer(h, d, n) ==
  /\ h \in Embedders
  /\ create_begin(h, "client", d, n)

(* The critical section.  A worker sends the id to the server.               *)
create_end(h, t) ==
  /\ making[h][t] # Idle
  /\ LET id == making[h][t][1]
     IN  /\ buffers' = [buffers EXCEPT ![h] =
                          insert(@, id, making[h][t][2], making[h][t][3])]
         /\ owed' = [owed EXCEPT ![h] =
                       With(@, id, IF id \in DOMAIN @ THEN @[id] + 1 ELSE 1)]
         /\ known' = IF h \in Workers THEN known \cup {<<h, id>>} ELSE known
  /\ making' = [making EXCEPT ![h][t] = Idle]
  /\ UNCHANGED <<plugin, session, now, next_id, cleared>>

-----------------------------------------------------------------------------
(* The clients of a table, in the process it belongs to.                     *)

get(h, id) ==
  /\ owed[h][id] < MaxRefs
  /\ buffers' = [buffers EXCEPT ![h] = get_buffer(@, id)]
  /\ owed' = [owed EXCEPT ![h][id] = IF id \in list_buffers(buffers[h])
                                     THEN @ + 1 ELSE @]
  /\ UNCHANGED <<plugin, session, now, next_id, making, cleared, known>>

(* A client releases a reference it has.                                     *)
release(h, id) ==
  /\ owed[h][id] > 0
  /\ buffers' = [buffers EXCEPT ![h] = release_buffer(@, id)]
  /\ owed' = [owed EXCEPT ![h][id] = @ - 1]
  /\ UNCHANGED <<plugin, session, now, next_id, making, cleared, known>>

clear(h) ==
  /\ cleared' = [cleared EXCEPT ![h] = @ \cup list_buffers(buffers[h])]
  /\ buffers' = [buffers EXCEPT ![h] = clear_all(@)]
  /\ UNCHANGED <<plugin, session, now, next_id, making, owed, known>>

Tick ==
  /\ now < MaxMs
  /\ now' = now + 1
  /\ UNCHANGED <<plugin, session, next_id, making, buffers, owed, cleared, known>>

-----------------------------------------------------------------------------
Next ==
  \/ \E h \in Workers :
       load_and_init_plugin(h) \/ connect_ipc_queue(h) \/ cleanup(h) \/ exit(h)
  \/ \E h \in Embedders :
       load(h) \/ initialize(h) \/ shutdown(h) \/ unload(h) \/ clear(h)
  \/ \E h \in Hosts, n \in Counts : execute_command(h, n)
  \/ \E h \in Embedders, d \in Types, n \in Counts : create_buffer(h, d, n)
  \/ \E h \in Hosts, t \in Creators : create_end(h, t)
  \/ \E h \in Embedders : \E id \in DOMAIN owed[h] : get(h, id) \/ release(h, id)
  \/ Tick

Spec == Init /\ [][Next]_vars

-----------------------------------------------------------------------------
(* When the last loader of a plugin is gone its VISA sessions are closed,    *)
(* and visa_plugin has closed each once: although ~PluginLoader calls        *)
(* plugin_shutdown again after a shutdown, after an initialisation that      *)
(* failed half-way, and for a plugin another loader still uses.  Excepted    *)
(* are the sessions of a plugin that was initialised again without a         *)
(* shutdown in between: they stay open, and only then may visa_plugin close  *)
(* a handle twice.                                                           *)
SessionsAreClosed ==
  \A h \in Hosts :
    /\ loaders[h] = 0 => open[h] \subseteq lost[h]
    /\ misused[h] => plugin[h] = "visa_builtin" \/ lost[h] # {}

(* A listed buffer has as many references as its clients hold; exactly the   *)
(* buffers a client holds are listed, until clear_all drops them, whichever  *)
(* threads create, get and release meanwhile.                                *)
ReferencesAreCounted ==
  \A h \in Hosts :
    /\ \A id \in DOMAIN buffers[h] :
         /\ id \in DOMAIN owed[h] /\ owed[h][id] > 0
         /\ buffers[h][id].ref_count = owed[h][id]
    /\ \A id \in DOMAIN owed[h] :
         owed[h][id] > 0 => id \in DOMAIN buffers[h] \/ id \in cleared[h]

-----------------------------------------------------------------------------
(* Not so: the configured connection.address is "The connection address".    *)
(* The worker never passes it on, so a worker with a VISA plugin gives up    *)
(* without having tried to open a session.                                   *)
WorkersTryTheAddress ==
  \A h \in Workers : IsVisa(h) /\ phase[h] = "leave" => opened[h] > 0

(* Not so: plugin_shutdown is "Shutdown and cleanup plugin".  An initialise  *)
(* of an initialised plugin overwrites its handles.                          *)
ShutdownCleansUp == \A h \in Hosts : loaders[h] = 0 => open[h] = {}

(* Not so: a VISA session is closed once by either plugin.                   *)
BuiltinClosesOnce == \A h \in Hosts : ~misused[h]

(* Not so: "buffer_id: Unique identifier for accessing the data".  Two       *)
(* workers count from 0 and may ask the clock in the same millisecond.       *)
BufferIdsAreUnique == \A a, b \in known : a[2] = b[2] => a[1] = b[1]

(* Not so: a block holds its elements ("Total size in bytes").  The product  *)
(* wraps.                                                                    *)
BlocksHoldTheirElements ==
  \A h \in Hosts : \A id \in DOMAIN buffers[h] :
    export_to_csv(buffers[h][id]) <= buffers[h][id].byte_size

=============================================================================
