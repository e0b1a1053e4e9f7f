-------------------------- MODULE PluginHostProofs --------------------------
(***************************************************************************)
(* Proofs about PluginHost, for every set of processes and every bound:    *)
(* the sessions of a plugin are closed with its last loader, and buffers   *)
(* have the references their clients hold.  The two halves of the state    *)
(* are independent: a step changes one of them, or is the exit of a        *)
(* worker, which drops both.                                               *)
(***************************************************************************)
EXTENDS PluginHost, TLAPS

StaticsType == [initialized : BOOLEAN, default_rm : Nat, instrument : Nat]

(* What is open a shutdown would close, or its handle is lost.  As long as   *)
(* none is lost a plugin other than visa_builtin would close nothing else,   *)
(* and visa_plugin has its resource manager open while it is initialized.    *)
HostInv(h) ==
  /\ open[h] \subseteq Closes(h) \cup lost[h]
  /\ plugin[h] # "visa_builtin" /\ lost[h] = {} => Closes(h) \subseteq open[h]
  /\ plugin[h] = "visa_plugin" /\ g[h].initialized /\ lost[h] = {} =>
       g[h].default_rm \in open[h]
  /\ ~IsVisa(h) => g[h].default_rm = 0 /\ g[h].instrument = 0
  /\ loaders[h] = 0 => open[h] \subseteq lost[h]
  /\ misused[h] => plugin[h] = "visa_builtin" \/ lost[h] # {}

SessionTypes ==
  /\ plugin \in [Hosts -> Plugins]
  /\ loaders \in [Hosts -> Nat]
  /\ g \in [Hosts -> StaticsType]
  /\ opened \in [Hosts -> Nat]
  /\ open \in [Hosts -> SUBSET Nat]
  /\ lost \in [Hosts -> SUBSET Nat]
  /\ misused \in [Hosts -> BOOLEAN]

SessionInv == SessionTypes /\ \A h \in Hosts : HostInv(h)

Descriptions == [element_count : Counts, data_type : Types, byte_size : Nat,
                 ref_count : Nat]

BufferTypes ==
  /\ now \in Nat
  /\ next_id \in [Hosts -> Nat]
  /\ making \in [Hosts -> [Creators -> {Idle} \cup ((Nat \X Nat) \X Types \X Counts)]]
  /\ DOMAIN buffers = Hosts /\ buffers = [h \in Hosts |-> buffers[h]]
  /\ DOMAIN owed = Hosts /\ owed = [h \in Hosts |-> owed[h]]
  /\ cleared \in [Hosts -> SUBSET (Nat \X Nat)]
  /\ \A h \in Hosts :
       /\ buffers[h] \in [DOMAIN buffers[h] -> Descriptions]
       /\ owed[h] \in [DOMAIN owed[h] -> Nat]
       /\ DOMAIN owed[h] \subseteq Nat \X Nat

(* The id of a buffer that is being created is new: the counter is past all  *)
(* ids that were generated, and two creations have different ones.           *)
IdInvOf(h) ==
  /\ \A id \in DOMAIN owed[h] : id[2] < next_id[h]
  /\ \A t \in Creators : making[h][t] # Idle =>
       /\ making[h][t][1][2] < next_id[h]
       /\ making[h][t][1] \notin DOMAIN owed[h]
       /\ \A u \in Creators : making[h][u] # Idle /\ making[h][u][1] = making[h][t][1]
                                => u = t

IdInv == \A h \in Hosts : IdInvOf(h)

(* ReferencesAreCounted for one process.                                     *)
CountedOf(h) ==
  /\ \A id \in DOMAIN buffers[h] :
       /\ id \in DOMAIN owed[h] /\ owed[h][id] > 0
       /\ buffers[h][id].ref_count = owed[h][id]
  /\ \A id \in DOMAIN owed[h] :
       owed[h][id] > 0 => id \in DOMAIN buffers[h] \/ id \in cleared[h]

BufferInv == BufferTypes /\ IdInv /\ ReferencesAreCounted

-----------------------------------------------------------------------------
(* A step of one process leaves the sessions of the others alone.            *)
LEMMA OneHost ==
  ASSUME SessionInv, NEW h \in Hosts, SessionTypes', UNCHANGED plugin,
         \A k \in Hosts \ {h} :
           /\ loaders'[k] = loaders[k] /\ g'[k] = g[k] /\ open'[k] = open[k]
           /\ lost'[k] = lost[k] /\ misused'[k] = misused[k],
         HostInv(h)'
  PROVE  SessionInv'
<1>1. ASSUME NEW k \in Hosts \ {h}
      PROVE  HostInv(k)'
  <2>1. HostInv(k) /\ plugin'[k] = plugin[k]
    BY Zenon DEF SessionInv
  <2>2. /\ loaders'[k] = loaders[k] /\ g'[k] = g[k] /\ open'[k] = open[k]
        /\ lost'[k] = lost[k] /\ misused'[k] = misused[k]
    BY Zenon
  <2> QED
    BY ONLY <2>1, <2>2, Zenon DEF HostInv, Closes, Held, IsVisa
<1> QED
  BY <1>1, Zenon DEF SessionInv

(* A shutdown closes what is open and not lost, and nothing that is not      *)
(* open unless the plugin is visa_builtin or a handle was lost.              *)
LEMMA ShutdownKeeps ==
  ASSUME SessionInv, NEW h \in Hosts, plugin_shutdown(h),
         g' \in {[g EXCEPT ![h] = Statics(h)], [g EXCEPT ![h] = Unopened]},
         loaders' \in [Hosts -> Nat], UNCHANGED <<plugin, opened>>,
         \A k \in Hosts \ {h} : loaders'[k] = loaders[k]
  PROVE  SessionInv'
<1>1. SessionTypes /\ HostInv(h)
  BY Zenon DEF SessionInv
<1>2. /\ open' = [open EXCEPT ![h] = @ \ Closes(h)] /\ lost' = lost
      /\ misused' = [misused EXCEPT ![h] = @ \/ ~(Closes(h) \subseteq open[h])]
  BY Zenon DEF plugin_shutdown
<1>3. /\ open' \in [Hosts -> SUBSET Nat] /\ open'[h] = open[h] \ Closes(h)
      /\ misused' \in [Hosts -> BOOLEAN]
      /\ misused'[h] => misused[h] \/ ~(Closes(h) \subseteq open[h])
      /\ \A k \in Hosts \ {h} : misused'[k] = misused[k] /\ open'[k] = open[k]
  BY <1>1, <1>2, Zenon DEF SessionTypes
<1>4. /\ g' \in [Hosts -> StaticsType] /\ g'[h] \in {Statics(h), Unopened}
      /\ \A k \in Hosts \ {h} : g'[k] = g[k]
  <2>1. Unopened \in StaticsType
    BY Zenon DEF Unopened, StaticsType
  <2>2. Statics(h) \in StaticsType
    BY <1>1, <2>1, Zenon DEF Statics, SessionTypes
  <2> QED
    BY <1>1, <2>1, <2>2, ZenonT(30) DEF SessionTypes
<1>5. \/ g'[h] = Unopened
      \/ g'[h] = g[h] /\ ~g[h].initialized /\ plugin[h] # "visa_builtin"
  BY <1>4, Zenon DEF Statics
<1>6. ~Unopened.initialized /\ Unopened.default_rm = 0 /\ Unopened.instrument = 0
  BY DEF Unopened
<1>7. /\ Closes(h)' = {} /\ ~g'[h].initialized
      /\ ~IsVisa(h) => g'[h].default_rm = 0 /\ g'[h].instrument = 0
  <2>1. CASE g'[h] = Unopened
    BY <1>6, <2>1 DEF Closes, Held
  <2>2. CASE g'[h] = g[h] /\ ~g[h].initialized /\ plugin[h] # "visa_builtin"
    BY <1>1, <2>2, Zenon DEF Closes, HostInv
  <2> QED
    BY <1>5, <2>1, <2>2, Zenon
<1>8. HostInv(h)'
  BY <1>1, <1>2, <1>3, <1>7, ZenonT(30) DEF HostInv, IsVisa
<1>9. SessionTypes'
  BY <1>1, <1>2, <1>3, <1>4, Zenon DEF SessionTypes
<1> QED
  BY <1>2, <1>3, <1>4, <1>8, <1>9, OneHost, Zenon

(* Initialising a third-party plugin opens no session.                       *)
LEMMA ThirdPartyKeeps ==
  ASSUME SessionInv, NEW h \in Hosts, initialize_third_party(h),
         UNCHANGED <<plugin, loaders>>
  PROVE  SessionInv'
<1>1. SessionTypes /\ HostInv(h) /\ ~IsVisa(h)
  BY Zenon DEF SessionInv, initialize_third_party
<1>2. /\ g'[h] = [g[h] EXCEPT !.initialized = TRUE]
      /\ g' \in [Hosts -> StaticsType]
      /\ \A k \in Hosts \ {h} : g'[k] = g[k]
  <2> DEFINE r == [g[h] EXCEPT !.initialized = TRUE]
  <2>1. g[h] \in StaticsType
    BY <1>1, Zenon DEF SessionTypes
  <2>2. r \in StaticsType
    BY <2>1, Zenon DEF StaticsType
  <2>3. g' = [g EXCEPT ![h] = r]
    BY <1>1, Zenon DEF initialize_third_party, SessionTypes
  <2> QED
    BY <1>1, <2>2, <2>3, Zenon DEF SessionTypes
<1>3. g[h] \in StaticsType /\ g[h].default_rm = 0 /\ g[h].instrument = 0
  BY <1>1, Zenon DEF HostInv, SessionTypes
<1>4. g'[h].default_rm = 0 /\ g'[h].instrument = 0
  BY <1>2, <1>3 DEF StaticsType
<1>5. Closes(h)' = {} /\ Closes(h) = {}
  BY <1>3, <1>4, Zenon DEF Closes, Held
<1>6. UNCHANGED <<opened, open, lost, misused>>
  BY Zenon DEF initialize_third_party
<1>7. HostInv(h)'
  BY <1>1, <1>4, <1>5, <1>6, Zenon DEF HostInv, IsVisa
<1>8. SessionTypes'
  BY <1>1, <1>2, <1>6, Zenon DEF SessionTypes
<1> QED
  BY <1>2, <1>6, <1>7, <1>8, OneHost, Zenon

(* viOpenDefaultRM fails: the handle it replaces is lost if it was open.     *)
LEMMA NoManagerKeeps ==
  ASSUME SessionInv, NEW h \in Hosts, loaders[h] > 0, initialize_no_rm(h),
         UNCHANGED <<plugin, loaders>>
  PROVE  SessionInv'
<1>1. SessionTypes /\ HostInv(h) /\ IsVisa(h) /\ loaders[h] # 0
  BY DEF SessionInv, SessionTypes, initialize_no_rm
<1>2. g[h] \in StaticsType /\ 0 \in Nat
  BY <1>1, Zenon DEF SessionTypes
<1> DEFINE r == [g[h] EXCEPT !.default_rm = 0]
<1>3. /\ r \in StaticsType /\ r.default_rm = 0 /\ r.instrument = g[h].instrument
      /\ r.initialized = g[h].initialized
  BY <1>2, Zenon DEF StaticsType
<1>4. g' = [g EXCEPT ![h] = r]
  BY <1>1, Zenon DEF initialize_no_rm, SessionTypes
<1> HIDE DEF r
<1>5. g' \in [Hosts -> StaticsType] /\ g'[h] = r /\ \A k \in Hosts \ {h} : g'[k] = g[k]
  BY <1>1, <1>3, <1>4, Zenon DEF SessionTypes
<1>6. /\ UNCHANGED <<opened, open, misused>>
      /\ lost' = [lost EXCEPT ![h] = @ \cup ({g[h].default_rm} \cap open[h])]
  BY Zenon DEF initialize_no_rm, Overwrites
<1>7. /\ lost' \in [Hosts -> SUBSET Nat]
      /\ lost'[h] = lost[h] \cup ({g[h].default_rm} \cap open[h])
      /\ \A k \in Hosts \ {h} : lost'[k] = lost[k]
  BY <1>1, <1>6, Zenon DEF SessionTypes
<1>8. /\ Closes(h)' \subseteq Closes(h)
      /\ Closes(h) \subseteq Closes(h)' \cup {g[h].default_rm}
  BY <1>3, <1>5, Zenon DEF Closes, Held
<1>9. HostInv(h)'
  BY <1>1, <1>3, <1>5, <1>6, <1>7, <1>8, ZenonT(30) DEF HostInv, IsVisa
<1>10. SessionTypes'
  BY <1>1, <1>5, <1>6, <1>7, Zenon DEF SessionTypes
<1> QED
  BY <1>5, <1>6, <1>7, <1>9, <1>10, OneHost, Zenon

(* viOpen fails: the handle of the closed resource manager stays.            *)
LEMMA HalfKeeps ==
  ASSUME SessionInv, NEW h \in Hosts, loaders[h] > 0, initialize_half(h),
         UNCHANGED <<plugin, loaders>>
  PROVE  SessionInv'
<1>1. SessionTypes /\ HostInv(h) /\ IsVisa(h) /\ loaders[h] # 0
  BY DEF SessionInv, SessionTypes, initialize_half
<1>2. g[h] \in StaticsType /\ opened[h] + 1 \in Nat /\ 0 \in Nat
  BY <1>1 DEF SessionTypes
<1>3. PICK i \in {0, g[h].instrument} :
        /\ g' = [g EXCEPT ![h].default_rm = opened[h] + 1, ![h].instrument = i]
        /\ Overwrites(h, {g[h].default_rm} \cup ({g[h].instrument} \ {i}))
  BY Zenon DEF initialize_half
<1> DEFINE r == [g[h] EXCEPT !.default_rm = opened[h] + 1, !.instrument = i]
<1>4. i \in Nat
  BY <1>2, Zenon DEF StaticsType
<1>5. /\ r \in StaticsType /\ r.default_rm = opened[h] + 1 /\ r.instrument = i
      /\ r.initialized = g[h].initialized
  BY <1>2, <1>4, Zenon DEF StaticsType
<1>6. g' = [g EXCEPT ![h] = r]
  BY <1>1, <1>3, Zenon DEF SessionTypes
<1> HIDE DEF r
<1>7. g' \in [Hosts -> StaticsType] /\ g'[h] = r /\ \A k \in Hosts \ {h} : g'[k] = g[k]
  BY <1>1, <1>5, <1>6, Zenon DEF SessionTypes
<1>8. /\ lost' \in [Hosts -> SUBSET Nat]
      /\ lost'[h] = lost[h] \cup (({g[h].default_rm} \cup ({g[h].instrument} \ {i})) \cap open[h])
      /\ \A k \in Hosts \ {h} : lost'[k] = lost[k]
  BY <1>1, <1>3, Zenon DEF SessionTypes, Overwrites
<1>9. UNCHANGED <<open, misused>> /\ opened' \in [Hosts -> Nat]
  BY <1>1, <1>2, Zenon DEF initialize_half, SessionTypes
<1>10. /\ Closes(h) \subseteq Closes(h)' \cup {g[h].default_rm} \cup ({g[h].instrument} \ {i})
       /\ ~g[h].initialized /\ plugin[h] # "visa_builtin" => Closes(h)' = {}
  BY <1>5, <1>7, Zenon DEF Closes, Held
<1>11. plugin[h] # "visa_builtin" => plugin[h] = "visa_plugin"
  BY <1>1, Zenon DEF SessionTypes, Plugins, IsVisa
<1>12. HostInv(h)'
  BY <1>1, <1>5, <1>7, <1>8, <1>9, <1>10, <1>11, ZenonT(30) DEF HostInv, IsVisa
<1>13. SessionTypes'
  BY <1>1, <1>7, <1>8, <1>9, Zenon DEF SessionTypes
<1> QED
  BY <1>7, <1>8, <1>9, <1>12, <1>13, OneHost, Zenon

(* Two sessions are opened; those whose handles they replace are lost.       *)
LEMMA OpensKeeps ==
  ASSUME SessionInv, NEW h \in Hosts, loaders[h] > 0, initialize_opens(h),
         UNCHANGED <<plugin, loaders>>
  PROVE  SessionInv'
<1> DEFINE r == [initialized |-> plugin[h] = "visa_plugin",
                 default_rm |-> opened[h] + 1, instrument |-> opened[h] + 2]
           new == {opened[h] + 1, opened[h] + 2}
<1>1. SessionTypes /\ HostInv(h) /\ IsVisa(h) /\ loaders[h] # 0
  BY DEF SessionInv, SessionTypes, initialize_opens
<1>2. /\ opened[h] + 1 \in Nat /\ opened[h] + 2 \in Nat
      /\ opened[h] + 1 # 0 /\ opened[h] + 2 # 0
  BY <1>1 DEF SessionTypes
<1>3. r \in StaticsType
  BY <1>2, Zenon DEF StaticsType
<1>4. g' = [g EXCEPT ![h] = r] /\ open' = [open EXCEPT ![h] = @ \cup new]
  BY Zenon DEF initialize_opens
<1>5. new \subseteq Nat /\ new \ {0} = new
  BY <1>2, Zenon
<1>6. g' \in [Hosts -> StaticsType] /\ g'[h] = r /\ \A k \in Hosts \ {h} : g'[k] = g[k]
  BY <1>1, <1>3, <1>4, Zenon DEF SessionTypes
<1>7. Held(h)' = new
  BY <1>5, <1>6 DEF Held
<1>8. Closes(h)' = new /\ g'[h].default_rm \in new
  BY <1>1, <1>6, <1>7, Zenon DEF Closes, SessionTypes, Plugins, IsVisa, initialize_opens
<1> HIDE DEF r, new
<1>9. /\ open' \in [Hosts -> SUBSET Nat] /\ open'[h] = open[h] \cup new
      /\ \A k \in Hosts \ {h} : open'[k] = open[k]
  BY <1>1, <1>4, <1>5, Zenon DEF SessionTypes
<1>10. /\ lost' \in [Hosts -> SUBSET Nat] /\ lost'[h] = lost[h] \cup (Held(h) \cap open[h])
       /\ \A k \in Hosts \ {h} : lost'[k] = lost[k]
  BY <1>1, Zenon DEF SessionTypes, initialize_opens, Overwrites
<1>11. misused' = misused /\ opened' \in [Hosts -> Nat]
  BY <1>1, <1>2, Zenon DEF initialize_opens, SessionTypes
<1>12. Closes(h) \subseteq Held(h)
  BY Zenon DEF Closes
<1>13. HostInv(h)'
  BY <1>1, <1>8, <1>9, <1>10, <1>11, <1>12, ZenonT(30) DEF HostInv, IsVisa
<1>14. SessionTypes'
  BY <1>1, <1>6, <1>9, <1>10, <1>11, Zenon DEF SessionTypes
<1> QED
  BY <1>6, <1>9, <1>10, <1>11, <1>13, <1>14, OneHost, Zenon

(* Every step keeps the sessions in order.                                   *)
LEMMA NextSessionInv == SessionInv /\ [Next]_vars => SessionInv'
<1> SUFFICES ASSUME SessionInv, [Next]_vars
             PROVE  SessionInv'
  BY Zenon
<1> USE DEF Hosts
<1>1. CASE UNCHANGED <<plugin, session>>
  BY <1>1, Zenon DEF session, SessionInv, SessionTypes, HostInv, Closes, Held, IsVisa
<1>2. ASSUME NEW h \in Workers, load_and_init_plugin(h)
      PROVE  SessionInv'
  <2>1. CASE initialize_fails(h)
    BY <1>2, <2>1, Zenon DEF load_and_init_plugin, initialize_fails, SessionInv,
       SessionTypes, HostInv, Closes, Held, IsVisa
  <2>2. CASE initialize_third_party(h)
    BY <1>2, <2>2, ThirdPartyKeeps, Zenon DEF load_and_init_plugin
  <2> QED
    BY <1>2, <2>1, <2>2, Zenon DEF load_and_init_plugin
<1>3. ASSUME NEW h \in Workers, connect_ipc_queue(h)
      PROVE  SessionInv'
  <2>1. CASE UNCHANGED <<g, open, lost, misused>>
    BY <1>3, <2>1, Zenon DEF connect_ipc_queue, SessionInv, SessionTypes, HostInv,
       Closes, Held, IsVisa
  <2>2. CASE plugin_shutdown(h) /\ g' = [g EXCEPT ![h] = Statics(h)]
    BY <1>3, <2>2, ShutdownKeeps, Zenon DEF connect_ipc_queue, SessionInv, SessionTypes
  <2> QED
    BY <1>3, <2>1, <2>2, Zenon DEF connect_ipc_queue
<1>4. ASSUME NEW h \in Workers, cleanup(h)
      PROVE  SessionInv'
  BY <1>4, ShutdownKeeps, Zenon DEF cleanup, SessionInv, SessionTypes
<1>5. ASSUME NEW h \in Workers, exit(h)
      PROVE  SessionInv'
  BY <1>5, ShutdownKeeps, Zenon DEF exit, SessionInv, SessionTypes
<1>6. ASSUME NEW h \in Embedders, load(h)
      PROVE  SessionInv'
  <2>1. /\ loaders' \in [Hosts -> Nat] /\ loaders'[h] # 0
        /\ \A k \in Hosts \ {h} : loaders'[k] = loaders[k]
    BY <1>6 DEF load, SessionInv, SessionTypes
  <2>2. UNCHANGED <<plugin, g, opened, open, lost, misused>>
    BY <1>6, Zenon DEF load
  <2>3. HostInv(h)'
    BY <2>1, <2>2, Zenon DEF SessionInv, HostInv, Closes, Held, IsVisa
  <2>4. SessionTypes'
    BY <2>1, <2>2, Zenon DEF SessionInv, SessionTypes
  <2> QED
    BY <2>1, <2>2, <2>3, <2>4, OneHost, Zenon
<1>7. ASSUME NEW h \in Embedders, initialize(h)
      PROVE  SessionInv'
  <2>1. CASE initialize_fails(h)
    BY <1>7, <2>1, Zenon DEF initialize, initialize_fails, SessionInv, SessionTypes,
       HostInv, Closes, Held, IsVisa
  <2> QED
    BY <1>7, <2>1, NoManagerKeeps, HalfKeeps, OpensKeeps, ThirdPartyKeeps, Zenon
    DEF initialize
<1>8. ASSUME NEW h \in Embedders, shutdown(h)
      PROVE  SessionInv'
  BY <1>8, ShutdownKeeps, Zenon DEF shutdown, SessionInv, SessionTypes
<1>9. ASSUME NEW h \in Embedders, unload(h)
      PROVE  SessionInv'
  <2>1. loaders' \in [Hosts -> Nat] /\ \A k \in Hosts \ {h} : loaders'[k] = loaders[k]
    BY <1>9 DEF unload, SessionInv, SessionTypes
  <2>2. g' \in {[g EXCEPT ![h] = Statics(h)], [g EXCEPT ![h] = Unopened]}
    BY <1>9, Zenon DEF unload
  <2> QED
    BY <1>9, <2>1, <2>2, ShutdownKeeps, Zenon DEF unload
<1> QED
  BY <1>1, <1>2, <1>3, <1>4, <1>5, <1>6, <1>7, <1>8, <1>9, ZenonT(60)
  DEF Next, vars, clear, execute_command, create_buffer, create_begin, create_end,
      get, release, Tick

-----------------------------------------------------------------------------
(* The size of a block is a number, also where the product wraps.            *)
LEMMA EntryType ==
  ASSUME NEW d \in Types, NEW n \in Counts
  PROVE  Entry(d, n) \in Descriptions /\ Entry(d, n).ref_count = 1
<1>1. data_type_size(d) \in Nat /\ n \in Nat
  BY HostAssumption, Zenon DEF data_type_size, Types
<1>2. n * data_type_size(d) \in Nat
  BY <1>1
<1>3. byte_size(d, n) \in Nat
  BY <1>2, SizeAssumption DEF byte_size
<1> QED
  BY <1>3, Zenon DEF Entry, Descriptions

(* A process creates a buffer: the id is new.                                *)
LEMMA BeginKeeps ==
  ASSUME BufferInv, NEW h \in Hosts, NEW t \in Creators, NEW d \in Types,
         NEW n \in Counts, create_begin(h, t, d, n)
  PROVE  BufferInv'
<1> DEFINE m == <<generate_buffer_id(now, next_id[h]), d, n>>
<1>1. m \in (Nat \X Nat) \X Types \X Counts /\ m[1] = <<now, next_id[h]>>
  BY Zenon DEF generate_buffer_id, BufferInv, BufferTypes
<1> HIDE DEF m
<1>2. making' = [making EXCEPT ![h][t] = m]
  BY Zenon DEF create_begin, m
<1>3. /\ making' \in [Hosts -> [Creators -> {Idle} \cup ((Nat \X Nat) \X Types \X Counts)]]
      /\ making'[h][t] = m
      /\ \A u \in Creators \ {t} : making'[h][u] = making[h][u]
      /\ \A k \in Hosts \ {h} : making'[k] = making[k]
  BY <1>1, <1>2, Zenon DEF BufferInv, BufferTypes
<1>4. /\ next_id' \in [Hosts -> Nat]
      /\ next_id'[h] = next_id[h] + 1
      /\ \A k \in Hosts \ {h} : next_id'[k] = next_id[k]
  BY DEF create_begin, BufferInv, BufferTypes
<1>5. UNCHANGED <<now, buffers, owed, cleared>>
  BY Zenon DEF create_begin
<1>6. BufferTypes'
  BY <1>3, <1>4, <1>5, Zenon DEF BufferInv, BufferTypes
<1>7. IdInv'
  <2>1. ASSUME NEW k \in Hosts \ {h}
        PROVE  IdInvOf(k)'
    <3>1. IdInvOf(k) /\ next_id'[k] = next_id[k] /\ owed'[k] = owed[k] /\ making'[k] = making[k]
      BY <1>3, <1>4, <1>5, Zenon DEF BufferInv, IdInv
    <3> QED
      BY ONLY <3>1, ZenonT(60) DEF IdInvOf
  <2>2. IdInvOf(h)'
    <3>1. \A id \in DOMAIN owed[h] : id[2] < next_id[h] /\ id[2] \in Nat
      BY ZenonT(60) DEF BufferInv, BufferTypes, IdInv, IdInvOf
    <3>2. \A u \in Creators \ {t} : making[h][u] # Idle =>
            making[h][u][1][2] \in Nat /\ making[h][u][1][2] < next_id[h]
      BY DEF BufferInv, BufferTypes, IdInv, IdInvOf
    <3>3. next_id[h] \in Nat /\ m[1][2] = next_id[h]
      BY <1>1 DEF BufferInv, BufferTypes
    <3>4. \A id \in DOMAIN owed'[h] : id[2] < next_id'[h]
      BY <3>1, <3>3, <1>4, <1>5
    <3>5. m[1] \notin DOMAIN owed[h]
      BY <3>1, <3>3
    <3>6. \A u \in Creators \ {t} : making[h][u] # Idle => making[h][u][1] # m[1]
      BY <3>2, <3>3
    <3> QED
      BY <1>3, <1>4, <1>5, <3>2, <3>3, <3>4, <3>5, <3>6, SMTT(30) DEF IdInvOf, BufferInv, IdInv
  <2> QED
    BY <2>1, <2>2, Zenon DEF IdInv
<1>8. ReferencesAreCounted'
  BY <1>5, Zenon DEF ReferencesAreCounted, BufferInv
<1> QED
  BY <1>6, <1>7, <1>8, Zenon DEF BufferInv

(* A step that changes one process only.                                     *)
LEMMA OneProcess ==
  ASSUME BufferInv, NEW h \in Hosts, UNCHANGED <<now, next_id>>,
         DOMAIN buffers' = Hosts, buffers' = [k \in Hosts |-> buffers'[k]],
         DOMAIN owed' = Hosts, owed' = [k \in Hosts |-> owed'[k]],
         making' \in [Hosts -> [Creators -> {Idle} \cup ((Nat \X Nat) \X Types \X Counts)]],
         cleared' \in [Hosts -> SUBSET (Nat \X Nat)],
         \A k \in Hosts \ {h} :
           /\ buffers'[k] = buffers[k] /\ owed'[k] = owed[k]
           /\ making'[k] = making[k] /\ cleared'[k] = cleared[k],
         buffers'[h] \in [DOMAIN buffers'[h] -> Descriptions],
         owed'[h] \in [DOMAIN owed'[h] -> Nat],
         DOMAIN owed'[h] \subseteq Nat \X Nat,
         IdInvOf(h)', CountedOf(h)'
  PROVE  BufferInv'
<1>1. BufferTypes'
  BY Zenon DEF BufferInv, BufferTypes
<1>2. IdInv'
  <2>1. ASSUME NEW k \in Hosts \ {h}
        PROVE  IdInvOf(k)'
    <3>1. IdInvOf(k) /\ next_id'[k] = next_id[k]
      BY Zenon DEF BufferInv, IdInv
    <3>2. owed'[k] = owed[k] /\ making'[k] = making[k]
      BY Zenon
    <3> QED
      BY ONLY <3>1, <3>2, ZenonT(60) DEF IdInvOf
  <2> QED
    BY <2>1, Zenon DEF IdInv
<1>3. ReferencesAreCounted'
  <2>1. ASSUME NEW k \in Hosts \ {h}
        PROVE  CountedOf(k)'
    <3>1. CountedOf(k)
      BY Zenon DEF BufferInv, ReferencesAreCounted, CountedOf
    <3> QED
      BY <3>1, Zenon DEF CountedOf
  <2>2. \A k \in Hosts : CountedOf(k)'
    BY <2>1, Zenon
  <2> QED
    BY <2>2, Zenon DEF ReferencesAreCounted, CountedOf
<1> QED
  BY <1>1, <1>2, <1>3, Zenon DEF BufferInv

(* The buffer is listed, with the one reference its creator has.             *)
LEMMA EndKeeps ==
  ASSUME BufferInv, NEW h \in Hosts, NEW t \in Creators, create_end(h, t)
  PROVE  BufferInv'
<1> DEFINE id == making[h][t][1]
           e == Entry(making[h][t][2], making[h][t][3])
<1>1. making[h][t] \in (Nat \X Nat) \X Types \X Counts
  BY DEF create_end, BufferInv, BufferTypes
<1>2. id \in Nat \X Nat /\ e \in Descriptions /\ e.ref_count = 1
  BY <1>1, EntryType, Zenon
<1>3. id \notin DOMAIN owed[h] /\ id \notin DOMAIN buffers[h]
  <2>1. making[h][t] # Idle /\ IdInvOf(h) /\ DOMAIN buffers[h] \subseteq DOMAIN owed[h]
    BY Zenon DEF create_end, BufferInv, IdInv, ReferencesAreCounted
  <2> QED
    BY <2>1, Zenon DEF IdInvOf
<1>4. /\ buffers' = [buffers EXCEPT ![h] = With(buffers[h], id, e)]
      /\ owed' = [owed EXCEPT ![h] = With(owed[h], id, 1)]
      /\ making' = [making EXCEPT ![h][t] = Idle]
      /\ UNCHANGED <<now, next_id, cleared>>
  BY <1>3, Zenon DEF create_end, insert
<1> HIDE DEF e
<1>5. /\ buffers'[h] = With(buffers[h], id, e) /\ owed'[h] = With(owed[h], id, 1)
      /\ making'[h] = [making[h] EXCEPT ![t] = Idle]
      /\ \A k \in Hosts \ {h} :
           /\ buffers'[k] = buffers[k] /\ owed'[k] = owed[k]
           /\ making'[k] = making[k] /\ cleared'[k] = cleared[k]
  BY <1>4, Zenon DEF BufferInv, BufferTypes
<1>6. /\ DOMAIN buffers' = Hosts /\ buffers' = [k \in Hosts |-> buffers'[k]]
      /\ DOMAIN owed' = Hosts /\ owed' = [k \in Hosts |-> owed'[k]]
      /\ making' \in [Hosts -> [Creators -> {Idle} \cup ((Nat \X Nat) \X Types \X Counts)]]
      /\ cleared' \in [Hosts -> SUBSET (Nat \X Nat)]
  BY <1>4, Zenon DEF BufferInv, BufferTypes
<1>7. /\ buffers'[h] \in [DOMAIN buffers'[h] -> Descriptions]
      /\ owed'[h] \in [DOMAIN owed'[h] -> Nat]
      /\ DOMAIN owed'[h] \subseteq Nat \X Nat
  BY <1>2, <1>5 DEF With, BufferInv, BufferTypes
<1>8. IdInvOf(h)'
  <2>1. \A u \in Creators : making'[h][u] # Idle => u # t /\ making'[h][u] = making[h][u]
    BY <1>5 DEF BufferInv, BufferTypes
  <2>2. \A u \in Creators \ {t} : making[h][u] # Idle => making[h][u][1] # id
    BY Zenon DEF create_end, BufferInv, IdInv, IdInvOf
  <2>3. DOMAIN owed'[h] = DOMAIN owed[h] \cup {id} /\ id[2] < next_id[h]
    BY <1>5, Zenon DEF With, create_end, BufferInv, IdInv, IdInvOf
  <2>4. IdInvOf(h) /\ next_id'[h] = next_id[h]
    BY <1>4, Zenon DEF BufferInv, IdInv
  <2>5. \A i \in DOMAIN owed'[h] : i[2] < next_id'[h]
    BY ONLY <2>3, <2>4, Zenon DEF IdInvOf
  <2>6. ASSUME NEW u \in Creators, making'[h][u] # Idle
        PROVE  /\ u # t /\ making'[h][u] = making[h][u] /\ making[h][u] # Idle
               /\ making[h][u][1][2] < next_id[h]
               /\ making[h][u][1] \notin DOMAIN owed'[h]
    BY ONLY <2>1, <2>2, <2>3, <2>4, <2>6, Zenon DEF IdInvOf
  <2>7. ASSUME NEW u \in Creators, making'[h][u] # Idle,
               NEW v \in Creators, making'[h][v] # Idle, making'[h][v][1] = making'[h][u][1]
        PROVE  v = u
    BY ONLY <2>4, <2>6, <2>7, ZenonT(60) DEF IdInvOf
  <2>8. ASSUME NEW u \in Creators, making'[h][u] # Idle
        PROVE  making'[h][u][1][2] < next_id'[h] /\ making'[h][u][1] \notin DOMAIN owed'[h]
    BY ONLY <2>4, <2>6, <2>8, Zenon
  <2> QED
    BY ONLY <2>5, <2>7, <2>8, Zenon DEF IdInvOf
<1>9. CountedOf(h)'
  <2>1. CountedOf(h) /\ cleared'[h] = cleared[h]
    BY <1>4, Zenon DEF BufferInv, ReferencesAreCounted, CountedOf
  <2>2. /\ DOMAIN buffers'[h] = DOMAIN buffers[h] \cup {id}
        /\ DOMAIN owed'[h] = DOMAIN owed[h] \cup {id}
        /\ buffers'[h][id] = e /\ owed'[h][id] = 1
    BY <1>5, Zenon DEF With
  <2>3. /\ \A i \in DOMAIN buffers[h] : buffers'[h][i] = buffers[h][i]
        /\ \A i \in DOMAIN owed[h] : owed'[h][i] = owed[h][i]
    BY ONLY <1>3, <1>5, ZenonT(60) DEF With
  <2>4. 1 > 0
    OBVIOUS
  <2> QED
    BY <1>2, <2>1, <2>2, <2>3, <2>4, ZenonT(60) DEF CountedOf
<1> QED
  BY <1>4, <1>5, <1>6, <1>7, <1>8, <1>9, OneProcess, Zenon

(* A client gets or releases a reference to a buffer it knows.               *)
LEMMA ClientKeeps ==
  ASSUME BufferInv, NEW h \in Hosts, NEW id \in DOMAIN owed[h],
         get(h, id) \/ release(h, id)
  PROVE  BufferInv'
<1> DEFINE B == buffers[h]
           W == owed[h]
<1>1. /\ B \in [DOMAIN B -> Descriptions] /\ W \in [DOMAIN W -> Nat]
      /\ DOMAIN W \subseteq Nat \X Nat /\ CountedOf(h)
  BY Zenon DEF BufferInv, BufferTypes, ReferencesAreCounted, CountedOf
<1>2. \E b, w :
        /\ buffers' = [buffers EXCEPT ![h] = b] /\ owed' = [owed EXCEPT ![h] = w]
        /\ b \in [DOMAIN b -> Descriptions] /\ w \in [DOMAIN W -> Nat]
        /\ \A i \in DOMAIN b : i \in DOMAIN W /\ w[i] > 0 /\ b[i].ref_count = w[i]
        /\ \A i \in DOMAIN W : w[i] > 0 => i \in DOMAIN b \/ i \in cleared[h]
  <2>1. CASE get(h, id)
    <3>1. CASE id \in DOMAIN B
      <4> DEFINE b == [B EXCEPT ![id].ref_count = @ + 1]
                 w == [W EXCEPT ![id] = @ + 1]
      <4>1. [B[id] EXCEPT !.ref_count = @ + 1] \in Descriptions
        BY <1>1, <3>1 DEF Descriptions
      <4>2. b \in [DOMAIN B -> Descriptions] /\ w \in [DOMAIN W -> Nat]
        BY <1>1, <4>1, <3>1
      <4>3. \A i \in DOMAIN b : i \in DOMAIN W /\ w[i] > 0 /\ b[i].ref_count = w[i]
        BY <1>1, <3>1 DEF CountedOf, Descriptions
      <4>4. \A i \in DOMAIN W : w[i] > 0 => i \in DOMAIN b \/ i \in cleared[h]
        BY <1>1, <3>1, Zenon DEF CountedOf
      <4>5. buffers' = [buffers EXCEPT ![h] = b] /\ owed' = [owed EXCEPT ![h] = w]
        BY <2>1, <3>1, Zenon DEF get, get_buffer, list_buffers
      <4> HIDE DEF b, w
      <4> QED
        BY <4>2, <4>3, <4>4, <4>5, Zenon
    <3>2. CASE id \notin DOMAIN B
      <4>1. buffers' = [buffers EXCEPT ![h] = B] /\ owed' = [owed EXCEPT ![h] = W]
        BY <1>1, <2>1, <3>2, Zenon DEF get, get_buffer, list_buffers
      <4> QED
        BY <1>1, <4>1, Zenon DEF CountedOf
    <3> QED
      BY <3>1, <3>2, Zenon
  <2>2. CASE release(h, id)
    <3> DEFINE w == [W EXCEPT ![id] = @ - 1]
    <3>1. w \in [DOMAIN W -> Nat] /\ owed' = [owed EXCEPT ![h] = w] /\ W[id] > 0
      BY <1>1, <2>2 DEF release
    <3>2. CASE id \in DOMAIN B /\ B[id].ref_count > 1
      <4> DEFINE b == [B EXCEPT ![id].ref_count = @ - 1]
      <4>1. [B[id] EXCEPT !.ref_count = @ - 1] \in Descriptions
        BY <1>1, <3>2 DEF Descriptions
      <4>2. b \in [DOMAIN b -> Descriptions]
        BY <1>1, <4>1, <3>2, Zenon
      <4>3. \A i \in DOMAIN b : i \in DOMAIN W /\ w[i] > 0 /\ b[i].ref_count = w[i]
        BY <1>1, <3>2 DEF CountedOf, Descriptions
      <4>4. \A i \in DOMAIN W : w[i] > 0 => i \in DOMAIN b \/ i \in cleared[h]
        BY <1>1, <3>2, Zenon DEF CountedOf
      <4>5. buffers' = [buffers EXCEPT ![h] = b]
        BY <2>2, <3>2, Zenon DEF release, release_buffer
      <4> HIDE DEF b, w
      <4> QED
        BY <3>1, <4>2, <4>3, <4>4, <4>5, Zenon
    <3>3. CASE ~(id \in DOMAIN B /\ B[id].ref_count > 1)
      <4> DEFINE b == Without(B, id)
      <4>1. b \in [DOMAIN b -> Descriptions] /\ DOMAIN b = DOMAIN B \ {id}
        BY <1>1, Zenon DEF Without
      <4>2. \A i \in DOMAIN b : i \in DOMAIN W /\ w[i] > 0 /\ b[i].ref_count = w[i]
        BY <1>1, Zenon DEF CountedOf, Without
      <4>3. id \in DOMAIN B => W[id] = 1
        BY <1>1, <3>1, <3>3 DEF CountedOf
      <4>4. \A i \in DOMAIN W : w[i] > 0 => i \in DOMAIN b \/ i \in cleared[h]
        BY <1>1, <3>1, <4>1, <4>3 DEF CountedOf
      <4>5. buffers' = [buffers EXCEPT ![h] = b]
        BY <2>2, <3>3, Zenon DEF release, release_buffer
      <4> HIDE DEF b, w
      <4> QED
        BY <3>1, <4>1, <4>2, <4>4, <4>5, Zenon
    <3> QED
      BY <3>2, <3>3, Zenon
  <2> QED
    BY <2>1, <2>2, Zenon
<1>3. UNCHANGED <<now, next_id, making, cleared>>
  BY Zenon DEF get, release
<1>4. PICK b, w :
        /\ buffers' = [buffers EXCEPT ![h] = b] /\ owed' = [owed EXCEPT ![h] = w]
        /\ b \in [DOMAIN b -> Descriptions] /\ w \in [DOMAIN W -> Nat]
        /\ \A i \in DOMAIN b : i \in DOMAIN W /\ w[i] > 0 /\ b[i].ref_count = w[i]
        /\ \A i \in DOMAIN W : w[i] > 0 => i \in DOMAIN b \/ i \in cleared[h]
  BY <1>2, Zenon
<1>5. /\ buffers'[h] = b /\ owed'[h] = w
      /\ \A k \in Hosts \ {h} : buffers'[k] = buffers[k] /\ owed'[k] = owed[k]
      /\ DOMAIN buffers' = Hosts /\ buffers' = [k \in Hosts |-> buffers'[k]]
      /\ DOMAIN owed' = Hosts /\ owed' = [k \in Hosts |-> owed'[k]]
  BY <1>4, Zenon DEF BufferInv, BufferTypes
<1>6. IdInvOf(h)' /\ CountedOf(h)'
  BY <1>3, <1>4, <1>5 DEF IdInvOf, CountedOf, BufferInv, IdInv
<1>7. /\ making' \in [Hosts -> [Creators -> {Idle} \cup ((Nat \X Nat) \X Types \X Counts)]]
      /\ cleared' \in [Hosts -> SUBSET (Nat \X Nat)]
  BY <1>3, Zenon DEF BufferInv, BufferTypes
<1> QED
  BY <1>1, <1>3, <1>4, <1>5, <1>6, <1>7, OneProcess, Zenon

(* The clock and the other half of the state do not matter.                  *)
LEMMA TablesStay ==
  ASSUME BufferInv, now' \in Nat, UNCHANGED <<next_id, making, buffers, owed, cleared>>
  PROVE  BufferInv'
<1>1. BufferTypes'
  BY Zenon DEF BufferInv, BufferTypes
<1>2. IdInv'
  BY Zenon DEF BufferInv, IdInv, IdInvOf
<1>3. ReferencesAreCounted'
  BY Zenon DEF BufferInv, ReferencesAreCounted
<1> QED
  BY <1>1, <1>2, <1>3, Zenon DEF BufferInv

(* Every step keeps the tables in order.                                     *)
LEMMA NextBufferInv == BufferInv /\ [Next]_vars => BufferInv'
<1> SUFFICES ASSUME BufferInv, [Next]_vars
             PROVE  BufferInv'
  BY Zenon
<1> USE DEF Hosts
<1>1. CASE UNCHANGED data
  BY <1>1, TablesStay, Zenon DEF data, BufferInv, BufferTypes
<1>2. CASE Tick
  <2>1. now' \in Nat /\ UNCHANGED <<next_id, making, buffers, owed, cleared>>
    BY <1>2 DEF Tick, BufferInv, BufferTypes
  <2> QED
    BY <2>1, TablesStay, Zenon
<1>3. ASSUME NEW h \in Hosts, NEW n \in Counts, execute_command(h, n)
      PROVE  BufferInv'
  <2>1. "plugin" \in Creators /\ "float32" \in Types
    BY Zenon DEF Creators, Types
  <2> QED
    BY <1>3, <2>1, BeginKeeps, Zenon DEF execute_command
<1>4. ASSUME NEW h \in Embedders, NEW d \in Types, NEW n \in Counts, create_buffer(h, d, n)
      PROVE  BufferInv'
  <2>1. "client" \in Creators
    BY Zenon DEF Creators
  <2> QED
    BY <1>4, <2>1, BeginKeeps, Zenon DEF create_buffer
<1>5. ASSUME NEW h \in Hosts, NEW t \in Creators, create_end(h, t)
      PROVE  BufferInv'
  BY <1>5, EndKeeps, Zenon
<1>6. ASSUME NEW h \in Embedders, NEW id \in DOMAIN owed[h], get(h, id) \/ release(h, id)
      PROVE  BufferInv'
  BY <1>6, ClientKeeps, Zenon
<1>7. ASSUME NEW h \in Workers, exit(h)
      PROVE  BufferInv'
  <2>1. /\ UNCHANGED <<now, next_id, making, cleared>>
        /\ buffers' = [buffers EXCEPT ![h] = <<>>]
        /\ owed' = [owed EXCEPT ![h] = <<>>]
    BY <1>7, Zenon DEF exit
  <2>2. DOMAIN <<>> = {} /\ <<>> \in [{} -> Descriptions] /\ <<>> \in [{} -> Nat]
    OBVIOUS
  <2>3. buffers'[h] = <<>> /\ owed'[h] = <<>>
    BY <2>1, Zenon DEF BufferInv, BufferTypes
  <2>4. IdInvOf(h)'
    BY <2>1, <2>2, <2>3, ZenonT(60) DEF IdInvOf, BufferInv, IdInv
  <2>5. CountedOf(h)'
    BY <2>2, <2>3, Zenon DEF CountedOf
  <2> QED
    BY <2>1, <2>2, <2>4, <2>5, OneProcess, Zenon DEF BufferInv, BufferTypes
<1>8. ASSUME NEW h \in Embedders, clear(h)
      PROVE  BufferInv'
  <2>1. /\ UNCHANGED <<now, next_id, making, owed>>
        /\ buffers' = [buffers EXCEPT ![h] = <<>>]
        /\ cleared' = [cleared EXCEPT ![h] = @ \cup DOMAIN buffers[h]]
    BY <1>8, Zenon DEF clear, clear_all, list_buffers
  <2>2. DOMAIN <<>> = {} /\ <<>> \in [{} -> Descriptions]
    OBVIOUS
  <2>3. DOMAIN buffers[h] \subseteq DOMAIN owed[h] /\ CountedOf(h)
    BY Zenon DEF BufferInv, ReferencesAreCounted, CountedOf
  <2>4. cleared' \in [Hosts -> SUBSET (Nat \X Nat)]
    BY <2>1, <2>3, ZenonT(60) DEF BufferInv, BufferTypes
  <2>5. buffers'[h] = <<>> /\ cleared'[h] = cleared[h] \cup DOMAIN buffers[h]
    BY <2>1, Zenon DEF BufferInv, BufferTypes
  <2>6. IdInvOf(h)'
    BY <2>1, ZenonT(60) DEF IdInvOf, BufferInv, IdInv
  <2>7. CountedOf(h)'
    BY <2>1, <2>2, <2>3, <2>5, Zenon DEF CountedOf
  <2>8. /\ DOMAIN buffers' = Hosts /\ buffers' = [k \in Hosts |-> buffers'[k]]
        /\ \A k \in Hosts \ {h} : buffers'[k] = buffers[k] /\ cleared'[k] = cleared[k]
    BY <2>1, Zenon DEF BufferInv, BufferTypes
  <2>9. /\ buffers'[h] \in [DOMAIN buffers'[h] -> Descriptions]
        /\ owed'[h] \in [DOMAIN owed'[h] -> Nat] /\ DOMAIN owed'[h] \subseteq Nat \X Nat
    BY <2>1, <2>2, <2>5, Zenon DEF BufferInv, BufferTypes
  <2> QED
    BY <2>1, <2>4, <2>6, <2>7, <2>8, <2>9, OneProcess, ZenonT(60) DEF BufferInv, BufferTypes
<1> QED
  BY <1>1, <1>2, <1>3, <1>4, <1>5, <1>6, <1>7, <1>8, Zenon
  DEF Next, vars, load_and_init_plugin, connect_ipc_queue, cleanup, load, initialize,
      shutdown, unload

-----------------------------------------------------------------------------
(* The initial state satisfies both invariants.                              *)
LEMMA InitInv == Init => SessionInv /\ BufferInv
<1> SUFFICES ASSUME Init
             PROVE  SessionInv /\ BufferInv
  BY Zenon
<1>1. SessionInv
  <2>1. Unopened \in StaticsType
    BY Zenon DEF Unopened, StaticsType
  <2>2. \A h \in Hosts : Closes(h) = {} /\ g[h].default_rm = 0 /\ g[h].instrument = 0
    BY Zenon DEF Init, Closes, Held, Unopened
  <2>3. SessionTypes
    BY <2>1, HostAssumption DEF Init, SessionTypes
  <2>4. \A h \in Hosts : open[h] = {} /\ ~misused[h] /\ ~g[h].initialized
    BY <2>2, Zenon DEF Init, Unopened
  <2> QED
    BY <2>2, <2>3, <2>4, Zenon DEF SessionInv, HostInv
<1>2. BufferInv
  <2>1. DOMAIN <<>> = {} /\ <<>> \in [{} -> Descriptions] /\ <<>> \in [{} -> Nat]
    OBVIOUS
  <2>2. BufferTypes
    BY <2>1, Zenon DEF Init, BufferTypes
  <2>3. IdInv /\ ReferencesAreCounted
    BY <2>1, Zenon DEF Init, IdInv, IdInvOf, ReferencesAreCounted
  <2> QED
    BY <2>2, <2>3, Zenon DEF BufferInv
<1> QED
  BY <1>1, <1>2, Zenon

(* When the last loader of a plugin is gone only sessions whose handle       *)
(* another initialisation overwrote are open, and before one is lost         *)
(* visa_plugin closes each once: in every process, for any number of         *)
(* loaders, and of initialisations, shut down in between or not.             *)
THEOREM Sessions == Spec => []SessionsAreClosed
<1>1. SessionInv => SessionsAreClosed
  BY Zenon DEF SessionInv, HostInv, SessionsAreClosed
<1> QED
  BY <1>1, InitInv, NextSessionInv, PTL DEF Spec

(* A listed buffer has the references its clients hold, and a buffer         *)
(* somebody holds is listed until clear_all, for any number of buffers and   *)
(* references.                                                               *)
THEOREM References == Spec => []ReferencesAreCounted
<1>1. BufferInv => ReferencesAreCounted
  BY Zenon DEF BufferInv
<1> QED
  BY <1>1, InitInv, NextBufferInv, PTL DEF Spec
=============================================================================
