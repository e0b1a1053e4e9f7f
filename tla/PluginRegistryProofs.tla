------------------------ MODULE PluginRegistryProofs ------------------------
(***************************************************************************)
(* Proofs about PluginRegistry, for any number of threads, plugin files    *)
(* and handler calls: libraries are mapped as often as loaders hold them,  *)
(* and discovery forgets no usable file.                                   *)
(***************************************************************************)
EXTENDS PluginRegistry, FiniteSetTheorems, TLAPS

(* The loaders of a file in the registry, and those on the handlers' stacks. *)
Registered(ps, f) == {p \in DOMAIN ps : ps[p] = f}
OnStack(tm, f) == {t \in Threads : tm[t] = f}

CountInv ==
  /\ IsFiniteSet(DOMAIN plugins)
  /\ LibrariesStayMapped

(* A thread at p, running the handler o, has found w, still has to visit td, *)
(* and holds the loader tm on its stack; ps are the protocols that have a    *)
(* plugin, un those unloaded meanwhile.  A usable file it has found is still *)
(* to be visited, at hand, or its protocol has or had a plugin.              *)
ThreadInv(p, o, w, td, tm, ps, un) ==
  /\ tm \in Libs <=> p \in {"check", "load", "drop"}
  /\ p # "idle" => o # "none"
  /\ p \in {"once", "builtin", "try", "scan", "check", "list"} => o # "start"
  /\ p = "list" => td = {}
  /\ p \in {"scan", "check", "load", "drop", "list"} /\ o # "start" =>
       \A f \in w : Kind[f] = "good" =>
         \/ f \in td
         \/ p \in {"check", "load"} /\ tm = f
         \/ Proto[f] \in ps \cup un

ThreadsInv ==
  \A t \in Threads :
    ThreadInv(pc[t], op[t], want[t], todo[t], temp[t], DOMAIN plugins, unloaded[t])

IInv == TypeOK /\ CountInv /\ ThreadsInv

-----------------------------------------------------------------------------
(* Counting loaders.                                                         *)

LEMMA Counts ==
  ASSUME CountInv, NEW f
  PROVE  /\ IsFiniteSet(Registered(plugins, f)) /\ IsFiniteSet(OnStack(temp, f))
         /\ Cardinality(Registered(plugins, f)) \in Nat
         /\ Cardinality(OnStack(temp, f)) \in Nat
         /\ f \in Libs => mapped[f] = Cardinality(Registered(plugins, f))
                                        + Cardinality(OnStack(temp, f))
<1>1. IsFiniteSet(DOMAIN plugins) /\ IsFiniteSet(Threads)
  BY PluginAssumption, Zenon DEF CountInv
<1>2. /\ Registered(plugins, f) \in SUBSET DOMAIN plugins
      /\ OnStack(temp, f) \in SUBSET Threads
  BY Zenon DEF Registered, OnStack
<1>3. IsFiniteSet(Registered(plugins, f)) /\ IsFiniteSet(OnStack(temp, f))
  BY <1>1, <1>2, FS_Subset, Zenon
<1> QED
  BY <1>3, FS_CardinalityType, Zenon DEF CountInv, LibrariesStayMapped, Registered, OnStack

LEMMA OneMore ==
  ASSUME NEW S, IsFiniteSet(S), NEW x, x \notin S
  PROVE  IsFiniteSet(S \cup {x}) /\ Cardinality(S \cup {x}) = Cardinality(S) + 1
  BY FS_AddElement, Zenon

LEMMA OneLess ==
  ASSUME NEW S, IsFiniteSet(S), NEW x \in S
  PROVE  /\ IsFiniteSet(S \ {x}) /\ Cardinality(S \ {x}) = Cardinality(S) - 1
         /\ Cardinality(S) \in Nat /\ Cardinality(S \ {x}) \in Nat
  BY FS_RemoveElement, FS_CardinalityType, Zenon

(* A loader on a handler's stack.                                            *)
LEMMA StackOpens ==
  ASSUME CountInv, mapped \in [Libs -> Nat], DOMAIN temp = Threads,
         NEW t \in Threads, temp[t] \notin Libs, NEW f \in Libs,
         temp' = [temp EXCEPT ![t] = f], Open(f), plugins' = plugins
  PROVE  CountInv' /\ mapped' \in [Libs -> Nat]
<1>1. mapped' = [mapped EXCEPT ![f] = mapped[f] + 1]
  BY Zenon DEF Open
<1>2. OnStack(temp', f) = OnStack(temp, f) \cup {t} /\ t \notin OnStack(temp, f)
  BY Zenon DEF OnStack
<1>3. \A g \in Libs : g # f => OnStack(temp', g) = OnStack(temp, g)
  BY Zenon DEF OnStack
<1>4. Cardinality(OnStack(temp', f)) = Cardinality(OnStack(temp, f)) + 1
  BY <1>2, Counts, OneMore, Zenon
<1>5. ASSUME NEW g \in Libs
      PROVE  mapped'[g] = Cardinality(Registered(plugins', g)) + Cardinality(OnStack(temp', g))
  <2>1. /\ mapped[g] = Cardinality(Registered(plugins, g)) + Cardinality(OnStack(temp, g))
        /\ Cardinality(Registered(plugins, g)) \in Nat /\ Cardinality(OnStack(temp, g)) \in Nat
    BY Counts, Zenon
  <2>2. mapped'[g] = IF g = f THEN mapped[g] + 1 ELSE mapped[g]
    BY <1>1, Zenon
  <2>3. Registered(plugins', g) = Registered(plugins, g)
    BY Zenon
  <2>4. CASE g = f
    BY <1>4, <2>1, <2>2, <2>3, <2>4
  <2>5. CASE g # f
    BY ONLY <1>3, <2>1, <2>2, <2>3, <2>5, g \in Libs, Zenon
  <2> QED
    BY <2>4, <2>5, Zenon
<1> QED
  BY <1>1, <1>5 DEF CountInv, LibrariesStayMapped, Registered, OnStack

LEMMA StackCloses ==
  ASSUME CountInv, mapped \in [Libs -> Nat], DOMAIN temp = Threads,
         NEW t \in Threads, temp[t] \in Libs,
         temp' = [temp EXCEPT ![t] = NoLib], Close(temp[t]), plugins' = plugins
  PROVE  CountInv' /\ mapped' \in [Libs -> Nat]
<1> DEFINE f == temp[t]
<1>1. mapped' = [mapped EXCEPT ![f] = mapped[f] - 1]
  BY Zenon DEF Close
<1>2. OnStack(temp', f) = OnStack(temp, f) \ {t} /\ t \in OnStack(temp, f)
  BY PluginAssumption, Zenon DEF OnStack
<1>3. \A g \in Libs : g # f => OnStack(temp', g) = OnStack(temp, g)
  BY PluginAssumption, Zenon DEF OnStack
<1>4. /\ Cardinality(OnStack(temp', f)) = Cardinality(OnStack(temp, f)) - 1
      /\ Cardinality(OnStack(temp', f)) \in Nat
  BY <1>2, Counts, OneLess, Zenon
<1>5. ASSUME NEW g \in Libs
      PROVE  /\ mapped'[g] = Cardinality(Registered(plugins', g))
                               + Cardinality(OnStack(temp', g))
             /\ mapped'[g] \in Nat
  <2>1. /\ mapped[g] = Cardinality(Registered(plugins, g)) + Cardinality(OnStack(temp, g))
        /\ Cardinality(Registered(plugins, g)) \in Nat /\ Cardinality(OnStack(temp, g)) \in Nat
    BY Counts, Zenon
  <2>2. mapped'[g] = IF g = f THEN mapped[g] - 1 ELSE mapped[g]
    BY <1>1, Zenon
  <2>3. Registered(plugins', g) = Registered(plugins, g)
    BY Zenon
  <2>4. CASE g = f
    BY <1>4, <2>1, <2>2, <2>3, <2>4
  <2>5. CASE g # f
    BY ONLY <1>3, <2>1, <2>2, <2>3, <2>5, g \in Libs, SMTT(30)
  <2> QED
    BY <2>4, <2>5, Zenon
<1> QED
  BY <1>1, <1>5, Zenon DEF CountInv, LibrariesStayMapped, Registered, OnStack

(* A loader in the registry.                                                 *)
LEMMA RegistryOpens ==
  ASSUME CountInv, mapped \in [Libs -> Nat], NEW p, p \notin DOMAIN plugins, NEW f \in Libs,
         plugins' = With(p, f), Open(f), temp' = temp
  PROVE  CountInv' /\ mapped' \in [Libs -> Nat] /\ DOMAIN plugins' = DOMAIN plugins \cup {p}
<1>1. mapped' = [mapped EXCEPT ![f] = mapped[f] + 1]
  BY Zenon DEF Open
<1>2. /\ DOMAIN plugins' = DOMAIN plugins \cup {p} /\ plugins'[p] = f
      /\ \A q \in DOMAIN plugins : plugins'[q] = plugins[q]
  BY Zenon DEF With
<1>3. /\ Registered(plugins', f) = Registered(plugins, f) \cup {p}
      /\ p \notin Registered(plugins, f)
      /\ \A g \in Libs : g # f => Registered(plugins', g) = Registered(plugins, g)
  BY <1>2, Zenon DEF Registered
<1>4. /\ Cardinality(Registered(plugins', f)) = Cardinality(Registered(plugins, f)) + 1
      /\ IsFiniteSet(DOMAIN plugins')
  BY <1>2, <1>3, Counts, OneMore DEF CountInv
<1>5. ASSUME NEW g \in Libs
      PROVE  mapped'[g] = Cardinality(Registered(plugins', g)) + Cardinality(OnStack(temp', g))
  <2>1. /\ mapped[g] = Cardinality(Registered(plugins, g)) + Cardinality(OnStack(temp, g))
        /\ Cardinality(Registered(plugins, g)) \in Nat /\ Cardinality(OnStack(temp, g)) \in Nat
    BY Counts, Zenon
  <2>2. mapped'[g] = IF g = f THEN mapped[g] + 1 ELSE mapped[g]
    BY <1>1, Zenon
  <2> QED
    BY <1>3, <1>4, <2>1, <2>2, SMTT(30)
<1> QED
  BY <1>1, <1>2, <1>4, <1>5 DEF CountInv, LibrariesStayMapped, Registered, OnStack

LEMMA RegistryCloses ==
  ASSUME CountInv, mapped \in [Libs -> Nat], NEW p \in DOMAIN plugins, plugins[p] \in Libs,
         plugins' = [q \in DOMAIN plugins \ {p} |-> plugins[q]], Close(plugins[p]),
         temp' = temp
  PROVE  CountInv' /\ mapped' \in [Libs -> Nat]
<1> DEFINE f == plugins[p]
<1>1. mapped' = [mapped EXCEPT ![f] = mapped[f] - 1]
  BY Zenon DEF Close
<1>2. /\ DOMAIN plugins' = DOMAIN plugins \ {p}
      /\ \A q \in DOMAIN plugins' : plugins'[q] = plugins[q]
  BY Zenon
<1>3. /\ Registered(plugins', f) = Registered(plugins, f) \ {p}
      /\ p \in Registered(plugins, f)
      /\ \A g \in Libs : g # f => Registered(plugins', g) = Registered(plugins, g)
  BY <1>2, Zenon DEF Registered
<1>4. /\ Cardinality(Registered(plugins', f)) = Cardinality(Registered(plugins, f)) - 1
      /\ Cardinality(Registered(plugins', f)) \in Nat
      /\ IsFiniteSet(DOMAIN plugins')
  BY <1>2, <1>3, Counts, OneLess, ZenonT(60) DEF CountInv
<1>5. ASSUME NEW g \in Libs
      PROVE  /\ mapped'[g] = Cardinality(Registered(plugins', g))
                               + Cardinality(OnStack(temp', g))
             /\ mapped'[g] \in Nat
  <2>1. /\ mapped[g] = Cardinality(Registered(plugins, g)) + Cardinality(OnStack(temp, g))
        /\ Cardinality(Registered(plugins, g)) \in Nat /\ Cardinality(OnStack(temp, g)) \in Nat
    BY Counts, Zenon
  <2>2. mapped'[g] = IF g = f THEN mapped[g] - 1 ELSE mapped[g]
    BY <1>1, Zenon
  <2> QED
    BY <1>3, <1>4, <2>1, <2>2
<1> QED
  BY <1>1, <1>4, <1>5, Zenon DEF CountInv, LibrariesStayMapped, Registered, OnStack

-----------------------------------------------------------------------------
(* Threads.                                                                  *)

(* What a thread has found stays found when others load or unload plugins.   *)
LEMMA OthersLoad ==
  ASSUME NEW p, NEW o, NEW w, NEW td, NEW tm, NEW ps, NEW un, NEW ps2,
         ThreadInv(p, o, w, td, tm, ps, un), ps \subseteq ps2
  PROVE  ThreadInv(p, o, w, td, tm, ps2, un)
  BY Zenon DEF ThreadInv

LEMMA OthersUnload ==
  ASSUME NEW p, NEW o, NEW w, NEW td, NEW tm, NEW ps, NEW un, NEW q, NEW un2,
         ThreadInv(p, o, w, td, tm, ps, un),
         un \subseteq un2, o # "none" => un2 = un \cup {q}
  PROVE  ThreadInv(p, o, w, td, tm, ps \ {q}, un2)
<1>1. p # "idle" => o # "none"
  BY Zenon DEF ThreadInv
<1> QED
  BY <1>1, Zenon DEF ThreadInv

(* Only t takes a step, and no plugin is unloaded.                           *)
Only(t) ==
  /\ DOMAIN plugins \subseteq DOMAIN plugins'
  /\ \A u \in Threads : u # t =>
       /\ pc'[u] = pc[u] /\ op'[u] = op[u] /\ want'[u] = want[u] /\ todo'[u] = todo[u]
       /\ temp'[u] = temp[u] /\ unloaded'[u] = unloaded[u]

LEMMA ThreadStep ==
  ASSUME ThreadsInv, NEW t \in Threads, Only(t),
         ThreadInv(pc'[t], op'[t], want'[t], todo'[t], temp'[t], DOMAIN plugins', unloaded'[t])
  PROVE  ThreadsInv'
<1> SUFFICES ASSUME NEW u \in Threads, u # t
             PROVE  ThreadInv(pc'[u], op'[u], want'[u], todo'[u], temp'[u],
                              DOMAIN plugins', unloaded'[u])
  BY Zenon DEF ThreadsInv
<1>1. ThreadInv(pc[u], op[u], want[u], todo[u], temp[u], DOMAIN plugins, unloaded[u])
  BY Zenon DEF ThreadsInv
<1>2. ThreadInv(pc[u], op[u], want[u], todo[u], temp[u], DOMAIN plugins', unloaded[u])
  BY <1>1, OthersLoad, Zenon DEF Only
<1> QED
  BY <1>2, Zenon DEF Only

(* Nothing but pc, todo and the flags of call_once changes.                  *)
LEMMA CountStays ==
  ASSUME CountInv, UNCHANGED <<plugins, mapped, temp>>
  PROVE  CountInv'
  BY Zenon DEF CountInv, LibrariesStayMapped

Locations == {"idle", "once", "builtin", "try", "scan", "check", "load", "drop", "list",
              "create"}
Replies == {Error} \cup {Listed(ps) : ps \in SUBSET Protocols}
             \cup {Used(f) : f \in Libs \cup {NoLib}}

(* The first step of a handler.                                              *)
LEMMA NextBegin ==
  ASSUME IInv, NEW t \in Threads, NEW h \in {"discover", "plugins", "start"},
         NEW first \in {"once", "load", "create"},
         first = "once" <=> h # "start", Begin(t, h, first),
         want' \in [Threads -> SUBSET Libs], \A u \in Threads : u # t => want'[u] = want[u],
         asked' \in [Threads -> Protocols],
         temp' \in [Threads -> Libs \cup {NoLib}],
         \A u \in Threads : u # t => temp'[u] = temp[u],
         temp'[t] \in Libs <=> first = "load",
         CountInv', mapped' \in [Libs -> Nat]
  PROVE  IInv'
<1>1. TypeOK /\ ThreadsInv
  BY Zenon DEF IInv
<1>2. /\ pc[t] = "idle" /\ calls < MaxCalls /\ calls' = calls + 1
      /\ op' = [op EXCEPT ![t] = h] /\ pc' = [pc EXCEPT ![t] = first]
      /\ UNCHANGED <<plugins, once, todo, tries, reply, unloaded>>
  BY Zenon DEF Begin
<1>3. /\ op' \in [Threads -> Handlers \cup {"none"}] /\ op'[t] = h
      /\ pc' \in [Threads -> Locations] /\ pc'[t] = first
      /\ \A u \in Threads : u # t => op'[u] = op[u] /\ pc'[u] = pc[u]
  BY <1>1, <1>2, ZenonT(60) DEF TypeOK, Handlers, Locations
<1>4. calls' \in 0..MaxCalls
  BY <1>1, <1>2, PluginAssumption DEF TypeOK
<1>5. TypeOK'
  BY <1>1, <1>2, <1>3, <1>4, Zenon DEF TypeOK, Locations
<1>6. Only(t)
  BY <1>2, <1>3, Zenon DEF Only
<1>7. ThreadInv(pc'[t], op'[t], want'[t], todo'[t], temp'[t], DOMAIN plugins', unloaded'[t])
  BY <1>3, Zenon DEF ThreadInv
<1> QED
  BY <1>1, <1>5, <1>6, <1>7, ThreadStep, Zenon DEF IInv

(* The last step of a handler.                                               *)
LEMMA NextReturn ==
  ASSUME IInv, NEW t \in Threads, NEW r \in Replies, Return(t, r),
         UNCHANGED <<plugins, mapped, temp, tries>>, temp[t] \notin Libs,
         once' \in [{"discover", "plugins"} -> {"new", "done"} \cup Threads],
         todo' \in [Threads -> SUBSET Libs], \A u \in Threads : u # t => todo'[u] = todo[u],
         calls' \in 0..MaxCalls
  PROVE  IInv'
<1>1. TypeOK /\ CountInv /\ ThreadsInv
  BY Zenon DEF IInv
<1>2. /\ pc' = [pc EXCEPT ![t] = "idle"] /\ op' = [op EXCEPT ![t] = "none"]
      /\ reply' = [reply EXCEPT ![t] = r] /\ want' = [want EXCEPT ![t] = {}]
      /\ asked' = [asked EXCEPT ![t] = Builtin]
      /\ unloaded' = [unloaded EXCEPT ![t] = {}]
  BY Zenon DEF Return
<1>3. /\ pc \in [Threads -> Locations] /\ op \in [Threads -> Handlers \cup {"none"}]
      /\ want \in [Threads -> SUBSET Libs] /\ asked \in [Threads -> Protocols]
      /\ unloaded \in [Threads -> SUBSET Protocols] /\ reply \in [Threads -> Replies]
  BY <1>1, Zenon DEF TypeOK, Locations, Replies
<1>4. Builtin \in Protocols /\ "idle" \in Locations
  BY Zenon DEF Protocols, Locations
<1>5. /\ pc' \in [Threads -> Locations] /\ pc'[t] = "idle"
      /\ \A u \in Threads : u # t => pc'[u] = pc[u]
  BY <1>2, <1>3, <1>4, Zenon
<1>6. /\ op' \in [Threads -> Handlers \cup {"none"}]
      /\ \A u \in Threads : u # t => op'[u] = op[u]
  BY <1>2, <1>3, Zenon
<1>7. /\ want' \in [Threads -> SUBSET Libs] /\ unloaded' \in [Threads -> SUBSET Protocols]
      /\ asked' \in [Threads -> Protocols]
      /\ \A u \in Threads : u # t => want'[u] = want[u] /\ unloaded'[u] = unloaded[u]
  BY <1>2, <1>3, <1>4, Zenon
<1>8. reply' \in [Threads -> Replies]
  BY <1>2, <1>3, Zenon
<1>9. TypeOK'
  BY <1>1, <1>5, <1>6, <1>7, <1>8, Zenon DEF TypeOK, Locations, Replies
<1>10. Only(t)
  BY <1>5, <1>6, <1>7, Zenon DEF Only
<1>11. ThreadInv(pc'[t], op'[t], want'[t], todo'[t], temp'[t], DOMAIN plugins', unloaded'[t])
  BY <1>5, Zenon DEF ThreadInv
<1> QED
  BY <1>1, <1>9, <1>10, <1>11, CountStays, ThreadStep, Zenon DEF IInv

LEMMA NextThrows ==
  ASSUME IInv, NEW t \in Threads, NEW f \in Libs, handle_start_throws(t, f)
  PROVE  IInv'
<1>1. /\ TypeOK /\ ThreadsInv /\ pc[t] = "idle" /\ calls < MaxCalls /\ calls' = calls + 1
      /\ Return(t, Error) /\ UNCHANGED <<plugins, mapped, once, todo, temp, tries>>
  BY Zenon DEF IInv, handle_start_throws
<1>2. temp[t] \notin Libs
  BY <1>1, Zenon DEF ThreadsInv, ThreadInv
<1>3. /\ calls' \in 0..MaxCalls /\ todo' \in [Threads -> SUBSET Libs]
      /\ once' \in [{"discover", "plugins"} -> {"new", "done"} \cup Threads]
  BY <1>1, PluginAssumption DEF TypeOK
<1>4. Error \in Replies
  BY Zenon DEF Replies
<1> QED
  BY <1>1, <1>2, <1>3, <1>4, NextReturn, Zenon

LEMMA NextCall ==
  ASSUME IInv, NEW t \in Threads, Call(t)
  PROVE  IInv'
<1>1. TypeOK /\ CountInv /\ ThreadsInv
  BY Zenon DEF IInv
<1>2. /\ mapped \in [Libs -> Nat] /\ want \in [Threads -> SUBSET Libs]
      /\ asked \in [Threads -> Protocols] /\ temp \in [Threads -> Libs \cup {NoLib}]
  BY <1>1, Zenon DEF TypeOK
<1>3. pc[t] = "idle" => temp[t] \notin Libs
  BY <1>1, Zenon DEF ThreadsInv, ThreadInv
<1>4. ASSUME NEW h \in {"discover", "plugins"}, Begin(t, h, "once"),
             NEW S \in SUBSET Libs, want' = [want EXCEPT ![t] = S],
             UNCHANGED <<mapped, temp, asked>>
      PROVE  IInv'
  <2>1. /\ want' \in [Threads -> SUBSET Libs]
        /\ \A u \in Threads : u # t => want'[u] = want[u]
    BY <1>2, <1>4, Zenon
  <2>2. CountInv' /\ pc[t] = "idle"
    BY <1>1, <1>4, CountStays, Zenon DEF Begin
  <2>3. temp'[t] \in Libs <=> "once" = "load"
    BY <1>3, <1>4, <2>2, Zenon
  <2> QED
    BY <1>2, <1>4, <2>1, <2>2, <2>3, NextBegin, SMTT(30)
<1>5. ASSUME NEW S \in Searches, handle_discover(t, S) PROVE IInv'
  <2>1. S \in SUBSET Libs
    BY PluginAssumption, Zenon
  <2> QED
    BY <1>4, <1>5, <2>1, Zenon DEF handle_discover
<1>6. CASE handle_plugins(t)
  <2>1. Standard \in SUBSET Libs
    BY PluginAssumption, Zenon
  <2> QED
    BY <1>4, <1>6, <2>1, Zenon DEF handle_plugins
<1>7. ASSUME NEW p \in Protocols, handle_start(t, p) PROVE IInv'
  <2>1. /\ Begin(t, "start", "create") /\ asked' = [asked EXCEPT ![t] = p]
        /\ UNCHANGED <<mapped, temp, want, plugins>> /\ pc[t] = "idle"
    BY <1>7, Zenon DEF handle_start, Begin
  <2>2. asked' \in [Threads -> Protocols] /\ CountInv'
    BY <1>1, <1>2, <2>1, CountStays, Zenon
  <2>3. temp'[t] \in Libs <=> "create" = "load"
    BY <1>3, <2>1, Zenon
  <2> QED
    BY <1>2, <2>1, <2>2, <2>3, NextBegin, Zenon
<1>8. ASSUME NEW p \in Protocols, NEW f \in Libs, handle_start_custom(t, p, f) PROVE IInv'
  <2>1. /\ Begin(t, "start", "load") /\ asked' = [asked EXCEPT ![t] = p]
        /\ temp' = [temp EXCEPT ![t] = f] /\ Open(f)
        /\ want' = want /\ pc[t] = "idle" /\ plugins' = plugins
    BY <1>8, Zenon DEF handle_start_custom, Begin
  <2>2. asked' \in [Threads -> Protocols]
    BY <1>2, <2>1, Zenon
  <2>3. CountInv' /\ mapped' \in [Libs -> Nat]
    BY <1>1, <1>2, <1>3, <2>1, StackOpens, Zenon
  <2>4. /\ temp' \in [Threads -> Libs \cup {NoLib}] /\ temp'[t] \in Libs
        /\ \A u \in Threads : u # t => temp'[u] = temp[u]
    BY <1>2, <2>1, Zenon
  <2> QED
    BY <1>2, <2>1, <2>2, <2>3, <2>4, NextBegin, ZenonT(60)
<1>9. ASSUME NEW f \in Libs, handle_start_throws(t, f) PROVE IInv'
  BY <1>9, NextThrows, Zenon
<1> QED
  BY <1>5, <1>6, <1>7, <1>8, <1>9, Zenon DEF Call

PluginsOK ==
  DOMAIN plugins \subseteq Protocols /\ \A p \in DOMAIN plugins : plugins[p] \in Libs

(* A step inside a handler.                                                  *)
LEMMA NextInside ==
  ASSUME IInv, NEW t \in Threads, NEW l \in Locations,
         pc' = [pc EXCEPT ![t] = l], UNCHANGED <<op, want, asked, reply, calls, unloaded>>,
         tries' \in [Threads -> Seq(Libs)],
         once' \in [{"discover", "plugins"} -> {"new", "done"} \cup Threads],
         todo' \in [Threads -> SUBSET Libs], \A u \in Threads : u # t => todo'[u] = todo[u],
         temp' \in [Threads -> Libs \cup {NoLib}],
         \A u \in Threads : u # t => temp'[u] = temp[u],
         PluginsOK', DOMAIN plugins \subseteq DOMAIN plugins',
         CountInv', mapped' \in [Libs -> Nat],
         ThreadInv(l, op[t], want[t], todo'[t], temp'[t], DOMAIN plugins', unloaded[t])
  PROVE  IInv'
<1>1. TypeOK /\ ThreadsInv
  BY Zenon DEF IInv
<1>2. pc \in [Threads -> Locations]
  BY <1>1, Zenon DEF TypeOK, Locations
<1>3. /\ pc' \in [Threads -> Locations] /\ pc'[t] = l
      /\ \A u \in Threads : u # t => pc'[u] = pc[u]
  BY <1>2, Zenon
<1>4. TypeOK'
  BY <1>1, <1>3, Zenon DEF TypeOK, Locations, PluginsOK
<1>5. Only(t)
  BY <1>3, Zenon DEF Only
<1>6. ThreadInv(pc'[t], op'[t], want'[t], todo'[t], temp'[t], DOMAIN plugins', unloaded'[t])
  BY <1>3, Zenon
<1> QED
  BY <1>1, <1>4, <1>5, <1>6, ThreadStep, Zenon DEF IInv

(* The same, without loading or visiting a file.                             *)
LEMMA NextQuiet ==
  ASSUME IInv, NEW t \in Threads, NEW l \in Locations,
         pc' = [pc EXCEPT ![t] = l], UNCHANGED <<op, want, asked, reply, calls, unloaded>>,
         UNCHANGED <<plugins, mapped, temp>>,
         tries' \in [Threads -> Seq(Libs)],
         once' \in [{"discover", "plugins"} -> {"new", "done"} \cup Threads],
         todo' \in [Threads -> SUBSET Libs], \A u \in Threads : u # t => todo'[u] = todo[u],
         ThreadInv(l, op[t], want[t], todo'[t], temp[t], DOMAIN plugins, unloaded[t])
  PROVE  IInv'
<1>1. TypeOK /\ CountInv
  BY Zenon DEF IInv
<1>2. CountInv'
  BY <1>1, CountStays, Zenon
<1>3. /\ PluginsOK' /\ mapped' \in [Libs -> Nat] /\ DOMAIN plugins \subseteq DOMAIN plugins'
      /\ temp' \in [Threads -> Libs \cup {NoLib}]
      /\ \A u \in Threads : u # t => temp'[u] = temp[u]
  BY <1>1, Zenon DEF TypeOK, PluginsOK
<1>4. ThreadInv(l, op[t], want[t], todo'[t], temp'[t], DOMAIN plugins', unloaded[t])
  BY Zenon
<1> QED
  BY <1>2, <1>3, <1>4, NextInside, Zenon

LEMMA Typed ==
  ASSUME IInv, NEW t \in Threads
  PROVE  /\ pc \in [Threads -> Locations] /\ op[t] \in Handlers \cup {"none"}
         /\ want[t] \in SUBSET Libs /\ todo \in [Threads -> SUBSET Libs]
         /\ tries \in [Threads -> Seq(Libs)] /\ temp \in [Threads -> Libs \cup {NoLib}]
         /\ once \in [{"discover", "plugins"} -> {"new", "done"} \cup Threads]
         /\ mapped \in [Libs -> Nat] /\ PluginsOK /\ CountInv
         /\ ThreadInv(pc[t], op[t], want[t], todo[t], temp[t], DOMAIN plugins, unloaded[t])
  BY Zenon DEF IInv, TypeOK, ThreadsInv, PluginsOK, Locations

(* call_once and the end of the built-in plugins, after which the search     *)
(* begins with every file.                                                   *)
LEMMA NextSearch ==
  ASSUME IInv, NEW t \in Threads, pc[t] \in {"once", "try", "scan"},
         pc' = [pc EXCEPT ![t] = "scan"], todo' = [todo EXCEPT ![t] = want[t]],
         UNCHANGED <<plugins, mapped, temp, locals>>,
         once' \in [{"discover", "plugins"} -> {"new", "done"} \cup Threads]
  PROVE  IInv'
<1>1. /\ todo \in [Threads -> SUBSET Libs] /\ want[t] \in SUBSET Libs
      /\ tries \in [Threads -> Seq(Libs)]
      /\ ThreadInv(pc[t], op[t], want[t], todo[t], temp[t], DOMAIN plugins, unloaded[t])
  BY Typed, Zenon
<1>2. /\ todo' \in [Threads -> SUBSET Libs] /\ todo'[t] = want[t]
      /\ \A u \in Threads : u # t => todo'[u] = todo[u]
  BY <1>1, Zenon
<1>3. ThreadInv("scan", op[t], want[t], want[t], temp[t], DOMAIN plugins, unloaded[t])
  BY <1>1, Zenon DEF ThreadInv
<1>4. "scan" \in Locations /\ UNCHANGED <<tries, op, want, asked, reply, calls, unloaded>>
  BY Zenon DEF Locations, locals
<1> QED
  BY <1>1, <1>2, <1>3, <1>4, NextQuiet, ZenonT(60)

LEMMA NextOnceEnter ==
  ASSUME IInv, NEW t \in Threads, call_once_enter(t)
  PROVE  IInv'
<1>1. /\ pc[t] = "once" /\ once' = [once EXCEPT ![op[t]] = t]
      /\ pc' = [pc EXCEPT ![t] = "builtin"]
      /\ UNCHANGED <<plugins, mapped, todo, temp, op, want, tries, asked, reply, calls,
                     unloaded>>
  BY Zenon DEF call_once_enter, Goto, locals
<1>2. /\ op[t] \in Handlers \cup {"none"} /\ todo \in [Threads -> SUBSET Libs]
      /\ tries \in [Threads -> Seq(Libs)]
      /\ once \in [{"discover", "plugins"} -> {"new", "done"} \cup Threads]
      /\ ThreadInv("once", op[t], want[t], todo[t], temp[t], DOMAIN plugins, unloaded[t])
  BY <1>1, Typed, Zenon
<1>3. op[t] \in {"discover", "plugins"}
  BY <1>2, Zenon DEF ThreadInv, Handlers
<1>4. once' \in [{"discover", "plugins"} -> {"new", "done"} \cup Threads]
  BY <1>1, <1>2, <1>3, Zenon
<1>5. ThreadInv("builtin", op[t], want[t], todo[t], temp[t], DOMAIN plugins, unloaded[t])
  BY <1>2, Zenon DEF ThreadInv
<1>6. "builtin" \in Locations
  BY Zenon DEF Locations
<1> QED
  BY <1>1, <1>2, <1>4, <1>5, <1>6, NextQuiet, Zenon

LEMMA NextOnceSkip ==
  ASSUME IInv, NEW t \in Threads, call_once_skip(t)
  PROVE  IInv'
<1>1. /\ pc[t] = "once" /\ pc' = [pc EXCEPT ![t] = "scan"]
      /\ todo' = [todo EXCEPT ![t] = want[t]]
      /\ UNCHANGED <<plugins, mapped, temp, locals>> /\ once' = once
  BY Zenon DEF call_once_skip, Goto
<1>2. once' \in [{"discover", "plugins"} -> {"new", "done"} \cup Threads]
  BY <1>1, Typed, Zenon
<1>3. pc[t] \in {"once", "try", "scan"}
  BY <1>1, Zenon
<1> QED
  BY <1>1, <1>2, <1>3, NextSearch, Zenon

LEMMA NextBuiltinPlugins ==
  ASSUME IInv, NEW t \in Threads, load_builtin_plugins(t)
  PROVE  IInv'
<1>1. /\ pc[t] = "builtin" /\ pc' = [pc EXCEPT ![t] = "try"]
      /\ tries' = [tries EXCEPT ![t] = IF has_plugin(Builtin) THEN <<>> ELSE Builtins]
      /\ UNCHANGED <<plugins, mapped, once, todo, temp, op, want, asked, reply, calls,
                     unloaded>>
  BY Zenon DEF load_builtin_plugins, Goto
<1>2. /\ todo \in [Threads -> SUBSET Libs] /\ tries \in [Threads -> Seq(Libs)]
      /\ once \in [{"discover", "plugins"} -> {"new", "done"} \cup Threads]
      /\ ThreadInv("builtin", op[t], want[t], todo[t], temp[t], DOMAIN plugins, unloaded[t])
  BY <1>1, Typed, Zenon
<1>3. tries' \in [Threads -> Seq(Libs)]
  BY <1>1, <1>2, PluginAssumption
<1>4. ThreadInv("try", op[t], want[t], todo[t], temp[t], DOMAIN plugins, unloaded[t])
  BY <1>2, Zenon DEF ThreadInv
<1>5. "try" \in Locations
  BY Zenon DEF Locations
<1> QED
  BY <1>1, <1>2, <1>3, <1>4, <1>5, NextQuiet, Zenon

LEMMA NextBuiltinsEnd ==
  ASSUME IInv, NEW t \in Threads, builtins_end(t)
  PROVE  IInv'
<1>1. /\ pc[t] = "try" /\ pc' = [pc EXCEPT ![t] = "scan"]
      /\ todo' = [todo EXCEPT ![t] = want[t]]
      /\ once' = IF op[t] = "plugins" THEN [once EXCEPT ![op[t]] = "done"] ELSE once
      /\ UNCHANGED <<plugins, mapped, temp, locals>>
  BY Zenon DEF builtins_end, Goto
<1>2. once \in [{"discover", "plugins"} -> {"new", "done"} \cup Threads]
  BY Typed, Zenon
<1>3. once' \in [{"discover", "plugins"} -> {"new", "done"} \cup Threads]
  BY <1>1, <1>2, Zenon
<1>4. pc[t] \in {"once", "try", "scan"}
  BY <1>1, Zenon
<1> QED
  BY <1>1, <1>3, <1>4, NextSearch, Zenon

LEMMA NextScanEndOnce ==
  ASSUME IInv, NEW t \in Threads, scan_end_once(t)
  PROVE  IInv'
<1>1. /\ pc[t] = "scan" /\ pc' = pc
      /\ todo' = [todo EXCEPT ![t] = want[t]]
      /\ once' = [once EXCEPT !["discover"] = "done"]
      /\ UNCHANGED <<plugins, mapped, temp, locals>>
  BY Zenon DEF scan_end_once
<1>2. /\ once \in [{"discover", "plugins"} -> {"new", "done"} \cup Threads]
      /\ pc \in [Threads -> Locations]
  BY Typed, Zenon
<1>3. once' \in [{"discover", "plugins"} -> {"new", "done"} \cup Threads]
  BY <1>1, <1>2, Zenon
<1>4. pc[t] \in {"once", "try", "scan"} /\ pc' = [pc EXCEPT ![t] = "scan"]
  BY <1>1, <1>2, Zenon
<1> QED
  BY <1>1, <1>3, <1>4, NextSearch, Zenon

(* A file that is passed over is not a usable one.                           *)
LEMMA NextScanBroken ==
  ASSUME IInv, NEW t \in Threads, scan_broken(t)
  PROVE  IInv'
<1>1. /\ pc[t] = "scan" /\ pc' = pc
      /\ UNCHANGED <<plugins, mapped, once, temp, op, want, tries, asked, reply, calls,
                     unloaded>>
  BY Zenon DEF scan_broken, locals
<1>2. PICK f \in todo[t] : Kind[f] = "broken" /\ todo' = [todo EXCEPT ![t] = @ \ {f}]
  BY Zenon DEF scan_broken
<1>3. /\ pc \in [Threads -> Locations] /\ todo \in [Threads -> SUBSET Libs]
      /\ tries \in [Threads -> Seq(Libs)]
      /\ once \in [{"discover", "plugins"} -> {"new", "done"} \cup Threads]
      /\ ThreadInv("scan", op[t], want[t], todo[t], temp[t], DOMAIN plugins, unloaded[t])
  BY <1>1, Typed, Zenon
<1>4. /\ todo' \in [Threads -> SUBSET Libs] /\ todo'[t] = todo[t] \ {f}
      /\ \A u \in Threads : u # t => todo'[u] = todo[u]
  BY <1>2, <1>3, Zenon
<1>5. ThreadInv("scan", op[t], want[t], todo'[t], temp[t], DOMAIN plugins, unloaded[t])
  BY <1>2, <1>3, <1>4, Zenon DEF ThreadInv
<1>6. "scan" \in Locations /\ pc' = [pc EXCEPT ![t] = "scan"]
  BY <1>1, <1>3, Zenon DEF Locations
<1> QED
  BY <1>1, <1>3, <1>4, <1>5, <1>6, NextQuiet, ZenonT(60)

(* The loader on the stack says no more than the registry: its protocol has  *)
(* a plugin already.                                                         *)
LEMMA NextCheck ==
  ASSUME IInv, NEW t \in Threads, check(t)
  PROVE  IInv'
<1> DEFINE l == IF has_plugin(Proto[temp[t]]) THEN "drop" ELSE "load"
<1>1. /\ pc[t] = "check" /\ pc' = [pc EXCEPT ![t] = l]
      /\ UNCHANGED <<plugins, mapped, once, todo, temp, op, want, tries, asked, reply, calls,
                     unloaded>>
  BY Zenon DEF check, Goto, locals
<1>2. /\ todo \in [Threads -> SUBSET Libs] /\ tries \in [Threads -> Seq(Libs)]
      /\ once \in [{"discover", "plugins"} -> {"new", "done"} \cup Threads]
      /\ ThreadInv("check", op[t], want[t], todo[t], temp[t], DOMAIN plugins, unloaded[t])
  BY <1>1, Typed, Zenon
<1>3. ThreadInv(l, op[t], want[t], todo[t], temp[t], DOMAIN plugins, unloaded[t])
  <2>1. CASE has_plugin(Proto[temp[t]])
    BY <1>2, <2>1, Zenon DEF ThreadInv, has_plugin
  <2>2. CASE ~has_plugin(Proto[temp[t]])
    BY <1>2, <2>2, Zenon DEF ThreadInv
  <2> QED
    BY <2>1, <2>2, Zenon
<1>4. l \in Locations
  BY Zenon DEF Locations
<1> HIDE DEF l
<1> QED
  BY <1>1, <1>2, <1>3, <1>4, NextQuiet, Zenon

(* The search ends when no file is left to visit.                            *)
LEMMA NextScanEnd ==
  ASSUME IInv, NEW t \in Threads, scan_end(t)
  PROVE  IInv'
<1>1. /\ pc[t] = "scan" /\ pc' = [pc EXCEPT ![t] = "list"] /\ todo[t] = {}
      /\ UNCHANGED <<plugins, mapped, once, todo, temp, op, want, tries, asked, reply, calls,
                     unloaded>>
  BY Zenon DEF scan_end, Goto, locals
<1>2. /\ todo \in [Threads -> SUBSET Libs] /\ tries \in [Threads -> Seq(Libs)]
      /\ once \in [{"discover", "plugins"} -> {"new", "done"} \cup Threads]
      /\ ThreadInv("scan", op[t], want[t], todo[t], temp[t], DOMAIN plugins, unloaded[t])
  BY <1>1, Typed, Zenon
<1>3. ThreadInv("list", op[t], want[t], todo[t], temp[t], DOMAIN plugins, unloaded[t])
  BY <1>1, <1>2, Zenon DEF ThreadInv
<1>4. "list" \in Locations
  BY Zenon DEF Locations
<1> QED
  BY <1>1, <1>2, <1>3, <1>4, NextQuiet, Zenon

(* The steps that open and close libraries.                                  *)
LEMMA NextScan ==
  ASSUME IInv, NEW t \in Threads, scan(t)
  PROVE  IInv'
<1>1. /\ pc[t] = "scan" /\ pc' = [pc EXCEPT ![t] = "check"]
      /\ UNCHANGED <<plugins, once, op, want, tries, asked, reply, calls, unloaded>>
  BY Zenon DEF scan, Goto, locals
<1>2. PICK f \in todo[t] :
        /\ Kind[f] # "broken" /\ todo' = [todo EXCEPT ![t] = @ \ {f}]
        /\ temp' = [temp EXCEPT ![t] = f] /\ Open(f)
  BY Zenon DEF scan
<1>3. /\ todo \in [Threads -> SUBSET Libs] /\ tries \in [Threads -> Seq(Libs)]
      /\ temp \in [Threads -> Libs \cup {NoLib}] /\ mapped \in [Libs -> Nat]
      /\ once \in [{"discover", "plugins"} -> {"new", "done"} \cup Threads]
      /\ ThreadInv("scan", op[t], want[t], todo[t], temp[t], DOMAIN plugins, unloaded[t])
      /\ PluginsOK /\ CountInv
  BY <1>1, Typed, Zenon
<1>4. f \in Libs /\ temp[t] \notin Libs /\ DOMAIN temp = Threads
  BY <1>2, <1>3, Zenon DEF ThreadInv
<1>5. /\ todo' \in [Threads -> SUBSET Libs] /\ todo'[t] = todo[t] \ {f}
      /\ \A u \in Threads : u # t => todo'[u] = todo[u]
  BY <1>2, <1>3, Zenon
<1>6. /\ temp' \in [Threads -> Libs \cup {NoLib}] /\ temp'[t] = f
      /\ \A u \in Threads : u # t => temp'[u] = temp[u]
  BY <1>2, <1>3, <1>4, Zenon
<1>7. CountInv' /\ mapped' \in [Libs -> Nat]
  BY <1>1, <1>2, <1>3, <1>4, StackOpens, Zenon
<1>8. ThreadInv("check", op[t], want[t], todo'[t], temp'[t], DOMAIN plugins', unloaded[t])
  BY <1>1, <1>3, <1>4, <1>5, <1>6, ZenonT(60) DEF ThreadInv
<1>9. "check" \in Locations /\ PluginsOK' /\ DOMAIN plugins \subseteq DOMAIN plugins'
  BY <1>1, <1>3, Zenon DEF Locations, PluginsOK
<1> QED
  BY <1>1, <1>3, <1>5, <1>6, <1>7, <1>8, <1>9, NextInside, ZenonT(60)

(* ~PluginLoader.                                                            *)
LEMMA NextDrop ==
  ASSUME IInv, NEW t \in Threads, drop(t)
  PROVE  IInv'
<1> DEFINE l == IF op[t] = "start" THEN "create" ELSE "scan"
<1>1. /\ pc[t] = "drop" /\ pc' = [pc EXCEPT ![t] = l]
      /\ temp' = [temp EXCEPT ![t] = NoLib] /\ Close(temp[t])
      /\ UNCHANGED <<plugins, once, todo, op, want, tries, asked, reply, calls, unloaded>>
  BY Zenon DEF drop, Goto, locals
<1>2. /\ todo \in [Threads -> SUBSET Libs] /\ tries \in [Threads -> Seq(Libs)]
      /\ temp \in [Threads -> Libs \cup {NoLib}] /\ mapped \in [Libs -> Nat]
      /\ once \in [{"discover", "plugins"} -> {"new", "done"} \cup Threads]
      /\ ThreadInv("drop", op[t], want[t], todo[t], temp[t], DOMAIN plugins, unloaded[t])
      /\ PluginsOK /\ CountInv
  BY <1>1, Typed, Zenon
<1>3. temp[t] \in Libs /\ DOMAIN temp = Threads
  BY <1>2, Zenon DEF ThreadInv
<1>4. /\ temp' \in [Threads -> Libs \cup {NoLib}] /\ temp'[t] = NoLib
      /\ \A u \in Threads : u # t => temp'[u] = temp[u]
  BY <1>1, <1>2, Zenon
<1>5. CountInv' /\ mapped' \in [Libs -> Nat]
  BY <1>1, <1>2, <1>3, StackCloses, ZenonT(60)
<1>6. ThreadInv(l, op[t], want[t], todo'[t], temp'[t], DOMAIN plugins', unloaded[t])
  BY <1>1, <1>2, <1>4, PluginAssumption, ZenonT(60) DEF ThreadInv
<1>7. /\ l \in Locations /\ PluginsOK' /\ DOMAIN plugins \subseteq DOMAIN plugins'
      /\ todo' \in [Threads -> SUBSET Libs] /\ \A u \in Threads : u # t => todo'[u] = todo[u]
  BY <1>1, <1>2, Zenon DEF Locations, PluginsOK
<1> HIDE DEF l
<1> QED
  BY <1>1, <1>2, <1>4, <1>5, <1>6, <1>7, NextInside, ZenonT(60)

(* load_plugin keeps the counts, and leaves the protocol of a usable file    *)
(* with a plugin.                                                            *)
LEMMA LoadPlugin ==
  ASSUME CountInv, mapped \in [Libs -> Nat], PluginsOK,
         NEW p \in Protocols, NEW f \in Libs, load_plugin(p, f), temp' = temp
  PROVE  /\ CountInv' /\ mapped' \in [Libs -> Nat] /\ PluginsOK'
         /\ DOMAIN plugins \subseteq DOMAIN plugins'
         /\ Kind[f] = "good" => p \in DOMAIN plugins'
<1>1. CASE has_plugin(p) \/ Kind[f] # "good"
  <2>1. UNCHANGED <<plugins, mapped, temp>>
    BY <1>1, Zenon DEF load_plugin
  <2>2. CountInv'
    BY <2>1, CountStays, Zenon
  <2> QED
    BY <1>1, <2>1, <2>2, Zenon DEF PluginsOK, has_plugin
<1>2. CASE ~(has_plugin(p) \/ Kind[f] # "good")
  <2>1. plugins' = With(p, f) /\ Open(f) /\ p \notin DOMAIN plugins
    BY <1>2, Zenon DEF load_plugin, has_plugin
  <2>2. CountInv' /\ mapped' \in [Libs -> Nat] /\ DOMAIN plugins' = DOMAIN plugins \cup {p}
    BY <2>1, RegistryOpens, Zenon
  <2>3. PluginsOK'
    BY <2>1, <2>2, Zenon DEF PluginsOK, With
  <2> QED
    BY <2>2, <2>3, Zenon
<1> QED
  BY <1>1, <1>2, Zenon

LEMMA NextLoad ==
  ASSUME IInv, NEW t \in Threads, load(t)
  PROVE  IInv'
<1>1. /\ pc[t] = "load" /\ pc' = [pc EXCEPT ![t] = "drop"]
      /\ load_plugin(Proto[temp[t]], temp[t])
      /\ UNCHANGED <<once, todo, temp, op, want, tries, asked, reply, calls, unloaded>>
  BY Zenon DEF load, Goto, locals
<1>2. /\ todo \in [Threads -> SUBSET Libs] /\ tries \in [Threads -> Seq(Libs)]
      /\ temp \in [Threads -> Libs \cup {NoLib}] /\ mapped \in [Libs -> Nat]
      /\ once \in [{"discover", "plugins"} -> {"new", "done"} \cup Threads]
      /\ ThreadInv("load", op[t], want[t], todo[t], temp[t], DOMAIN plugins, unloaded[t])
      /\ PluginsOK /\ CountInv
  BY <1>1, Typed, Zenon
<1>3. temp[t] \in Libs /\ Proto[temp[t]] \in Protocols
  BY <1>2, Zenon DEF ThreadInv, Protocols
<1>4. /\ CountInv' /\ mapped' \in [Libs -> Nat] /\ PluginsOK'
      /\ DOMAIN plugins \subseteq DOMAIN plugins'
      /\ Kind[temp[t]] = "good" => Proto[temp[t]] \in DOMAIN plugins'
  BY <1>1, <1>2, <1>3, LoadPlugin, Zenon
<1>5. ThreadInv("drop", op[t], want[t], todo'[t], temp'[t], DOMAIN plugins', unloaded[t])
  BY <1>1, <1>2, <1>3, <1>4, Zenon DEF ThreadInv
<1>6. /\ "drop" \in Locations /\ todo' \in [Threads -> SUBSET Libs]
      /\ temp' \in [Threads -> Libs \cup {NoLib}]
      /\ \A u \in Threads : u # t => todo'[u] = todo[u] /\ temp'[u] = temp[u]
  BY <1>1, <1>2, Zenon DEF Locations
<1> QED
  BY <1>1, <1>2, <1>4, <1>5, <1>6, NextInside, ZenonT(60)

LEMMA NextTryBuiltin ==
  ASSUME IInv, NEW t \in Threads, try_builtin(t)
  PROVE  IInv'
<1> DEFINE f == Head(tries[t])
<1>1. /\ pc[t] = "try" /\ tries[t] # <<>> /\ load_plugin(Builtin, f)
      /\ tries' = [tries EXCEPT ![t] =
           IF ~has_plugin(Builtin) /\ Kind[f] = "good" THEN <<>> ELSE Tail(tries[t])]
      /\ UNCHANGED <<once, pc, todo, temp, op, want, asked, reply, calls, unloaded>>
  BY Zenon DEF try_builtin
<1>2. /\ pc \in [Threads -> Locations]
      /\ todo \in [Threads -> SUBSET Libs] /\ tries \in [Threads -> Seq(Libs)]
      /\ temp \in [Threads -> Libs \cup {NoLib}] /\ mapped \in [Libs -> Nat]
      /\ once \in [{"discover", "plugins"} -> {"new", "done"} \cup Threads]
      /\ ThreadInv("try", op[t], want[t], todo[t], temp[t], DOMAIN plugins, unloaded[t])
      /\ PluginsOK /\ CountInv
  BY <1>1, Typed, Zenon
<1>3. f \in Libs /\ tries' \in [Threads -> Seq(Libs)] /\ Builtin \in Protocols
  BY <1>1, <1>2 DEF Protocols
<1>4. /\ CountInv' /\ mapped' \in [Libs -> Nat] /\ PluginsOK'
      /\ DOMAIN plugins \subseteq DOMAIN plugins'
  BY <1>1, <1>2, <1>3, LoadPlugin, Zenon
<1>5. ThreadInv("try", op[t], want[t], todo'[t], temp'[t], DOMAIN plugins', unloaded[t])
  BY <1>1, <1>2, <1>4, OthersLoad, Zenon
<1>6. /\ "try" \in Locations /\ pc' = [pc EXCEPT ![t] = "try"]
      /\ todo' \in [Threads -> SUBSET Libs] /\ temp' \in [Threads -> Libs \cup {NoLib}]
      /\ \A u \in Threads : u # t => todo'[u] = todo[u] /\ temp'[u] = temp[u]
  BY <1>1, <1>2, Zenon DEF Locations
<1> QED
  BY <1>1, <1>2, <1>3, <1>4, <1>5, <1>6, NextInside, ZenonT(60)

-----------------------------------------------------------------------------
(* The steps that end a handler, and unload_plugin.                          *)

LEMMA NextScanThrows ==
  ASSUME IInv, NEW t \in Threads, scan_throws(t)
  PROVE  IInv'
<1>1. /\ pc[t] = "scan" /\ Return(t, Error) /\ todo' = [todo EXCEPT ![t] = {}]
      /\ once' = [h \in DOMAIN once |-> IF once[h] = t THEN "new" ELSE once[h]]
      /\ UNCHANGED <<plugins, mapped, temp, tries>> /\ calls' = calls
  BY Zenon DEF scan_throws
<1>2. /\ todo \in [Threads -> SUBSET Libs]
      /\ once \in [{"discover", "plugins"} -> {"new", "done"} \cup Threads]
      /\ ThreadInv("scan", op[t], want[t], todo[t], temp[t], DOMAIN plugins, unloaded[t])
  BY <1>1, Typed, Zenon
<1>3. /\ todo' \in [Threads -> SUBSET Libs]
      /\ \A u \in Threads : u # t => todo'[u] = todo[u]
  BY <1>1, <1>2, Zenon
<1>4. once' \in [{"discover", "plugins"} -> {"new", "done"} \cup Threads]
  BY <1>1, <1>2, Zenon
<1>5. temp[t] \notin Libs
  BY <1>2, Zenon DEF ThreadInv
<1>6. calls' \in 0..MaxCalls /\ Error \in Replies
  BY <1>1, Zenon DEF IInv, TypeOK, Replies
<1> QED
  BY <1>1, <1>3, <1>4, <1>5, <1>6, NextReturn, Zenon

LEMMA NextAnswer ==
  ASSUME IInv, NEW t \in Threads, pc[t] \in {"list", "create"}, NEW r \in Replies,
         Return(t, r), UNCHANGED <<plugins, mapped, once, todo, temp, tries, calls>>
  PROVE  IInv'
<1>1. /\ todo' \in [Threads -> SUBSET Libs] /\ calls' \in 0..MaxCalls
      /\ once' \in [{"discover", "plugins"} -> {"new", "done"} \cup Threads]
      /\ \A u \in Threads : u # t => todo'[u] = todo[u]
      /\ ThreadInv(pc[t], op[t], want[t], todo[t], temp[t], DOMAIN plugins, unloaded[t])
  BY Zenon DEF IInv, TypeOK, ThreadsInv
<1>2. temp[t] \notin Libs
  BY <1>1, Zenon DEF ThreadInv
<1> QED
  BY <1>1, <1>2, NextReturn, ZenonT(60)

LEMMA NextListProtocols ==
  ASSUME IInv, NEW t \in Threads, list_protocols(t)
  PROVE  IInv'
<1>1. /\ pc[t] \in {"list", "create"} /\ Return(t, Listed(DOMAIN plugins))
      /\ UNCHANGED <<plugins, mapped, once, todo, temp, tries, calls>>
  BY Zenon DEF list_protocols
<1>2. Listed(DOMAIN plugins) \in Replies
  BY Zenon DEF IInv, TypeOK, Replies
<1> QED
  BY <1>1, <1>2, NextAnswer, Zenon

LEMMA NextCreateInstrument ==
  ASSUME IInv, NEW t \in Threads, create_instrument(t)
  PROVE  IInv'
<1>1. /\ pc[t] \in {"list", "create"} /\ Return(t, Used(get_plugin_path(asked[t])))
      /\ UNCHANGED <<plugins, mapped, once, todo, temp, tries, calls>>
  BY Zenon DEF create_instrument
<1>2. get_plugin_path(asked[t]) \in Libs \cup {NoLib}
  BY Typed, Zenon DEF get_plugin_path, has_plugin, PluginsOK
<1>3. Used(get_plugin_path(asked[t])) \in Replies
  BY <1>2, Zenon DEF Replies
<1> QED
  BY <1>1, <1>3, NextAnswer, ZenonT(60)

(* Called by any thread: those inside a handler note it.                     *)
LEMMA NextUnload ==
  ASSUME IInv, NEW p \in Protocols, unload_plugin(p)
  PROVE  IInv'
<1>1. /\ TypeOK /\ CountInv /\ ThreadsInv
  BY Zenon DEF IInv
<1>2. /\ p \in DOMAIN plugins /\ calls < MaxCalls /\ calls' = calls + 1
      /\ Close(plugins[p]) /\ plugins' = [q \in DOMAIN plugins \ {p} |-> plugins[q]]
      /\ unloaded' = [t \in Threads |-> IF op[t] = "none" THEN unloaded[t]
                                        ELSE unloaded[t] \cup {p}]
      /\ UNCHANGED <<once, pc, todo, temp, op, want, tries, asked, reply>>
  BY Zenon DEF unload_plugin, has_plugin
<1>3. CountInv' /\ mapped' \in [Libs -> Nat]
  BY <1>1, <1>2, RegistryCloses, Zenon DEF TypeOK
<1>4. /\ DOMAIN plugins' = DOMAIN plugins \ {p} /\ DOMAIN plugins' \subseteq Protocols
      /\ \A q \in DOMAIN plugins' : plugins'[q] \in Libs
  BY <1>1, <1>2, Zenon DEF TypeOK
<1>5. unloaded' \in [Threads -> SUBSET Protocols] /\ calls' \in 0..MaxCalls
  BY <1>1, <1>2, PluginAssumption DEF TypeOK
<1>6. TypeOK'
  BY <1>1, <1>2, <1>3, <1>4, <1>5, Zenon DEF TypeOK
<1>7. ASSUME NEW t \in Threads
      PROVE  ThreadInv(pc[t], op[t], want[t], todo[t], temp[t], DOMAIN plugins \ {p},
                       unloaded'[t])
  <2>1. unloaded[t] \subseteq unloaded'[t] /\ (op[t] # "none" => unloaded'[t] = unloaded[t] \cup {p})
    BY <1>2, Zenon
  <2> QED
    BY <1>1, <2>1, OthersUnload, Zenon DEF ThreadsInv
<1> QED
  BY <1>2, <1>3, <1>4, <1>6, <1>7, ZenonT(60) DEF IInv, ThreadsInv

-----------------------------------------------------------------------------
LEMMA InitIInv == Init => IInv
<1> SUFFICES ASSUME Init PROVE IInv
  BY Zenon
<1>1. /\ plugins = <<>> /\ DOMAIN plugins = {} /\ mapped = [f \in Libs |-> 0]
      /\ temp = [t \in Threads |-> NoLib]
  BY DEF Init
<1>2. Builtin \in Protocols /\ 0 \in 0..MaxCalls
  BY PluginAssumption DEF Protocols
<1>3. /\ once \in [{"discover", "plugins"} -> {"new", "done"} \cup Threads]
      /\ op \in [Threads -> Handlers \cup {"none"}]
      /\ pc \in [Threads -> Locations] /\ calls \in 0..MaxCalls
  BY <1>2, Zenon DEF Init, Locations
<1>4. /\ want \in [Threads -> SUBSET Libs] /\ todo \in [Threads -> SUBSET Libs]
      /\ tries \in [Threads -> Seq(Libs)] /\ asked \in [Threads -> Protocols]
      /\ unloaded \in [Threads -> SUBSET Protocols]
  BY <1>2 DEF Init
<1>5. Listed({}) \in Replies
  BY Zenon DEF Replies
<1>6. reply \in [Threads -> Replies]
  BY <1>5, Zenon DEF Init
<1>7. mapped \in [Libs -> Nat] /\ temp \in [Threads -> Libs \cup {NoLib}]
  BY <1>1, Zenon
<1>8. TypeOK
  BY <1>1, <1>3, <1>4, <1>6, <1>7, Zenon DEF TypeOK, Locations, Replies
<1>9. CountInv
  <2>1. ASSUME NEW f \in Libs
        PROVE  /\ {p \in DOMAIN plugins : plugins[p] = f} = {}
               /\ {t \in Threads : temp[t] = f} = {} /\ mapped[f] = 0
    BY <1>1, PluginAssumption, Zenon
  <2>2. IsFiniteSet(DOMAIN plugins) /\ Cardinality({}) = 0
    BY <1>1, FS_EmptySet, Zenon
  <2> QED
    BY <2>1, <2>2 DEF CountInv, LibrariesStayMapped
<1>10. ThreadsInv
  BY <1>1, PluginAssumption, Zenon DEF Init, ThreadsInv, ThreadInv
<1> QED
  BY <1>8, <1>9, <1>10, Zenon DEF IInv

LEMMA NextIInv == IInv /\ [Next]_vars => IInv'
<1> SUFFICES ASSUME IInv, [Next]_vars PROVE IInv'
  BY Zenon
<1>1. CASE UNCHANGED vars
  BY <1>1, ZenonT(30) DEF vars, locals, IInv, TypeOK, CountInv, LibrariesStayMapped, ThreadsInv
<1>2. ASSUME NEW t \in Threads, Call(t) PROVE IInv'
  BY <1>2, NextCall, Zenon
<1>3. ASSUME NEW t \in Threads, Step(t) PROVE IInv'
  BY <1>3, NextOnceEnter, NextOnceSkip, NextBuiltinPlugins, NextTryBuiltin, NextBuiltinsEnd,
     NextScan, NextScanBroken, NextCheck, NextLoad, NextDrop, NextScanEndOnce, NextScanEnd,
     NextScanThrows, NextListProtocols, NextCreateInstrument, Zenon DEF Step
<1>4. ASSUME NEW p \in Protocols, unload_plugin(p) PROVE IInv'
  BY <1>4, NextUnload, Zenon
<1> QED
  BY <1>1, <1>2, <1>3, <1>4, Zenon DEF Next

(* Every reachable state satisfies IInv.                                     *)
THEOREM Invariance == Spec => []IInv
  BY InitIInv, NextIInv, PTL DEF Spec

(* A library is mapped exactly as often as a loader holds it, however many   *)
(* threads discover, start instruments and unload plugins at once: dlopen of *)
(* PluginLoader's constructor and dlclose of its destructor stay in step.    *)
THEOREM LibrariesAreCounted == Spec => []LibrariesStayMapped
<1>1. IInv => LibrariesStayMapped
  BY Zenon DEF IInv, CountInv
<1> QED
  BY <1>1, Invariance, PTL

(* Only list_protocols takes a handler from the list to its answer.          *)
LEMMA OnlyListed ==
  ASSUME IInv, Next, NEW t \in Threads, pc[t] = "list", pc'[t] # "list"
  PROVE  list_protocols(t)
<1>1. pc \in [Threads -> Locations]
  BY Zenon DEF IInv, TypeOK, Locations
<1>2. ASSUME NEW u \in Threads, Call(u) \/ Step(u), u # t PROVE pc'[t] = pc[t]
  BY <1>1, <1>2, ZenonT(60) DEF Call, Step, handle_discover, handle_plugins,
     handle_start, handle_start_custom, handle_start_throws, Begin, Return, Goto, call_once_enter,
     call_once_skip, load_builtin_plugins, try_builtin, builtins_end, scan, scan_broken, check,
     load, drop, scan_end_once, scan_end, scan_throws, list_protocols, create_instrument
<1>3. ASSUME Call(t) PROVE FALSE
  BY <1>3, Zenon DEF Call, handle_discover, handle_plugins, handle_start, handle_start_custom,
     handle_start_throws, Begin
<1>4. ASSUME Step(t) PROVE list_protocols(t)
  BY <1>4, Zenon DEF Step, call_once_enter, call_once_skip, load_builtin_plugins, try_builtin,
     builtins_end, scan, scan_broken, check, load, drop, scan_end_once, scan_end, scan_throws,
     create_instrument
<1>5. ASSUME NEW p, unload_plugin(p) PROVE pc'[t] = pc[t]
  BY <1>5, Zenon DEF unload_plugin
<1> QED
  BY <1>2, <1>3, <1>4, <1>5, Zenon DEF Next

(* What handle_discover and handle_plugins answer names a plugin for every   *)
(* usable file in the directories they searched, unless one was unloaded     *)
(* meanwhile: no interleaving of has_plugin and load_plugin, which lock      *)
(* mutex_ one after the other, makes the search forget a file.               *)
THEOREM SearchesAreComplete == Spec => DiscoveryIsComplete
<1> DEFINE Complete ==
      \A t \in Threads : \A f \in want[t] :
        pc[t] = "list" /\ pc'[t] = "idle" /\ Kind[f] = "good"
        => Proto[f] \in reply'[t].protocols \cup unloaded[t]
<1>1. ASSUME IInv, Next PROVE Complete
  <2> SUFFICES ASSUME NEW t \in Threads, NEW f \in want[t],
                      pc[t] = "list", pc'[t] = "idle", Kind[f] = "good"
               PROVE  Proto[f] \in reply'[t].protocols \cup unloaded[t]
    BY Zenon
  <2>1. list_protocols(t)
    BY <1>1, OnlyListed, Zenon
  <2>2. reply' = [reply EXCEPT ![t] = Listed(DOMAIN plugins)] /\ t \in DOMAIN reply
    BY <1>1, <2>1, Zenon DEF list_protocols, Return, IInv, TypeOK
  <2>3. reply'[t].protocols = DOMAIN plugins
    BY <2>2, Zenon DEF Listed
  <2>4. ThreadInv("list", op[t], want[t], todo[t], temp[t], DOMAIN plugins, unloaded[t])
    BY <1>1, Typed, Zenon
  <2> QED
    BY <2>3, <2>4, Zenon DEF ThreadInv
<1>2. IInv /\ [Next]_vars => [Complete]_vars
  BY <1>1, Zenon
<1> HIDE DEF Complete
<1>3. Spec => [][Complete]_vars
  BY <1>2, Invariance, PTL DEF Spec
<1> QED
  BY <1>3, Zenon DEF DiscoveryIsComplete, Complete
=============================================================================
