------------------------- MODULE InstrumentRegistry -------------------------
(***************************************************************************)
(* The instrument registry (src/server/InstrumentRegistry.cpp) with the    *)
(* handlers that use it (src/server/CommandHandlers.cpp) and the worker    *)
(* processes under it (src/ipc/ProcessManager.cpp on POSIX).               *)
(*                                                                         *)
(* Several threads call handlers.  Creating, removing and stopping hold    *)
(* the registry's mutex_ while a proxy starts or stops; looking up, and    *)
(* asking the process manager about a pid, do not.  The name of an         *)
(* instrument also names its message queues.  A process that has ended is  *)
(* a zombie until waitpid, called by whoever asks is_alive, reaps it; then *)
(* the system may give its pid to another process, worker or not.  What    *)
(* goes through the queues is the subject of WorkerProxy.                  *)
(***************************************************************************)
EXTENDS Naturals

CONSTANTS
  Threads,     (* the threads that call handlers                              *)
  NoThread,    (* the owner of mutex_ when nobody holds it                    *)
  Names,       (* instrument names, numbers in the order of std::map          *)
  Pids,        (* process ids                                                 *)
  MaxProxies,  (* bounds how many proxies are made                            *)
  PidReuse     (* does a pid come back after its process was reaped?          *)

ASSUME RegistryAssumption ==
  /\ Names \subseteq Nat \ {0}
  /\ MaxProxies \in Nat
  /\ PidReuse \in BOOLEAN
  /\ NoThread \notin Threads

VARIABLES
  instruments,  (* instruments_: the proxy of each name, 0 if there is none    *)
  metadata,     (* metadata_: which creation's configuration, 0 if none        *)
  made,         (* how many proxies have been made; they are numbered          *)
  proxies,      (* name, worker_pid_ and running_ of each proxy                *)
  queues,       (* the message queues of each name: the proxy that made them   *)
  processes,    (* the pids in the process manager's table                     *)
  os,           (* what runs under each pid                                    *)
  lock,         (* who holds the registry's mutex_                             *)
  thread,       (* what each thread is doing                                   *)
  up,           (* the server process has not exited                           *)
  stray         (* some SIGKILL hit a process other than the proxy's worker    *)

vars == <<instruments, metadata, made, proxies, queues, processes, os, lock,
          thread, up, stray>>
registry == <<instruments, metadata, made, proxies>>
system == <<processes, os, stray>>

Proxy == [name : Names, pid : Pids \cup {0}, running : BOOLEAN]
Process == [kind : {"free", "worker", "zombie", "other"}, proxy : 0..MaxProxies]
Free == [kind |-> "free", proxy |-> 0]

(* A handler in progress: at which step, for which name, the shared_ptr it   *)
(* holds, the proxy it created, the proxies it has yet to stop, and of these *)
(* the one it is stopping.                                                   *)
Steps == {"idle", "starting", "list", "get", "use", "status", "remove", "stop",
          "wait", "kill", "clean"}
Handlers == {"none", "start", "test", "stop", "status", "stop_all"}
Idle == [at |-> "idle", op |-> "none", name |-> 0, ref |-> 0, own |-> 0,
         todo |-> {}, cur |-> 0]
Thread == [at : Steps, op : Handlers, name : Names \cup {0}, ref : 0..MaxProxies,
           own : 0..MaxProxies, todo : SUBSET (1..MaxProxies), cur : 0..MaxProxies]

TypeOK ==
  /\ instruments \in [Names -> 0..made]
  /\ metadata \in [Names -> 0..made]
  /\ made \in 0..MaxProxies
  /\ proxies \in [1..made -> Proxy]
  /\ queues \in [Names -> 0..made]
  /\ processes \subseteq Pids
  /\ os \in [Pids -> Process]
  /\ lock \in Threads \cup {NoThread}
  /\ thread \in [Threads -> Thread]
  /\ up \in BOOLEAN
  /\ stray \in BOOLEAN

Init ==
  /\ instruments = [n \in Names |-> 0]
  /\ metadata = [n \in Names |-> 0]
  /\ made = 0
  /\ proxies = <<>>
  /\ queues = [n \in Names |-> 0]
  /\ processes = {}
  /\ os = [pid \in Pids |-> Free]
  /\ lock = NoThread
  /\ thread = [t \in Threads |-> Idle]
  /\ up = TRUE
  /\ stray = FALSE

-----------------------------------------------------------------------------
(* The process manager.                                                      *)

(* waitpid(WNOHANG) returns 0 for a child that runs.                         *)
is_alive(pid) == pid \in processes /\ os[pid].kind = "worker"

(* ... and reaps one that has ended.                                         *)
Reap(pid) == IF os[pid].kind = "zombie" THEN [os EXCEPT ![pid] = Free] ELSE os

(* SIGKILL: a child becomes a zombie, another process is gone.               *)
Killed(process) ==
  IF process.kind = "worker" THEN [process EXCEPT !.kind = "zombie"]
  ELSE IF process.kind = "other" THEN Free ELSE process

(* A pid the system gives to a new process.                                  *)
Available(pid) == os[pid].kind = "free" /\ (PidReuse \/ pid \notin processes)

(* A worker ends, by itself, by a crash or because it got SHUTDOWN.          *)
worker_exits(pid) ==
  /\ os[pid].kind = "worker"
  /\ os' = [os EXCEPT ![pid].kind = "zombie"]
  /\ UNCHANGED <<registry, queues, processes, lock, thread, up, stray>>

(* A pid the server knows is used by a process it has nothing to do with.    *)
foreign_process(pid) ==
  /\ up /\ PidReuse
  /\ pid \in processes
  /\ os[pid].kind \in {"free", "other"}
  /\ os' = [os EXCEPT ![pid] =
       IF os[pid].kind = "free" THEN [Free EXCEPT !.kind = "other"] ELSE Free]
  /\ UNCHANGED <<registry, queues, processes, lock, thread, up, stray>>

-----------------------------------------------------------------------------
(* The steps of a thread.                                                    *)
At(t, step) == up /\ thread[t].at = step
Locks(t) == lock = NoThread /\ lock' = t
Peeks == lock = NoThread /\ UNCHANGED lock
Goto(t, step) == thread' = [thread EXCEPT ![t].at = step]
Returns(t) == thread' = [thread EXCEPT ![t] = Idle]

(* A new proxy.                                                              *)
make_shared(proxy) ==
  /\ made < MaxProxies
  /\ made' = made + 1
  /\ proxies' = [p \in 1..made + 1 |-> IF p = made + 1 THEN proxy ELSE proxies[p]]

(* The proxies without a shared_ptr once the map entries of the names gone   *)
(* and the pointer of the thread t are dropped.                              *)
Unreferenced(t, gone) ==
  LET dropped == {instruments[n] : n \in gone} \cup {thread[t].ref}
      held    == {instruments[n] : n \in Names \ gone}
                   \cup {thread[s].ref : s \in Threads \ {t}}
  IN  (dropped \ held) \ {0}

(* Fault: the destructor removes the queues, stopped before or not.          *)
destroy_always_cleans(P) ==
  [n \in Names |-> IF \E p \in P : proxies[p].name = n THEN 0 ELSE queues[n]]

(* ~InstrumentWorkerProxy calls stop, which does nothing if it ran before.   *)
destroy(P) ==
  [n \in Names |->
     IF \E p \in P : proxies[p].running /\ proxies[p].name = n THEN 0 ELSE queues[n]]

Drops(t, gone) == queues' = destroy(Unreferenced(t, gone))

-----------------------------------------------------------------------------
(* create_instrument_from_json for the handlers start and test.              *)

(* Fault: the metadata is stored before the name is looked up.               *)
create_exists_stores(t, n) ==
  /\ At(t, "idle")
  /\ Peeks
  /\ instruments[n] # 0
  /\ metadata' = [metadata EXCEPT ![n] = 0]
  /\ UNCHANGED <<instruments, made, proxies, queues, system, thread, up>>

(* The name is taken: refused, with nothing changed.                         *)
create_exists(t, n) ==
  /\ At(t, "idle")
  /\ Peeks
  /\ instruments[n] # 0
  /\ UNCHANGED vars

(* The API definition names no protocol: an exception, after the metadata    *)
(* has been stored and with nobody to erase it.                              *)
create_throws(t, n) ==
  /\ At(t, "idle")
  /\ Peeks
  /\ instruments[n] = 0
  /\ make_shared([name |-> n, pid |-> 0, running |-> FALSE])
  /\ metadata' = [metadata EXCEPT ![n] = made']
  /\ UNCHANGED <<instruments, queues, system, thread, up>>

(* No plugin for the protocol.                                               *)
create_no_plugin(t, n) ==
  /\ At(t, "idle")
  /\ Peeks
  /\ instruments[n] = 0
  /\ metadata' = [metadata EXCEPT ![n] = 0]
  /\ UNCHANGED <<instruments, made, proxies, queues, system, thread, up>>

(* The proxy cannot create its queues, or cannot spawn the worker: then the  *)
(* queues stay behind.                                                       *)
create_start_fails(t, n) ==
  /\ At(t, "idle")
  /\ Peeks
  /\ instruments[n] = 0
  /\ make_shared([name |-> n, pid |-> 0, running |-> FALSE])
  /\ metadata' = [metadata EXCEPT ![n] = 0]
  /\ \E q \in {0, made'} : queues' = [queues EXCEPT ![n] = q]
  /\ UNCHANGED <<instruments, system, thread, up>>

(* The worker is spawned; the thread sleeps 500 ms with mutex_ held.         *)
create_spawns(t, n, pid, op) ==
  /\ At(t, "idle")
  /\ Locks(t)
  /\ instruments[n] = 0
  /\ Available(pid)
  /\ make_shared([name |-> n, pid |-> pid, running |-> TRUE])
  /\ metadata' = [metadata EXCEPT ![n] = made']
  /\ queues' = [queues EXCEPT ![n] = made']
  /\ processes' = processes \cup {pid}
  /\ os' = [os EXCEPT ![pid] = [kind |-> "worker", proxy |-> made']]
  /\ thread' = [thread EXCEPT ![t] =
       [Idle EXCEPT !.at = "starting", !.op = op, !.name = n, !.own = made']]
  /\ UNCHANGED <<instruments, up, stray>>

(* The worker lives: the instrument is registered.                           *)
create_ends(t) ==
  /\ At(t, "starting")
  /\ is_alive(proxies[thread[t].own].pid)
  /\ instruments' = [instruments EXCEPT ![thread[t].name] = thread[t].own]
  /\ lock' = NoThread
  /\ Goto(t, "list")
  /\ UNCHANGED <<metadata, made, proxies, queues, system, up>>

(* Fault: the failed instrument is taken out with remove_instrument.         *)
create_dies_removes(t) ==
  /\ At(t, "starting")
  /\ ~is_alive(proxies[thread[t].own].pid)
  /\ Goto(t, "remove")
  /\ UNCHANGED <<registry, queues, system, lock, up>>

(* The worker died: the proxy stops itself and the creation fails.           *)
create_dies(t) ==
  LET p == thread[t].own
  IN  /\ At(t, "starting")
      /\ ~is_alive(proxies[p].pid)
      /\ os' = Reap(proxies[p].pid)
      /\ proxies' = [proxies EXCEPT ![p].running = FALSE]
      /\ queues' = [queues EXCEPT ![proxies[p].name] = 0]
      /\ metadata' = [metadata EXCEPT ![proxies[p].name] = 0]
      /\ lock' = NoThread
      /\ Returns(t)
      /\ UNCHANGED <<instruments, made, processes, up, stray>>

-----------------------------------------------------------------------------
list_instruments == {n \in Names : instruments[n] # 0}

(* The last name of the list, if there is one.                               *)
back == {n \in list_instruments : \A m \in list_instruments : m <= n}

(* After the creation: handle_start replies with the last name of the list,  *)
(* handle_test goes on with it.                                              *)
handle_list(t) ==
  /\ At(t, "list")
  /\ Peeks
  /\ \/ (thread[t].op # "test" \/ list_instruments = {}) /\ Returns(t)
     \/ /\ thread[t].op = "test"
        /\ \E n \in back :
             thread' = [thread EXCEPT ![t].at = "get", ![t].name = n]
  /\ UNCHANGED <<registry, queues, system, up>>

(* handle_test: get_instrument, or remove_instrument if it is gone.          *)
get_instrument(t) ==
  /\ At(t, "get")
  /\ Peeks
  /\ LET p == instruments[thread[t].name]
     IN  thread' = [thread EXCEPT ![t].ref = p,
                                  ![t].at = IF p = 0 THEN "remove" ELSE "use"]
  /\ UNCHANGED <<registry, queues, system, up>>

(* handle_test: execute_sync.                                                *)
handle_test(t) ==
  /\ At(t, "use")
  /\ Goto(t, "remove")
  /\ UNCHANGED <<registry, queues, system, lock, up>>

(* handle_status looks the proxy up, then asks about its worker.             *)
handle_status(t, n) ==
  /\ At(t, "idle")
  /\ Peeks
  /\ instruments[n] # 0
  /\ thread' = [thread EXCEPT ![t] =
       [Idle EXCEPT !.at = "status", !.op = "status", !.name = n,
                    !.ref = instruments[n]]]
  /\ UNCHANGED <<registry, queues, system, up>>

status_is_alive(t) ==
  /\ At(t, "status")
  /\ os' = Reap(proxies[thread[t].ref].pid)
  /\ Drops(t, {})
  /\ Returns(t)
  /\ UNCHANGED <<registry, processes, stray, lock, up>>

(* handle_stop: has_instrument, and then remove_instrument.                  *)
handle_stop(t, n) ==
  /\ At(t, "idle")
  /\ Peeks
  /\ instruments[n] # 0
  /\ thread' = [thread EXCEPT ![t] =
       [Idle EXCEPT !.at = "remove", !.op = "stop", !.name = n]]
  /\ UNCHANGED <<registry, queues, system, up>>

-----------------------------------------------------------------------------
(* remove_instrument, called by handle_stop and handle_test.                 *)
remove_instrument(t) ==
  /\ At(t, "remove")
  /\ instruments[thread[t].name] # 0
  /\ Locks(t)
  /\ thread' = [thread EXCEPT ![t].at = "stop",
                              ![t].todo = {instruments[thread[t].name]}]
  /\ UNCHANGED <<registry, queues, system, up>>

(* The instrument is gone already.                                           *)
remove_nothing(t) ==
  /\ At(t, "remove")
  /\ instruments[thread[t].name] = 0
  /\ Peeks
  /\ Drops(t, {})
  /\ Returns(t)
  /\ UNCHANGED <<registry, system, up>>

(* stop_all, called when the daemon stops.                                   *)
stop_all(t) ==
  /\ At(t, "idle")
  /\ Locks(t)
  /\ thread' = [thread EXCEPT ![t] =
       [Idle EXCEPT !.at = "stop", !.op = "stop_all",
                    !.todo = {instruments[n] : n \in list_instruments}]]
  /\ UNCHANGED <<registry, queues, system, up>>

(* InstrumentWorkerProxy::stop of the next proxy in name order: SHUTDOWN is  *)
(* sent.                                                                     *)
proxy_stop(t) ==
  /\ At(t, "stop")
  /\ \E p \in thread[t].todo :
       /\ \A q \in thread[t].todo : proxies[p].name <= proxies[q].name
       /\ proxies[p].running
       /\ proxies' = [proxies EXCEPT ![p].running = FALSE]
       /\ thread' = [thread EXCEPT ![t].at = "wait", ![t].cur = p]
  /\ UNCHANGED <<instruments, metadata, made, queues, system, lock, up>>

(* wait_for_exit: within a second the worker is found to have ended ...      *)
wait_for_exit(t) ==
  LET pid == proxies[thread[t].cur].pid
  IN  /\ At(t, "wait")
      /\ ~is_alive(pid)
      /\ os' = Reap(pid)
      /\ Goto(t, "clean")
      /\ UNCHANGED <<registry, queues, processes, stray, lock, up>>

(* ... or it has not.                                                        *)
wait_times_out(t) ==
  /\ At(t, "wait")
  /\ is_alive(proxies[thread[t].cur].pid)
  /\ Goto(t, "kill")
  /\ UNCHANGED <<registry, queues, system, lock, up>>

(* Fault: SIGTERM, which the worker may ignore, instead of SIGKILL.          *)
kill_process_politely(t) ==
  /\ At(t, "kill")
  /\ Goto(t, "clean")
  /\ UNCHANGED <<registry, queues, system, lock, up>>

kill_process(t) ==
  LET p   == thread[t].cur
      pid == proxies[p].pid
  IN  /\ At(t, "kill")
      /\ os' = [os EXCEPT ![pid] = Killed(@)]
      /\ stray' = \/ stray
                  \/ os[pid].kind = "other"
                  \/ os[pid].kind = "worker" /\ os[pid].proxy # p
      /\ Goto(t, "clean")
      /\ UNCHANGED <<registry, queues, processes, lock, up>>

(* cleanup_ipc removes the queues by their name.                             *)
cleanup_ipc(t) ==
  /\ At(t, "clean")
  /\ queues' = [queues EXCEPT ![proxies[thread[t].cur].name] = 0]
  /\ thread' = [thread EXCEPT ![t].at = "stop", ![t].cur = 0,
                              ![t].todo = @ \ {thread[t].cur}]
  /\ UNCHANGED <<registry, system, lock, up>>

(* Everything is stopped: the maps are cleared and mutex_ is released.       *)
erase(t) ==
  LET gone == IF thread[t].op = "stop_all" THEN Names ELSE {thread[t].name}
  IN  /\ At(t, "stop")
      /\ thread[t].todo = {}
      /\ instruments' = [n \in Names |-> IF n \in gone THEN 0 ELSE instruments[n]]
      /\ metadata' = [n \in Names |-> IF n \in gone THEN 0 ELSE metadata[n]]
      /\ Drops(t, gone)
      /\ lock' = NoThread
      /\ Returns(t)
      /\ UNCHANGED <<made, proxies, system, up>>

(* The server exits: ~ProcessManager runs cleanup_all, which kills every pid *)
(* ever spawned, then ~InstrumentRegistry stops what is registered.          *)
cleanup_all ==
  /\ up
  /\ \A t \in Threads : thread[t] = Idle
  /\ up' = FALSE
  /\ os' = [pid \in Pids |-> IF pid \in processes THEN Free ELSE os[pid]]
  /\ stray' = (stray \/ \E pid \in processes : os[pid].kind = "other")
  /\ processes' = {}
  /\ proxies' = [p \in 1..made |-> [proxies[p] EXCEPT !.running = FALSE]]
  /\ queues' = [n \in Names |-> IF instruments[n] # 0 THEN 0 ELSE queues[n]]
  /\ instruments' = [n \in Names |-> 0]
  /\ metadata' = [n \in Names |-> 0]
  /\ UNCHANGED <<made, lock, thread>>

-----------------------------------------------------------------------------
(* A client asks for something.                                              *)
Begin(t) ==
  \/ \E n \in Names :
       \/ create_exists(t, n) \/ create_throws(t, n) \/ create_no_plugin(t, n)
       \/ create_start_fails(t, n)
       \/ \E pid \in Pids, op \in {"start", "test"} : create_spawns(t, n, pid, op)
       \/ handle_status(t, n) \/ handle_stop(t, n)
  \/ stop_all(t)

(* The thread goes on with what it began.                                    *)
Continue(t) ==
  \/ create_ends(t) \/ create_dies(t)
  \/ handle_list(t) \/ get_instrument(t) \/ handle_test(t) \/ status_is_alive(t)
  \/ remove_instrument(t) \/ remove_nothing(t)
  \/ proxy_stop(t) \/ wait_for_exit(t) \/ wait_times_out(t) \/ kill_process(t)
  \/ cleanup_ipc(t) \/ erase(t)

Next ==
  \/ \E t \in Threads : Begin(t) \/ Continue(t)
  \/ \E pid \in Pids : worker_exits(pid) \/ foreign_process(pid)
  \/ cleanup_all

Spec == Init /\ [][Next]_vars

(* A thread that has begun goes on: its sleeps and waits are bounded.        *)
Fairness == \A t \in Threads : WF_vars(Continue(t))

FairSpec == Spec /\ Fairness

-----------------------------------------------------------------------------
(* No worker process is left behind: one that runs belongs to the proxy      *)
(* registered under its name, or to the one being started by the holder of   *)
(* mutex_; and no two workers serve the same name (they would take each      *)
(* other's commands off the queues).  Stopping kills a worker that does not  *)
(* end by itself, a start that fails stops its worker, and the server leaves *)
(* none behind when it exits.                                                *)
NoOrphans ==
  /\ \A pid \in Pids : os[pid].kind = "worker" =>
       LET p == os[pid].proxy
       IN  /\ up
           /\ \/ instruments[proxies[p].name] = p
              \/ lock # NoThread /\ thread[lock].at = "starting" /\ thread[lock].own = p
  /\ \A a, b \in Pids :
       /\ os[a].kind = "worker" /\ os[b].kind = "worker"
       /\ proxies[os[a].proxy].name = proxies[os[b].proxy].name
       => a = b

(* An instrument that runs has the queues it was started with, although      *)
(* queues are removed by name, an earlier proxy of the same name may still   *)
(* be held by a handler, and failed creations leave queues behind.           *)
QueuesAreItsOwn ==
  \A n \in Names :
    LET p == instruments[n]
    IN  p # 0 /\ proxies[p].running => queues[n] = p

(* A registered instrument is described by the configuration it was created  *)
(* with, whatever creations under its name were refused or failed.           *)
MetadataIsItsOwn ==
  \A n \in Names : instruments[n] # 0 => metadata[n] = instruments[n]

(* The mutex held over a start or a stop is always released, whatever the    *)
(* workers do and the other threads ask for.                                 *)
MutexIsReleased == \A t \in Threads : lock = t ~> lock # t

(* Not so: "Instrument is automatically stopped after test".  handle_test    *)
(* uses and removes the last instrument in name order, not its own.          *)
TestStopsItsInstrument ==
  [][\A t \in Threads :
       (thread[t].op = "test" /\ thread[t].at # "idle" /\ thread'[t].at = "idle")
       => \A n \in Names : instruments'[n] # thread[t].own]_vars

(* Not so: SIGKILL hits the worker that is meant, and nothing else.  A pid   *)
(* stays in processes_ once its process is reaped, and may be the pid of     *)
(* another worker or of any other process when it is killed.                 *)
KillsHitTheWorker == ~stray
=============================================================================
