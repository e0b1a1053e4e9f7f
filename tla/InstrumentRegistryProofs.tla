---------------------- MODULE InstrumentRegistryProofs ----------------------
(***************************************************************************)
(* Proofs about InstrumentRegistry, for every set of threads, names and    *)
(* pids, reused or not: no worker process is orphaned, and the queues and  *)
(* the metadata of a registered instrument are its own.                    *)
(***************************************************************************)
EXTENDS InstrumentRegistry, TLAPS

Stopping == {"stop", "wait", "kill", "clean"}

(* mutex_ is held exactly while a proxy is started or stopped.               *)
LockInv ==
  \A t \in Threads :
    /\ thread[t].at \in {"starting"} \cup Stopping <=> lock = t
    /\ thread[t].at \in {"get", "use", "remove"} => thread[t].name \in Names
    /\ thread[t].op = "stop_all" => thread[t].at \in Stopping

(* The proxies a thread knows have been made.                                *)
KnownInv ==
  \A t \in Threads :
    /\ thread[t].ref \in 0..made /\ thread[t].own \in 0..made
    /\ thread[t].cur \in 0..made
    /\ thread[t].todo \subseteq 1..made

BaseInv == TypeOK /\ LockInv /\ KnownInv

IsStarting(p) ==
  lock # NoThread /\ thread[lock].at = "starting" /\ thread[lock].own = p
IsStopping(p) ==
  lock # NoThread /\ thread[lock].at \in {"wait", "kill"} /\ thread[lock].cur = p

RegisteredInv(n) ==
  instruments[n] # 0 =>
    /\ proxies[instruments[n]].name = n
    /\ metadata[n] = instruments[n]
    /\ proxies[instruments[n]].running => queues[n] = instruments[n]

(* Nobody else knows a proxy that is being started, and its name is free.    *)
StartingInv(t) ==
  thread[t].at = "starting" =>
    /\ thread[t].own # 0
    /\ proxies[thread[t].own].running
    /\ proxies[thread[t].own].pid \in Pids
    /\ proxies[thread[t].own].name = thread[t].name
    /\ thread[t].name \in Names
    /\ instruments[thread[t].name] = 0
    /\ metadata[thread[t].name] = thread[t].own
    /\ queues[thread[t].name] = thread[t].own
    /\ \A s \in Threads : thread[s].ref # thread[t].own

(* The names whose map entries the thread will erase.                        *)
Gone(t) == IF thread[t].op = "stop_all" THEN Names ELSE {thread[t].name}

(* What will be erased has been stopped or is still to be stopped.           *)
StoppingInv(t) ==
  thread[t].at \in Stopping =>
    /\ Gone(t) \subseteq Names
    /\ \A n \in Gone(t) : instruments[n] # 0 =>
         instruments[n] \in thread[t].todo \/ ~proxies[instruments[n]].running
    /\ \A p \in thread[t].todo : instruments[proxies[p].name] = p
    /\ thread[t].at # "stop" =>
         thread[t].cur \in thread[t].todo /\ ~proxies[thread[t].cur].running

(* A proxy that runs is registered or being started.                         *)
RunningInv(p) ==
  proxies[p].running =>
    /\ instruments[proxies[p].name] = p \/ IsStarting(p)
    /\ proxies[p].pid \in Pids

(* A worker is known to the process manager and to its proxy, and outlives   *)
(* the proxy's running_ only while stop() waits for it.                      *)
WorkerInv(pid) ==
  os[pid].kind = "worker" =>
    /\ up
    /\ os[pid].proxy # 0 /\ os[pid].proxy <= made
    /\ pid \in processes
    /\ proxies[os[pid].proxy].pid = pid
    /\ \/ proxies[os[pid].proxy].running
       \/ IsStopping(os[pid].proxy)

IInv ==
  /\ BaseInv
  /\ \A n \in Names : RegisteredInv(n)
  /\ \A t \in Threads : StartingInv(t) /\ StoppingInv(t)
  /\ \A p \in 1..made : RunningInv(p)
  /\ \A pid \in Pids : WorkerInv(pid)

MapsType ==
  /\ made \in 0..MaxProxies
  /\ proxies \in [1..made -> Proxy]
  /\ instruments \in [Names -> 0..made]
  /\ metadata \in [Names -> 0..made]
  /\ queues \in [Names -> 0..made]

SystemType ==
  /\ processes \subseteq Pids
  /\ os \in [Pids -> Process]
  /\ lock \in Threads \cup {NoThread}

-----------------------------------------------------------------------------
(* A name with an entry has one of the proxies made.                         *)
LEMMA RegisteredRange ==
  ASSUME NEW k, NEW f \in [Names -> 0..k], NEW n \in Names, f[n] # 0
  PROVE  f[n] \in 1..k
<1>1. f[n] \in 0..k
  BY Zenon
<1> QED
  BY ONLY <1>1, f[n] # 0

(* A process that is a worker names one of the proxies made.                 *)
LEMMA ProcessProxy ==
  ASSUME TypeOK, NEW pid \in Pids
  PROVE  os[pid].proxy \in Nat
<1>1. os[pid].proxy \in 0..MaxProxies
  BY Zenon DEF TypeOK, Process
<1> QED
  BY <1>1, RegistryAssumption

(* The proxies are numbered from 1.                                          *)
LEMMA MadeNat == TypeOK => made \in Nat
  BY RegistryAssumption DEF TypeOK

LEMMA MadeProxy ==
  ASSUME NEW k \in Nat, NEW m \in Nat, k # 0, k <= m
  PROVE  k \in 1..m
OBVIOUS

(* What the steps make of a thread is a thread.                              *)
LEMMA IdleIsThread == Idle \in Thread
  BY SMTT(30), RegistryAssumption DEF Idle, Thread, Steps, Handlers

LEMMA ThreadFields ==
  ASSUME NEW x \in Thread
  PROVE  /\ x.at \in Steps /\ x.op \in Handlers /\ x.name \in Names \cup {0}
         /\ x.ref \in 0..MaxProxies /\ x.own \in 0..MaxProxies
         /\ x.cur \in 0..MaxProxies /\ x.todo \subseteq 1..MaxProxies
  BY Zenon DEF Thread

LEMMA ThreadAt ==
  ASSUME NEW x \in Thread, NEW step \in Steps, NEW n \in Names \cup {0},
         NEW p \in 0..MaxProxies, NEW q \in 0..MaxProxies,
         NEW S \in SUBSET (1..MaxProxies)
  PROVE  /\ [x EXCEPT !.at = step] \in Thread
         /\ [x EXCEPT !.at = step, !.name = n] \in Thread
         /\ [x EXCEPT !.ref = p, !.at = step] \in Thread
         /\ [x EXCEPT !.at = step, !.cur = q] \in Thread
         /\ [x EXCEPT !.at = step, !.todo = S] \in Thread
         /\ [x EXCEPT !.at = step, !.cur = q, !.todo = S] \in Thread
  BY Zenon DEF Thread

LEMMA ThreadBegins ==
  ASSUME NEW x \in Thread, NEW step \in Steps, NEW op \in Handlers,
         NEW n \in Names \cup {0}, NEW p \in 0..MaxProxies,
         NEW S \in SUBSET (1..MaxProxies)
  PROVE  /\ [x EXCEPT !.at = step, !.op = op, !.name = n, !.own = p] \in Thread
         /\ [x EXCEPT !.at = step, !.op = op, !.name = n, !.ref = p] \in Thread
         /\ [x EXCEPT !.at = step, !.op = op, !.name = n] \in Thread
         /\ [x EXCEPT !.at = step, !.op = op, !.todo = S] \in Thread
  BY Zenon DEF Thread

(* A step that changes one thread keeps the type of thread.                  *)
LEMMA OneThread ==
  ASSUME thread \in [Threads -> Thread], NEW t \in Threads, NEW x \in Thread,
         thread' = [thread EXCEPT ![t] = x]
  PROVE  thread' \in [Threads -> Thread]
  BY Zenon

(* waitpid and SIGKILL leave processes processes, and start no worker.       *)
Dwindles == \A pid \in Pids : os'[pid].kind = "worker" => os'[pid] = os[pid]

LEMMA ReapDwindles ==
  ASSUME os \in [Pids -> Process], MaxProxies \in Nat, NEW pid, os' = Reap(pid)
  PROVE  os' \in [Pids -> Process] /\ Dwindles
<1>1. Free \in Process /\ Free.kind # "worker"
  BY DEF Free, Process
<1>2. os' = os \/ os' = [os EXCEPT ![pid] = Free]
  BY Zenon DEF Reap
<1> QED
  BY Zenon, <1>1, <1>2 DEF Dwindles

LEMMA KillDwindles ==
  ASSUME os \in [Pids -> Process], MaxProxies \in Nat, NEW pid,
         os' = [os EXCEPT ![pid] = Killed(@)]
  PROVE  /\ os' \in [Pids -> Process] /\ Dwindles
         /\ pid \in Pids => os'[pid].kind # "worker"
<1>1. ASSUME NEW x \in Process
      PROVE  Killed(x) \in Process /\ Killed(x).kind # "worker"
  BY SMTT(30), <1>1 DEF Killed, Process, Free
<1>2. CASE pid \in Pids
  BY Zenon, <1>1, <1>2 DEF Dwindles
<1>3. CASE pid \notin Pids
  BY Zenon, <1>3 DEF Dwindles
<1> QED
  BY Zenon, <1>2, <1>3

(* A proxy stops: only its running_ changes.                                 *)
LEMMA StopsProxy ==
  ASSUME proxies \in [1..made -> Proxy], NEW p,
         proxies' = [proxies EXCEPT ![p].running = FALSE]
  PROVE  /\ proxies' \in [1..made -> Proxy]
         /\ \A q \in 1..made :
              /\ proxies'[q].name = proxies[q].name /\ proxies'[q].pid = proxies[q].pid
              /\ q # p => (proxies'[q].running <=> proxies[q].running)
              /\ q = p => ~proxies'[q].running
<1>1. ASSUME NEW x \in Proxy
      PROVE  /\ [x EXCEPT !.running = FALSE] \in Proxy
             /\ [x EXCEPT !.running = FALSE].name = x.name
             /\ [x EXCEPT !.running = FALSE].pid = x.pid
             /\ [x EXCEPT !.running = FALSE].running = FALSE
  BY Zenon, <1>1 DEF Proxy
<1>2. proxies' = [q \in 1..made |->
                   IF q = p THEN [proxies[q] EXCEPT !.running = FALSE] ELSE proxies[q]]
  BY Zenon
<1>3. proxies' \in [1..made -> Proxy]
  BY ZenonT(60), <1>1, <1>2
<1>4. ASSUME NEW q \in 1..made
      PROVE  /\ proxies'[q].name = proxies[q].name /\ proxies'[q].pid = proxies[q].pid
             /\ q # p => (proxies'[q].running <=> proxies[q].running)
             /\ q = p => ~proxies'[q].running
  <2>1. CASE q = p
    <3>1. proxies'[q] = [proxies[q] EXCEPT !.running = FALSE]
      BY Zenon, <1>2, <2>1
    <3> QED
      BY Zenon, <1>1, <2>1, <3>1
  <2>2. CASE q # p
    <3>1. proxies'[q] = proxies[q]
      BY Zenon, <1>2, <2>2
    <3> QED
      BY Zenon, <2>2, <3>1
  <2> QED
    BY Zenon, <2>1, <2>2
<1> QED
  BY Zenon, <1>3, <1>4

(* A proxy is made: the others stay as they are.                             *)
LEMMA MakesProxy ==
  ASSUME proxies \in [1..made -> Proxy], made \in Nat, MaxProxies \in Nat,
         NEW x \in Proxy, make_shared(x)
  PROVE  /\ made' = made + 1 /\ made' \in 0..MaxProxies
         /\ proxies' \in [1..made' -> Proxy]
         /\ \A p \in 1..made : proxies'[p] = proxies[p]
         /\ proxies'[made + 1] = x
<1>1. made' = made + 1 /\ made' \in 0..MaxProxies
  BY DEF make_shared
<1>2. proxies' = [p \in 1..made + 1 |-> IF p = made + 1 THEN x ELSE proxies[p]]
  BY Zenon DEF make_shared
<1>3. \A p \in 1..made + 1 : p = made + 1 \/ p \in 1..made
  OBVIOUS
<1>4. \A p \in 1..made : p # made + 1 /\ p \in 1..made + 1
  OBVIOUS
<1>5. made + 1 \in 1..made + 1
  OBVIOUS
<1> HIDE DEF make_shared
<1>6. proxies' \in [1..made + 1 -> Proxy]
  BY Zenon, <1>2, <1>3
<1>7. \A p \in 1..made : proxies'[p] = proxies[p]
  BY Zenon, <1>2, <1>4
<1>8. proxies'[made + 1] = x
  BY Zenon, <1>2, <1>5
<1> QED
  BY Zenon, <1>1, <1>6, <1>7, <1>8


(* Every step keeps the type of thread.                                      *)
LEMMA ThreadStep == BaseInv /\ [Next]_vars => thread' \in [Threads -> Thread]
<1> SUFFICES ASSUME BaseInv, [Next]_vars
             PROVE  thread' \in [Threads -> Thread]
  BY Zenon
<1> thread \in [Threads -> Thread] /\ MaxProxies \in Nat /\ made \in 0..MaxProxies
  BY Zenon, RegistryAssumption DEF BaseInv, TypeOK
<1> instruments \in [Names -> 0..MaxProxies] /\ LockInv
  BY SMTT(30), RegistryAssumption DEF BaseInv, TypeOK
<1>1. ASSUME NEW t \in Threads, NEW n \in Names, create_exists(t, n)
      PROVE  thread' \in [Threads -> Thread]
  BY Zenon, <1>1 DEF create_exists, vars
<1>2. ASSUME NEW t \in Threads, NEW n \in Names, create_throws(t, n)
      PROVE  thread' \in [Threads -> Thread]
  BY Zenon, <1>2 DEF create_throws
<1>3. ASSUME NEW t \in Threads, NEW n \in Names, create_no_plugin(t, n)
      PROVE  thread' \in [Threads -> Thread]
  BY Zenon, <1>3 DEF create_no_plugin
<1>4. ASSUME NEW t \in Threads, NEW n \in Names, create_start_fails(t, n)
      PROVE  thread' \in [Threads -> Thread]
  BY Zenon, <1>4 DEF create_start_fails
<1>5. ASSUME NEW t \in Threads, NEW n \in Names, NEW pid \in Pids,
             NEW op \in {"start", "test"}, create_spawns(t, n, pid, op)
      PROVE  thread' \in [Threads -> Thread]
  <2> DEFINE x == [Idle EXCEPT !.at = "starting", !.op = op, !.name = n, !.own = made + 1]
  <2>1. "starting" \in Steps /\ op \in Handlers /\ made + 1 \in 0..MaxProxies
    BY SMTT(30), <1>5, RegistryAssumption
      DEF Steps, Handlers, create_spawns, make_shared
  <2>2. x \in Thread
    BY Zenon, <2>1, IdleIsThread, ThreadBegins
  <2>3. thread' = [thread EXCEPT ![t] = x]
    BY Zenon, <1>5 DEF create_spawns, make_shared
  <2> QED
    BY Zenon, <2>2, <2>3, OneThread
<1>6. ASSUME NEW t \in Threads, NEW n \in Names, handle_status(t, n)
      PROVE  thread' \in [Threads -> Thread]
  <2> DEFINE x == [Idle EXCEPT !.at = "status", !.op = "status", !.name = n,
                           !.ref = instruments[n]]
  <2>1. "status" \in Steps /\ "status" \in Handlers /\ instruments[n] \in 0..MaxProxies
    BY Zenon, <1>6, RegistryAssumption DEF Steps, Handlers
  <2>2. x \in Thread
    BY Zenon, <2>1, IdleIsThread, ThreadBegins
  <2>3. thread' = [thread EXCEPT ![t] = x]
    BY Zenon, <1>6 DEF handle_status
  <2> QED
    BY Zenon, <2>2, <2>3, OneThread
<1>7. ASSUME NEW t \in Threads, NEW n \in Names, handle_stop(t, n)
      PROVE  thread' \in [Threads -> Thread]
  <2> DEFINE x == [Idle EXCEPT !.at = "remove", !.op = "stop", !.name = n]
  <2>1. "remove" \in Steps /\ "stop" \in Handlers
    BY Zenon, <1>7, RegistryAssumption DEF Steps, Handlers
  <2>2. x \in Thread
    BY Zenon, <2>1, IdleIsThread, ThreadBegins
  <2>3. thread' = [thread EXCEPT ![t] = x]
    BY Zenon, <1>7 DEF handle_stop
  <2> QED
    BY Zenon, <2>2, <2>3, OneThread
<1>8. ASSUME NEW t \in Threads, stop_all(t)
      PROVE  thread' \in [Threads -> Thread]
  <2> DEFINE x == [Idle EXCEPT !.at = "stop", !.op = "stop_all",
                           !.todo = {instruments[n] : n \in list_instruments}]
  <2>1. /\ "stop" \in Steps /\ "stop_all" \in Handlers
        /\ {instruments[n] : n \in list_instruments} \in SUBSET (1..MaxProxies)
    BY SMTT(30), <1>8, RegistryAssumption DEF Steps, Handlers, list_instruments
  <2>2. x \in Thread
    BY Zenon, <2>1, IdleIsThread, ThreadBegins
  <2>3. thread' = [thread EXCEPT ![t] = x]
    BY Zenon, <1>8 DEF stop_all
  <2> QED
    BY Zenon, <2>2, <2>3, OneThread
<1>9. ASSUME NEW t \in Threads, create_ends(t)
      PROVE  thread' \in [Threads -> Thread]
  <2> DEFINE x == [thread[t] EXCEPT !.at = "list"]
  <2>1. x \in Thread
    BY <1>9, ThreadAt, ZenonT(60) DEF Steps
  <2>2. thread' = [thread EXCEPT ![t] = x]
    BY Zenon, <1>9 DEF create_ends, Goto
  <2> QED
    BY Zenon, <2>1, <2>2, OneThread
<1>10. ASSUME NEW t \in Threads, create_dies(t)
      PROVE  thread' \in [Threads -> Thread]
  BY Zenon, <1>10, IdleIsThread, OneThread DEF create_dies, Returns
<1>11. ASSUME NEW t \in Threads, handle_list(t)
      PROVE  thread' \in [Threads -> Thread]
  <2>1. CASE Returns(t)
    BY Zenon, <2>1, IdleIsThread, OneThread DEF Returns
  <2>2. ASSUME NEW n \in Names,
               thread' = [thread EXCEPT ![t].at = "get", ![t].name = n]
        PROVE  thread' \in [Threads -> Thread]
    <3>1. [thread[t] EXCEPT !.at = "get", !.name = n] \in Thread
      BY Zenon, ThreadAt DEF Steps
    <3>2. thread' = [thread EXCEPT ![t] = [thread[t] EXCEPT !.at = "get", !.name = n]]
      BY Zenon, <2>2
    <3> QED
      BY Zenon, <3>1, <3>2, OneThread
  <2> QED
    BY Zenon, <1>11, <2>1, <2>2 DEF handle_list, back, list_instruments
<1>12. ASSUME NEW t \in Threads, get_instrument(t)
      PROVE  thread' \in [Threads -> Thread]
  <2> DEFINE p == instruments[thread[t].name]
             next == IF p = 0 THEN "remove" ELSE "use"
             x == [thread[t] EXCEPT !.ref = p, !.at = next]
  <2>1. p \in 0..MaxProxies
    BY Zenon, <1>12 DEF get_instrument, At, LockInv
  <2>2. x \in Thread
    <3>1. next \in Steps /\ thread[t] \in Thread
      BY Zenon DEF Steps
    <3> HIDE DEF p, next
    <3> QED
      BY Zenon, <2>1, <3>1, ThreadAt
  <2>3. thread' = [thread EXCEPT ![t] = x]
    BY Zenon, <1>12 DEF get_instrument
  <2> QED
    BY Zenon, <2>2, <2>3, OneThread
<1>13. ASSUME NEW t \in Threads, handle_test(t)
      PROVE  thread' \in [Threads -> Thread]
  <2> DEFINE x == [thread[t] EXCEPT !.at = "remove"]
  <2>1. x \in Thread
    BY <1>13, ThreadAt, ZenonT(60) DEF Steps
  <2>2. thread' = [thread EXCEPT ![t] = x]
    BY Zenon, <1>13 DEF handle_test, Goto
  <2> QED
    BY Zenon, <2>1, <2>2, OneThread
<1>14. ASSUME NEW t \in Threads, status_is_alive(t)
      PROVE  thread' \in [Threads -> Thread]
  BY Zenon, <1>14, IdleIsThread, OneThread DEF status_is_alive, Returns
<1>15. ASSUME NEW t \in Threads, remove_instrument(t)
      PROVE  thread' \in [Threads -> Thread]
  <2> DEFINE S == {instruments[thread[t].name]}
             x == [thread[t] EXCEPT !.at = "stop", !.todo = S]
  <2>1. S \subseteq 1..MaxProxies
    BY SMTT(30), <1>15 DEF remove_instrument, At, LockInv
  <2>2. x \in Thread
    BY <2>1, ThreadAt, ZenonT(60) DEF Steps
  <2>3. thread' = [thread EXCEPT ![t] = x]
    BY Zenon, <1>15 DEF remove_instrument
  <2> QED
    BY Zenon, <2>2, <2>3, OneThread
<1>16. ASSUME NEW t \in Threads, remove_nothing(t)
      PROVE  thread' \in [Threads -> Thread]
  BY Zenon, <1>16, IdleIsThread, OneThread DEF remove_nothing, Returns
<1>17. ASSUME NEW t \in Threads, proxy_stop(t)
      PROVE  thread' \in [Threads -> Thread]
  <2>1. PICK p \in thread[t].todo :
          thread' = [thread EXCEPT ![t].at = "wait", ![t].cur = p]
    BY Zenon, <1>17 DEF proxy_stop
  <2>2. [thread[t] EXCEPT !.at = "wait", !.cur = p] \in Thread
    <3>1. p \in 0..MaxProxies
      BY SMTT(30), ThreadFields
    <3> QED
      BY <3>1, ThreadAt, ZenonT(60) DEF Steps
  <2>3. thread' = [thread EXCEPT ![t] = [thread[t] EXCEPT !.at = "wait", !.cur = p]]
    BY Zenon, <2>1
  <2> QED
    BY Zenon, <2>2, <2>3, OneThread
<1>18. ASSUME NEW t \in Threads, wait_for_exit(t)
      PROVE  thread' \in [Threads -> Thread]
  <2> DEFINE x == [thread[t] EXCEPT !.at = "clean"]
  <2>1. x \in Thread
    BY <1>18, ThreadAt, ZenonT(60) DEF Steps
  <2>2. thread' = [thread EXCEPT ![t] = x]
    BY Zenon, <1>18 DEF wait_for_exit, Goto
  <2> QED
    BY Zenon, <2>1, <2>2, OneThread
<1>19. ASSUME NEW t \in Threads, wait_times_out(t)
      PROVE  thread' \in [Threads -> Thread]
  <2> DEFINE x == [thread[t] EXCEPT !.at = "kill"]
  <2>1. x \in Thread
    BY <1>19, ThreadAt, ZenonT(60) DEF Steps
  <2>2. thread' = [thread EXCEPT ![t] = x]
    BY Zenon, <1>19 DEF wait_times_out, Goto
  <2> QED
    BY Zenon, <2>1, <2>2, OneThread
<1>20. ASSUME NEW t \in Threads, kill_process(t)
      PROVE  thread' \in [Threads -> Thread]
  <2> DEFINE x == [thread[t] EXCEPT !.at = "clean"]
  <2>1. x \in Thread
    BY Zenon, <1>20, ThreadAt DEF Steps
  <2>2. thread' = [thread EXCEPT ![t] = x]
    BY Zenon, <1>20 DEF kill_process, Goto
  <2> QED
    BY Zenon, <2>1, <2>2, OneThread
<1>21. ASSUME NEW t \in Threads, cleanup_ipc(t)
      PROVE  thread' \in [Threads -> Thread]
  <2> DEFINE S == thread[t].todo \ {thread[t].cur}
             x == [thread[t] EXCEPT !.at = "stop", !.cur = 0, !.todo = S]
  <2>1. S \subseteq 1..MaxProxies
    BY Zenon, ThreadFields
  <2>2. x \in Thread
    <3>1. 0 \in 0..MaxProxies /\ "stop" \in Steps
      BY DEF Steps
    <3> QED
      BY Zenon, <2>1, <3>1, ThreadAt
  <2>3. thread' = [thread EXCEPT ![t] = x]
    BY Zenon, <1>21 DEF cleanup_ipc
  <2> QED
    BY Zenon, <2>2, <2>3, OneThread
<1>22. ASSUME NEW t \in Threads, erase(t)
      PROVE  thread' \in [Threads -> Thread]
  BY Zenon, <1>22, IdleIsThread, OneThread DEF erase, Returns
<1>23. ASSUME NEW pid \in Pids, worker_exits(pid)
      PROVE  thread' \in [Threads -> Thread]
  BY Zenon, <1>23 DEF worker_exits
<1>24. ASSUME NEW pid \in Pids, foreign_process(pid)
      PROVE  thread' \in [Threads -> Thread]
  BY Zenon, <1>24 DEF foreign_process
<1>25. CASE cleanup_all
  BY Zenon, <1>25 DEF cleanup_all
<1>26. CASE UNCHANGED vars
  BY Zenon, <1>26 DEF vars
<1> QED
  BY Zenon, <1>1, <1>2, <1>3, <1>4, <1>5, <1>6, <1>7, <1>8, <1>9, <1>10,
     <1>11, <1>12, <1>13, <1>14, <1>15, <1>16, <1>17, <1>18, <1>19, <1>20,
     <1>21, <1>22, <1>23, <1>24, <1>25, <1>26
  DEF Next, Begin, Continue

(* mutex_ is held by who starts or stops a proxy.                            *)
LEMMA LockStep == BaseInv /\ [Next]_vars => LockInv'
<1> SUFFICES ASSUME BaseInv, [Next]_vars
             PROVE  LockInv'
  BY Zenon
<1> USE RegistryAssumption
  DEF BaseInv, TypeOK, LockInv, Thread, Stopping, Idle, At, registry, system
<1>1. ASSUME NEW t \in Threads, NEW n \in Names, create_exists(t, n)
      PROVE  LockInv'
  BY SMTT(30), <1>1 DEF create_exists, Peeks, vars
<1>2. ASSUME NEW t \in Threads, NEW n \in Names, create_throws(t, n)
      PROVE  LockInv'
  BY Zenon, <1>2 DEF create_throws, make_shared, Peeks
<1>3. ASSUME NEW t \in Threads, NEW n \in Names, create_no_plugin(t, n)
      PROVE  LockInv'
  BY Zenon, <1>3 DEF create_no_plugin, Peeks
<1>4. ASSUME NEW t \in Threads, NEW n \in Names, create_start_fails(t, n)
      PROVE  LockInv'
  BY Zenon, <1>4 DEF create_start_fails, make_shared, Peeks
<1>5. ASSUME NEW t \in Threads, NEW n \in Names, NEW pid \in Pids,
             NEW op \in {"start", "test"}, create_spawns(t, n, pid, op)
      PROVE  LockInv'
  BY ZenonT(60), <1>5 DEF create_spawns, make_shared, Locks
<1>6. ASSUME NEW t \in Threads, NEW n \in Names, handle_status(t, n)
      PROVE  LockInv'
  BY <1>6, ZenonT(60) DEF handle_status, Peeks
<1>7. ASSUME NEW t \in Threads, NEW n \in Names, handle_stop(t, n)
      PROVE  LockInv'
  BY <1>7, ZenonT(60) DEF handle_stop, Peeks
<1>8. ASSUME NEW t \in Threads, stop_all(t)
      PROVE  LockInv'
  BY <1>8, ZenonT(60) DEF stop_all, Locks, list_instruments
<1>9. ASSUME NEW t \in Threads, create_ends(t)
      PROVE  LockInv'
  BY <1>9, ZenonT(60) DEF create_ends, Goto
<1>10. ASSUME NEW t \in Threads, create_dies(t)
      PROVE  LockInv'
  BY <1>10, ZenonT(60) DEF create_dies, Reap, Returns
<1>11. ASSUME NEW t \in Threads, handle_list(t)
      PROVE  LockInv'
  <2>1. thread[t].at = "list" /\ lock' = lock /\ UNCHANGED <<registry, queues, system, up>>
    BY Zenon, <1>11 DEF handle_list, Peeks
  <2>2. CASE Returns(t)
    BY Zenon, <2>1, <2>2 DEF Returns
  <2>3. ASSUME NEW n \in Names,
               thread' = [thread EXCEPT ![t].at = "get", ![t].name = n]
        PROVE  LockInv'
    BY ZenonT(60), <2>1, <2>3
  <2> QED
    BY Zenon, <1>11, <2>2, <2>3 DEF handle_list, back, list_instruments
<1>12. ASSUME NEW t \in Threads, get_instrument(t)
      PROVE  LockInv'
  BY ZenonT(60), <1>12 DEF get_instrument, Peeks
<1>13. ASSUME NEW t \in Threads, handle_test(t)
      PROVE  LockInv'
  BY ZenonT(60), <1>13 DEF handle_test, Goto
<1>14. ASSUME NEW t \in Threads, status_is_alive(t)
      PROVE  LockInv'
  BY Zenon, <1>14 DEF status_is_alive, Reap, Drops, destroy, Returns
<1>15. ASSUME NEW t \in Threads, remove_instrument(t)
      PROVE  LockInv'
  BY ZenonT(60), <1>15 DEF remove_instrument, Locks
<1>16. ASSUME NEW t \in Threads, remove_nothing(t)
      PROVE  LockInv'
  BY ZenonT(60), <1>16 DEF remove_nothing, Drops, destroy, Returns, Peeks
<1>17. ASSUME NEW t \in Threads, proxy_stop(t)
      PROVE  LockInv'
  BY SMTT(30), <1>17 DEF proxy_stop
<1>18. ASSUME NEW t \in Threads, wait_for_exit(t)
      PROVE  LockInv'
  BY <1>18, ZenonT(60) DEF wait_for_exit, Reap, Goto
<1>19. ASSUME NEW t \in Threads, wait_times_out(t)
      PROVE  LockInv'
  BY <1>19, ZenonT(60) DEF wait_times_out, Goto
<1>20. ASSUME NEW t \in Threads, kill_process(t)
      PROVE  LockInv'
  BY <1>20, ZenonT(60) DEF kill_process, Killed, Goto
<1>21. ASSUME NEW t \in Threads, cleanup_ipc(t)
      PROVE  LockInv'
  BY ZenonT(60), <1>21 DEF cleanup_ipc
<1>22. ASSUME NEW t \in Threads, erase(t)
      PROVE  LockInv'
  BY <1>22, ZenonT(60) DEF erase, Drops, destroy, Returns
<1>23. ASSUME NEW pid \in Pids, worker_exits(pid)
      PROVE  LockInv'
  BY Zenon, <1>23 DEF worker_exits
<1>24. ASSUME NEW pid \in Pids, foreign_process(pid)
      PROVE  LockInv'
  BY Zenon, <1>24 DEF foreign_process
<1>25. CASE cleanup_all
  BY Zenon, <1>25 DEF cleanup_all
<1>26. CASE UNCHANGED vars
  BY Zenon, <1>26 DEF vars
<1> HIDE DEF BaseInv, TypeOK, LockInv, Thread, Stopping, Idle, At, registry,
      system
<1> QED
  BY Zenon, <1>1, <1>2, <1>3, <1>4, <1>5, <1>6, <1>7, <1>8, <1>9, <1>10,
     <1>11, <1>12, <1>13, <1>14, <1>15, <1>16, <1>17, <1>18, <1>19, <1>20,
     <1>21, <1>22, <1>23, <1>24, <1>25, <1>26
  DEF Next, Begin, Continue

(* A handler that returns knows no proxy.                                    *)
LEMMA KnownReturns ==
  ASSUME BaseInv, NEW t \in Threads, Returns(t), made' = made
  PROVE  KnownInv'
<1>1. 0 \in 0..made
  BY MadeNat DEF BaseInv
<1>2. /\ thread'[t] = Idle
      /\ \A s \in Threads \ {t} : thread'[s] = thread[s]
  BY Zenon DEF Returns, BaseInv, TypeOK
<1>3. Idle.ref = 0 /\ Idle.own = 0 /\ Idle.cur = 0 /\ Idle.todo = {}
  BY Zenon DEF Idle
<1> QED
  BY <1>1, <1>2, <1>3, ZenonT(60) DEF BaseInv, KnownInv

(* A step makes no proxy known that is not made.                             *)
LEMMA KnownStep == BaseInv /\ [Next]_vars => KnownInv'
<1> SUFFICES ASSUME BaseInv, [Next]_vars
             PROVE  KnownInv'
  BY Zenon
<1> USE RegistryAssumption
  DEF BaseInv, TypeOK, LockInv, KnownInv, Thread, Stopping, Idle, At,
      registry, system
<1>1. ASSUME NEW t \in Threads, NEW n \in Names, create_exists(t, n)
      PROVE  KnownInv'
  BY Zenon, <1>1 DEF create_exists, Peeks, vars
<1>2. ASSUME NEW t \in Threads, NEW n \in Names, create_throws(t, n)
      PROVE  KnownInv'
  BY SMTT(30), <1>2 DEF create_throws, make_shared, Peeks
<1>3. ASSUME NEW t \in Threads, NEW n \in Names, create_no_plugin(t, n)
      PROVE  KnownInv'
  BY Zenon, <1>3 DEF create_no_plugin, Peeks
<1>4. ASSUME NEW t \in Threads, NEW n \in Names, create_start_fails(t, n)
      PROVE  KnownInv'
  BY SMTT(30), <1>4 DEF create_start_fails, make_shared, Peeks
<1>5. ASSUME NEW t \in Threads, NEW n \in Names, NEW pid \in Pids,
             NEW op \in {"start", "test"}, create_spawns(t, n, pid, op)
      PROVE  KnownInv'
  BY SMTT(30), <1>5 DEF create_spawns, make_shared, Locks
<1>6. ASSUME NEW t \in Threads, NEW n \in Names, handle_status(t, n)
      PROVE  KnownInv'
  BY SMTT(30), <1>6 DEF handle_status, Peeks
<1>7. ASSUME NEW t \in Threads, NEW n \in Names, handle_stop(t, n)
      PROVE  KnownInv'
  BY SMTT(30), <1>7 DEF handle_stop, Peeks
<1>8. ASSUME NEW t \in Threads, stop_all(t)
      PROVE  KnownInv'
  BY SMTT(30), <1>8 DEF stop_all, Locks, list_instruments
<1>9. ASSUME NEW t \in Threads, create_ends(t)
      PROVE  KnownInv'
  BY ZenonT(60), <1>9 DEF create_ends, Goto
<1>10. ASSUME NEW t \in Threads, create_dies(t)
      PROVE  KnownInv'
  <2> HIDE DEF BaseInv
  <2>1. Returns(t) /\ made' = made
    BY Zenon, <1>10 DEF create_dies
  <2> QED
    BY Zenon, <2>1, KnownReturns
<1>11. ASSUME NEW t \in Threads, handle_list(t)
      PROVE  KnownInv'
  <2>1. thread[t].at = "list" /\ lock' = lock /\ UNCHANGED <<registry, queues, system, up>>
    BY Zenon, <1>11 DEF handle_list, Peeks
  <2>2. CASE Returns(t)
    <3>1. made' = made
      BY Zenon, <2>1
    <3> HIDE DEF BaseInv
    <3> QED
      BY Zenon, <2>2, <3>1, KnownReturns
  <2>3. ASSUME NEW n \in Names,
               thread' = [thread EXCEPT ![t].at = "get", ![t].name = n]
        PROVE  KnownInv'
    BY SMTT(30), <2>1, <2>3
  <2> QED
    BY Zenon, <1>11, <2>2, <2>3 DEF handle_list, back, list_instruments
<1>12. ASSUME NEW t \in Threads, get_instrument(t)
      PROVE  KnownInv'
  <2>1. /\ \A s \in Threads \ {t} : thread'[s] = thread[s]
        /\ thread'[t].own = thread[t].own /\ thread'[t].cur = thread[t].cur
        /\ thread'[t].todo = thread[t].todo /\ made' = made
        /\ thread'[t].ref = instruments[thread[t].name]
    BY ZenonT(60), <1>12 DEF get_instrument
  <2>2. instruments[thread[t].name] \in 0..made
    BY Zenon, <1>12 DEF get_instrument
  <2> QED
    BY ZenonT(60), <2>1, <2>2
<1>13. ASSUME NEW t \in Threads, handle_test(t)
      PROVE  KnownInv'
  BY ZenonT(60), <1>13 DEF handle_test, Goto
<1>14. ASSUME NEW t \in Threads, status_is_alive(t)
      PROVE  KnownInv'
  BY SMTT(30), <1>14 DEF status_is_alive, Reap, Drops, destroy, Returns
<1>15. ASSUME NEW t \in Threads, remove_instrument(t)
      PROVE  KnownInv'
  BY SMTT(30), <1>15 DEF remove_instrument, Locks
<1>16. ASSUME NEW t \in Threads, remove_nothing(t)
      PROVE  KnownInv'
  BY ZenonT(60), <1>16 DEF remove_nothing, Drops, destroy, Returns, Peeks
<1>17. ASSUME NEW t \in Threads, proxy_stop(t)
      PROVE  KnownInv'
  BY SMTT(30), <1>17 DEF proxy_stop
<1>18. ASSUME NEW t \in Threads, wait_for_exit(t)
      PROVE  KnownInv'
  BY ZenonT(60), <1>18 DEF wait_for_exit, Reap, Goto
<1>19. ASSUME NEW t \in Threads, wait_times_out(t)
      PROVE  KnownInv'
  BY ZenonT(60), <1>19 DEF wait_times_out, Goto
<1>20. ASSUME NEW t \in Threads, kill_process(t)
      PROVE  KnownInv'
  BY ZenonT(60), <1>20 DEF kill_process, Killed, Goto
<1>21. ASSUME NEW t \in Threads, cleanup_ipc(t)
      PROVE  KnownInv'
  BY SMTT(30), <1>21 DEF cleanup_ipc
<1>22. ASSUME NEW t \in Threads, erase(t)
      PROVE  KnownInv'
  BY SMTT(30), <1>22 DEF erase, Drops, destroy, Returns
<1>23. ASSUME NEW pid \in Pids, worker_exits(pid)
      PROVE  KnownInv'
  BY Zenon, <1>23 DEF worker_exits
<1>24. ASSUME NEW pid \in Pids, foreign_process(pid)
      PROVE  KnownInv'
  BY Zenon, <1>24 DEF foreign_process
<1>25. CASE cleanup_all
  BY Zenon, <1>25 DEF cleanup_all
<1>26. CASE UNCHANGED vars
  BY Zenon, <1>26 DEF vars
<1> HIDE DEF BaseInv, TypeOK, LockInv, KnownInv, Thread, Stopping, Idle, At,
      registry, system
<1> QED
  BY Zenon, <1>1, <1>2, <1>3, <1>4, <1>5, <1>6, <1>7, <1>8, <1>9, <1>10,
     <1>11, <1>12, <1>13, <1>14, <1>15, <1>16, <1>17, <1>18, <1>19, <1>20,
     <1>21, <1>22, <1>23, <1>24, <1>25, <1>26
  DEF Next, Begin, Continue

(* Every step keeps the types of the proxies and of the maps.                *)
LEMMA MapsStep == BaseInv /\ [Next]_vars => MapsType'
<1> SUFFICES ASSUME BaseInv, [Next]_vars
             PROVE  MapsType'
  BY Zenon
<1> MapsType
  BY Zenon DEF BaseInv, TypeOK, MapsType
<1> made \in Nat /\ MaxProxies \in Nat /\ 0 \in 0..made
  BY SMTT(30), RegistryAssumption DEF MapsType
<1> USE DEF MapsType
<1>1. ASSUME NEW t \in Threads, NEW n \in Names, create_exists(t, n)
      PROVE  MapsType'
  BY Zenon, <1>1 DEF create_exists, registry, vars
<1>2. ASSUME NEW t \in Threads, NEW n \in Names, create_throws(t, n)
      PROVE  MapsType'
  <2>1. [name |-> n, pid |-> 0, running |-> FALSE] \in Proxy
    BY Zenon DEF Proxy
  <2>2. /\ made' = made + 1 /\ made' \in 0..MaxProxies
        /\ proxies' \in [1..made' -> Proxy]
    BY Zenon, <1>2, <2>1, MakesProxy DEF create_throws
  <2>3. \A v \in 0..made : v \in 0..made'
    BY SMTT(30), <2>2
  <2>4. made' \in 0..made' /\ 0 \in 0..made'
    BY SMTT(30), <2>2
  <2>5. /\ instruments' \in [Names -> 0..made'] /\ metadata' \in [Names -> 0..made']
        /\ queues' \in [Names -> 0..made']
    BY Zenon, <1>2, <2>3, <2>4 DEF create_throws
  <2> QED
    BY Zenon, <2>2, <2>5
<1>3. ASSUME NEW t \in Threads, NEW n \in Names, create_no_plugin(t, n)
      PROVE  MapsType'
  BY Zenon, <1>3 DEF create_no_plugin
<1>4. ASSUME NEW t \in Threads, NEW n \in Names, create_start_fails(t, n)
      PROVE  MapsType'
  <2>1. [name |-> n, pid |-> 0, running |-> FALSE] \in Proxy
    BY Zenon DEF Proxy
  <2>2. /\ made' = made + 1 /\ made' \in 0..MaxProxies
        /\ proxies' \in [1..made' -> Proxy]
    BY Zenon, <1>4, <2>1, MakesProxy DEF create_start_fails
  <2>3. \A v \in 0..made : v \in 0..made'
    BY SMTT(30), <2>2
  <2>4. made' \in 0..made' /\ 0 \in 0..made'
    BY SMTT(30), <2>2
  <2>5. /\ instruments' \in [Names -> 0..made'] /\ metadata' \in [Names -> 0..made']
        /\ queues' \in [Names -> 0..made']
    <3>1. PICK q \in {0, made'} : queues' = [queues EXCEPT ![n] = q]
      BY Zenon, <1>4 DEF create_start_fails
    <3>2. instruments' = instruments /\ metadata' = [metadata EXCEPT ![n] = 0]
      BY Zenon, <1>4 DEF create_start_fails
    <3> QED
      BY Zenon, <2>3, <2>4, <3>1, <3>2
  <2> QED
    BY Zenon, <2>2, <2>5
<1>5. ASSUME NEW t \in Threads, NEW n \in Names, NEW pid \in Pids,
             NEW op \in {"start", "test"}, create_spawns(t, n, pid, op)
      PROVE  MapsType'
  <2>1. [name |-> n, pid |-> pid, running |-> TRUE] \in Proxy
    BY Zenon DEF Proxy
  <2>2. /\ made' = made + 1 /\ made' \in 0..MaxProxies
        /\ proxies' \in [1..made' -> Proxy]
    BY Zenon, <1>5, <2>1, MakesProxy DEF create_spawns
  <2>3. \A v \in 0..made : v \in 0..made'
    BY SMTT(30), <2>2
  <2>4. made' \in 0..made' /\ 0 \in 0..made'
    BY SMTT(30), <2>2
  <2>5. /\ instruments' \in [Names -> 0..made'] /\ metadata' \in [Names -> 0..made']
        /\ queues' \in [Names -> 0..made']
    BY Zenon, <1>5, <2>3, <2>4 DEF create_spawns
  <2> QED
    BY Zenon, <2>2, <2>5
<1>6. ASSUME NEW t \in Threads, NEW n \in Names, handle_status(t, n)
      PROVE  MapsType'
  BY Zenon, <1>6 DEF handle_status, registry
<1>7. ASSUME NEW t \in Threads, NEW n \in Names, handle_stop(t, n)
      PROVE  MapsType'
  BY Zenon, <1>7 DEF handle_stop, registry
<1>8. ASSUME NEW t \in Threads, stop_all(t)
      PROVE  MapsType'
  BY Zenon, <1>8 DEF stop_all, registry
<1>9. ASSUME NEW t \in Threads, create_ends(t)
      PROVE  MapsType'
  <2>1. /\ instruments' = [instruments EXCEPT ![thread[t].name] = thread[t].own]
        /\ UNCHANGED <<metadata, made, proxies, queues>>
    BY Zenon, <1>9 DEF create_ends
  <2>2. thread[t].own \in 0..made
    BY Zenon DEF BaseInv, KnownInv
  <2> QED
    BY Zenon, <2>1, <2>2
<1>10. ASSUME NEW t \in Threads, create_dies(t)
      PROVE  MapsType'
  <2>1. proxies' \in [1..made -> Proxy]
    BY Zenon, <1>10, StopsProxy DEF create_dies
  <2>2. queues' \in [Names -> 0..made] /\ metadata' \in [Names -> 0..made]
    BY Zenon, <1>10 DEF create_dies
  <2>3. UNCHANGED <<instruments, made>>
    BY Zenon, <1>10 DEF create_dies
  <2> QED
    BY Zenon, <2>1, <2>2, <2>3
<1>11. ASSUME NEW t \in Threads, handle_list(t)
      PROVE  MapsType'
  BY Zenon, <1>11 DEF handle_list, registry
<1>12. ASSUME NEW t \in Threads, get_instrument(t)
      PROVE  MapsType'
  BY Zenon, <1>12 DEF get_instrument, registry
<1>13. ASSUME NEW t \in Threads, handle_test(t)
      PROVE  MapsType'
  BY Zenon, <1>13 DEF handle_test, registry
<1>14. ASSUME NEW t \in Threads, status_is_alive(t)
      PROVE  MapsType'
  BY Zenon, <1>14 DEF status_is_alive, Drops, destroy, registry
<1>15. ASSUME NEW t \in Threads, remove_instrument(t)
      PROVE  MapsType'
  BY Zenon, <1>15 DEF remove_instrument, registry
<1>16. ASSUME NEW t \in Threads, remove_nothing(t)
      PROVE  MapsType'
  BY Zenon, <1>16 DEF remove_nothing, Drops, destroy, registry
<1>17. ASSUME NEW t \in Threads, proxy_stop(t)
      PROVE  MapsType'
  <2>1. PICK p \in thread[t].todo : proxies' = [proxies EXCEPT ![p].running = FALSE]
    BY Zenon, <1>17 DEF proxy_stop
  <2>2. proxies' \in [1..made -> Proxy]
    BY Zenon, <2>1, StopsProxy
  <2>3. UNCHANGED <<instruments, metadata, made, queues>>
    BY Zenon, <1>17 DEF proxy_stop
  <2> QED
    BY Zenon, <2>2, <2>3
<1>18. ASSUME NEW t \in Threads, wait_for_exit(t)
      PROVE  MapsType'
  BY Zenon, <1>18 DEF wait_for_exit, registry
<1>19. ASSUME NEW t \in Threads, wait_times_out(t)
      PROVE  MapsType'
  BY Zenon, <1>19 DEF wait_times_out, registry
<1>20. ASSUME NEW t \in Threads, kill_process(t)
      PROVE  MapsType'
  BY Zenon, <1>20 DEF kill_process, registry
<1>21. ASSUME NEW t \in Threads, cleanup_ipc(t)
      PROVE  MapsType'
  BY Zenon, <1>21 DEF cleanup_ipc, registry
<1>22. ASSUME NEW t \in Threads, erase(t)
      PROVE  MapsType'
  <2>1. queues' \in [Names -> 0..made]
    BY Zenon, <1>22 DEF erase, Drops, destroy
  <2> QED
    BY Zenon, <1>22, <2>1 DEF erase
<1>23. ASSUME NEW pid \in Pids, worker_exits(pid)
      PROVE  MapsType'
  BY Zenon, <1>23 DEF worker_exits, registry
<1>24. ASSUME NEW pid \in Pids, foreign_process(pid)
      PROVE  MapsType'
  BY Zenon, <1>24 DEF foreign_process, registry
<1>25. CASE cleanup_all
  <2>1. proxies' \in [1..made -> Proxy]
    <3>1. ASSUME NEW x \in Proxy
          PROVE  [x EXCEPT !.running = FALSE] \in Proxy
      BY Zenon, <3>1 DEF Proxy
    <3> QED
      BY Zenon, <1>25, <3>1 DEF cleanup_all
  <2>2. /\ made' = made /\ queues' \in [Names -> 0..made]
        /\ instruments' \in [Names -> 0..made] /\ metadata' \in [Names -> 0..made]
    BY Zenon, <1>25 DEF cleanup_all
  <2> QED
    BY Zenon, <2>1, <2>2
<1>26. CASE UNCHANGED vars
  BY Zenon, <1>26 DEF vars, registry
<1> HIDE DEF MapsType
<1> QED
  BY Zenon, <1>1, <1>2, <1>3, <1>4, <1>5, <1>6, <1>7, <1>8, <1>9, <1>10,
     <1>11, <1>12, <1>13, <1>14, <1>15, <1>16, <1>17, <1>18, <1>19, <1>20,
     <1>21, <1>22, <1>23, <1>24, <1>25, <1>26
  DEF Next, Begin, Continue

(* Every step keeps the types of the processes and of mutex_.                *)
LEMMA SystemStep == BaseInv /\ [Next]_vars => SystemType'
<1> SUFFICES ASSUME BaseInv, [Next]_vars
             PROVE  SystemType'
  BY Zenon
<1> SystemType /\ made \in Nat /\ MaxProxies \in Nat
  BY SMTT(30), RegistryAssumption DEF BaseInv, TypeOK, SystemType
<1> USE DEF SystemType
<1>1. ASSUME NEW t \in Threads, NEW n \in Names, create_exists(t, n)
      PROVE  SystemType'
  BY Zenon, <1>1 DEF create_exists, Peeks, system, vars
<1>2. ASSUME NEW t \in Threads, NEW n \in Names, create_throws(t, n)
      PROVE  SystemType'
  BY Zenon, <1>2 DEF create_throws, Peeks, system
<1>3. ASSUME NEW t \in Threads, NEW n \in Names, create_no_plugin(t, n)
      PROVE  SystemType'
  BY Zenon, <1>3 DEF create_no_plugin, Peeks, system
<1>4. ASSUME NEW t \in Threads, NEW n \in Names, create_start_fails(t, n)
      PROVE  SystemType'
  BY Zenon, <1>4 DEF create_start_fails, Peeks, system
<1>5. ASSUME NEW t \in Threads, NEW n \in Names, NEW pid \in Pids,
             NEW op \in {"start", "test"}, create_spawns(t, n, pid, op)
      PROVE  SystemType'
  <2>1. [kind |-> "worker", proxy |-> made'] \in Process
    BY SMTT(30), <1>5 DEF create_spawns, make_shared, Process
  <2> QED
    BY Zenon, <1>5, <2>1 DEF create_spawns, Locks
<1>6. ASSUME NEW t \in Threads, NEW n \in Names, handle_status(t, n)
      PROVE  SystemType'
  BY Zenon, <1>6 DEF handle_status, Peeks, system
<1>7. ASSUME NEW t \in Threads, NEW n \in Names, handle_stop(t, n)
      PROVE  SystemType'
  BY Zenon, <1>7 DEF handle_stop, Peeks, system
<1>8. ASSUME NEW t \in Threads, stop_all(t)
      PROVE  SystemType'
  BY Zenon, <1>8 DEF stop_all, Locks, system
<1>9. ASSUME NEW t \in Threads, create_ends(t)
      PROVE  SystemType'
  BY Zenon, <1>9 DEF create_ends, system
<1>10. ASSUME NEW t \in Threads, create_dies(t)
      PROVE  SystemType'
  <2>1. os' \in [Pids -> Process]
    BY Zenon, <1>10, ReapDwindles DEF create_dies
  <2> QED
    BY Zenon, <1>10, <2>1 DEF create_dies
<1>11. ASSUME NEW t \in Threads, handle_list(t)
      PROVE  SystemType'
  BY Zenon, <1>11 DEF handle_list, Peeks, system
<1>12. ASSUME NEW t \in Threads, get_instrument(t)
      PROVE  SystemType'
  BY Zenon, <1>12 DEF get_instrument, Peeks, system
<1>13. ASSUME NEW t \in Threads, handle_test(t)
      PROVE  SystemType'
  BY Zenon, <1>13 DEF handle_test, system
<1>14. ASSUME NEW t \in Threads, status_is_alive(t)
      PROVE  SystemType'
  <2>1. os' \in [Pids -> Process]
    BY Zenon, <1>14, ReapDwindles DEF status_is_alive
  <2> QED
    BY Zenon, <1>14, <2>1 DEF status_is_alive
<1>15. ASSUME NEW t \in Threads, remove_instrument(t)
      PROVE  SystemType'
  BY Zenon, <1>15 DEF remove_instrument, Locks, system
<1>16. ASSUME NEW t \in Threads, remove_nothing(t)
      PROVE  SystemType'
  BY Zenon, <1>16 DEF remove_nothing, Peeks, system
<1>17. ASSUME NEW t \in Threads, proxy_stop(t)
      PROVE  SystemType'
  BY Zenon, <1>17 DEF proxy_stop, system
<1>18. ASSUME NEW t \in Threads, wait_for_exit(t)
      PROVE  SystemType'
  <2>1. os' \in [Pids -> Process]
    BY Zenon, <1>18, ReapDwindles DEF wait_for_exit
  <2> QED
    BY Zenon, <1>18, <2>1 DEF wait_for_exit
<1>19. ASSUME NEW t \in Threads, wait_times_out(t)
      PROVE  SystemType'
  BY Zenon, <1>19 DEF wait_times_out, system
<1>20. ASSUME NEW t \in Threads, kill_process(t)
      PROVE  SystemType'
  <2>1. os' \in [Pids -> Process]
    <3>1. os' = [os EXCEPT ![proxies[thread[t].cur].pid] = Killed(@)]
      BY Zenon, <1>20 DEF kill_process
    <3> QED
      BY Zenon, <3>1, KillDwindles
  <2>2. processes' = processes /\ lock' = lock
    BY Zenon, <1>20 DEF kill_process
  <2> QED
    BY Zenon, <2>1, <2>2
<1>21. ASSUME NEW t \in Threads, cleanup_ipc(t)
      PROVE  SystemType'
  BY Zenon, <1>21 DEF cleanup_ipc, system
<1>22. ASSUME NEW t \in Threads, erase(t)
      PROVE  SystemType'
  BY Zenon, <1>22 DEF erase, system
<1>23. ASSUME NEW pid \in Pids, worker_exits(pid)
      PROVE  SystemType'
  <2>1. [os[pid] EXCEPT !.kind = "zombie"] \in Process
    BY Zenon DEF Process
  <2>2. os' = [os EXCEPT ![pid] = [os[pid] EXCEPT !.kind = "zombie"]]
    BY Zenon, <1>23 DEF worker_exits
  <2> QED
    BY Zenon, <1>23, <2>1, <2>2 DEF worker_exits
<1>24. ASSUME NEW pid \in Pids, foreign_process(pid)
      PROVE  SystemType'
  <2>1. Free \in Process /\ [Free EXCEPT !.kind = "other"] \in Process
    BY DEF Process, Free
  <2> QED
    BY Zenon, <1>24, <2>1 DEF foreign_process
<1>25. CASE cleanup_all
  <2>1. Free \in Process
    BY DEF Process, Free
  <2> QED
    BY Zenon, <1>25, <2>1 DEF cleanup_all
<1>26. CASE UNCHANGED vars
  BY Zenon, <1>26 DEF vars, system
<1> HIDE DEF SystemType
<1> QED
  BY Zenon, <1>1, <1>2, <1>3, <1>4, <1>5, <1>6, <1>7, <1>8, <1>9, <1>10,
     <1>11, <1>12, <1>13, <1>14, <1>15, <1>16, <1>17, <1>18, <1>19, <1>20,
     <1>21, <1>22, <1>23, <1>24, <1>25, <1>26
  DEF Next, Begin, Continue

(* Every step leaves the flags flags.                                        *)
LEMMA FlagStep ==
  BaseInv /\ [Next]_vars => up' \in BOOLEAN /\ stray' \in BOOLEAN
<1> SUFFICES ASSUME BaseInv, [Next]_vars
             PROVE  up' \in BOOLEAN /\ stray' \in BOOLEAN
  BY Zenon
<1> up \in BOOLEAN /\ stray \in BOOLEAN
  BY Zenon DEF BaseInv, TypeOK
<1>1. ASSUME NEW t \in Threads, NEW n \in Names, create_exists(t, n)
      PROVE  up' \in BOOLEAN /\ stray' \in BOOLEAN
  BY Zenon, <1>1 DEF create_exists, system, vars
<1>2. ASSUME NEW t \in Threads, NEW n \in Names, create_throws(t, n)
      PROVE  up' \in BOOLEAN /\ stray' \in BOOLEAN
  BY Zenon, <1>2 DEF create_throws, system
<1>3. ASSUME NEW t \in Threads, NEW n \in Names, create_no_plugin(t, n)
      PROVE  up' \in BOOLEAN /\ stray' \in BOOLEAN
  BY Zenon, <1>3 DEF create_no_plugin, system
<1>4. ASSUME NEW t \in Threads, NEW n \in Names, create_start_fails(t, n)
      PROVE  up' \in BOOLEAN /\ stray' \in BOOLEAN
  BY Zenon, <1>4 DEF create_start_fails, system
<1>5. ASSUME NEW t \in Threads, NEW n \in Names, NEW pid \in Pids,
             NEW op \in {"start", "test"}, create_spawns(t, n, pid, op)
      PROVE  up' \in BOOLEAN /\ stray' \in BOOLEAN
  BY Zenon, <1>5 DEF create_spawns, system
<1>6. ASSUME NEW t \in Threads, NEW n \in Names, handle_status(t, n)
      PROVE  up' \in BOOLEAN /\ stray' \in BOOLEAN
  BY Zenon, <1>6 DEF handle_status, system
<1>7. ASSUME NEW t \in Threads, NEW n \in Names, handle_stop(t, n)
      PROVE  up' \in BOOLEAN /\ stray' \in BOOLEAN
  BY Zenon, <1>7 DEF handle_stop, system
<1>8. ASSUME NEW t \in Threads, stop_all(t)
      PROVE  up' \in BOOLEAN /\ stray' \in BOOLEAN
  BY Zenon, <1>8 DEF stop_all, system
<1>9. ASSUME NEW t \in Threads, create_ends(t)
      PROVE  up' \in BOOLEAN /\ stray' \in BOOLEAN
  BY Zenon, <1>9 DEF create_ends, system
<1>10. ASSUME NEW t \in Threads, create_dies(t)
      PROVE  up' \in BOOLEAN /\ stray' \in BOOLEAN
  BY Zenon, <1>10 DEF create_dies, system
<1>11. ASSUME NEW t \in Threads, handle_list(t)
      PROVE  up' \in BOOLEAN /\ stray' \in BOOLEAN
  BY Zenon, <1>11 DEF handle_list, system
<1>12. ASSUME NEW t \in Threads, get_instrument(t)
      PROVE  up' \in BOOLEAN /\ stray' \in BOOLEAN
  BY Zenon, <1>12 DEF get_instrument, system
<1>13. ASSUME NEW t \in Threads, handle_test(t)
      PROVE  up' \in BOOLEAN /\ stray' \in BOOLEAN
  BY Zenon, <1>13 DEF handle_test, system
<1>14. ASSUME NEW t \in Threads, status_is_alive(t)
      PROVE  up' \in BOOLEAN /\ stray' \in BOOLEAN
  BY Zenon, <1>14 DEF status_is_alive, system
<1>15. ASSUME NEW t \in Threads, remove_instrument(t)
      PROVE  up' \in BOOLEAN /\ stray' \in BOOLEAN
  BY Zenon, <1>15 DEF remove_instrument, system
<1>16. ASSUME NEW t \in Threads, remove_nothing(t)
      PROVE  up' \in BOOLEAN /\ stray' \in BOOLEAN
  BY Zenon, <1>16 DEF remove_nothing, system
<1>17. ASSUME NEW t \in Threads, proxy_stop(t)
      PROVE  up' \in BOOLEAN /\ stray' \in BOOLEAN
  BY Zenon, <1>17 DEF proxy_stop, system
<1>18. ASSUME NEW t \in Threads, wait_for_exit(t)
      PROVE  up' \in BOOLEAN /\ stray' \in BOOLEAN
  BY Zenon, <1>18 DEF wait_for_exit, system
<1>19. ASSUME NEW t \in Threads, wait_times_out(t)
      PROVE  up' \in BOOLEAN /\ stray' \in BOOLEAN
  BY Zenon, <1>19 DEF wait_times_out, system
<1>20. ASSUME NEW t \in Threads, kill_process(t)
      PROVE  up' \in BOOLEAN /\ stray' \in BOOLEAN
  BY Zenon, <1>20 DEF kill_process, system
<1>21. ASSUME NEW t \in Threads, cleanup_ipc(t)
      PROVE  up' \in BOOLEAN /\ stray' \in BOOLEAN
  BY Zenon, <1>21 DEF cleanup_ipc, system
<1>22. ASSUME NEW t \in Threads, erase(t)
      PROVE  up' \in BOOLEAN /\ stray' \in BOOLEAN
  BY Zenon, <1>22 DEF erase, system
<1>23. ASSUME NEW pid \in Pids, worker_exits(pid)
      PROVE  up' \in BOOLEAN /\ stray' \in BOOLEAN
  BY Zenon, <1>23 DEF worker_exits, system
<1>24. ASSUME NEW pid \in Pids, foreign_process(pid)
      PROVE  up' \in BOOLEAN /\ stray' \in BOOLEAN
  BY Zenon, <1>24 DEF foreign_process, system
<1>25. CASE cleanup_all
  BY Zenon, <1>25 DEF cleanup_all, system
<1>26. CASE UNCHANGED vars
  BY Zenon, <1>26 DEF vars, system
<1> QED
  BY Zenon, <1>1, <1>2, <1>3, <1>4, <1>5, <1>6, <1>7, <1>8, <1>9, <1>10,
     <1>11, <1>12, <1>13, <1>14, <1>15, <1>16, <1>17, <1>18, <1>19, <1>20,
     <1>21, <1>22, <1>23, <1>24, <1>25, <1>26
  DEF Next, Begin, Continue

LEMMA BaseStep == BaseInv /\ [Next]_vars => BaseInv'
  BY Zenon, ThreadStep, LockStep, KnownStep, MapsStep, SystemStep, FlagStep
  DEF BaseInv, TypeOK, MapsType, SystemType

-----------------------------------------------------------------------------
(* A step in which threads without mutex_ move on, workers may end, and      *)
(* nothing else changes.                                                     *)
Quiet ==
  /\ UNCHANGED <<instruments, metadata, made, proxies, queues, processes, lock, up>>
  /\ Dwindles
  /\ \A s \in Threads :
       \/ thread'[s] = thread[s]
       \/ /\ lock # s
          /\ \/ thread'[s].ref \in {0, thread[s].ref}
             \/ \E n \in Names : thread'[s].ref = instruments[n]

LEMMA QuietStep ==
  ASSUME IInv, BaseInv', Quiet
  PROVE  IInv'
<1>1. \A n \in Names : RegisteredInv(n)'
  BY Zenon DEF IInv, Quiet, RegisteredInv
<1>2. \A t \in Threads : thread'[t].at \in {"starting"} \cup Stopping
                           => lock = t /\ thread'[t] = thread[t]
  BY Zenon DEF BaseInv, LockInv, Quiet
<1>3. ASSUME NEW t \in Threads
      PROVE  StartingInv(t)'
  <2>1. SUFFICES ASSUME thread'[t].at = "starting"
                 PROVE  StartingInv(t)'
    BY Zenon DEF StartingInv
  <2>2. thread'[t] = thread[t] /\ StartingInv(t)
    BY Zenon, <1>2, <2>1 DEF IInv
  <2>3. ASSUME NEW s \in Threads
        PROVE  thread'[s].ref # thread[t].own
    BY SMTT(30), <2>1, <2>2 DEF IInv, Quiet, StartingInv, RegisteredInv
  <2> QED
    BY Zenon, <2>1, <2>2, <2>3 DEF Quiet, StartingInv
<1>4. ASSUME NEW t \in Threads
      PROVE  StoppingInv(t)'
  <2>1. SUFFICES ASSUME thread'[t].at \in Stopping
                 PROVE  StoppingInv(t)'
    BY Zenon DEF StoppingInv
  <2>2. thread'[t] = thread[t] /\ StoppingInv(t)
    BY Zenon, <1>2, <2>1 DEF IInv
  <2> QED
    BY Zenon, <2>1, <2>2 DEF Quiet, StoppingInv, Gone
<1>5. /\ \A p : IsStarting(p) => IsStarting(p)'
      /\ \A p : IsStopping(p) => IsStopping(p)'
  BY Zenon DEF IInv, BaseInv, TypeOK, Quiet, IsStarting, IsStopping
<1>6. \A p \in 1..made : RunningInv(p)'
  BY Zenon, <1>5 DEF IInv, Quiet, RunningInv
<1>7. \A pid \in Pids : WorkerInv(pid)'
  BY Zenon, <1>5 DEF IInv, Quiet, WorkerInv, Dwindles
<1> QED
  BY Zenon, <1>1, <1>3, <1>4, <1>6, <1>7 DEF IInv, Quiet

(* The destructor of a proxy has nothing to stop: a proxy that runs is in    *)
(* the map, or is being started and nobody else has a pointer to it.         *)
LEMMA DropsNothing ==
  ASSUME IInv, NEW t \in Threads, NEW gone \in SUBSET Names,
         \A n \in gone : instruments[n] # 0 => ~proxies[instruments[n]].running,
         Drops(t, gone)
  PROVE  queues' = queues
<1>1. ASSUME NEW p \in Unreferenced(t, gone), p \in 1..made, proxies[p].running
      PROVE  FALSE
  <2>1. /\ p = thread[t].ref \/ \E n \in gone : p = instruments[n]
        /\ \A n \in Names \ gone : p # instruments[n]
    BY Zenon, <1>1 DEF Unreferenced
  <2>2. proxies[p].name \in Names
    BY Zenon, <1>1 DEF IInv, BaseInv, TypeOK, Proxy
  <2>3. CASE instruments[proxies[p].name] = p
    BY SMTT(30), <1>1, <2>1, <2>2, <2>3
  <2>4. CASE IsStarting(p)
    <3>1. lock \in Threads /\ StartingInv(lock)
      BY Zenon, <2>4 DEF IInv, BaseInv, TypeOK, IsStarting
    <3> QED
      BY Zenon, <1>1, <2>1, <2>4, <3>1
        DEF IInv, IsStarting, StartingInv, RegisteredInv
  <2> QED
    BY Zenon, <1>1, <2>3, <2>4 DEF IInv, RunningInv
<1>2. Unreferenced(t, gone) \subseteq 1..made
  BY SMTT(30), RegistryAssumption
    DEF Unreferenced, IInv, BaseInv, TypeOK, KnownInv, Thread
<1> QED
  BY Zenon, <1>1, <1>2 DEF Drops, destroy, IInv, BaseInv, TypeOK

(* Nobody starts or stops a proxy while mutex_ is free.                      *)
LEMMA NobodyHolds ==
  ASSUME IInv, lock = NoThread
  PROVE  /\ \A t \in Threads : thread[t].at \notin {"starting"} \cup Stopping
         /\ \A p : ~IsStarting(p) /\ ~IsStopping(p)
  BY Zenon, RegistryAssumption
    DEF IInv, BaseInv, LockInv, IsStarting, IsStopping

(* A failed creation, with or without a proxy that was made.                 *)
Fails(n) ==
  /\ lock = NoThread /\ instruments[n] = 0
  /\ \/ UNCHANGED <<made, proxies>>
     \/ make_shared([name |-> n, pid |-> 0, running |-> FALSE])
  /\ \A m \in Names \ {n} : metadata'[m] = metadata[m] /\ queues'[m] = queues[m]
  /\ UNCHANGED <<instruments, system, lock, thread, up>>

LEMMA FailsStep ==
  ASSUME IInv, BaseInv', NEW n \in Names, Fails(n)
  PROVE  IInv'
<1>1. /\ \A t \in Threads : thread[t].at \notin {"starting"} \cup Stopping
      /\ \A p : ~IsStarting(p) /\ ~IsStopping(p)
  BY Zenon, NobodyHolds DEF Fails
<1>2. /\ \A p \in 1..made : proxies'[p] = proxies[p]
      /\ made' \in {made, made + 1} /\ made \in Nat
      /\ made' = made + 1 => ~proxies'[made + 1].running
  <2>1. /\ made \in Nat /\ MaxProxies \in Nat /\ proxies \in [1..made -> Proxy]
        /\ [name |-> n, pid |-> 0, running |-> FALSE] \in Proxy
    BY SMTT(30), RegistryAssumption DEF IInv, BaseInv, TypeOK, Proxy
  <2>2. CASE UNCHANGED <<made, proxies>>
    BY SMTT(30), <2>1, <2>2
  <2>3. CASE make_shared([name |-> n, pid |-> 0, running |-> FALSE])
    <3>1. /\ made' = made + 1 /\ \A p \in 1..made : proxies'[p] = proxies[p]
          /\ proxies'[made + 1] = [name |-> n, pid |-> 0, running |-> FALSE]
      BY Zenon, <2>1, <2>3, MakesProxy
    <3> QED
      BY SMTT(30), <2>1, <3>1
  <2> QED
    BY Zenon, <2>2, <2>3 DEF Fails
<1>3. ASSUME NEW m \in Names
      PROVE  RegisteredInv(m)'
  BY SMTT(30), <1>2 DEF IInv, BaseInv, TypeOK, Fails, RegisteredInv
<1>4. \A t \in Threads : StartingInv(t)' /\ StoppingInv(t)'
  BY Zenon, <1>1 DEF Fails, StartingInv, StoppingInv
<1>5. ASSUME NEW p \in 1..made'
      PROVE  RunningInv(p)'
  <2>1. CASE p \in 1..made
    BY ZenonT(60), <1>1, <1>2, <2>1 DEF IInv, Fails, RunningInv
  <2>2. CASE p \notin 1..made
    BY SMTT(30), <1>2, <2>2 DEF RunningInv
  <2> QED
    BY Zenon, <2>1, <2>2
<1>6. ASSUME NEW pid \in Pids
      PROVE  WorkerInv(pid)'
  <2>1. os[pid].proxy \in Nat
    BY Zenon, ProcessProxy DEF IInv, BaseInv
  <2>2. SUFFICES ASSUME os[pid].kind = "worker"
                 PROVE  WorkerInv(pid)'
    BY Zenon DEF Fails, WorkerInv, system
  <2>3. os' = os /\ processes' = processes /\ up' = up /\ WorkerInv(pid)
    BY Zenon DEF IInv, Fails, system
  <2>4. os[pid].proxy \in 1..made /\ proxies[os[pid].proxy].running
    BY Zenon, <1>1, <1>2, <2>1, <2>2, <2>3, MadeProxy DEF WorkerInv
  <2>5. os[pid].proxy <= made'
    BY SMTT(30), <1>2, <2>4
  <2> QED
    BY Zenon, <1>2, <2>2, <2>3, <2>4, <2>5 DEF WorkerInv
<1> QED
  BY Zenon, <1>3, <1>4, <1>5, <1>6 DEF IInv

(* The proxy a creation makes is known to nobody else.                       *)
LEMMA SpawnsStep ==
  ASSUME IInv, BaseInv', NEW t \in Threads, NEW n \in Names, NEW pid \in Pids,
         NEW op \in {"start", "test"}, create_spawns(t, n, pid, op)
  PROVE  IInv'
<1>1. /\ \A s \in Threads : thread[s].at \notin {"starting"} \cup Stopping
      /\ \A p : ~IsStarting(p) /\ ~IsStopping(p)
  BY Zenon, NobodyHolds DEF create_spawns, Locks
<1>2. /\ \A p \in 1..made : proxies'[p] = proxies[p]
      /\ made' = made + 1 /\ made \in Nat
      /\ proxies'[made + 1] = [name |-> n, pid |-> pid, running |-> TRUE]
  <2>1. /\ made \in Nat /\ MaxProxies \in Nat /\ proxies \in [1..made -> Proxy]
        /\ [name |-> n, pid |-> pid, running |-> TRUE] \in Proxy
    BY SMTT(30), RegistryAssumption DEF IInv, BaseInv, TypeOK, Proxy
  <2> QED
    BY Zenon, <2>1, MakesProxy DEF create_spawns
<1>3. /\ \A s \in Threads \ {t} : thread'[s] = thread[s]
      /\ thread'[t].at = "starting" /\ thread'[t].name = n
      /\ thread'[t].ref = 0 /\ thread'[t].own = made + 1
  BY ZenonT(60), <1>2 DEF create_spawns, IInv, BaseInv, TypeOK, Idle
<1>4. /\ lock' = t /\ instruments' = instruments /\ instruments[n] = 0 /\ up' = up
      /\ metadata' = [metadata EXCEPT ![n] = made + 1]
      /\ queues' = [queues EXCEPT ![n] = made + 1]
      /\ processes' = processes \cup {pid} /\ up
      /\ os' = [os EXCEPT ![pid] = [kind |-> "worker", proxy |-> made + 1]]
  BY Zenon, <1>2 DEF create_spawns, Locks, At
<1> os \in [Pids -> Process] /\ metadata \in [Names -> 0..made]
  BY Zenon DEF IInv, BaseInv, TypeOK
<1> queues \in [Names -> 0..made] /\ instruments \in [Names -> 0..made]
  BY Zenon DEF IInv, BaseInv, TypeOK
<1>5. ASSUME NEW m \in Names
      PROVE  RegisteredInv(m)'
  <2>1. SUFFICES ASSUME instruments[m] # 0
                 PROVE  RegisteredInv(m)'
    BY Zenon, <1>4 DEF RegisteredInv
  <2>2. m # n /\ instruments[m] \in 1..made /\ RegisteredInv(m)
    BY Zenon, <1>2, <1>4, <2>1, RegisteredRange DEF IInv
  <2>3. metadata'[m] = metadata[m] /\ queues'[m] = queues[m]
    BY Zenon, <1>4, <2>2
  <2> QED
    BY Zenon, <1>2, <1>4, <2>1, <2>2, <2>3 DEF RegisteredInv
<1>6. ASSUME NEW s \in Threads
      PROVE  StartingInv(s)' /\ StoppingInv(s)'
  <2>1. CASE s # t
    BY Zenon, <1>1, <1>3, <2>1 DEF StartingInv, StoppingInv
  <2>2. CASE s = t
    <3>1. \A r \in Threads : thread'[r].ref # made + 1
      <4>1. \A r \in Threads : thread[r].ref \in Nat /\ thread[r].ref <= made
        BY SMTT(30), <1>2 DEF IInv, BaseInv, KnownInv
      <4> QED
        BY SMTT(30), <1>2, <1>3, <4>1
    <3> QED
      <4>1. metadata'[n] = made + 1 /\ queues'[n] = made + 1 /\ made + 1 # 0
        BY SMTT(30), <1>2, <1>4
      <4> QED
        <5>1. StoppingInv(t)'
          BY ONLY <1>3, Zenon DEF StoppingInv, Stopping
        <5>2. /\ proxies'[made + 1].running /\ proxies'[made + 1].pid = pid
              /\ proxies'[made + 1].name = n
          BY <1>2, SMTT(30)
        <5>3. instruments'[n] = 0
          BY ONLY <1>4, Zenon
        <5>4. StartingInv(t)'
          BY <1>3, <3>1, <4>1, <5>2, <5>3, ZenonT(60) DEF StartingInv
        <5> QED
          BY ONLY <2>2, <5>1, <5>4, Zenon
  <2> QED
    BY Zenon, <2>1, <2>2
<1>7. lock' # NoThread /\ thread'[lock'].at = "starting" /\ thread'[lock'].own = made + 1
  BY Zenon, <1>3, <1>4, RegistryAssumption
<1>8. ASSUME NEW p \in 1..made'
      PROVE  RunningInv(p)'
  <2>1. CASE p \in 1..made
    BY Zenon, <1>1, <1>2, <1>4, <2>1 DEF IInv, RunningInv
  <2>2. CASE p \notin 1..made
    BY SMTT(30), <1>2, <1>7, <2>2 DEF RunningInv, IsStarting
  <2> QED
    BY Zenon, <2>1, <2>2
<1>9. ASSUME NEW q \in Pids
      PROVE  WorkerInv(q)'
  <2>1. os[q].proxy \in Nat
    BY Zenon, ProcessProxy DEF IInv, BaseInv
  <2>2. CASE q = pid
    <3>1. os'[q] = [kind |-> "worker", proxy |-> made + 1] /\ q \in processes'
      BY Zenon, <1>4, <2>2
    <3> QED
      BY SMTT(30), <1>2, <1>4, <2>2, <3>1 DEF WorkerInv
  <2>3. CASE q # pid
    <3>1. os'[q] = os[q] /\ WorkerInv(q)
      BY Zenon, <1>4, <2>3 DEF IInv
    <3>2. SUFFICES ASSUME os[q].kind = "worker"
                   PROVE  WorkerInv(q)'
      BY Zenon, <3>1 DEF WorkerInv
    <3>3. os[q].proxy \in 1..made /\ proxies[os[q].proxy].running
      BY Zenon, <1>1, <1>2, <2>1, <3>1, <3>2, MadeProxy DEF WorkerInv
    <3> QED
      BY SMTT(30), <1>2, <1>4, <3>1, <3>2, <3>3 DEF WorkerInv
  <2> QED
    BY Zenon, <2>2, <2>3
<1> QED
  BY Zenon, <1>5, <1>6, <1>8, <1>9 DEF IInv

(* Who has mutex_ is the only one to start or stop a proxy.                  *)
LEMMA OneHolder ==
  ASSUME IInv, BaseInv', NEW t \in Threads,
         lock' = t \/ lock' = NoThread
  PROVE  /\ \A s \in Threads \ {t} : thread'[s].at \notin {"starting"} \cup Stopping
         /\ \A s \in Threads \ {t} : StartingInv(s)' /\ StoppingInv(s)'
  BY Zenon, RegistryAssumption DEF BaseInv, LockInv, StartingInv, StoppingInv

(* A thread takes mutex_ to stop proxies.                                    *)
LEMMA BeginsStop ==
  ASSUME IInv, BaseInv', NEW t \in Threads, lock = NoThread, lock' = t,
         UNCHANGED <<registry, queues, system, up>>, thread'[t].at = "stop",
         Gone(t)' \subseteq Names,
         \A n \in Gone(t)' : instruments[n] # 0 => instruments[n] \in thread'[t].todo,
         \A p \in thread'[t].todo : \E n \in Names : p = instruments[n] /\ p # 0
  PROVE  IInv'
<1>1. \A p : ~IsStarting(p) /\ ~IsStopping(p)
  BY Zenon, NobodyHolds
<1>2. \A n \in Names : RegisteredInv(n)'
  BY Zenon DEF IInv, RegisteredInv, registry
<1>3. StartingInv(t)'
  BY Zenon DEF StartingInv
<1>4. StoppingInv(t)'
  BY DEF StoppingInv, IInv, RegisteredInv, registry
<1>5. \A p \in 1..made : RunningInv(p)'
  BY Zenon, <1>1 DEF IInv, RunningInv, registry
<1>6. \A pid \in Pids : WorkerInv(pid)'
  BY Zenon, <1>1 DEF IInv, WorkerInv, registry, system
<1> QED
  BY Zenon, <1>2, <1>3, <1>4, <1>5, <1>6, OneHolder DEF IInv, registry

(* The new instrument is registered.                                         *)
LEMMA EndsStep ==
  ASSUME IInv, BaseInv', NEW t \in Threads, create_ends(t)
  PROVE  IInv'
<1> DEFINE own == thread[t].own
           n == thread[t].name
<1>1. /\ thread[t].at = "starting" /\ lock = t /\ StartingInv(t)
      /\ own \in 1..made /\ n \in Names /\ made \in Nat
  <2>1. thread[t].at = "starting" /\ lock = t /\ StartingInv(t) /\ own \in 0..made
    BY Zenon DEF create_ends, At, IInv, BaseInv, LockInv, KnownInv
  <2>2. made \in Nat
    BY SMTT(30), RegistryAssumption DEF IInv, BaseInv, TypeOK
  <2> QED
    BY SMTT(30), <2>1, <2>2 DEF StartingInv
<1>2. /\ instruments' = [instruments EXCEPT ![n] = own] /\ lock' = NoThread
      /\ UNCHANGED <<metadata, made, proxies, queues, system, up>>
  BY Zenon DEF create_ends
<1>3. thread'[t].at = "list"
  BY ZenonT(60) DEF create_ends, Goto, IInv, BaseInv, TypeOK, Thread
<1>4. \A p : ~IsStopping(p) /\ (IsStarting(p) => p = own)
  BY Zenon, <1>1 DEF IsStopping, IsStarting
<1>5. ASSUME NEW m \in Names
      PROVE  RegisteredInv(m)'
  <2>1. CASE m = n
    <3>1. instruments'[n] = own
      BY Zenon, <1>1, <1>2 DEF IInv, BaseInv, TypeOK
    <3> QED
      BY Zenon, <1>1, <1>2, <2>1, <3>1 DEF RegisteredInv, StartingInv
  <2>2. CASE m # n
    <3>1. instruments'[m] = instruments[m] /\ RegisteredInv(m)
      BY Zenon, <1>2, <2>2 DEF IInv, BaseInv, TypeOK
    <3> QED
      BY Zenon, <1>2, <3>1 DEF RegisteredInv
  <2> QED
    BY Zenon, <2>1, <2>2
<1>6. StartingInv(t)' /\ StoppingInv(t)'
  BY Zenon, <1>3 DEF StartingInv, StoppingInv, Stopping
<1>7. ASSUME NEW p \in 1..made
      PROVE  RunningInv(p)'
  <2>1. CASE p = own
    BY Zenon, <1>1, <1>2, <2>1
      DEF IInv, BaseInv, TypeOK, RunningInv, StartingInv
  <2>2. CASE p # own
    <3>1. SUFFICES ASSUME proxies[p].running
                   PROVE  RunningInv(p)'
      BY Zenon, <1>2 DEF RunningInv
    <3>2. instruments[proxies[p].name] = p /\ proxies[p].pid \in Pids
      BY Zenon, <1>4, <2>2, <3>1 DEF IInv, RunningInv
    <3>3. proxies[p].name # n
      BY SMTT(30), <1>1, <3>2 DEF StartingInv
    <3> QED
      BY Zenon, <1>2, <3>2, <3>3 DEF RunningInv, IInv, BaseInv, TypeOK, Proxy
  <2> QED
    BY Zenon, <2>1, <2>2
<1>8. \A pid \in Pids : WorkerInv(pid)'
  BY Zenon, <1>2, <1>4 DEF IInv, WorkerInv, system
<1> QED
  BY Zenon, <1>2, <1>5, <1>6, <1>7, <1>8, OneHolder DEF IInv

(* The worker of a new instrument died: all its traces go.                   *)
LEMMA DiesStep ==
  ASSUME IInv, BaseInv', NEW t \in Threads, create_dies(t)
  PROVE  IInv'
<1> DEFINE own == thread[t].own
           n == thread[t].name
<1>1. /\ thread[t].at = "starting" /\ lock = t /\ StartingInv(t)
      /\ own \in 1..made /\ n \in Names /\ made \in Nat
  <2>1. thread[t].at = "starting" /\ lock = t /\ StartingInv(t) /\ own \in 0..made
    BY Zenon DEF create_dies, At, IInv, BaseInv, LockInv, KnownInv
  <2>2. made \in Nat
    BY SMTT(30), RegistryAssumption DEF IInv, BaseInv, TypeOK
  <2> QED
    BY SMTT(30), <2>1, <2>2 DEF StartingInv
<1>2. /\ lock' = NoThread /\ UNCHANGED <<instruments, made, processes, up>>
      /\ queues' = [queues EXCEPT ![n] = 0] /\ metadata' = [metadata EXCEPT ![n] = 0]
      /\ ~is_alive(proxies[own].pid) /\ os' = Reap(proxies[own].pid)
  BY Zenon, <1>1 DEF create_dies, StartingInv
<1>3. thread'[t].at = "idle"
  BY Zenon DEF create_dies, Returns, Idle, IInv, BaseInv, TypeOK
<1>4. \A p : ~IsStopping(p) /\ (IsStarting(p) => p = own)
  BY Zenon, <1>1 DEF IsStopping, IsStarting
<1>5. \A q \in 1..made :
        /\ proxies'[q].name = proxies[q].name /\ proxies'[q].pid = proxies[q].pid
        /\ q # own => (proxies'[q].running <=> proxies[q].running)
        /\ q = own => ~proxies'[q].running
  BY Zenon, StopsProxy DEF create_dies, IInv, BaseInv, TypeOK
<1>6. Dwindles
  BY Zenon, <1>2, ReapDwindles, RegistryAssumption DEF IInv, BaseInv, TypeOK
<1>7. ASSUME NEW m \in Names
      PROVE  RegisteredInv(m)'
  <2>1. SUFFICES ASSUME instruments[m] # 0
                 PROVE  RegisteredInv(m)'
    BY Zenon, <1>2 DEF RegisteredInv
  <2>2. m # n /\ instruments[m] \in 1..made /\ RegisteredInv(m)
    BY Zenon, <1>1, <2>1, RegisteredRange DEF IInv, BaseInv, TypeOK, StartingInv
  <2>3. metadata'[m] = metadata[m] /\ queues'[m] = queues[m]
    BY Zenon, <1>2, <2>2 DEF IInv, BaseInv, TypeOK
  <2>4. instruments[m] # own
    BY Zenon, <1>1, <2>2 DEF RegisteredInv, StartingInv
  <2> QED
    BY Zenon, <1>2, <1>5, <2>2, <2>3, <2>4 DEF RegisteredInv
<1>8. StartingInv(t)' /\ StoppingInv(t)'
  BY Zenon, <1>3 DEF StartingInv, StoppingInv, Stopping
<1>9. ASSUME NEW p \in 1..made
      PROVE  RunningInv(p)'
  BY ZenonT(60), <1>2, <1>4, <1>5 DEF IInv, RunningInv
<1>10. ASSUME NEW pid \in Pids
       PROVE  WorkerInv(pid)'
  <2>1. os[pid].proxy \in Nat
    BY Zenon, ProcessProxy DEF IInv, BaseInv
  <2>2. os'[pid].kind = "worker" => os'[pid] = os[pid] /\ WorkerInv(pid)
    BY Zenon, <1>6 DEF Dwindles, IInv
  <2>3. os'[pid].kind = "worker" => os[pid].proxy # own
    BY Zenon, <1>2, <2>2 DEF WorkerInv, is_alive
  <2> QED
    <3>1. SUFFICES ASSUME os'[pid].kind = "worker"
                   PROVE  WorkerInv(pid)'
      BY Zenon DEF WorkerInv
    <3>2. os[pid].proxy \in 1..made /\ proxies[os[pid].proxy].running
      BY Zenon, <1>1, <1>4, <2>1, <2>2, <3>1, MadeProxy DEF WorkerInv
    <3> QED
      BY Zenon, <1>2, <1>5, <2>2, <2>3, <3>1, <3>2 DEF WorkerInv
<1> QED
  BY Zenon, <1>2, <1>7, <1>8, <1>9, <1>10, OneHolder DEF IInv

(* stop() of a proxy begins: a worker may outlive its running_ from now on.  *)
LEMMA ProxyStopStep ==
  ASSUME IInv, BaseInv', NEW t \in Threads, proxy_stop(t)
  PROVE  IInv'
<1>1. PICK p \in thread[t].todo :
        /\ proxies[p].running
        /\ proxies' = [proxies EXCEPT ![p].running = FALSE]
        /\ thread' = [thread EXCEPT ![t].at = "wait", ![t].cur = p]
  BY Zenon DEF proxy_stop
<1>2. /\ thread[t].at = "stop" /\ lock = t /\ lock # NoThread /\ StoppingInv(t)
      /\ p \in 1..made /\ made \in Nat
  <2>1. thread[t].at = "stop" /\ made \in Nat
    BY Zenon, MadeNat DEF proxy_stop, At, IInv, BaseInv
  <2>2. lock = t /\ p \in 1..made
    BY Zenon, <2>1 DEF IInv, BaseInv, LockInv, KnownInv, Stopping
  <2> QED
    BY Zenon, <2>1, <2>2, RegistryAssumption DEF IInv
<1>3. UNCHANGED <<instruments, metadata, made, queues, processes, os, lock, up>>
  BY Zenon DEF proxy_stop, system
<1>4. /\ thread'[t].at = "wait" /\ thread'[t].cur = p
      /\ thread'[t].todo = thread[t].todo /\ Gone(t)' = Gone(t)
  BY ZenonT(60), <1>1 DEF IInv, BaseInv, TypeOK, Thread, Gone
<1>5. \A q \in 1..made :
        /\ proxies'[q].name = proxies[q].name /\ proxies'[q].pid = proxies[q].pid
        /\ q # p => (proxies'[q].running <=> proxies[q].running)
        /\ q = p => ~proxies'[q].running
  BY Zenon, <1>1, StopsProxy DEF IInv, BaseInv, TypeOK
<1>6. \A q : ~IsStarting(q) /\ ~IsStopping(q)
  BY Zenon, <1>2 DEF IsStarting, IsStopping
<1>7. ASSUME NEW n \in Names
      PROVE  RegisteredInv(n)'
  <2>1. instruments[n] # 0 => instruments[n] \in 1..made /\ RegisteredInv(n)
    BY Zenon, RegisteredRange DEF IInv, BaseInv, TypeOK
  <2> QED
    BY Zenon, <1>3, <1>5, <2>1 DEF RegisteredInv
<1>8. StartingInv(t)'
  BY Zenon, <1>4 DEF StartingInv
<1>9. StoppingInv(t)'
  <2>1. ASSUME NEW n \in Gone(t), instruments[n] # 0
        PROVE  instruments[n] \in thread[t].todo \/ ~proxies'[instruments[n]].running
    <3>1. instruments[n] \in 1..made
      BY Zenon, <1>2, <2>1, RegisteredRange DEF StoppingInv, Stopping, IInv, BaseInv, TypeOK
    <3> QED
      BY Zenon, <1>2, <1>5, <2>1, <3>1 DEF StoppingInv, Stopping
  <2>2. thread[t].todo \subseteq 1..made
    BY Zenon DEF IInv, BaseInv, KnownInv
  <2>3. /\ Gone(t) \subseteq Names
        /\ \A q \in thread[t].todo : instruments[proxies'[q].name] = q
    BY Zenon, <1>2, <1>5, <2>2 DEF StoppingInv, Stopping
  <2> QED
    <3>1. p \in thread'[t].todo /\ ~proxies'[p].running
      BY ONLY <1>1, <1>2, <1>4, <1>5, Zenon
    <3>2. ASSUME NEW n \in Gone(t), instruments[n] # 0
          PROVE  instruments[n] \in thread'[t].todo \/ ~proxies'[instruments[n]].running
      BY ONLY <1>4, <2>1, <3>2, Zenon
    <3>3. \A q \in thread'[t].todo : instruments'[proxies'[q].name] = q
      BY ONLY <1>3, <1>4, <2>3, Zenon
    <3>4. \A n \in Gone(t)' : instruments'[n] # 0 =>
             instruments'[n] \in thread'[t].todo \/ ~proxies'[instruments'[n]].running
      BY ONLY <1>3, <1>4, <3>2, Zenon
    <3> QED
      BY ONLY <1>4, <2>3, <3>1, <3>3, <3>4, Zenon DEF StoppingInv
<1>10. ASSUME NEW q \in 1..made
       PROVE  RunningInv(q)'
  BY Zenon, <1>3, <1>5, <1>6 DEF IInv, RunningInv
<1>11. ASSUME NEW pid \in Pids
       PROVE  WorkerInv(pid)'
  <2>1. os[pid].proxy \in Nat
    BY Zenon, ProcessProxy DEF IInv, BaseInv
  <2>2. SUFFICES ASSUME os[pid].kind = "worker"
                 PROVE  WorkerInv(pid)'
    BY Zenon, <1>3 DEF WorkerInv
  <2>3. os[pid].proxy \in 1..made /\ proxies[os[pid].proxy].running /\ WorkerInv(pid)
    BY Zenon, <1>2, <1>6, <2>1, <2>2, MadeProxy DEF IInv, WorkerInv
  <2>4. CASE os[pid].proxy = p
    BY Zenon, <1>2, <1>3, <1>4, <1>5, <2>2, <2>3, <2>4 DEF WorkerInv, IsStopping
  <2>5. CASE os[pid].proxy # p
    BY Zenon, <1>3, <1>5, <2>2, <2>3, <2>5 DEF WorkerInv
  <2> QED
    BY Zenon, <2>4, <2>5
<1> QED
  BY Zenon, <1>2, <1>3, <1>7, <1>8, <1>9, <1>10, <1>11, OneHolder DEF IInv

(* stop() waits for the worker, kills it if need be, and goes on when there  *)
(* is none.                                                                  *)
LEMMA WaitsStep ==
  ASSUME IInv, BaseInv', NEW t \in Threads,
         thread[t].at \in {"wait", "kill"}, thread'[t].at \in {"kill", "clean"},
         \A s \in Threads :
           /\ thread'[s].op = thread[s].op /\ thread'[s].name = thread[s].name
           /\ thread'[s].todo = thread[s].todo /\ thread'[s].cur = thread[s].cur,
         UNCHANGED <<registry, queues, processes, lock, up>>, Dwindles,
         thread'[t].at = "clean" =>
           \A pid \in Pids : os'[pid].kind = "worker" => os'[pid].proxy # thread[t].cur
  PROVE  IInv'
<1>1. lock = t /\ lock # NoThread /\ StoppingInv(t)
  BY Zenon, RegistryAssumption DEF IInv, BaseInv, LockInv, Stopping
<1>2. \A q : ~IsStarting(q)
  BY Zenon, <1>1 DEF IsStarting
<1>3. \A n \in Names : RegisteredInv(n)'
  BY Zenon DEF IInv, RegisteredInv, registry
<1>4. StartingInv(t)'
  BY Zenon DEF StartingInv
<1>5. StoppingInv(t)'
  BY <1>1, ZenonT(60) DEF StoppingInv, Stopping, Gone, registry
<1>6. \A p \in 1..made : RunningInv(p)'
  BY Zenon, <1>2 DEF IInv, RunningInv, registry
<1>7. ASSUME NEW pid \in Pids
      PROVE  WorkerInv(pid)'
  <2>1. SUFFICES ASSUME os'[pid].kind = "worker"
                 PROVE  WorkerInv(pid)'
    BY Zenon DEF WorkerInv
  <2>2. os'[pid] = os[pid] /\ WorkerInv(pid)
    BY Zenon, <2>1 DEF Dwindles, IInv
  <2>3. IsStopping(os[pid].proxy) =>
          lock' # NoThread /\ thread'[lock'].at \in {"wait", "kill"}
          /\ thread'[lock'].cur = os[pid].proxy
    BY Zenon, <1>1, <2>1, <2>2 DEF IsStopping
  <2> QED
    BY Zenon, <2>1, <2>2, <2>3 DEF WorkerInv, IsStopping, registry
<1> QED
  BY Zenon, <1>1, <1>3, <1>4, <1>5, <1>6, <1>7, OneHolder DEF IInv, registry

(* The queues of the stopped proxy are removed.                              *)
LEMMA CleanupStep ==
  ASSUME IInv, BaseInv', NEW t \in Threads, cleanup_ipc(t)
  PROVE  IInv'
<1> DEFINE cur == thread[t].cur
<1>1. /\ thread[t].at = "clean" /\ lock = t /\ StoppingInv(t)
      /\ cur \in thread[t].todo /\ ~proxies[cur].running
      /\ instruments[proxies[cur].name] = cur
  BY Zenon, RegistryAssumption
    DEF cleanup_ipc, At, IInv, BaseInv, LockInv, Stopping,
     StoppingInv
<1>2. /\ queues' = [queues EXCEPT ![proxies[cur].name] = 0]
      /\ UNCHANGED <<registry, system, lock, up>>
  BY Zenon DEF cleanup_ipc
<1>3. /\ thread'[t].at = "stop" /\ thread'[t].todo = thread[t].todo \ {cur}
      /\ Gone(t)' = Gone(t)
  BY Zenon DEF cleanup_ipc, IInv, BaseInv, TypeOK, Thread, Gone
<1>4. \A q : ~IsStarting(q) /\ ~IsStopping(q)
  BY Zenon, <1>1 DEF IsStarting, IsStopping
<1>5. ASSUME NEW n \in Names
      PROVE  RegisteredInv(n)'
  BY Zenon, <1>1, <1>2 DEF IInv, BaseInv, TypeOK, RegisteredInv, registry
<1>6. StartingInv(t)'
  BY Zenon, <1>3 DEF StartingInv
<1>7. StoppingInv(t)'
  BY Zenon, <1>1, <1>2, <1>3 DEF StoppingInv, Stopping, registry
<1>8. \A p \in 1..made : RunningInv(p)'
  BY Zenon, <1>2, <1>4 DEF IInv, RunningInv, registry
<1>9. \A pid \in Pids : WorkerInv(pid)'
  BY Zenon, <1>2, <1>4 DEF IInv, WorkerInv, registry, system
<1> QED
  BY Zenon, <1>1, <1>2, <1>5, <1>6, <1>7, <1>8, <1>9, OneHolder DEF IInv,
        registry

(* Everything that is erased has been stopped.                               *)
LEMMA EraseStep ==
  ASSUME IInv, BaseInv', NEW t \in Threads, erase(t)
  PROVE  IInv'
<1>1. /\ thread[t].at = "stop" /\ thread[t].todo = {} /\ lock = t /\ StoppingInv(t)
  BY Zenon DEF erase, At, IInv, BaseInv, LockInv, Stopping
<1>2. /\ Gone(t) \subseteq Names
      /\ \A n \in Gone(t) : instruments[n] # 0 => ~proxies[instruments[n]].running
  BY Zenon, <1>1 DEF StoppingInv, Stopping
<1>3. /\ instruments' = [n \in Names |-> IF n \in Gone(t) THEN 0 ELSE instruments[n]]
      /\ metadata' = [n \in Names |-> IF n \in Gone(t) THEN 0 ELSE metadata[n]]
      /\ lock' = NoThread /\ UNCHANGED <<made, proxies, processes, os, up>>
      /\ Drops(t, Gone(t))
  BY Zenon DEF erase, Gone, system
<1>4. queues' = queues
  BY Zenon, <1>2, <1>3, DropsNothing
<1>5. thread'[t].at = "idle"
  BY Zenon DEF erase, Returns, Idle, IInv, BaseInv, TypeOK
<1>6. \A q : ~IsStarting(q) /\ ~IsStopping(q)
  BY Zenon, <1>1 DEF IsStarting, IsStopping
<1>7. ASSUME NEW n \in Names
      PROVE  RegisteredInv(n)'
  BY Zenon, <1>3, <1>4 DEF IInv, RegisteredInv
<1>8. StartingInv(t)' /\ StoppingInv(t)'
  BY Zenon, <1>5 DEF StartingInv, StoppingInv, Stopping
<1>9. ASSUME NEW p \in 1..made
      PROVE  RunningInv(p)'
  <2>1. SUFFICES ASSUME proxies[p].running
                 PROVE  RunningInv(p)'
    BY Zenon, <1>3 DEF RunningInv
  <2>2. proxies[p].name \in Names /\ p # 0
    BY SMTT(30), RegistryAssumption DEF IInv, BaseInv, TypeOK, Proxy
  <2>3. instruments[proxies[p].name] = p /\ proxies[p].pid \in Pids
    BY Zenon, <1>6, <2>1 DEF IInv, RunningInv
  <2>4. proxies[p].name \notin Gone(t)
    BY Zenon, <1>2, <2>1, <2>2, <2>3
  <2> QED
    BY Zenon, <1>3, <2>2, <2>3, <2>4 DEF RunningInv
<1>10. \A pid \in Pids : WorkerInv(pid)'
  BY Zenon, <1>3, <1>6 DEF IInv, WorkerInv
<1> QED
  BY Zenon, <1>3, <1>7, <1>8, <1>9, <1>10, OneHolder DEF IInv

(* The server leaves nothing behind.                                         *)
LEMMA CleanupAllStep ==
  ASSUME IInv, BaseInv', cleanup_all
  PROVE  IInv'
<1>1. /\ instruments' = [n \in Names |-> 0] /\ made' = made /\ made \in Nat
      /\ proxies' = [p \in 1..made |-> [proxies[p] EXCEPT !.running = FALSE]]
      /\ os' = [pid \in Pids |-> IF pid \in processes THEN Free ELSE os[pid]]
      /\ \A t \in Threads : thread'[t].at = "idle"
  BY SMTT(30), RegistryAssumption DEF cleanup_all, Idle, IInv, BaseInv, TypeOK
<1>2. \A n \in Names : RegisteredInv(n)'
  BY Zenon, <1>1 DEF RegisteredInv
<1>3. \A t \in Threads : StartingInv(t)' /\ StoppingInv(t)'
  BY Zenon, <1>1 DEF StartingInv, StoppingInv, Stopping
<1>4. ASSUME NEW p \in 1..made
      PROVE  RunningInv(p)'
  <2>1. proxies'[p].running = FALSE
    <3>1. proxies \in [1..made -> Proxy]
      BY Zenon DEF IInv, BaseInv, TypeOK
    <3>2. proxies[p] \in Proxy
      BY ONLY <3>1, p \in 1..made, Zenon
    <3> QED
      BY <1>1, <3>1, <3>2, Zenon DEF Proxy
  <2> QED
    BY Zenon, <2>1 DEF RunningInv
<1>5. ASSUME NEW pid \in Pids
      PROVE  WorkerInv(pid)'
  BY Zenon, <1>1 DEF IInv, WorkerInv, Free
<1> QED
  BY Zenon, <1>1, <1>2, <1>3, <1>4, <1>5 DEF IInv

-----------------------------------------------------------------------------
(* IInv is inductive.                                                        *)
LEMMA NextIInv == IInv /\ [Next]_vars => IInv'
<1> SUFFICES ASSUME IInv, [Next]_vars
             PROVE  IInv'
  BY Zenon
<1> BaseInv'
  BY Zenon, BaseStep DEF IInv
<1>1. ASSUME NEW t \in Threads, NEW n \in Names, create_exists(t, n)
      PROVE  IInv'
  BY Zenon, <1>1, QuietStep DEF create_exists, vars, Quiet, Dwindles
<1>2. ASSUME NEW t \in Threads, NEW n \in Names, create_throws(t, n)
      PROVE  IInv'
  <2>1. Fails(n)
    BY Zenon, <1>2
      DEF create_throws, Fails, Peeks, registry, IInv, BaseInv, TypeOK
  <2> QED
    BY Zenon, <2>1, FailsStep
<1>3. ASSUME NEW t \in Threads, NEW n \in Names, create_no_plugin(t, n)
      PROVE  IInv'
  <2>1. Fails(n)
    BY Zenon, <1>3
      DEF create_no_plugin, Fails, Peeks, registry, IInv, BaseInv, TypeOK
  <2> QED
    BY Zenon, <2>1, FailsStep
<1>4. ASSUME NEW t \in Threads, NEW n \in Names, create_start_fails(t, n)
      PROVE  IInv'
  <2>1. Fails(n)
    BY Zenon, <1>4
      DEF create_start_fails, Fails, Peeks, registry, IInv, BaseInv, TypeOK
  <2> QED
    BY Zenon, <2>1, FailsStep
<1>5. ASSUME NEW t \in Threads, NEW n \in Names, NEW pid \in Pids,
             NEW op \in {"start", "test"}, create_spawns(t, n, pid, op)
      PROVE  IInv'
  BY Zenon, <1>5, SpawnsStep
<1>6. ASSUME NEW t \in Threads, NEW n \in Names, handle_status(t, n)
      PROVE  IInv'
  <2>1. lock # t /\ \A s \in Threads \ {t} : thread'[s] = thread[s]
    BY Zenon, <1>6, RegistryAssumption
      DEF handle_status, Peeks, At, Stopping, LockInv, IInv, BaseInv, TypeOK
  <2>2. thread'[t].ref = instruments[n]
    BY Zenon, <1>6 DEF handle_status, IInv, BaseInv, TypeOK, Thread, Idle
  <2>3. Quiet
    BY Zenon, <1>6, <2>1, <2>2
      DEF handle_status, Peeks, Quiet, Dwindles, registry, system
  <2> QED
    BY Zenon, <2>3, QuietStep
<1>7. ASSUME NEW t \in Threads, NEW n \in Names, handle_stop(t, n)
      PROVE  IInv'
  <2>1. lock # t /\ \A s \in Threads \ {t} : thread'[s] = thread[s]
    BY Zenon, <1>7, RegistryAssumption
      DEF handle_stop, Peeks, At, Stopping, LockInv, IInv, BaseInv, TypeOK
  <2>2. thread'[t].ref = 0
    BY Zenon, <1>7 DEF handle_stop, IInv, BaseInv, TypeOK, Thread, Idle
  <2>3. Quiet
    BY Zenon, <1>7, <2>1, <2>2
      DEF handle_stop, Peeks, Quiet, Dwindles, registry, system
  <2> QED
    BY Zenon, <2>3, QuietStep
<1>8. ASSUME NEW t \in Threads, stop_all(t)
      PROVE  IInv'
  <2>1. /\ thread'[t].at = "stop" /\ thread'[t].op = "stop_all"
        /\ thread'[t].todo = {instruments[n] : n \in list_instruments}
    BY Zenon, <1>8 DEF stop_all, Idle, IInv, BaseInv, TypeOK
  <2>2. Gone(t)' = Names
    BY Zenon, <2>1 DEF Gone
  <2>3. lock = NoThread /\ lock' = t /\ UNCHANGED <<registry, queues, system, up>>
    BY Zenon, <1>8 DEF stop_all, Locks
  <2> QED
    BY Zenon, <2>1, <2>2, <2>3, BeginsStop DEF list_instruments
<1>9. ASSUME NEW t \in Threads, create_ends(t)
      PROVE  IInv'
  BY Zenon, <1>9, EndsStep
<1>10. ASSUME NEW t \in Threads, create_dies(t)
      PROVE  IInv'
  BY Zenon, <1>10, DiesStep
<1>11. ASSUME NEW t \in Threads, handle_list(t)
      PROVE  IInv'
  <2>1. lock # t /\ \A s \in Threads \ {t} : thread'[s] = thread[s]
    BY Zenon, <1>11, RegistryAssumption
      DEF handle_list, Returns, Peeks, IInv, BaseInv, TypeOK
  <2>2. thread'[t].ref \in {0, thread[t].ref}
    BY SMTT(30), <1>11
      DEF handle_list, Returns, IInv, BaseInv, TypeOK, Thread, Idle
  <2>3. Quiet
    BY Zenon, <1>11, <2>1, <2>2
      DEF handle_list, Peeks, Quiet, Dwindles, registry, system
  <2> QED
    BY Zenon, <2>3, QuietStep
<1>12. ASSUME NEW t \in Threads, get_instrument(t)
      PROVE  IInv'
  <2>1. lock # t /\ \A s \in Threads \ {t} : thread'[s] = thread[s]
    BY Zenon, <1>12, RegistryAssumption
      DEF get_instrument, Peeks, IInv, BaseInv, TypeOK
  <2>2. thread[t].name \in Names /\ thread'[t].ref = instruments[thread[t].name]
    <3>1. thread[t].name \in Names
      BY Zenon, <1>12 DEF get_instrument, At, LockInv, IInv, BaseInv
    <3>2. thread[t] \in Thread /\ thread \in [Threads -> Thread]
      BY Zenon DEF IInv, BaseInv, TypeOK
    <3>3. thread' = [thread EXCEPT ![t].ref = instruments[thread[t].name],
                                   ![t].at = thread'[t].at]
      BY Zenon, <1>12, <3>2 DEF get_instrument, Thread
    <3> QED
      BY <3>1, <3>2, <3>3, ZenonT(60) DEF Thread
  <2>3. Quiet
    BY Zenon, <1>12, <2>1, <2>2
      DEF get_instrument, Peeks, Quiet, Dwindles, registry, system
  <2> QED
    BY Zenon, <2>3, QuietStep
<1>13. ASSUME NEW t \in Threads, handle_test(t)
      PROVE  IInv'
  <2>1. lock # t /\ \A s \in Threads \ {t} : thread'[s] = thread[s]
    BY Zenon, <1>13, RegistryAssumption
      DEF handle_test, Peeks, At, Stopping, LockInv, IInv, BaseInv, TypeOK, Goto
  <2>2. thread'[t].ref = thread[t].ref
    BY ZenonT(60), <1>13 DEF handle_test, Goto, IInv, BaseInv, TypeOK, Thread, Idle
  <2>3. Quiet
    BY Zenon, <1>13, <2>1, <2>2
      DEF handle_test, Peeks, Quiet, Dwindles, registry, system
  <2> QED
    BY Zenon, <2>3, QuietStep
<1>14. ASSUME NEW t \in Threads, status_is_alive(t)
      PROVE  IInv'
  <2>1. lock # t /\ \A s \in Threads \ {t} : thread'[s] = thread[s]
    BY Zenon, <1>14
      DEF status_is_alive, Returns, At, Stopping, LockInv, IInv, BaseInv, TypeOK
  <2>2. thread'[t].ref = 0
    BY Zenon, <1>14 DEF status_is_alive, Returns, IInv, BaseInv, TypeOK, Idle
  <2>3. queues' = queues
    BY Zenon, <1>14, DropsNothing DEF status_is_alive
  <2>4. Dwindles
    BY Zenon, <1>14, ReapDwindles, RegistryAssumption
      DEF status_is_alive, IInv, BaseInv, TypeOK
  <2>5. Quiet
    BY Zenon, <1>14, <2>1, <2>2, <2>3, <2>4 DEF status_is_alive, Quiet, registry
  <2> QED
    BY Zenon, <2>5, QuietStep
<1>15. ASSUME NEW t \in Threads, remove_instrument(t)
      PROVE  IInv'
  <2>1. /\ thread'[t].at = "stop" /\ thread'[t].name = thread[t].name
        /\ thread'[t].op = thread[t].op
        /\ thread'[t].todo = {instruments[thread[t].name]}
    BY <1>15, ZenonT(60) DEF remove_instrument, IInv, BaseInv, TypeOK, Thread
  <2>2. thread[t].name \in Names /\ thread[t].op # "stop_all"
    BY Zenon, <1>15 DEF remove_instrument, At, IInv, BaseInv, LockInv, Stopping
  <2>3. Gone(t)' = {thread[t].name}
    BY Zenon, <2>1, <2>2 DEF Gone
  <2>4. /\ lock = NoThread /\ lock' = t /\ UNCHANGED <<registry, queues, system, up>>
        /\ instruments[thread[t].name] # 0
    BY Zenon, <1>15 DEF remove_instrument, Locks
  <2> QED
    BY Zenon, <2>1, <2>2, <2>3, <2>4, BeginsStop
<1>16. ASSUME NEW t \in Threads, remove_nothing(t)
      PROVE  IInv'
  <2>1. lock # t /\ \A s \in Threads \ {t} : thread'[s] = thread[s]
    BY Zenon, <1>16, RegistryAssumption
      DEF remove_nothing, Returns, Peeks, IInv, BaseInv, TypeOK
  <2>2. thread'[t].ref = 0
    BY Zenon, <1>16 DEF remove_nothing, Returns, IInv, BaseInv, TypeOK, Idle
  <2>3. queues' = queues
    BY Zenon, <1>16, DropsNothing DEF remove_nothing
  <2>4. Quiet
    BY Zenon, <1>16, <2>1, <2>2, <2>3
      DEF remove_nothing, Peeks, Quiet, Dwindles, registry, system
  <2> QED
    BY Zenon, <2>4, QuietStep
<1>17. ASSUME NEW t \in Threads, proxy_stop(t)
      PROVE  IInv'
  BY Zenon, <1>17, ProxyStopStep
<1>18. ASSUME NEW t \in Threads, wait_for_exit(t)
      PROVE  IInv'
  <2>1. /\ thread[t].at = "wait" /\ thread'[t].at = "clean"
        /\ \A s \in Threads :
             /\ thread'[s].op = thread[s].op /\ thread'[s].name = thread[s].name
             /\ thread'[s].todo = thread[s].todo /\ thread'[s].cur = thread[s].cur
    BY <1>18, ZenonT(60) DEF wait_for_exit, At, Goto, IInv, BaseInv, TypeOK, Thread
  <2>2. UNCHANGED <<registry, queues, processes, lock, up>>
    BY Zenon, <1>18 DEF wait_for_exit, system
  <2>3. Dwindles
    BY Zenon, <1>18, ReapDwindles, RegistryAssumption
      DEF wait_for_exit, IInv, BaseInv, TypeOK
  <2>4. ASSUME NEW pid \in Pids, os'[pid].kind = "worker"
        PROVE  os'[pid].proxy # thread[t].cur
    <3>1. ~is_alive(proxies[thread[t].cur].pid)
      BY Zenon, <1>18 DEF wait_for_exit
    <3>2. os'[pid] = os[pid] /\ WorkerInv(pid)
      BY Zenon, <2>3, <2>4 DEF Dwindles, IInv
    <3> QED
      BY Zenon, <2>4, <3>1, <3>2 DEF is_alive, WorkerInv
  <2> QED
    BY Zenon, <2>1, <2>2, <2>3, <2>4, WaitsStep
<1>19. ASSUME NEW t \in Threads, wait_times_out(t)
      PROVE  IInv'
  <2>1. /\ thread[t].at = "wait" /\ thread'[t].at = "kill"
        /\ \A s \in Threads :
             /\ thread'[s].op = thread[s].op /\ thread'[s].name = thread[s].name
             /\ thread'[s].todo = thread[s].todo /\ thread'[s].cur = thread[s].cur
    BY <1>19, ZenonT(60) DEF wait_times_out, At, Goto, IInv, BaseInv, TypeOK, Thread
  <2>2. UNCHANGED <<registry, queues, processes, lock, up>>
    BY Zenon, <1>19 DEF wait_times_out, system
  <2>3. Dwindles
    BY Zenon, <1>19 DEF wait_times_out, Dwindles, system
  <2> QED
    BY Zenon, <2>1, <2>2, <2>3, WaitsStep
<1>20. ASSUME NEW t \in Threads, kill_process(t)
      PROVE  IInv'
  <2>1. /\ thread[t].at = "kill" /\ thread'[t].at = "clean"
        /\ \A s \in Threads :
             /\ thread'[s].op = thread[s].op /\ thread'[s].name = thread[s].name
             /\ thread'[s].todo = thread[s].todo /\ thread'[s].cur = thread[s].cur
    BY <1>20, ZenonT(60) DEF kill_process, At, Goto, IInv, BaseInv, TypeOK, Thread
  <2>2. UNCHANGED <<registry, queues, processes, lock, up>>
    BY Zenon, <1>20 DEF kill_process, system
  <2>3. os' = [os EXCEPT ![proxies[thread[t].cur].pid] = Killed(@)]
    BY Zenon, <1>20 DEF kill_process
  <2>4. /\ Dwindles
        /\ proxies[thread[t].cur].pid \in Pids
             => os'[proxies[thread[t].cur].pid].kind # "worker"
    BY Zenon, <2>3, KillDwindles, RegistryAssumption DEF IInv, BaseInv, TypeOK
  <2>5. ASSUME NEW pid \in Pids, os'[pid].kind = "worker"
        PROVE  os'[pid].proxy # thread[t].cur
    BY ZenonT(60), <2>4, <2>5 DEF Dwindles, IInv, WorkerInv
  <2> QED
    BY Zenon, <2>1, <2>2, <2>4, <2>5, WaitsStep
<1>21. ASSUME NEW t \in Threads, cleanup_ipc(t)
      PROVE  IInv'
  BY Zenon, <1>21, CleanupStep
<1>22. ASSUME NEW t \in Threads, erase(t)
      PROVE  IInv'
  BY Zenon, <1>22, EraseStep
<1>23. ASSUME NEW pid \in Pids, worker_exits(pid)
      PROVE  IInv'
  <2>1. Dwindles
    BY <1>23, ZenonT(60)
      DEF worker_exits, Dwindles, Free, Process, IInv, BaseInv, TypeOK
  <2>2. Quiet
    BY Zenon, <1>23, <2>1 DEF worker_exits, Quiet, registry
  <2> QED
    BY Zenon, <2>2, QuietStep
<1>24. ASSUME NEW pid \in Pids, foreign_process(pid)
      PROVE  IInv'
  <2>1. Dwindles
    BY Zenon, <1>24
      DEF foreign_process, Dwindles, Free, Process, IInv, BaseInv, TypeOK
  <2>2. Quiet
    BY Zenon, <1>24, <2>1 DEF foreign_process, Quiet, registry
  <2> QED
    BY Zenon, <2>2, QuietStep
<1>25. CASE cleanup_all
  BY Zenon, <1>25, CleanupAllStep
<1>26. CASE UNCHANGED vars
  BY Zenon, <1>26, QuietStep DEF vars, Quiet, Dwindles
<1> QED
  BY <1>1, <1>2, <1>3, <1>4, <1>5, <1>6, <1>7, <1>8, <1>9, <1>10,
     <1>11, <1>12, <1>13, <1>14, <1>15, <1>16, <1>17, <1>18, <1>19, <1>20,
     <1>21, <1>22, <1>23, <1>24, <1>25, <1>26, ZenonT(60)
  DEF Next, Begin, Continue

LEMMA InitIInv == Init => IInv
<1> SUFFICES ASSUME Init
             PROVE  IInv
  BY Zenon
<1>1. TypeOK
  <2>1. thread \in [Threads -> Thread]
    BY Zenon, IdleIsThread DEF Init
  <2>2. os \in [Pids -> Process]
    BY SMTT(30), RegistryAssumption DEF Init, Free, Process
  <2>3. proxies \in [1..made -> Proxy]
    BY DEF Init
  <2> QED
    <3>1. /\ 0 \in 0..made /\ made \in 0..MaxProxies
      BY SMTT(30), RegistryAssumption DEF Init
    <3>2. /\ instruments \in [Names -> 0..made] /\ metadata \in [Names -> 0..made]
          /\ queues \in [Names -> 0..made]
      BY Zenon, <3>1 DEF Init
    <3> QED
      BY Zenon, <2>1, <2>2, <2>3, <3>1, <3>2 DEF Init, TypeOK
<1>2. \A t \in Threads : thread[t] = Idle /\ thread[t].at = "idle"
  BY Zenon DEF Init, Idle
<1>3. LockInv /\ KnownInv
  BY SMTT(30), <1>2, RegistryAssumption
    DEF Init, LockInv, KnownInv, Stopping, Idle
<1>4. \A t \in Threads : StartingInv(t) /\ StoppingInv(t)
  BY Zenon, <1>2 DEF StartingInv, StoppingInv, Stopping
<1>5. \A n \in Names : RegisteredInv(n)
  BY Zenon DEF Init, RegisteredInv
<1>6. \A p \in 1..made : RunningInv(p)
  BY DEF Init
<1>7. \A pid \in Pids : WorkerInv(pid)
  BY Zenon DEF Init, Free, WorkerInv
<1> QED
  BY Zenon, <1>1, <1>3, <1>4, <1>5, <1>6, <1>7 DEF IInv, BaseInv

(* IInv holds of every state: what the registry's maps, the thread in        *)
(* mutex_, the queues, the process table and the processes say of a proxy    *)
(* fits together after every step of every handler.                          *)
THEOREM Invariance == Spec => []IInv
  BY InitIInv, NextIInv, PTL DEF Spec

(* No worker process is orphaned and no two serve one name, for any number   *)
(* of threads, names and pids, reused pids included: stopping, a start that  *)
(* fails and the exit of the server all end the worker.                      *)
THEOREM Workers == Spec => []NoOrphans
<1>1. IInv => NoOrphans
  <2> SUFFICES ASSUME IInv
               PROVE  NoOrphans
    BY Zenon
  <2>1. ASSUME NEW pid \in Pids, os[pid].kind = "worker"
        PROVE  /\ up /\ os[pid].proxy \in 1..made
               /\ proxies[os[pid].proxy].name \in Names
               /\ proxies[os[pid].proxy].pid = pid
               /\ \/ instruments[proxies[os[pid].proxy].name] = os[pid].proxy
                  \/ IsStarting(os[pid].proxy)
    <3>1. WorkerInv(pid) /\ os[pid].proxy \in Nat
      BY Zenon, ProcessProxy DEF IInv, BaseInv
    <3>2. os[pid].proxy \in 1..made /\ proxies[os[pid].proxy].name \in Names
      BY SMTT(30), <2>1, <3>1, RegistryAssumption
        DEF WorkerInv, IInv, BaseInv, TypeOK, Proxy
    <3>3. CASE proxies[os[pid].proxy].running
      BY Zenon, <2>1, <3>1, <3>2, <3>3 DEF WorkerInv, IInv, RunningInv
    <3>4. CASE IsStopping(os[pid].proxy)
      <4>1. lock \in Threads /\ StoppingInv(lock)
        BY Zenon, <3>4 DEF IsStopping, IInv, BaseInv, TypeOK
      <4> QED
        BY Zenon, <2>1, <3>1, <3>2, <3>4, <4>1
          DEF WorkerInv, IsStopping, StoppingInv, Stopping
    <3> QED
      BY Zenon, <2>1, <3>1, <3>3, <3>4 DEF WorkerInv
  <2>2. ASSUME NEW p \in 1..made, IsStarting(p)
        PROVE  instruments[proxies[p].name] = 0
    <3>1. lock \in Threads /\ StartingInv(lock)
      BY Zenon, <2>2 DEF IsStarting, IInv, BaseInv, TypeOK
    <3> QED
      BY Zenon, <2>2, <3>1 DEF IsStarting, StartingInv
  <2>3. ASSUME NEW a \in Pids, NEW b \in Pids,
               os[a].kind = "worker", os[b].kind = "worker",
               proxies[os[a].proxy].name = proxies[os[b].proxy].name
        PROVE  a = b
    <3>1. os[a].proxy = os[b].proxy
      BY SMTT(30), <2>1, <2>2, <2>3 DEF IsStarting
    <3> QED
      BY Zenon, <2>1, <2>3, <3>1
  <2> QED
    BY Zenon, <2>1, <2>3 DEF NoOrphans, IsStarting
<1> QED
  BY <1>1, Invariance, PTL

(* A registered instrument that runs has the queues it was started with.     *)
(* The destructor of a proxy that a handler still held, and the clean-up     *)
(* after failed creations, never remove those of a successor.                *)
THEOREM Queues == Spec => []QueuesAreItsOwn
<1>1. IInv => QueuesAreItsOwn
  BY Zenon DEF IInv, RegisteredInv, QueuesAreItsOwn
<1> QED
  BY <1>1, Invariance, PTL

(* A registered instrument has the metadata of its own creation.             *)
THEOREM Metadata == Spec => []MetadataIsItsOwn
<1>1. IInv => MetadataIsItsOwn
  BY Zenon DEF IInv, RegisteredInv, MetadataIsItsOwn
<1> QED
  BY <1>1, Invariance, PTL
=============================================================================
