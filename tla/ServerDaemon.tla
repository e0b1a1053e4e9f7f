---------------------------- MODULE ServerDaemon ----------------------------
(***************************************************************************)
(* The life of server processes that share one PID file and one RPC port:  *)
(* src/server/ServerDaemon.cpp, the thread of src/server/HttpRpcServer.cpp *)
(* and handle_daemon of src/server/CommandHandlers.cpp.  A process is the  *)
(* command line program ("daemon start", which polls until the daemon has  *)
(* stopped) or an application that embeds the server and calls start and   *)
(* stop itself, from one thread.                                           *)
(*                                                                         *)
(* stop() may run in the main thread or, for the RPC command, in the       *)
(* server thread; stage says how far it has come and stopper who runs it.  *)
(***************************************************************************)
EXTENDS Naturals, FiniteSets

CONSTANTS
  Pids,      (* the server processes                                          *)
  Embedded,  (* those that embed the server                                   *)
  Events     (* what may happen: "overlap" of two starts, "kill", "reuse" of  *)
             (* a pid, "busy" port, RPC commands "rpc_start" and "rpc_stop"   *)

ASSUME DaemonAssumption ==
  /\ IsFiniteSet(Pids) /\ Pids \cap {"none", "empty", "free", "other"} = {}
  /\ Embedded \subseteq Pids
  /\ Events \subseteq {"overlap", "kill", "reuse", "busy", "rpc_start", "rpc_stop"}

VARIABLES
  pidfile,  (* the content of server.pid                                      *)
  port,     (* who listens on the RPC port                                    *)
  reused,   (* pids of dead servers that an unrelated process has now         *)
  main,     (* where the main thread is                                       *)
  running,  (* ServerDaemon::running_                                         *)
  thread,   (* daemon_thread_; "over" is ended and still joinable             *)
  http,     (* rpc_server_ points to an HttpRpcServer                         *)
  serving,  (* its running_                                                   *)
  sthread,  (* where its server_thread_ is; "client" while it has a client    *)
            (* accepted, "blocked" in handle_daemon                           *)
  stage,    (* how far stop() has come                                        *)
  stopper,  (* the thread that runs it                                        *)
  end,      (* how the process ended                                          *)
  told      (* "daemon stop" was called for it and reported success           *)

vars == <<pidfile, port, reused, main, running, thread, http, serving, sthread,
          stage, stopper, end, told>>
files == <<pidfile, reused>>
rpc == <<port, http, serving, sthread>>
stopping == <<stage, stopper>>

Starting == {"check", "create", "write"}

TypeOK ==
  /\ pidfile \in Pids \cup {"none", "empty"}
  /\ port \in Pids \cup {"free", "other"}
  /\ reused \subseteq Pids
  /\ main \in [Pids -> {"out", "rpc", "rpc_wait", "run", "poll", "idle", "exit",
                        "gone"} \cup Starting]
  /\ running \in [Pids -> BOOLEAN]
  /\ thread \in [Pids -> {"none", "run", "over"}]
  /\ http \in [Pids -> BOOLEAN]
  /\ serving \in [Pids -> BOOLEAN]
  /\ sthread \in [Pids -> {"none", "bind", "accept", "client", "blocked", "stop",
                           "over"}]
  /\ stage \in [Pids -> {"none", "instruments", "rpc", "rpc_join", "join", "cleanup"}]
  /\ stopper \in [Pids -> {"none", "main", "rpc"}]
  /\ end \in [Pids -> {"none", "ok", "abort", "killed"}]
  /\ told \subseteq Pids

Init ==
  /\ pidfile = "none"
  /\ port \in {"free"} \cup IF "busy" \in Events THEN {"other"} ELSE {}
  /\ reused = {}
  /\ main = [p \in Pids |-> "out"]
  /\ running = [p \in Pids |-> FALSE]
  /\ thread = [p \in Pids |-> "none"]
  /\ http = [p \in Pids |-> FALSE]
  /\ serving = [p \in Pids |-> FALSE]
  /\ sthread = [p \in Pids |-> "none"]
  /\ stage = [p \in Pids |-> "none"]
  /\ stopper = [p \in Pids |-> "none"]
  /\ end = [p \in Pids |-> "none"]
  /\ told = {}

Alive(p) == main[p] \notin {"out", "gone"}

(* The file names a pid and kill(pid, 0) finds a process.                    *)
is_already_running == pidfile \in Pids /\ (Alive(pidfile) \/ pidfile \in reused)

(* The process is gone and its sockets with it.                              *)
Ends(p, how) ==
  /\ main' = [main EXCEPT ![p] = "gone"]
  /\ end' = [end EXCEPT ![p] = how]
  /\ running' = [running EXCEPT ![p] = FALSE]
  /\ sthread' = [sthread EXCEPT ![p] = "none"]
  /\ serving' = [serving EXCEPT ![p] = FALSE]
  /\ port' = IF port = p THEN "free" ELSE port
  /\ thread' = [thread EXCEPT ![p] = "none"]
  /\ stage' = [stage EXCEPT ![p] = "none"]
  /\ stopper' = [stopper EXCEPT ![p] = "none"]
  /\ http' = [http EXCEPT ![p] = FALSE]
  /\ UNCHANGED <<files, told>>

Main(p, from, to) == main[p] = from /\ main' = [main EXCEPT ![p] = to]

-----------------------------------------------------------------------------
(* ServerDaemon::start.                                                      *)

(* A process calls start for the first time, or an application again.        *)
launch(p) ==
  /\ main[p] = "out" \/ (main[p] = "idle" /\ ~running[p])
  /\ stage[p] = "none"
  /\ "overlap" \in Events \/ \A q \in Pids : main[q] \notin Starting
  /\ main' = [main EXCEPT ![p] = "check"]
  /\ UNCHANGED <<files, running, thread, rpc, stopping, end, told>>

(* start returned false: the program exits, an application may go on.        *)
Refused(p) == main' = [main EXCEPT ![p] = IF p \in Embedded THEN "idle" ELSE "exit"]

(* Fault: the file of a server that runs is taken for a stale one.           *)
start_check_any(p) ==
  /\ main[p] = "check"
  /\ main' = [main EXCEPT ![p] = "create"]
  /\ UNCHANGED <<files, running, thread, rpc, stopping, end, told>>

(* Fault: start cleans up when it is refused.                                *)
start_check_removes(p) ==
  /\ main[p] = "check"
  /\ IF is_already_running THEN Refused(p) /\ pidfile' = "none"
     ELSE main' = [main EXCEPT ![p] = "create"] /\ UNCHANGED pidfile
  /\ UNCHANGED <<reused, running, thread, rpc, stopping, end, told>>

start_check(p) ==
  /\ main[p] = "check"
  /\ IF is_already_running THEN Refused(p)
     ELSE main' = [main EXCEPT ![p] = "create"]
  /\ UNCHANGED <<files, running, thread, rpc, stopping, end, told>>

(* Opening the file truncates it, the pid comes later.                       *)
create_pid_file(p) ==
  /\ main[p] = "create"
  /\ \/ pidfile' = "empty" /\ main' = [main EXCEPT ![p] = "write"]
     \/ UNCHANGED pidfile /\ Refused(p)
  /\ UNCHANGED <<reused, running, thread, rpc, stopping, end, told>>

write_pid(p) ==
  /\ Main(p, "write", "rpc")
  /\ pidfile' = p
  /\ UNCHANGED <<reused, running, thread, rpc, stopping, end, told>>

(* rpc_port_ is 0: no RPC server.                                            *)
start_without_rpc(p) ==
  /\ Main(p, "rpc", "run")
  /\ UNCHANGED <<files, running, thread, rpc, stopping, end, told>>

(* HttpRpcServer::start spawns its thread and returns true.                  *)
start_rpc(p) ==
  /\ Main(p, "rpc", "rpc_wait")
  /\ http' = [http EXCEPT ![p] = TRUE]
  /\ serving' = [serving EXCEPT ![p] = TRUE]
  /\ sthread' = [sthread EXCEPT ![p] = "bind"]
  /\ UNCHANGED <<files, port, running, thread, stopping, end, told>>

(* The port is bound, or 500 ms are over.                                    *)
wait_for_port(p) ==
  /\ Main(p, "rpc_wait", "run")
  /\ UNCHANGED <<files, running, thread, rpc, stopping, end, told>>

(* Assigning to a joinable std::thread terminates the process.               *)
start_thread(p) ==
  /\ main[p] = "run"
  /\ \/ /\ thread[p] = "none"
        /\ running' = [running EXCEPT ![p] = TRUE]
        /\ thread' = [thread EXCEPT ![p] = "run"]
        /\ main' = [main EXCEPT ![p] = IF p \in Embedded THEN "idle" ELSE "poll"]
        /\ UNCHANGED <<files, rpc, stopping, end, told>>
     \/ thread[p] # "none" /\ Ends(p, "abort")

daemon_loop(p) ==
  /\ thread[p] = "run"
  /\ ~running[p]
  /\ thread' = [thread EXCEPT ![p] = "over"]
  /\ UNCHANGED <<files, main, running, rpc, stopping, end, told>>

-----------------------------------------------------------------------------
(* ServerDaemon::stop, in the main or in the server thread.                  *)

Stage(p, from, to) == stage[p] = from /\ stage' = [stage EXCEPT ![p] = to]

(* Clears running_ under the mutex; another caller then returns at once.     *)
stop_flag(p, who) ==
  /\ running[p]
  /\ Stage(p, "none", "instruments")
  /\ running' = [running EXCEPT ![p] = FALSE]
  /\ stopper' = [stopper EXCEPT ![p] = who]

stop_instruments(p) ==
  /\ Stage(p, "instruments", IF http[p] THEN "rpc" ELSE "join")
  /\ UNCHANGED <<files, main, running, thread, rpc, stopper, end, told>>

(* HttpRpcServer::stop closes the socket.  If its thread had cleared running_*)
(* itself, stop returns without joining, and deleting the object destroys a  *)
(* joinable thread.                                                          *)
stop_rpc(p) ==
  /\ stage[p] = "rpc"
  /\ \/ /\ serving[p]
        /\ serving' = [serving EXCEPT ![p] = FALSE]
        /\ port' = IF port = p THEN "free" ELSE port
        /\ stage' = [stage EXCEPT ![p] = "rpc_join"]
        /\ UNCHANGED <<files, main, running, thread, http, sthread, stopper, end, told>>
     \/ ~serving[p] /\ Ends(p, "abort")

(* Fault: the server thread is not waited for.                               *)
join_rpc_detach(p) ==
  /\ stopper[p] = "main"
  /\ Stage(p, "rpc_join", "join")
  /\ http' = [http EXCEPT ![p] = FALSE]
  /\ UNCHANGED <<files, main, running, thread, port, serving, sthread, stopper,
                 end, told>>

join_rpc(p) ==
  /\ stopper[p] = "main"
  /\ Stage(p, "rpc_join", "join")
  /\ sthread[p] = "over"
  /\ http' = [http EXCEPT ![p] = FALSE]
  /\ sthread' = [sthread EXCEPT ![p] = "none"]
  /\ UNCHANGED <<files, main, running, thread, port, serving, stopper, end, told>>

(* The server thread cannot join itself: join throws, stop() is left and the *)
(* accept loop answers with the error.                                       *)
join_rpc_throws(p) ==
  /\ stopper[p] = "rpc"
  /\ Stage(p, "rpc_join", "none")
  /\ sthread' = [sthread EXCEPT ![p] = "accept"]
  /\ stopper' = [stopper EXCEPT ![p] = "none"]
  /\ UNCHANGED <<files, main, running, thread, port, http, serving, end, told>>

(* Fault: the daemon thread is left to itself.                               *)
join_daemon_thread_not(p) ==
  /\ Stage(p, "join", "cleanup")
  /\ UNCHANGED <<files, main, running, thread, rpc, stopper, end, told>>

join_daemon_thread(p) ==
  /\ Stage(p, "join", "cleanup")
  /\ thread[p] \in {"over", "none"}
  /\ thread' = [thread EXCEPT ![p] = "none"]
  /\ UNCHANGED <<files, main, running, rpc, stopper, end, told>>

(* remove_pid_file removes the file, whoever wrote it.                       *)
stop_cleanup(p) ==
  /\ Stage(p, "cleanup", "none")
  /\ pidfile' = "none"
  /\ stopper' = [stopper EXCEPT ![p] = "none"]
  /\ UNCHANGED <<reused, main, running, thread, rpc, end, told>>

-----------------------------------------------------------------------------
(* The main thread after start: the program polls is_running, an application *)
(* calls stop or exits; at exit the destructor of the daemon calls stop.     *)

poll(p) ==
  /\ Main(p, "poll", "exit")
  /\ ~running[p]
  /\ UNCHANGED <<files, running, thread, rpc, stopping, end, told>>

embedder_stops(p) ==
  /\ main[p] = "idle"
  /\ stop_flag(p, "main")
  /\ UNCHANGED <<files, main, thread, rpc, end, told>>

embedder_exits(p) ==
  /\ stopper[p] # "main"
  /\ Main(p, "idle", "exit")
  /\ UNCHANGED <<files, running, thread, rpc, stopping, end, told>>

(* Static destruction: ~ServerDaemon calls stop(), then its members go, and  *)
(* with them daemon_thread_.                                                 *)
destructor_stops(p) ==
  /\ main[p] = "exit"
  /\ stop_flag(p, "main")
  /\ UNCHANGED <<files, main, thread, rpc, end, told>>

destructor_ends(p) ==
  /\ main[p] = "exit"
  /\ ~running[p]
  /\ stopper[p] # "main"
  /\ Ends(p, IF thread[p] = "none" THEN "ok" ELSE "abort")

-----------------------------------------------------------------------------
(* The server thread: HttpRpcServer::run_loop.                               *)

bind_port(p) ==
  /\ sthread[p] = "bind"
  /\ \/ /\ port = "free"
        /\ port' = IF serving[p] THEN p ELSE "free"
        /\ sthread' = [sthread EXCEPT ![p] = "accept"]
        /\ UNCHANGED serving
     \/ /\ port # "free"
        /\ sthread' = [sthread EXCEPT ![p] = "over"]
        /\ serving' = [serving EXCEPT ![p] = FALSE]
        /\ UNCHANGED port
  /\ UNCHANGED <<files, main, running, thread, http, stopping, end, told>>

run_loop_ends(p) ==
  /\ sthread[p] = "accept"
  /\ ~serving[p]
  /\ sthread' = [sthread EXCEPT ![p] = "over"]
  /\ UNCHANGED <<files, port, main, running, thread, http, serving, stopping, end, told>>

(* One client at a time.  recv waits for its request without a limit.        *)
accept_client(p) ==
  /\ sthread[p] = "accept"
  /\ serving[p] /\ port = p
  /\ sthread' = [sthread EXCEPT ![p] = "client"]
  /\ UNCHANGED <<files, port, main, running, thread, http, serving, stopping, end, told>>

(* The client hangs up, or its request is answered: one that is refused, or  *)
(* a command that leaves the daemon as it is.                                *)
client_leaves(p) ==
  /\ sthread[p] = "client"
  /\ sthread' = [sthread EXCEPT ![p] = "accept"]
  /\ UNCHANGED <<files, port, main, running, thread, http, serving, stopping, end, told>>

(* RPC daemon start: the daemon runs already, and with block (the default)   *)
(* the handler polls is_running in the server thread.                        *)
handle_daemon_start(p) ==
  /\ "rpc_start" \in Events
  /\ sthread[p] = "client"
  /\ running[p]
  /\ sthread' = [sthread EXCEPT ![p] = "blocked"]
  /\ UNCHANGED <<files, port, main, running, thread, http, serving, stopping, end, told>>

(* Fault: the handler polls the PID file.                                    *)
handle_daemon_returns_pidfile(p) ==
  /\ sthread[p] = "blocked"
  /\ ~is_already_running
  /\ sthread' = [sthread EXCEPT ![p] = "accept"]
  /\ UNCHANGED <<files, port, main, running, thread, http, serving, stopping, end, told>>

handle_daemon_returns(p) ==
  /\ sthread[p] = "blocked"
  /\ ~running[p]
  /\ sthread' = [sthread EXCEPT ![p] = "accept"]
  /\ UNCHANGED <<files, port, main, running, thread, http, serving, stopping, end, told>>

(* RPC daemon stop: stop() in the server thread.                             *)
handle_daemon_stop(p) ==
  /\ "rpc_stop" \in Events
  /\ sthread[p] = "client"
  /\ is_already_running
  /\ stop_flag(p, "rpc")
  /\ sthread' = [sthread EXCEPT ![p] = "stop"]
  /\ UNCHANGED <<files, port, main, thread, http, serving, end, told>>

-----------------------------------------------------------------------------
(* "instrument-server daemon stop": a process of its own, whose daemon object*)
(* never was started, so that stop() returns at once.                        *)
cli_daemon_stop ==
  /\ is_already_running
  /\ told' = told \cup {pidfile}
  /\ UNCHANGED <<files, main, running, thread, rpc, stopping, end>>

kill(p) ==
  /\ "kill" \in Events
  /\ Alive(p)
  /\ Ends(p, "killed")

(* The system gives the pid of a dead server to another program.             *)
reuse_pid(p) ==
  /\ "reuse" \in Events
  /\ main[p] = "gone"
  /\ reused' = reused \cup {p}
  /\ UNCHANGED <<pidfile, main, running, thread, rpc, stopping, end, told>>

-----------------------------------------------------------------------------
Start(p) ==
  \/ start_check(p) \/ create_pid_file(p) \/ write_pid(p)
  \/ start_without_rpc(p) \/ start_rpc(p) \/ wait_for_port(p) \/ start_thread(p)
Stop(p) ==
  \/ stop_instruments(p) \/ stop_rpc(p) \/ join_rpc(p) \/ join_rpc_throws(p)
  \/ join_daemon_thread(p) \/ stop_cleanup(p)
Exit(p) == poll(p) \/ destructor_stops(p) \/ destructor_ends(p)
Server(p) == bind_port(p) \/ run_loop_ends(p) \/ handle_daemon_returns(p)
Client(p) ==
  \/ accept_client(p) \/ client_leaves(p)
  \/ handle_daemon_start(p) \/ handle_daemon_stop(p)

Next ==
  \/ \E p \in Pids :
       \/ launch(p) \/ Start(p) \/ Stop(p) \/ Exit(p)
       \/ embedder_stops(p) \/ embedder_exits(p)
       \/ daemon_loop(p) \/ Server(p) \/ Client(p)
       \/ kill(p) \/ reuse_pid(p)
  \/ cli_daemon_stop

Spec == Init /\ [][Next]_vars

(* Threads that can go on do so.  Nobody has to start or stop a server, and  *)
(* a client need not send what it connected for.                             *)
Fairness ==
  \A p \in Pids : /\ WF_vars(Start(p))
                  /\ WF_vars(Stop(p))
                  /\ WF_vars(Exit(p))
                  /\ WF_vars(daemon_loop(p))
                  /\ WF_vars(Server(p))

FairSpec == Spec /\ Fairness

-----------------------------------------------------------------------------
(* rpc_server_ is deleted only when its thread has ended: the accept loop    *)
(* never runs on a deleted object, whichever thread stops the daemon.        *)
ServerOutlivesItsThread ==
  \A p \in Pids : ~http[p] => sthread[p] = "none"

(* "Only one daemon instance can run at a time" (CLI_USAGE.md), also after   *)
(* servers were killed and left their PID file behind.  Fails when two       *)
(* starts overlap: both find no server in the file before either is in it.   *)
OneDaemon == Cardinality({p \in Pids : running[p]}) <= 1

(* The PID file names the server that runs, so that the next start finds it: *)
(* neither a start that is refused nor the stop of an earlier server takes   *)
(* the file away from it; and a server that exits by itself leaves no PID    *)
(* file of its own behind ("Removes PID file", CLI_USAGE.md).                *)
PidFileNamesTheServer ==
  \A p \in Pids : /\ running[p] => pidfile = p
                  /\ end[p] = "ok" => pidfile # p

(* No server ends in std::terminate: no joinable thread is destroyed or      *)
(* assigned to, however start, stop and the exit of the process follow each  *)
(* other ("Stop daemon and clean up", EMBEDDING_API.md).  Fails when the RPC *)
(* port was taken, and when stop comes by RPC.                               *)
NoTerminate == \A p \in Pids : end[p] # "abort"

(* stop() in the main thread comes to its end, also when the server thread   *)
(* is busy with a command that itself waits for the daemon to stop; all that *)
(* can hold it up for ever is a client that was accepted and never lets go.  *)
StopEnds ==
  \A p \in Pids :
    stopper[p] = "main" ~> stopper[p] # "main" \/ sthread[p] = "client"

(* Not so: stop() uses "shutdown first to interrupt any blocking operations" *)
(* (HttpRpcServer.cpp).  It shuts down the listening socket; the server      *)
(* thread, which stop() joins, may be in recv on the socket of a client.     *)
StopInterruptsReads ==
  \A p \in Pids : stopper[p] = "main" ~> stopper[p] # "main"

(* Not so: start fails without an RPC server ("choose to fail here so tests  *)
(* relying on RPC get predictable behavior"): once the server thread of a    *)
(* running daemon has tried to bind the port, it has the port.               *)
RunningMeansListening ==
  \A p \in Pids :
    running[p] /\ http[p] /\ sthread[p] \notin {"none", "bind"} => port = p

(* Not so: "daemon stop" on the command line stops the server, "Stops all    *)
(* running instruments gracefully".  It stops the daemon object of its own   *)
(* process.                                                                  *)
DaemonStopStops == \A p \in Pids : p \in told ~> ~running[p]

(* Not so: the RPC command daemon start is answered with the pid of the      *)
(* daemon.  It keeps the only server thread until the daemon stops.          *)
DaemonStartAnswers ==
  \A p \in Pids : sthread[p] = "blocked" ~> sthread[p] # "blocked"
=============================================================================
