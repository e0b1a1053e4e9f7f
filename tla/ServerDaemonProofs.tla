------------------------- MODULE ServerDaemonProofs -------------------------
(***************************************************************************)
(* Proofs about ServerDaemon, for every set of processes: the RPC server   *)
(* outlives its thread whatever happens; and if no two starts overlap,     *)
(* there is one daemon at a time and the PID file names it, also after     *)
(* kills, reused pids, a taken port and RPC commands.                      *)
(***************************************************************************)
EXTENDS ServerDaemon, TLAPS

(* stop() has an RPC server to stop when it gets to it, and only the main    *)
(* thread gets past joining the server thread.                               *)
RpcInv(p) ==
  /\ ~http[p] => sthread[p] = "none"
  /\ stage[p] \in {"rpc", "rpc_join"} => http[p]
  /\ stopper[p] = "rpc" => http[p]
  /\ stage[p] # "none" => stopper[p] # "none"
  /\ stage[p] \in {"join", "cleanup"} => stopper[p] = "main"

(* A daemon that runs, or stops, is past start(), and its daemon thread is   *)
(* joinable until stop() joins it.                                           *)
LifeInv(p) ==
  /\ running[p] \/ stage[p] # "none" => main[p] \in {"poll", "idle", "exit"}
  /\ stage[p] # "none" => ~running[p]
  /\ running[p] \/ stage[p] \in {"instruments", "rpc", "rpc_join", "join"}
       => thread[p] # "none"
  /\ end[p] # "none" => main[p] = "gone"
  /\ main[p] = "gone" => thread[p] = "none"

BaseInv == TypeOK /\ \A p \in Pids : RpcInv(p) /\ LifeInv(p)

(* From writing its pid to the end of stop().                                *)
Active(p) ==
  running[p] \/ stage[p] # "none" \/ main[p] \in {"rpc", "rpc_wait", "run"}

(* Who starts does so alone, and has found no active server; an active       *)
(* server is in the PID file; and a pid is left in the file only by a server *)
(* that was killed or terminated, or whose stop() has failed.                *)
SerialInv ==
  /\ \A p, q \in Pids : main[p] \in Starting /\ main[q] \in Starting => p = q
  /\ \A p \in Pids : Active(p) => pidfile = p
  /\ \A p \in Pids : main[p] \in {"create", "write"} => \A q \in Pids : ~Active(q)
  /\ \A p \in Pids : pidfile = p =>
       Active(p) \/ thread[p] # "none" \/ end[p] \in {"killed", "abort"}

(* Threads are joined before they are destroyed.  An RPC server that stop()  *)
(* has not stopped is serving: it found the port free, since only an active  *)
(* server has the port.                                                      *)
ThreadInv(p) ==
  /\ stopper[p] # "rpc"
  /\ ~Active(p) => thread[p] = "none" /\ ~http[p]
  /\ main[p] \in {"rpc", "rpc_wait", "run"} => thread[p] = "none"
  /\ main[p] = "rpc" => ~http[p]
  /\ http[p] /\ stage[p] \in {"none", "instruments", "rpc"} => serving[p]
  /\ stage[p] = "rpc_join" => ~serving[p]
  /\ http[p] => stage[p] \notin {"join", "cleanup"}
  /\ stage[p] = "cleanup" => thread[p] = "none"
  /\ port = p => http[p] /\ serving[p] /\ sthread[p] # "bind"
  /\ end[p] # "abort"

JoinInv == port # "other" /\ \A p \in Pids : ThreadInv(p)

-----------------------------------------------------------------------------
(* The types, when a process has ended.                                      *)
LEMMA EndsType ==
  ASSUME TypeOK, NEW p \in Pids, NEW how \in {"ok", "abort", "killed"}, Ends(p, how)
  PROVE  TypeOK'
  BY Zenon DEF TypeOK, Ends, files

(* The types, for every step.                                                *)
LEMMA TypeStep == TypeOK /\ [Next]_vars => TypeOK'
<1> SUFFICES ASSUME TypeOK, [Next]_vars
             PROVE  TypeOK'
  BY Zenon
<1> USE DEF TypeOK, Starting, files, rpc, stopping
<1>1. ASSUME NEW p \in Pids, launch(p)
      PROVE  TypeOK'
  BY <1>1, Zenon DEF launch
<1>2. ASSUME NEW p \in Pids, start_check(p)
      PROVE  TypeOK'
  BY <1>2, ZenonT(60) DEF start_check, Refused
<1>3. ASSUME NEW p \in Pids, create_pid_file(p)
      PROVE  TypeOK'
  BY <1>3, ZenonT(60) DEF create_pid_file, Refused
<1>4. ASSUME NEW p \in Pids, write_pid(p)
      PROVE  TypeOK'
  BY <1>4, Zenon DEF write_pid, Main
<1>5. ASSUME NEW p \in Pids, start_without_rpc(p)
      PROVE  TypeOK'
  BY <1>5, Zenon DEF start_without_rpc, Main
<1>6. ASSUME NEW p \in Pids, start_rpc(p)
      PROVE  TypeOK'
  BY <1>6, Zenon DEF start_rpc, Main
<1>7. ASSUME NEW p \in Pids, wait_for_port(p)
      PROVE  TypeOK'
  BY <1>7, Zenon DEF wait_for_port, Main
<1>8. ASSUME NEW p \in Pids, start_thread(p)
      PROVE  TypeOK'
  <2>1. CASE thread[p] # "none"
    BY <1>8, <2>1, EndsType, Zenon DEF start_thread
  <2>2. CASE thread[p] = "none"
    <3>1. main'[p] \in {"idle", "poll"} /\ main' = [main EXCEPT ![p] = main'[p]]
      BY <1>8, <2>2, ZenonT(60) DEF start_thread
    <3>2. /\ running' = [running EXCEPT ![p] = TRUE] /\ thread' = [thread EXCEPT ![p] = "run"]
          /\ UNCHANGED <<files, rpc, stopping, end, told>>
      BY <1>8, <2>2, Zenon DEF start_thread
    <3> QED
      BY <3>1, <3>2
  <2> QED
    BY <2>1, <2>2, Zenon
<1>9. ASSUME NEW p \in Pids, stop_instruments(p)
      PROVE  TypeOK'
  BY <1>9, Zenon DEF stop_instruments, Stage
<1>10. ASSUME NEW p \in Pids, stop_rpc(p)
      PROVE  TypeOK'
  <2>1. CASE ~serving[p]
    BY <1>10, <2>1, EndsType, Zenon DEF stop_rpc
  <2>2. CASE serving[p]
    <3>1. port' \in {port, "free"} /\ serving' = [serving EXCEPT ![p] = FALSE]
      BY <1>10, <2>2, Zenon DEF stop_rpc
    <3>2. /\ stage' = [stage EXCEPT ![p] = "rpc_join"]
          /\ UNCHANGED <<files, main, running, thread, http, sthread, stopper, end, told>>
      BY <1>10, <2>2, Zenon DEF stop_rpc
    <3> QED
      BY <3>1, <3>2, Zenon
  <2> QED
    BY <2>1, <2>2, Zenon
<1>11. ASSUME NEW p \in Pids, join_rpc(p)
      PROVE  TypeOK'
  BY <1>11, Zenon DEF join_rpc, Stage
<1>12. ASSUME NEW p \in Pids, join_rpc_throws(p)
      PROVE  TypeOK'
  BY <1>12, Zenon DEF join_rpc_throws, Stage
<1>13. ASSUME NEW p \in Pids, join_daemon_thread(p)
      PROVE  TypeOK'
  BY <1>13, Zenon DEF join_daemon_thread, Stage
<1>14. ASSUME NEW p \in Pids, stop_cleanup(p)
      PROVE  TypeOK'
  BY <1>14, Zenon DEF stop_cleanup, Stage
<1>15. ASSUME NEW p \in Pids, poll(p)
      PROVE  TypeOK'
  BY <1>15, Zenon DEF poll, Main
<1>16. ASSUME NEW p \in Pids, destructor_stops(p)
      PROVE  TypeOK'
  BY <1>16, Zenon DEF destructor_stops, stop_flag, Stage
<1>17. ASSUME NEW p \in Pids, destructor_ends(p)
      PROVE  TypeOK'
  BY <1>17, EndsType, Zenon DEF destructor_ends
<1>18. ASSUME NEW p \in Pids, embedder_stops(p)
      PROVE  TypeOK'
  BY <1>18, Zenon DEF embedder_stops, stop_flag, Stage
<1>19. ASSUME NEW p \in Pids, embedder_exits(p)
      PROVE  TypeOK'
  BY <1>19, Zenon DEF embedder_exits, Main
<1>20. ASSUME NEW p \in Pids, daemon_loop(p)
      PROVE  TypeOK'
  BY <1>20, Zenon DEF daemon_loop
<1>21. ASSUME NEW p \in Pids, bind_port(p)
      PROVE  TypeOK'
  <2>1. port' \in Pids \cup {"free", "other"}
    BY <1>21, ZenonT(60) DEF bind_port
  <2>2. sthread' \in [Pids -> {"none", "bind", "accept", "client", "blocked", "stop",
                           "over"}]
    BY <1>21 DEF bind_port
  <2>3. serving' \in [Pids -> BOOLEAN]
    BY <1>21, Zenon DEF bind_port
  <2>4. UNCHANGED <<files, main, running, thread, http, stopping, end, told>>
    BY <1>21, Zenon DEF bind_port
  <2> QED
    BY <2>1, <2>2, <2>3, <2>4, Zenon
<1>22. ASSUME NEW p \in Pids, run_loop_ends(p)
      PROVE  TypeOK'
  BY <1>22, Zenon DEF run_loop_ends
<1>23. ASSUME NEW p \in Pids, handle_daemon_returns(p)
      PROVE  TypeOK'
  BY <1>23, Zenon DEF handle_daemon_returns
<1>24. ASSUME NEW p \in Pids, handle_daemon_start(p)
      PROVE  TypeOK'
  BY <1>24, Zenon DEF handle_daemon_start
<1>25. ASSUME NEW p \in Pids, handle_daemon_stop(p)
      PROVE  TypeOK'
  BY <1>25, Zenon DEF handle_daemon_stop, stop_flag, Stage
<1>26. ASSUME NEW p \in Pids, kill(p)
      PROVE  TypeOK'
  BY <1>26, EndsType, Zenon DEF kill
<1>27. ASSUME NEW p \in Pids, reuse_pid(p)
      PROVE  TypeOK'
  BY <1>27, Zenon DEF reuse_pid
<1>28. CASE cli_daemon_stop
  BY <1>28, Zenon DEF cli_daemon_stop, is_already_running
<1>29. CASE UNCHANGED vars
  BY <1>29, Zenon DEF vars
<1>30. ASSUME NEW p \in Pids, accept_client(p)
      PROVE  TypeOK'
  BY <1>30, Zenon DEF accept_client
<1>31. ASSUME NEW p \in Pids, client_leaves(p)
      PROVE  TypeOK'
  BY <1>31, Zenon DEF client_leaves
<1> QED
  BY <1>1, <1>2, <1>3, <1>4, <1>5, <1>6, <1>7, <1>8, <1>9, <1>10,
     <1>11, <1>12, <1>13, <1>14, <1>15, <1>16, <1>17, <1>18, <1>19, <1>20,
     <1>21, <1>22, <1>23, <1>24, <1>25, <1>26, <1>27, <1>28, <1>29, <1>30, <1>31, ZenonT(60)
  DEF Next, Start, Stop, Exit, Server, Client

(* The threads of a process that has ended are gone.                         *)
LEMMA EndsBase ==
  ASSUME TypeOK, BaseInv, NEW p \in Pids, NEW how \in {"ok", "abort", "killed"},
         Ends(p, how)
  PROVE  \A q \in Pids : RpcInv(q)' /\ LifeInv(q)'
  BY DEF TypeOK, BaseInv, RpcInv, LifeInv, Ends

(* The threads of a process fit together, after every step of some process.  *)
LEMMA BaseStep == BaseInv /\ [Next]_vars => BaseInv'
<1> SUFFICES ASSUME BaseInv, [Next]_vars
             PROVE  \A q \in Pids : RpcInv(q)' /\ LifeInv(q)'
  BY TypeStep, Zenon DEF BaseInv
<1> TypeOK
  BY Zenon DEF BaseInv
<1> USE DEF BaseInv, TypeOK, RpcInv, LifeInv, Starting, files, rpc, stopping
<1>1. ASSUME NEW p \in Pids, launch(p)
      PROVE  \A q \in Pids : RpcInv(q)' /\ LifeInv(q)'
  BY <1>1 DEF launch
<1>2. ASSUME NEW p \in Pids, start_check(p)
      PROVE  \A q \in Pids : RpcInv(q)' /\ LifeInv(q)'
  BY <1>2 DEF start_check, Refused
<1>3. ASSUME NEW p \in Pids, create_pid_file(p)
      PROVE  \A q \in Pids : RpcInv(q)' /\ LifeInv(q)'
  BY <1>3 DEF create_pid_file, Refused
<1>4. ASSUME NEW p \in Pids, write_pid(p)
      PROVE  \A q \in Pids : RpcInv(q)' /\ LifeInv(q)'
  BY <1>4 DEF write_pid, Main
<1>5. ASSUME NEW p \in Pids, start_without_rpc(p)
      PROVE  \A q \in Pids : RpcInv(q)' /\ LifeInv(q)'
  BY <1>5 DEF start_without_rpc, Main
<1>6. ASSUME NEW p \in Pids, start_rpc(p)
      PROVE  \A q \in Pids : RpcInv(q)' /\ LifeInv(q)'
  BY <1>6 DEF start_rpc, Main
<1>7. ASSUME NEW p \in Pids, wait_for_port(p)
      PROVE  \A q \in Pids : RpcInv(q)' /\ LifeInv(q)'
  BY <1>7 DEF wait_for_port, Main
<1>8. ASSUME NEW p \in Pids, start_thread(p)
      PROVE  \A q \in Pids : RpcInv(q)' /\ LifeInv(q)'
  <2>1. CASE thread[p] # "none"
    BY <1>8, <2>1, EndsBase, Zenon DEF start_thread
  <2>2. CASE thread[p] = "none"
    BY <1>8, <2>2 DEF start_thread
  <2> QED
    BY <2>1, <2>2, Zenon
<1>9. ASSUME NEW p \in Pids, stop_instruments(p)
      PROVE  \A q \in Pids : RpcInv(q)' /\ LifeInv(q)'
  BY <1>9 DEF stop_instruments, Stage
<1>10. ASSUME NEW p \in Pids, stop_rpc(p)
      PROVE  \A q \in Pids : RpcInv(q)' /\ LifeInv(q)'
  <2>1. CASE ~serving[p]
    BY <1>10, <2>1, EndsBase, Zenon DEF stop_rpc
  <2>2. CASE serving[p]
    BY <1>10, <2>2 DEF stop_rpc
  <2> QED
    BY <2>1, <2>2, Zenon
<1>11. ASSUME NEW p \in Pids, join_rpc(p)
      PROVE  \A q \in Pids : RpcInv(q)' /\ LifeInv(q)'
  BY <1>11 DEF join_rpc, Stage
<1>12. ASSUME NEW p \in Pids, join_rpc_throws(p)
      PROVE  \A q \in Pids : RpcInv(q)' /\ LifeInv(q)'
  BY <1>12 DEF join_rpc_throws, Stage
<1>13. ASSUME NEW p \in Pids, join_daemon_thread(p)
      PROVE  \A q \in Pids : RpcInv(q)' /\ LifeInv(q)'
  BY <1>13 DEF join_daemon_thread, Stage
<1>14. ASSUME NEW p \in Pids, stop_cleanup(p)
      PROVE  \A q \in Pids : RpcInv(q)' /\ LifeInv(q)'
  BY <1>14 DEF stop_cleanup, Stage
<1>15. ASSUME NEW p \in Pids, poll(p)
      PROVE  \A q \in Pids : RpcInv(q)' /\ LifeInv(q)'
  BY <1>15 DEF poll, Main
<1>16. ASSUME NEW p \in Pids, destructor_stops(p)
      PROVE  \A q \in Pids : RpcInv(q)' /\ LifeInv(q)'
  BY <1>16 DEF destructor_stops, stop_flag, Stage
<1>17. ASSUME NEW p \in Pids, destructor_ends(p)
      PROVE  \A q \in Pids : RpcInv(q)' /\ LifeInv(q)'
  BY <1>17, EndsBase, Zenon DEF destructor_ends
<1>18. ASSUME NEW p \in Pids, embedder_stops(p)
      PROVE  \A q \in Pids : RpcInv(q)' /\ LifeInv(q)'
  BY <1>18 DEF embedder_stops, stop_flag, Stage
<1>19. ASSUME NEW p \in Pids, embedder_exits(p)
      PROVE  \A q \in Pids : RpcInv(q)' /\ LifeInv(q)'
  BY <1>19 DEF embedder_exits, Main
<1>20. ASSUME NEW p \in Pids, daemon_loop(p)
      PROVE  \A q \in Pids : RpcInv(q)' /\ LifeInv(q)'
  BY <1>20 DEF daemon_loop
<1>21. ASSUME NEW p \in Pids, bind_port(p)
      PROVE  \A q \in Pids : RpcInv(q)' /\ LifeInv(q)'
  BY <1>21 DEF bind_port
<1>22. ASSUME NEW p \in Pids, run_loop_ends(p)
      PROVE  \A q \in Pids : RpcInv(q)' /\ LifeInv(q)'
  BY <1>22 DEF run_loop_ends
<1>23. ASSUME NEW p \in Pids, handle_daemon_returns(p)
      PROVE  \A q \in Pids : RpcInv(q)' /\ LifeInv(q)'
  BY <1>23 DEF handle_daemon_returns
<1>24. ASSUME NEW p \in Pids, handle_daemon_start(p)
      PROVE  \A q \in Pids : RpcInv(q)' /\ LifeInv(q)'
  BY <1>24 DEF handle_daemon_start
<1>25. ASSUME NEW p \in Pids, handle_daemon_stop(p)
      PROVE  \A q \in Pids : RpcInv(q)' /\ LifeInv(q)'
  BY <1>25 DEF handle_daemon_stop, stop_flag, Stage
<1>26. ASSUME NEW p \in Pids, kill(p)
      PROVE  \A q \in Pids : RpcInv(q)' /\ LifeInv(q)'
  BY <1>26, EndsBase, Zenon DEF kill
<1>27. ASSUME NEW p \in Pids, reuse_pid(p)
      PROVE  \A q \in Pids : RpcInv(q)' /\ LifeInv(q)'
  BY <1>27, ZenonT(60) DEF reuse_pid
<1>28. CASE cli_daemon_stop
  BY <1>28, Zenon DEF cli_daemon_stop, is_already_running
<1>29. CASE UNCHANGED vars
  BY <1>29, Zenon DEF vars
<1>30. ASSUME NEW p \in Pids, accept_client(p)
      PROVE  \A q \in Pids : RpcInv(q)' /\ LifeInv(q)'
  BY <1>30 DEF accept_client
<1>31. ASSUME NEW p \in Pids, client_leaves(p)
      PROVE  \A q \in Pids : RpcInv(q)' /\ LifeInv(q)'
  BY <1>31 DEF client_leaves
<1> QED
  BY ZenonT(60), <1>1, <1>2, <1>3, <1>4, <1>5, <1>6, <1>7, <1>8, <1>9, <1>10,
     <1>11, <1>12, <1>13, <1>14, <1>15, <1>16, <1>17, <1>18, <1>19, <1>20,
     <1>21, <1>22, <1>23, <1>24, <1>25, <1>26, <1>27, <1>28, <1>29, <1>30, <1>31
  DEF Next, Start, Stop, Exit, Server, Client

(* A process that ends leaves no server behind.                              *)
LEMMA EndsSerial ==
  ASSUME BaseInv, SerialInv, NEW p \in Pids, NEW how \in {"ok", "abort", "killed"},
         Ends(p, how), how = "ok" => ~Active(p) /\ thread[p] = "none" /\ main[p] # "gone"
  PROVE  SerialInv'
<1>1. /\ ~Active(p)' /\ main'[p] = "gone" /\ end'[p] = how
      /\ \A q \in Pids \ {p} : /\ Active(q)' <=> Active(q)
                              /\ main'[q] = main[q] /\ thread'[q] = thread[q]
                              /\ end'[q] = end[q]
      /\ pidfile' = pidfile
  BY ZenonT(60) DEF BaseInv, TypeOK, Active, Ends, files
<1>2. pidfile = p => how \in {"killed", "abort"}
  BY Zenon DEF BaseInv, LifeInv, SerialInv
<1> QED
  BY <1>1, <1>2, ZenonT(60) DEF SerialInv, Starting

(* Servers do not get in each other's way, as long as starts do not overlap. *)
LEMMA SerialStep ==
  ASSUME "overlap" \notin Events, BaseInv, SerialInv, [Next]_vars
  PROVE  SerialInv'
<1> TypeOK
  BY Zenon DEF BaseInv
<1> USE DaemonAssumption
    DEF BaseInv, TypeOK, RpcInv, LifeInv, SerialInv, Active, Starting, files, rpc, stopping
<1>1. ASSUME NEW p \in Pids, launch(p)
      PROVE  SerialInv'
  BY <1>1 DEF launch
<1>2. ASSUME NEW p \in Pids, start_check(p)
      PROVE  SerialInv'
  BY <1>2 DEF start_check, Refused, is_already_running, Alive
<1>3. ASSUME NEW p \in Pids, create_pid_file(p)
      PROVE  SerialInv'
  BY <1>3 DEF create_pid_file, Refused
<1>4. ASSUME NEW p \in Pids, write_pid(p)
      PROVE  SerialInv'
  BY <1>4 DEF write_pid, Main
<1>5. ASSUME NEW p \in Pids, start_without_rpc(p)
      PROVE  SerialInv'
  BY <1>5 DEF start_without_rpc, Main
<1>6. ASSUME NEW p \in Pids, start_rpc(p)
      PROVE  SerialInv'
  BY <1>6 DEF start_rpc, Main
<1>7. ASSUME NEW p \in Pids, wait_for_port(p)
      PROVE  SerialInv'
  BY <1>7 DEF wait_for_port, Main
<1>8. ASSUME NEW p \in Pids, start_thread(p)
      PROVE  SerialInv'
  <2>1. CASE thread[p] # "none"
    BY <1>8, <2>1, EndsSerial, Zenon DEF start_thread
  <2>2. CASE thread[p] = "none"
    BY <1>8, <2>2, SMTT(30) DEF start_thread
  <2> QED
    BY <2>1, <2>2, Zenon
<1>9. ASSUME NEW p \in Pids, stop_instruments(p)
      PROVE  SerialInv'
  BY <1>9 DEF stop_instruments, Stage
<1>10. ASSUME NEW p \in Pids, stop_rpc(p)
      PROVE  SerialInv'
  <2>1. CASE ~serving[p]
    BY <1>10, <2>1, EndsSerial, Zenon DEF stop_rpc
  <2>2. CASE serving[p]
    BY <1>10, <2>2 DEF stop_rpc
  <2> QED
    BY <2>1, <2>2, Zenon
<1>11. ASSUME NEW p \in Pids, join_rpc(p)
      PROVE  SerialInv'
  BY <1>11 DEF join_rpc, Stage
<1>12. ASSUME NEW p \in Pids, join_rpc_throws(p)
      PROVE  SerialInv'
  BY <1>12 DEF join_rpc_throws, Stage
<1>13. ASSUME NEW p \in Pids, join_daemon_thread(p)
      PROVE  SerialInv'
  BY <1>13 DEF join_daemon_thread, Stage
<1>14. ASSUME NEW p \in Pids, stop_cleanup(p)
      PROVE  SerialInv'
  BY <1>14 DEF stop_cleanup, Stage
<1>15. ASSUME NEW p \in Pids, poll(p)
      PROVE  SerialInv'
  BY <1>15 DEF poll, Main
<1>16. ASSUME NEW p \in Pids, destructor_stops(p)
      PROVE  SerialInv'
  BY <1>16 DEF destructor_stops, stop_flag, Stage
<1>17. ASSUME NEW p \in Pids, destructor_ends(p)
      PROVE  SerialInv'
  BY <1>17, EndsSerial, ZenonT(60) DEF destructor_ends
<1>18. ASSUME NEW p \in Pids, embedder_stops(p)
      PROVE  SerialInv'
  BY <1>18 DEF embedder_stops, stop_flag, Stage
<1>19. ASSUME NEW p \in Pids, embedder_exits(p)
      PROVE  SerialInv'
  BY <1>19 DEF embedder_exits, Main
<1>20. ASSUME NEW p \in Pids, daemon_loop(p)
      PROVE  SerialInv'
  BY <1>20 DEF daemon_loop
<1>21. ASSUME NEW p \in Pids, bind_port(p)
      PROVE  SerialInv'
  BY <1>21, ZenonT(60) DEF bind_port
<1>22. ASSUME NEW p \in Pids, run_loop_ends(p)
      PROVE  SerialInv'
  BY <1>22, ZenonT(60) DEF run_loop_ends
<1>23. ASSUME NEW p \in Pids, handle_daemon_returns(p)
      PROVE  SerialInv'
  BY <1>23, ZenonT(60) DEF handle_daemon_returns
<1>24. ASSUME NEW p \in Pids, handle_daemon_start(p)
      PROVE  SerialInv'
  BY <1>24, ZenonT(60) DEF handle_daemon_start
<1>25. ASSUME NEW p \in Pids, handle_daemon_stop(p)
      PROVE  SerialInv'
  BY <1>25 DEF handle_daemon_stop, stop_flag, Stage
<1>26. ASSUME NEW p \in Pids, kill(p)
      PROVE  SerialInv'
  BY <1>26, EndsSerial, Zenon DEF kill
<1>27. ASSUME NEW p \in Pids, reuse_pid(p)
      PROVE  SerialInv'
  BY <1>27, ZenonT(60) DEF reuse_pid
<1>28. CASE cli_daemon_stop
  BY <1>28, Zenon DEF cli_daemon_stop, is_already_running
<1>29. CASE UNCHANGED vars
  BY <1>29, Zenon DEF vars
<1>30. ASSUME NEW p \in Pids, accept_client(p)
      PROVE  SerialInv'
  BY <1>30, ZenonT(60) DEF accept_client
<1>31. ASSUME NEW p \in Pids, client_leaves(p)
      PROVE  SerialInv'
  BY <1>31, ZenonT(60) DEF client_leaves
<1> QED
  BY <1>1, <1>2, <1>3, <1>4, <1>5, <1>6, <1>7, <1>8, <1>9, <1>10,
     <1>11, <1>12, <1>13, <1>14, <1>15, <1>16, <1>17, <1>18, <1>19, <1>20,
     <1>21, <1>22, <1>23, <1>24, <1>25, <1>26, <1>27, <1>28, <1>29, <1>30, <1>31, ZenonT(60)
  DEF Next, Start, Stop, Exit, Server, Client

(* A process that is killed, or exits with its threads joined.               *)
LEMMA EndsJoin ==
  ASSUME BaseInv, JoinInv, NEW p \in Pids, NEW how \in {"ok", "killed"}, Ends(p, how)
  PROVE  JoinInv'
  BY DaemonAssumption DEF BaseInv, TypeOK, JoinInv, ThreadInv, Active, Ends

(* Every thread is joined in time, if the port is not taken by another       *)
(* program and stop() does not come by RPC.                                  *)
LEMMA JoinStep ==
  ASSUME Events \cap {"overlap", "busy", "rpc_stop"} = {}, BaseInv, SerialInv, JoinInv,
         [Next]_vars
  PROVE  JoinInv'
<1> TypeOK
  BY Zenon DEF BaseInv
<1> USE DEF BaseInv, TypeOK, Active, JoinInv, ThreadInv, files, rpc, stopping
<1>1. ASSUME NEW p \in Pids, launch(p)
      PROVE  JoinInv'
  BY <1>1 DEF launch
<1>2. ASSUME NEW p \in Pids, start_check(p)
      PROVE  JoinInv'
  BY <1>2 DEF start_check, Refused
<1>3. ASSUME NEW p \in Pids, create_pid_file(p)
      PROVE  JoinInv'
  BY <1>3, ZenonT(60)
    DEF create_pid_file, Refused, RpcInv, LifeInv, SerialInv, Starting
<1>4. ASSUME NEW p \in Pids, write_pid(p)
      PROVE  JoinInv'
  BY <1>4, ZenonT(60)
    DEF write_pid, Main, RpcInv, LifeInv, SerialInv, Starting
<1>5. ASSUME NEW p \in Pids, start_without_rpc(p)
      PROVE  JoinInv'
  BY <1>5 DEF start_without_rpc, Main
<1>6. ASSUME NEW p \in Pids, start_rpc(p)
      PROVE  JoinInv'
  BY <1>6, DaemonAssumption, SMTT(30)
    DEF start_rpc, Main, RpcInv, LifeInv, SerialInv, Starting
<1>7. ASSUME NEW p \in Pids, wait_for_port(p)
      PROVE  JoinInv'
  BY <1>7, SMTT(30) DEF wait_for_port, Main
<1>8. ASSUME NEW p \in Pids, start_thread(p)
      PROVE  JoinInv'
  <2>1. thread[p] = "none"
    BY <1>8, Zenon DEF start_thread
  <2> QED
    BY <1>8, <2>1, SMTT(30) DEF start_thread, RpcInv, LifeInv, SerialInv, Starting
<1>9. ASSUME NEW p \in Pids, stop_instruments(p)
      PROVE  JoinInv'
  BY <1>9 DEF stop_instruments, Stage
<1>10. ASSUME NEW p \in Pids, stop_rpc(p)
      PROVE  JoinInv'
  <2>1. serving[p]
    BY <1>10, Zenon DEF stop_rpc, RpcInv
  <2> QED
    BY <1>10, <2>1, DaemonAssumption, SMTT(30)
      DEF stop_rpc, RpcInv, LifeInv, SerialInv, Starting
<1>11. ASSUME NEW p \in Pids, join_rpc(p)
      PROVE  JoinInv'
  BY <1>11 DEF join_rpc, Stage
<1>12. ASSUME NEW p \in Pids, join_rpc_throws(p)
      PROVE  JoinInv'
  BY <1>12, Zenon DEF join_rpc_throws, Stage
<1>13. ASSUME NEW p \in Pids, join_daemon_thread(p)
      PROVE  JoinInv'
  BY <1>13 DEF join_daemon_thread, Stage
<1>14. ASSUME NEW p \in Pids, stop_cleanup(p)
      PROVE  JoinInv'
  BY <1>14 DEF stop_cleanup, Stage
<1>15. ASSUME NEW p \in Pids, poll(p)
      PROVE  JoinInv'
  BY <1>15 DEF poll, Main
<1>16. ASSUME NEW p \in Pids, destructor_stops(p)
      PROVE  JoinInv'
  BY <1>16 DEF destructor_stops, stop_flag, Stage
<1>17. ASSUME NEW p \in Pids, destructor_ends(p)
      PROVE  JoinInv'
  <2>1. thread[p] = "none"
    BY <1>17, SMTT(30) DEF destructor_ends, RpcInv
  <2>2. Ends(p, "ok")
    BY ONLY <1>17, <2>1, Zenon DEF destructor_ends
  <2> HIDE DEF BaseInv, JoinInv
  <2> QED
    BY <2>2, EndsJoin, Zenon
<1>18. ASSUME NEW p \in Pids, embedder_stops(p)
      PROVE  JoinInv'
  BY <1>18 DEF embedder_stops, stop_flag, Stage
<1>19. ASSUME NEW p \in Pids, embedder_exits(p)
      PROVE  JoinInv'
  BY <1>19 DEF embedder_exits, Main
<1>20. ASSUME NEW p \in Pids, daemon_loop(p)
      PROVE  JoinInv'
  BY <1>20 DEF daemon_loop
<1>21. ASSUME NEW p \in Pids, bind_port(p)
      PROVE  JoinInv'
  BY <1>21, DaemonAssumption, SMTT(30) DEF bind_port, RpcInv, LifeInv, SerialInv, Starting
<1>22. ASSUME NEW p \in Pids, run_loop_ends(p)
      PROVE  JoinInv'
  BY <1>22 DEF run_loop_ends
<1>23. ASSUME NEW p \in Pids, handle_daemon_returns(p)
      PROVE  JoinInv'
  BY <1>23, SMTT(30) DEF handle_daemon_returns
<1>24. ASSUME NEW p \in Pids, handle_daemon_start(p)
      PROVE  JoinInv'
  BY <1>24 DEF handle_daemon_start
<1>25. ASSUME NEW p \in Pids, handle_daemon_stop(p)
      PROVE  JoinInv'
  BY <1>25, ZenonT(60) DEF handle_daemon_stop, stop_flag, Stage
<1>26. ASSUME NEW p \in Pids, kill(p)
      PROVE  JoinInv'
  BY <1>26, EndsJoin, Zenon DEF kill
<1>27. ASSUME NEW p \in Pids, reuse_pid(p)
      PROVE  JoinInv'
  BY <1>27, ZenonT(60) DEF reuse_pid
<1>28. CASE cli_daemon_stop
  BY <1>28, ZenonT(60) DEF cli_daemon_stop, is_already_running
<1>29. CASE UNCHANGED vars
  BY <1>29, ZenonT(60) DEF vars
<1>30. ASSUME NEW p \in Pids, accept_client(p)
      PROVE  JoinInv'
  BY <1>30 DEF accept_client
<1>31. ASSUME NEW p \in Pids, client_leaves(p)
      PROVE  JoinInv'
  BY <1>31 DEF client_leaves
<1> QED
  BY ZenonT(60), <1>1, <1>2, <1>3, <1>4, <1>5, <1>6, <1>7, <1>8, <1>9, <1>10,
     <1>11, <1>12, <1>13, <1>14, <1>15, <1>16, <1>17, <1>18, <1>19, <1>20,
     <1>21, <1>22, <1>23, <1>24, <1>25, <1>26, <1>27, <1>28, <1>29, <1>30, <1>31
  DEF Next, Start, Stop, Exit, Server, Client

-----------------------------------------------------------------------------
(* No server has been started.                                               *)
LEMMA InitInv == Init => BaseInv /\ SerialInv
<1> SUFFICES ASSUME Init
             PROVE  BaseInv /\ SerialInv
  BY Zenon
<1>1. TypeOK
  BY Zenon DEF Init, TypeOK
<1>2. \A p \in Pids : RpcInv(p) /\ LifeInv(p) /\ ~Active(p)
  BY Zenon DEF Init, RpcInv, LifeInv, Active
<1>3. SerialInv
  BY <1>2, DaemonAssumption, Zenon DEF Init, SerialInv, Starting
<1> QED
  BY <1>1, <1>2, <1>3, Zenon DEF BaseInv

(* The RPC server object outlives its thread, with any number of processes   *)
(* and whatever happens: overlapping starts, kills, a taken port, stop() in  *)
(* the server thread itself.                                                 *)
THEOREM ServerOutlives == Spec => []ServerOutlivesItsThread
<1>1. BaseInv => ServerOutlivesItsThread
  BY Zenon DEF BaseInv, RpcInv, ServerOutlivesItsThread
<1> QED
  BY <1>1, InitInv, BaseStep, PTL DEF Spec

(* If starts do not overlap, both invariants hold in every reachable state.  *)
LEMMA SerialInvariance ==
  ASSUME "overlap" \notin Events
  PROVE  Spec => [](BaseInv /\ SerialInv)
<1>1. BaseInv /\ SerialInv /\ [Next]_vars => (BaseInv /\ SerialInv)'
  BY BaseStep, SerialStep, Zenon
<1> QED
  BY <1>1, InitInv, PTL DEF Spec

INSTANCE FiniteSetTheorems

(* If starts do not overlap there is one daemon at a time, whatever the PID  *)
(* file of an earlier server says.                                           *)
THEOREM OneDaemonAtATime ==
  ASSUME "overlap" \notin Events
  PROVE  Spec => []OneDaemon
<1>1. BaseInv /\ SerialInv => OneDaemon
  <2> SUFFICES ASSUME BaseInv, SerialInv
               PROVE  Cardinality({p \in Pids : running[p]}) <= 1
    BY Zenon DEF OneDaemon
  <2> DEFINE R == {p \in Pids : running[p]}
  <2>1. \A p, q \in R : p = q
    BY Zenon DEF SerialInv, Active
  <2>2. CASE R = {}
    BY <2>2, FS_EmptySet
  <2>3. ASSUME NEW p \in R
        PROVE  Cardinality(R) = 1
    <3>1. R = {p}
      BY <2>1, Zenon
    <3> QED
      BY <3>1, FS_Singleton, Zenon
  <2> QED
    BY <2>2, <2>3
<1> QED
  BY <1>1, SerialInvariance, PTL

(* If starts do not overlap, the PID file names the daemon that runs, and a  *)
(* server that exits by itself is not in it.                                 *)
THEOREM PidFileIsRight ==
  ASSUME "overlap" \notin Events
  PROVE  Spec => []PidFileNamesTheServer
<1>1. BaseInv /\ SerialInv => PidFileNamesTheServer
  <2> SUFFICES ASSUME BaseInv, SerialInv, NEW p \in Pids
               PROVE  /\ running[p] => pidfile = p
                      /\ end[p] = "ok" => pidfile # p
    BY Zenon DEF PidFileNamesTheServer
  <2>1. running[p] => pidfile = p
    BY Zenon DEF SerialInv, Active
  <2>2. end[p] = "ok" => thread[p] = "none" /\ ~Active(p)
    BY Zenon DEF BaseInv, LifeInv, Active
  <2> QED
    BY <2>1, <2>2, Zenon DEF SerialInv
<1> QED
  BY <1>1, SerialInvariance, PTL

(* If moreover no other program takes the port and stop() does not come by   *)
(* RPC, no process ends in std::terminate: threads are joined before they    *)
(* are destroyed or assigned to, also after a restart.                       *)
THEOREM ThreadsAreJoined ==
  ASSUME Events \cap {"overlap", "busy", "rpc_stop"} = {}
  PROVE  Spec => []NoTerminate
<1>1. Init => JoinInv
  BY DaemonAssumption, ZenonT(60) DEF Init, JoinInv, ThreadInv, Active
<1>2. BaseInv /\ SerialInv /\ JoinInv /\ [Next]_vars => JoinInv'
  BY JoinStep, Zenon
<1>3. JoinInv => NoTerminate
  BY Zenon DEF JoinInv, ThreadInv, NoTerminate
<1>4. Spec => [](BaseInv /\ SerialInv)
  BY SerialInvariance, Zenon
<1> QED
  BY <1>1, <1>2, <1>3, <1>4, PTL DEF Spec
=============================================================================
