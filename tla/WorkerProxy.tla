---------------------------- MODULE WorkerProxy -----------------------------
(***************************************************************************)
(* One instrument as the server sees it: the proxy object                  *)
(* (src/server/InstrumentWorkerProxy.cpp), its pair of bounded FIFO queues *)
(* in shared memory (src/ipc/SharedQueue.cpp) and the worker process at    *)
(* the other end (src/workers/generic_worker_main.cpp).  Threads call      *)
(* execute and execute_sync concurrently; the response listener thread     *)
(* settles their promises; another thread may call stop() at any time.     *)
(*                                                                         *)
(* One step is one critical section of pending_mutex_ or stats_mutex_, one *)
(* queue operation, or one system call.  Timeouts are steps that may be    *)
(* taken whenever the thing waited for has not happened.                   *)
(***************************************************************************)
EXTENDS Naturals, Sequences, FiniteSets

CONSTANTS
  Cmds,      (* the message ids next_message_id_ hands out; bounds the calls  *)
  NoCmd,     (* the id of a message that belongs to no command                *)
  Capacity,  (* the depth of each queue, 100 in create_server_queue           *)
  Faults     (* what the environment may do: "crash" the worker, stay "slow"  *)
             (* past a send timeout, give a "large" payload, "stall" a thread *)
             (* for 500 ms between two statements                             *)

ASSUME ProxyAssumption ==
  /\ IsFiniteSet(Cmds)
  /\ NoCmd \notin Cmds
  /\ Capacity \in Nat \ {0}
  /\ Faults \subseteq {"crash", "slow", "large", "stall"}

VARIABLES
  life,      (* how far start() has come                                      *)
  running,   (* running_                                                      *)
  ipc,       (* ipc_queue_ is set                                             *)
  req, resp, (* the request and the response queue                            *)
  call,      (* where the caller of execute or execute_sync is, per command   *)
  pending,   (* the keys of pending_responses_                                *)
  future,    (* what the future of each command holds                         *)
  stats,     (* stats_                                                        *)
  listener,  (* where the listener is in response_listener_loop               *)
  worker,    (* the worker process                                            *)
  cur,       (* the command the worker executes                               *)
  reply,     (* history: what the worker made of each command                 *)
  stage,     (* how far stop() has come                                       *)
  detached,  (* the listener runs and response_thread_ was detached           *)
  server     (* "up" until undefined behaviour or an uncaught exception       *)

vars == <<life, running, ipc, req, resp, call, pending, future, stats, listener,
          worker, cur, reply, stage, detached, server>>
queues == <<req, resp>>
calls == <<call, pending, future, stats>>
process == <<worker, cur, reply>>
stopping == <<stage, detached>>

Answers == {"ok", "error"}
Failures == {"send_timeout", "stopped", "broken"}
Settled == Answers \cup Failures
Message == [type : {"COMMAND", "SHUTDOWN", "RESPONSE", "HEARTBEAT"},
            id : Cmds \cup {NoCmd},
            payload : Answers \cup {"whole", "cut", "none"}]
Alive == {"init", "loop", "busy"}

TypeOK ==
  /\ life \in {"new", "starting", "started", "failed", "destroyed"}
  /\ running \in BOOLEAN
  /\ ipc \in BOOLEAN
  /\ req \in Seq(Message) /\ Len(req) <= Capacity
  /\ resp \in Seq(Message) /\ Len(resp) <= Capacity
  /\ call \in [Cmds -> {"idle", "stored", "sent", "waiting", "done", "timed_out"}]
  /\ pending \in SUBSET Cmds
  /\ future \in [Cmds -> {"none", "unset"} \cup Settled]
  /\ stats \in [{"sent", "completed", "failed", "timeout"} -> Nat]
  /\ listener \in {"none", "check", "receive", "done"}
  /\ worker \in Alive \cup {"none", "exited"}
  /\ cur \in Cmds \cup {NoCmd}
  /\ reply \in [Cmds -> {"none", "begun"} \cup Answers]
  /\ stage \in {"none", "shutdown", "reap", "join", "promises", "ipc", "stopped"}
  /\ detached \in BOOLEAN
  /\ server \in {"up", "null_queue", "uncaught", "dangling"}

Init ==
  /\ life = "new"
  /\ running = FALSE
  /\ ipc = FALSE
  /\ req = <<>>
  /\ resp = <<>>
  /\ call = [c \in Cmds |-> "idle"]
  /\ pending = {}
  /\ future = [c \in Cmds |-> "none"]
  /\ stats = [s \in {"sent", "completed", "failed", "timeout"} |-> 0]
  /\ listener = "none"
  /\ worker = "none"
  /\ cur = NoCmd
  /\ reply = [c \in Cmds |-> "none"]
  /\ stage = "none"
  /\ detached = FALSE
  /\ server = "up"

-----------------------------------------------------------------------------
(* SharedQueue and the payload of a message.                                 *)

Full(q) == Len(q) >= Capacity
Msg(type, id, payload) == [type |-> type, id |-> id, payload |-> payload]

(* A payload longer than IPC_MAX_PAYLOAD is cut off at that length, which    *)
(* leaves text that is no JSON document.                                     *)
Payload(body) == {body} \cup IF "large" \in Faults THEN {"cut"} ELSE {}

(* timed_send: waits for room, or gives up at its deadline, which comes when *)
(* the receiver is slow or gone.                                             *)
Send(q, m) == ~Full(q) /\ q' = Append(q, m)
SendTimesOut(q, gone) == ("slow" \in Faults \/ gone) /\ Full(q) /\ UNCHANGED q

Count(s) == stats' = [stats EXCEPT ![s] = @ + 1]

-----------------------------------------------------------------------------
(* start().  The caller publishes the proxy only when it returns true.       *)

(* The queues cannot be created, or the worker executable cannot be spawned. *)
start_fails ==
  /\ life = "new"
  /\ life' = "failed"
  /\ ipc' \in BOOLEAN
  /\ UNCHANGED <<running, queues, calls, listener, process, stopping, server>>

start ==
  /\ life = "new"
  /\ life' = "starting"
  /\ ipc' = TRUE
  /\ running' = TRUE
  /\ worker' = "init"
  /\ listener' = "check"
  /\ UNCHANGED <<queues, calls, cur, reply, stopping, server>>

start_returns ==
  /\ life = "starting"
  /\ worker # "exited"
  /\ life' = "started"
  /\ UNCHANGED <<running, ipc, queues, calls, listener, process, stopping, server>>

(* "Worker died during startup": start() calls stop().                       *)
start_stops ==
  /\ life = "starting"
  /\ worker = "exited"
  /\ life' = "failed"
  /\ running' = FALSE
  /\ stage' = "shutdown"
  /\ UNCHANGED <<ipc, queues, calls, listener, process, detached, server>>

-----------------------------------------------------------------------------
(* execute and execute_sync.  A caller keeps its shared_ptr while stop()     *)
(* runs in another thread.                                                   *)

(* Takes a message id and stores the promise.                                *)
execute_store(c) ==
  /\ life = "started"
  /\ call[c] = "idle"
  /\ call' = [call EXCEPT ![c] = "stored"]
  /\ pending' = pending \cup {c}
  /\ future' = [future EXCEPT ![c] = "unset"]
  /\ UNCHANGED <<life, running, ipc, queues, stats, listener, process, stopping,
                 server>>

(* Fault: a send that succeeded is tried again.                              *)
execute_send_retry(c) ==
  /\ call[c] = "stored"
  /\ ipc
  /\ \E p \in Payload("whole") : Send(req, Msg("COMMAND", c, p))
  /\ call' \in {call, [call EXCEPT ![c] = "sent"]}
  /\ UNCHANGED <<life, running, ipc, resp, pending, future, stats, listener,
                 process, stopping, server>>

execute_send(c) ==
  /\ call[c] = "stored"
  /\ ipc
  /\ \E p \in Payload("whole") : Send(req, Msg("COMMAND", c, p))
  /\ call' = [call EXCEPT ![c] = "sent"]
  /\ UNCHANGED <<life, running, ipc, resp, pending, future, stats, listener,
                 process, stopping, server>>

(* ipc_queue_ was reset by stop(): the call goes through a null pointer.     *)
execute_null_queue(c) ==
  /\ call[c] = "stored"
  /\ ~ipc
  /\ server' = "null_queue"
  /\ UNCHANGED <<life, running, ipc, queues, calls, listener, process, stopping>>

(* execute returns its future; execute_sync goes on to wait for it.          *)
Returns(c) == \E w \in {"done", "waiting"} : call' = [call EXCEPT ![c] = w]

(* The promise is set and erased only if nobody did so meanwhile.            *)
execute_send_timeout(c) ==
  /\ call[c] = "stored"
  /\ ipc
  /\ SendTimesOut(req, worker \notin Alive)
  /\ future' = IF c \in pending THEN [future EXCEPT ![c] = "send_timeout"] ELSE future
  /\ pending' = pending \ {c}
  /\ Returns(c)
  /\ UNCHANGED <<life, running, ipc, resp, stats, listener, process, stopping,
                 server>>

(* Counted after the send: the answer may already have been counted.         *)
execute_count(c) ==
  /\ call[c] = "sent"
  /\ Count("sent")
  /\ Returns(c)
  /\ UNCHANGED <<life, running, ipc, queues, pending, future, listener, process,
                 stopping, server>>

execute_sync_ready(c) ==
  /\ call[c] = "waiting"
  /\ future[c] # "unset"
  /\ call' = [call EXCEPT ![c] = "done"]
  /\ UNCHANGED <<life, running, ipc, queues, pending, future, stats, listener,
                 process, stopping, server>>

(* The promise stays in pending_responses_.                                  *)
execute_sync_timeout(c) ==
  /\ call[c] = "waiting"
  /\ future[c] = "unset"
  /\ call' = [call EXCEPT ![c] = "timed_out"]
  /\ Count("timeout")
  /\ UNCHANGED <<life, running, ipc, queues, pending, future, listener, process,
                 stopping, server>>

-----------------------------------------------------------------------------
(* response_listener_loop.                                                   *)

listener_check ==
  /\ listener = "check"
  /\ listener' = IF running THEN "receive" ELSE "done"
  /\ detached' = (detached /\ running)
  /\ UNCHANGED <<life, running, ipc, queues, calls, process, stage, server>>

(* Fault: break instead of continue when nothing was received.               *)
listener_timeout_break ==
  /\ listener = "receive"
  /\ resp = <<>>
  /\ listener' = "done"
  /\ UNCHANGED <<life, running, ipc, queues, calls, process, stopping, server>>

listener_timeout ==
  /\ listener = "receive"
  /\ resp = <<>>
  /\ listener' = "check"
  /\ UNCHANGED <<life, running, ipc, queues, calls, process, stopping, server>>

handle_heartbeat ==
  /\ listener = "receive"
  /\ resp # <<>> /\ Head(resp).type = "HEARTBEAT"
  /\ resp' = Tail(resp)
  /\ listener' = "check"
  /\ UNCHANGED <<life, running, ipc, req, calls, process, stopping, server>>

handle_response_message ==
  /\ listener = "receive"
  /\ resp # <<>>
  /\ LET m == Head(resp) IN
       /\ m.type = "RESPONSE" /\ m.payload # "cut"
       /\ \/ /\ m.id \in pending
             /\ future' = [future EXCEPT ![m.id] = m.payload]
             /\ pending' = pending \ {m.id}
             /\ Count(IF m.payload = "ok" THEN "completed" ELSE "failed")
          \/ /\ m.id \notin pending
             /\ UNCHANGED <<future, pending, stats>>
  /\ resp' = Tail(resp)
  /\ listener' = "check"
  /\ UNCHANGED <<life, running, ipc, req, call, process, stopping, server>>

(* deserialize_response throws on the listener thread: std::terminate.       *)
handle_cut_response ==
  /\ listener = "receive"
  /\ resp # <<>> /\ Head(resp).payload = "cut"
  /\ resp' = Tail(resp)
  /\ server' = "uncaught"
  /\ UNCHANGED <<life, running, ipc, req, calls, listener, process, stopping>>

(* Detached, it is in receive() of a queue that stop() has deleted, or reads *)
(* running_ of a proxy that is gone.  When it gets away with that it goes on *)
(* as listener_timeout and listener_check say.                               *)
listener_dangles ==
  /\ \/ listener = "receive" /\ ~ipc
     \/ listener = "check" /\ life = "destroyed"
  /\ server' = "dangling"
  /\ UNCHANGED <<life, running, ipc, queues, calls, listener, process, stopping>>

-----------------------------------------------------------------------------
(* The worker process.                                                       *)

(* The plugin is loaded and initialized and the queues are opened.  If that  *)
(* fails the process exits with 1, possibly after the 500 ms start() allows: *)
(* worker_crash.                                                             *)
worker_run ==
  /\ worker = "init"
  /\ worker' = "loop"
  /\ UNCHANGED <<life, running, ipc, queues, calls, listener, cur, reply, stopping,
                 server>>

(* A heartbeat that finds the queue full is dropped, which changes nothing.  *)
send_heartbeat ==
  /\ worker = "loop"
  /\ Send(resp, Msg("HEARTBEAT", NoCmd, "none"))
  /\ UNCHANGED <<life, running, ipc, req, calls, listener, process, stopping, server>>

handle_shutdown ==
  /\ worker = "loop"
  /\ req # <<>> /\ Head(req).type = "SHUTDOWN"
  /\ req' = Tail(req)
  /\ worker' = "exited"
  /\ UNCHANGED <<life, running, ipc, resp, calls, listener, cur, reply, stopping,
                 server>>

handle_command ==
  /\ worker = "loop"
  /\ req # <<>> /\ Head(req).type = "COMMAND" /\ Head(req).payload = "whole"
  /\ req' = Tail(req)
  /\ worker' = "busy"
  /\ cur' = Head(req).id
  /\ reply' = [reply EXCEPT ![Head(req).id] = "begun"]
  /\ UNCHANGED <<life, running, ipc, resp, calls, listener, stopping, server>>

(* deserialize_command throws and main returns 1.                            *)
handle_cut_command ==
  /\ worker = "loop"
  /\ req # <<>> /\ Head(req).payload = "cut"
  /\ req' = Tail(req)
  /\ worker' = "exited"
  /\ UNCHANGED <<life, running, ipc, resp, calls, listener, cur, reply, stopping,
                 server>>

(* The result of the send is ignored.                                        *)
send_command_response ==
  /\ worker = "busy"
  /\ worker' = "loop"
  /\ cur' = NoCmd
  /\ \E a \in Answers :
       /\ reply' = [reply EXCEPT ![cur] = a]
       /\ \/ \E p \in Payload(a) : Send(resp, Msg("RESPONSE", cur, p))
          \/ SendTimesOut(resp, listener = "done")
  /\ UNCHANGED <<life, running, ipc, req, calls, listener, stopping, server>>

(* The plugin takes the process down, or run() returns 1 before the loop.    *)
worker_crash ==
  /\ "crash" \in Faults
  /\ worker \in Alive
  /\ worker' = "exited"
  /\ cur' = NoCmd
  /\ UNCHANGED <<life, running, ipc, queues, calls, listener, reply, stopping, server>>

-----------------------------------------------------------------------------
(* stop(), by whoever removes the instrument.  A second caller finds         *)
(* running_ false and returns at once.                                       *)

Stage(from, to) == stage = from /\ stage' = to

stop ==
  /\ life = "started"
  /\ running
  /\ running' = FALSE
  /\ Stage("none", "shutdown")
  /\ UNCHANGED <<life, ipc, queues, calls, listener, process, detached, server>>

send_shutdown_message ==
  /\ Stage("shutdown", "reap")
  /\ Send(req, Msg("SHUTDOWN", NoCmd, "none")) \/ SendTimesOut(req, worker \notin Alive)
  /\ UNCHANGED <<life, running, ipc, resp, calls, listener, process, detached, server>>

(* Fault: waits for the process to exit, and does not kill it.               *)
stop_worker_process_politely ==
  /\ Stage("reap", "join")
  /\ worker = "exited"
  /\ UNCHANGED <<life, running, ipc, queues, calls, listener, process, detached, server>>

(* Waits a second for the process to exit, then kills it.                    *)
stop_worker_process ==
  /\ Stage("reap", "join")
  /\ worker' = "exited"
  /\ cur' = NoCmd
  /\ UNCHANGED <<life, running, ipc, queues, calls, listener, reply, detached, server>>

(* Fault: the loop is left when the grace period is over, and the thread     *)
(* neither joined nor detached.                                              *)
join_response_thread_skip ==
  /\ Stage("join", "promises")
  /\ running' = FALSE
  /\ UNCHANGED <<life, ipc, queues, calls, listener, process, detached, server>>

(* join() waits for the listener, however long that takes.                   *)
join_response_thread ==
  /\ Stage("join", "promises")
  /\ listener = "done"
  /\ running' = FALSE
  /\ UNCHANGED <<life, ipc, queues, calls, listener, process, detached, server>>

(* The thread is detached only when 500 ms go by before elapsed is first     *)
(* computed.                                                                 *)
detach_response_thread ==
  /\ "stall" \in Faults
  /\ Stage("join", "promises")
  /\ running' = FALSE
  /\ detached' = (listener # "done")
  /\ UNCHANGED <<life, ipc, queues, calls, listener, process, server>>

(* Fault: the promises are set and stay in the table.                        *)
cleanup_pending_promises_keep ==
  /\ Stage("promises", "ipc")
  /\ future' = [c \in Cmds |-> IF c \in pending THEN "stopped" ELSE future[c]]
  /\ UNCHANGED <<life, running, ipc, queues, call, pending, stats, listener,
                 process, detached, server>>

cleanup_pending_promises ==
  /\ Stage("promises", "ipc")
  /\ future' = [c \in Cmds |-> IF c \in pending THEN "stopped" ELSE future[c]]
  /\ pending' = {}
  /\ UNCHANGED <<life, running, ipc, queues, call, stats, listener, process, detached,
                 server>>

cleanup_ipc ==
  /\ Stage("ipc", "stopped")
  /\ ipc' = FALSE
  /\ req' = <<>>
  /\ resp' = <<>>
  /\ UNCHANGED <<life, running, calls, listener, process, detached, server>>

(* The last shared_ptr goes away: promises still stored are broken.          *)
destroy ==
  /\ life \in {"started", "failed"}
  /\ stage = "stopped" \/ (life = "failed" /\ stage = "none")
  /\ \A c \in Cmds : call[c] \notin {"stored", "sent", "waiting"}
  /\ life' = "destroyed"
  /\ future' = [c \in Cmds |-> IF c \in pending THEN "broken" ELSE future[c]]
  /\ pending' = {}
  /\ ipc' = FALSE
  /\ UNCHANGED <<running, queues, call, stats, listener, process, stopping, server>>

-----------------------------------------------------------------------------
Start == start_fails \/ start \/ start_returns \/ start_stops
Caller(c) ==
  \/ execute_send(c) \/ execute_null_queue(c) \/ execute_send_timeout(c)
  \/ execute_count(c) \/ execute_sync_ready(c) \/ execute_sync_timeout(c)
Listener ==
  \/ listener_check \/ listener_timeout \/ handle_heartbeat
  \/ handle_response_message \/ handle_cut_response \/ listener_dangles
Worker ==
  \/ worker_run \/ handle_shutdown \/ handle_command \/ handle_cut_command
  \/ send_command_response
Stop ==
  \/ send_shutdown_message \/ stop_worker_process \/ join_response_thread
  \/ cleanup_pending_promises \/ cleanup_ipc

Next ==
  /\ server = "up"
  /\ \/ Start
     \/ \E c \in Cmds : execute_store(c) \/ Caller(c)
     \/ Listener
     \/ Worker \/ send_heartbeat \/ worker_crash
     \/ stop \/ Stop \/ detach_response_thread \/ destroy

Spec == Init /\ [][Next]_vars

(* Threads and processes that can go on do so, and whoever stopped the proxy *)
(* lets go of it.  Nobody has to call execute or stop, and nothing has to    *)
(* fail.                                                                     *)
Fairness ==
  /\ WF_vars(server = "up" /\ Start)
  /\ \A c \in Cmds : WF_vars(server = "up" /\ Caller(c))
  /\ WF_vars(server = "up" /\ Listener)
  /\ WF_vars(server = "up" /\ Worker)
  /\ WF_vars(server = "up" /\ Stop)
  /\ WF_vars(server = "up" /\ destroy)

FairSpec == Spec /\ Fairness

-----------------------------------------------------------------------------
(* Properties.                                                               *)

(* pending_responses_ holds exactly the promises nobody has set: a future    *)
(* somebody waits on can still be settled, and no promise is set twice       *)
(* (which would throw std::future_error) by the listener, a failing send and *)
(* stop() meeting on one command.                                            *)
UnsetFuturesArePending ==
  \A c \in Cmds : c \in pending <=> future[c] = "unset"

(* The proxy, its queues, its listener and its worker together keep what     *)
(* CommandService promises: no command is executed twice or out of order,    *)
(* a future is set once, and never to the answer to another command; also    *)
(* when the worker crashes, payloads are cut, sends time out, execute_sync   *)
(* gives up or stop() comes in between.                                      *)
Service == INSTANCE CommandService
             WITH outcome <- future, line <- [i \in DOMAIN req |-> req[i].id]
ImplementsCommandService == Service!Spec

(* stop() resets ipc_queue_ only when the worker is gone and the listener is *)
(* out of its loop, unless the listener was detached because the 500 ms were *)
(* over before stop() first looked; an answer the listener is still handling *)
(* never outlasts a stop() that joins it.                                    *)
NobodyUsesClosedQueues ==
  life \in {"started", "starting"} /\ ~ipc =>
    worker = "exited" /\ (listener = "done" \/ detached)

(* The worker answered, but gave up sending the answer to a full queue.      *)
AnswerLost(c) ==
  reply[c] \in Answers /\ \A i \in DOMAIN resp : resp[i].id # c

(* Every execute gets its answer, also when the send times out, when stop()  *)
(* runs into it, or when the worker dies while somebody stops the proxy:     *)
(* whenever futures are unset, a time comes when none is.  What is excepted  *)
(* is a worker that ends on its own, as long as nobody calls stop(), and an  *)
(* answer the worker could not send.                                         *)
EveryFutureSettles ==
  (\E c \in Cmds : future[c] = "unset") ~>
    \/ server # "up"
    \/ \A c \in Cmds :
         future[c] = "unset" =>
           stage = "none" /\ (worker = "exited" \/ AnswerLost(c))

(* stop() comes to its end, whatever the worker does, and without giving up  *)
(* on the listener.                                                          *)
StopEnds == stage = "shutdown" ~> stage = "stopped" \/ server # "up"

(* "All pending commands fail with Worker died error" (IPC_PROTOCOL.md).     *)
(* Fails: nothing calls handle_worker_death.                                 *)
DeathFailsPending ==
  \A c \in Cmds :
    worker = "exited" /\ future[c] = "unset" ~>
      future[c] \in Settled \/ server # "up"

(* "Late response is discarded" (IPC_PROTOCOL.md): a command counts as       *)
(* timed out or as answered, not as both.  Fails: the promise stays pending  *)
(* after the timeout and the late response is delivered and counted.         *)
LateResponseDiscarded ==
  \A c \in Cmds : call[c] = "timed_out" => future[c] \notin Answers

(* "Worker logs error and sends ERROR message" on malformed JSON             *)
(* (IPC_PROTOCOL.md): the command is answered.  Fails: the worker exits.     *)
MalformedIsAnswered ==
  [][req # <<>> /\ Head(req).payload = "cut" /\ req' = Tail(req)
       => worker' \in Alive /\ Len(resp') = Len(resp) + 1]_vars

(* "Command handlers can be called from multiple threads" (EMBEDDING_API.md):*)
(* removing an instrument while another thread measures with it is safe.     *)
(* Fails: execute dereferences the queue pointer that stop() reset.          *)
NoNullQueue == server # "null_queue"

(* "Each instrument runs in separate process - crashes don't affect others"  *)
(* (ARCHITECTURE.md).  Fails: a response that was cut to IPC_MAX_PAYLOAD     *)
(* makes the listener thread throw, which ends the server.                   *)
ServerSurvivesWorkers == server # "uncaught"

(* "Give thread 500ms to exit gracefully" (InstrumentWorkerProxy.cpp): a     *)
(* listener that did not exit in time is let go and does no harm.  Fails: it *)
(* still uses the queue that stop() deletes next.                            *)
DetachingIsHarmless == server # "dangling"

=============================================================================
