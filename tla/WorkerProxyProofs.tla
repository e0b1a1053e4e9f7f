------------------------- MODULE WorkerProxyProofs --------------------------
(***************************************************************************)
(* Proofs about WorkerProxy, for every set of commands, queues of every    *)
(* capacity and every combination of faults: the promises in               *)
(* pending_responses_ are the ones nobody has set, and the proxy, its      *)
(* queues and its worker implement CommandService.                         *)
(*                                                                         *)
(* The argument follows a command on its way.  Its promise is stored       *)
(* before it is sent, and it is sent once; so a command in the request     *)
(* queue is there once and has not been begun.  The worker begins what it  *)
(* takes from the queue and answers what it has begun; so a response in    *)
(* the queue carries the answer the worker gave to that command.           *)
(***************************************************************************)
EXTENDS WorkerProxy, TLAPS

(* A promise exists from execute_store on.                                   *)
PromiseInv ==
  /\ UnsetFuturesArePending
  /\ \A c \in Cmds : future[c] = "none" <=> call[c] = "idle"

(* A command that was not sent yet was not begun; one in the request queue   *)
(* was sent, is there once and was not begun.                                *)
RequestInv ==
  /\ \A c \in Cmds : call[c] \in {"idle", "stored"} => reply[c] = "none"
  /\ \A i \in DOMAIN req :
       \/ /\ req[i].type = "COMMAND" /\ req[i].id \in Cmds
          /\ call[req[i].id] \notin {"idle", "stored"}
          /\ reply[req[i].id] = "none"
       \/ /\ req[i].type = "SHUTDOWN" /\ req[i].id = NoCmd
          /\ req[i].payload = "none"
  /\ \A i, k \in DOMAIN req : req[i].id = req[k].id /\ req[i].id # NoCmd => i = k

(* A response carries the worker's own answer, unless it was cut.            *)
ResponseInv ==
  \A i \in DOMAIN resp :
    resp[i].type = "RESPONSE" =>
      /\ resp[i].id \in Cmds
      /\ reply[resp[i].id] \in Answers
      /\ resp[i].payload \in {reply[resp[i].id], "cut"}

(* The worker executes a command it has begun and not answered.              *)
BusyInv == worker = "busy" => cur \in Cmds /\ reply[cur] = "begun"

IInv == TypeOK /\ PromiseInv /\ RequestInv /\ ResponseInv /\ BusyInv

-----------------------------------------------------------------------------
(* What a queue holds after a send.                                          *)
LEMMA AppendFacts ==
  ASSUME NEW q \in Seq(Message), NEW m \in Message
  PROVE  /\ Append(q, m) \in Seq(Message)
         /\ Len(Append(q, m)) = Len(q) + 1
         /\ DOMAIN Append(q, m) = DOMAIN q \cup {Len(q) + 1}
         /\ \A i \in DOMAIN q : Append(q, m)[i] = q[i]
         /\ Append(q, m)[Len(q) + 1] = m
         /\ Len(q) + 1 \notin DOMAIN q
  OBVIOUS

(* What a queue holds after a receive.                                       *)
LEMMA TailFacts ==
  ASSUME NEW q \in Seq(Message), q # <<>>
  PROVE  /\ Tail(q) \in Seq(Message)
         /\ Len(Tail(q)) = Len(q) - 1
         /\ \A i \in DOMAIN Tail(q) : i + 1 \in DOMAIN q /\ Tail(q)[i] = q[i + 1]
         /\ \A i \in DOMAIN Tail(q) : i + 1 # 1
         /\ \A i, k \in DOMAIN Tail(q) : i + 1 = k + 1 => i = k
         /\ Head(q) = q[1] /\ 1 \in DOMAIN q
  OBVIOUS

(* Msg makes a message.                                                      *)
LEMMA MsgType ==
  ASSUME NEW t \in {"COMMAND", "SHUTDOWN", "RESPONSE", "HEARTBEAT"},
         NEW c \in Cmds \cup {NoCmd}, NEW p \in Answers \cup {"whole", "cut", "none"}
  PROVE  /\ Msg(t, c, p) \in Message
         /\ Msg(t, c, p).type = t /\ Msg(t, c, p).id = c /\ Msg(t, c, p).payload = p
  BY Zenon DEF Msg, Message

-----------------------------------------------------------------------------
(* The initial state satisfies the invariant.                                *)
LEMMA InitIInv == Init => IInv
<1> SUFFICES ASSUME Init PROVE IInv
  BY Zenon
<1>1. DOMAIN req = {} /\ DOMAIN resp = {}
  BY DEF Init
<1>2. req \in Seq(Message) /\ Len(req) <= Capacity
  BY ProxyAssumption DEF Init
<1>3. resp \in Seq(Message) /\ Len(resp) <= Capacity
  BY ProxyAssumption DEF Init
<1>4. TypeOK
  BY <1>2, <1>3, Zenon DEF Init, TypeOK, Settled, Alive
<1>5. PromiseInv /\ BusyInv
  BY Zenon DEF Init, PromiseInv, UnsetFuturesArePending, BusyInv
<1>6. RequestInv /\ ResponseInv
  BY <1>1, Zenon DEF Init, RequestInv, ResponseInv
<1> QED
  BY <1>4, <1>5, <1>6, Zenon DEF IInv

(* Actions of start(), the listener's control and stop() that touch neither  *)
(* a queue, a promise nor what the worker executes.                          *)
LEMMA QuietStep ==
  ASSUME IInv, UNCHANGED <<req, resp, call, pending, future, stats, reply>>,
         \/ UNCHANGED <<worker, cur>>
         \/ worker' \in {"init", "loop", "exited"} /\ cur' \in {cur, NoCmd},
         life' \in {"new", "starting", "started", "failed", "destroyed"},
         running' \in BOOLEAN, ipc' \in BOOLEAN,
         listener' \in {"none", "check", "receive", "done"},
         stage' \in {"none", "shutdown", "reap", "join", "promises", "ipc", "stopped"},
         detached' \in BOOLEAN, server' \in {"up", "null_queue", "uncaught", "dangling"}
  PROVE  IInv'
  BY DEF IInv, TypeOK, PromiseInv, RequestInv, ResponseInv, BusyInv,
     UnsetFuturesArePending, Alive

(* A receive by the worker that does not begin a command.                    *)
LEMMA RequestTaken ==
  ASSUME IInv, req # <<>>, req' = Tail(req),
         UNCHANGED <<resp, call, pending, future, stats, reply, cur, life, running,
                     ipc, listener, stage, detached, server>>,
         worker' = "exited"
  PROVE  IInv'
<1>1. req \in Seq(Message) /\ Len(req) <= Capacity
  BY Zenon DEF IInv, TypeOK
<1>2. Len(req) \in Nat /\ Capacity \in Nat
  BY <1>1, ProxyAssumption
<1>3. TypeOK'
  BY <1>1, <1>2, TailFacts DEF IInv, TypeOK, Alive
<1>4. RequestInv'
  BY <1>1, TailFacts DEF IInv, RequestInv
<1> QED
  BY <1>3, <1>4, Zenon DEF IInv, PromiseInv, UnsetFuturesArePending, ResponseInv, BusyInv

(* A receive by the listener, whatever it does with the promises.            *)
LEMMA ResponseTaken ==
  ASSUME IInv, resp # <<>>, resp' = Tail(resp), reply' = reply
  PROVE  resp' \in Seq(Message) /\ Len(resp') <= Capacity /\ ResponseInv'
<1>1. resp \in Seq(Message) /\ Len(resp) <= Capacity
  BY Zenon DEF IInv, TypeOK
<1>2. Len(resp) \in Nat /\ Capacity \in Nat
  BY <1>1, ProxyAssumption
<1> QED
  BY <1>1, <1>2, TailFacts DEF IInv, ResponseInv

(* A send into a queue that has room.                                        *)
LEMMA SendType ==
  ASSUME NEW q \in Seq(Message), NEW m \in Message, ~Full(q), Len(q) <= Capacity
  PROVE  Append(q, m) \in Seq(Message) /\ Len(Append(q, m)) <= Capacity
<1>1. Len(q) \in Nat /\ Capacity \in Nat
  BY ProxyAssumption
<1> QED
  BY <1>1, AppendFacts DEF Full

(* The promises, when a step changes only them and where their callers are.  *)
LEMMA PromiseStep ==
  ASSUME IInv, UNCHANGED <<req, resp, reply, worker, cur>>,
         TypeOK', PromiseInv',
         \A c \in Cmds : call'[c] \in {"idle", "stored"} => call[c] \in {"idle", "stored"},
         \A c \in Cmds : call[c] \notin {"idle", "stored"} => call'[c] \notin {"idle", "stored"}
  PROVE  IInv'
  BY ZenonT(60) DEF IInv, RequestInv, ResponseInv, BusyInv

(* Every step preserves the invariant.                                       *)
LEMMA NextIInv == IInv /\ [Next]_vars => IInv'
<1> SUFFICES ASSUME IInv, [Next]_vars PROVE IInv'
  BY Zenon
<1> USE DEF queues, calls, process, stopping
<1>t. /\ life \in {"new", "starting", "started", "failed", "destroyed"}
      /\ running \in BOOLEAN /\ ipc \in BOOLEAN
      /\ listener \in {"none", "check", "receive", "done"}
      /\ stage \in {"none", "shutdown", "reap", "join", "promises", "ipc", "stopped"}
      /\ detached \in BOOLEAN /\ server \in {"up", "null_queue", "uncaught", "dangling"}
  BY Zenon DEF IInv, TypeOK
<1>0. CASE UNCHANGED vars
  BY <1>0, <1>t, QuietStep, SMTT(30) DEF vars
<1>1. CASE start_fails \/ start \/ start_returns \/ start_stops
  <2>1. CASE start_fails
    BY <2>1, QuietStep DEF start_fails, IInv, TypeOK
  <2>2. CASE start
    BY <2>2, QuietStep, Zenon DEF start, IInv, TypeOK
  <2>3. CASE start_returns
    BY <2>3, QuietStep DEF start_returns, IInv, TypeOK
  <2>4. CASE start_stops
    BY <2>4, QuietStep, ZenonT(60) DEF start_stops, IInv, TypeOK
  <2> QED
    BY <1>1, <2>1, <2>2, <2>3, <2>4, Zenon
<1>2. CASE listener_check \/ listener_timeout \/ listener_dangles
  <2>1. CASE listener_check
    BY <2>1, QuietStep DEF listener_check, IInv, TypeOK
  <2>2. CASE listener_timeout
    BY <2>2, <1>t, QuietStep, ZenonT(30) DEF listener_timeout
  <2>3. CASE listener_dangles
    BY <2>3, <1>t, QuietStep, ZenonT(30) DEF listener_dangles
  <2> QED
    BY <1>2, <2>1, <2>2, <2>3, Zenon
<1>3. CASE worker_run \/ worker_crash
  BY <1>3, QuietStep DEF worker_run, worker_crash, IInv, TypeOK
<1>4. CASE stop \/ stop_worker_process \/ join_response_thread \/ detach_response_thread
  <2>1. CASE stop
    BY <2>1, <1>t, QuietStep, ZenonT(30) DEF stop, Stage
  <2>2. CASE stop_worker_process
    BY <2>2, <1>t, QuietStep, ZenonT(30) DEF stop_worker_process, Stage
  <2>3. CASE join_response_thread \/ detach_response_thread
    <3>1. /\ UNCHANGED <<life, ipc, queues, calls, listener, process, server>>
          /\ running' = FALSE /\ stage' = "promises" /\ detached' \in BOOLEAN
      BY <2>3, <1>t, Zenon DEF join_response_thread, detach_response_thread, Stage
    <3> QED
      BY <1>t, <3>1, QuietStep, ZenonT(30)
  <2> QED
    BY <1>4, <2>1, <2>2, <2>3, Zenon
<1>5. ASSUME NEW c \in Cmds, execute_null_queue(c) PROVE IInv'
  BY <1>5, QuietStep DEF execute_null_queue, IInv, TypeOK
<1>6. ASSUME NEW c \in Cmds, execute_store(c) PROVE IInv'
  <2>1. TypeOK'
    BY <1>6 DEF execute_store, IInv, TypeOK
  <2>2. PromiseInv'
    BY <1>6, Zenon DEF execute_store, IInv, TypeOK, PromiseInv, UnsetFuturesArePending
  <2> QED
    BY <1>6, <2>1, <2>2, PromiseStep, Zenon DEF execute_store, IInv, TypeOK
<1>7. ASSUME NEW c \in Cmds,
             execute_count(c) \/ execute_sync_ready(c) \/ execute_sync_timeout(c)
      PROVE  IInv'
  <2>1. /\ UNCHANGED <<life, running, ipc, req, resp, pending, future, listener,
                       worker, cur, reply, stage, detached, server>>
        /\ call[c] \in {"sent", "waiting"}
        /\ \E w \in {"done", "waiting", "timed_out"} : call' = [call EXCEPT ![c] = w]
    BY <1>7, Zenon DEF execute_count, execute_sync_ready, execute_sync_timeout, Returns
  <2>2. stats' \in [{"sent", "completed", "failed", "timeout"} -> Nat]
    BY <1>7 DEF execute_count, execute_sync_ready, execute_sync_timeout, Count,
                IInv, TypeOK
  <2>3. TypeOK'
    BY <2>1, <2>2 DEF IInv, TypeOK
  <2>4. PromiseInv'
    BY <2>1, ZenonT(60) DEF IInv, TypeOK, PromiseInv, UnsetFuturesArePending
  <2> QED
    BY <2>1, <2>3, <2>4, PromiseStep, Zenon DEF IInv, TypeOK
<1>8. ASSUME NEW c \in Cmds, execute_send_timeout(c) PROVE IInv'
  <2>1. /\ UNCHANGED <<life, running, ipc, req, resp, stats, listener, worker, cur,
                       reply, stage, detached, server>>
        /\ call[c] = "stored"
        /\ pending' = pending \ {c}
        /\ future' = IF c \in pending THEN [future EXCEPT ![c] = "send_timeout"]
                     ELSE future
        /\ \E w \in {"done", "waiting"} : call' = [call EXCEPT ![c] = w]
    BY <1>8, Zenon DEF execute_send_timeout, SendTimesOut, Returns
  <2>2. TypeOK'
    BY <2>1 DEF IInv, TypeOK, Settled, Failures
  <2>3. PromiseInv'
    BY <2>1, ZenonT(60) DEF IInv, TypeOK, PromiseInv, UnsetFuturesArePending
  <2> QED
    BY <2>1, <2>2, <2>3, PromiseStep, Zenon DEF IInv, TypeOK
<1>9. CASE cleanup_pending_promises \/ destroy
  <2>1. /\ UNCHANGED <<req, resp, call, stats, worker, cur, reply>>
        /\ pending' = {}
        /\ \E f \in {"stopped", "broken"} :
             future' = [c \in Cmds |-> IF c \in pending THEN f ELSE future[c]]
    BY <1>9, Zenon DEF cleanup_pending_promises, destroy
  <2>2. TypeOK'
    <3>1. future' \in [Cmds -> {"none", "unset"} \cup Settled]
      BY <2>1, Zenon DEF IInv, TypeOK, Settled, Failures
    <3>2. CASE cleanup_pending_promises
      BY <2>1, <3>1, <3>2, ZenonT(60) DEF cleanup_pending_promises, Stage, IInv, TypeOK
    <3>3. CASE destroy
      BY <2>1, <3>1, <3>3, ZenonT(60) DEF destroy, IInv, TypeOK
    <3> QED
      BY <1>9, <3>2, <3>3, Zenon
  <2>3. PromiseInv'
    BY <2>1, ZenonT(60) DEF IInv, TypeOK, PromiseInv, UnsetFuturesArePending
  <2> QED
    BY <2>1, <2>2, <2>3, PromiseStep, Zenon
<1>10. ASSUME NEW c \in Cmds, execute_send(c) PROVE IInv'
  <2>1. PICK p \in {"whole", "cut"} :
          ~Full(req) /\ req' = Append(req, Msg("COMMAND", c, p))
    BY <1>10, Zenon DEF execute_send, Payload, Send
  <2>2. /\ Msg("COMMAND", c, p) \in Message
        /\ Msg("COMMAND", c, p).type = "COMMAND" /\ Msg("COMMAND", c, p).id = c
    BY MsgType
  <2>3. req \in Seq(Message) /\ Len(req) <= Capacity
    BY Zenon DEF IInv, TypeOK
  <2>4. /\ call[c] = "stored" /\ call' = [call EXCEPT ![c] = "sent"]
        /\ UNCHANGED <<life, running, ipc, resp, pending, future, stats, listener,
                       worker, cur, reply, stage, detached, server>>
    BY <1>10, Zenon DEF execute_send
  <2>5. TypeOK'
    BY <2>1, <2>2, <2>3, <2>4, SendType DEF IInv, TypeOK
  <2>6. PromiseInv'
    BY <2>4, Zenon DEF IInv, TypeOK, PromiseInv, UnsetFuturesArePending
  <2>7. \A i \in DOMAIN req : req[i].id # c
    BY <2>4, ProxyAssumption, Zenon DEF IInv, RequestInv
  <2>8. RequestInv'
    <3>1. reply[c] = "none" /\ c # NoCmd /\ call'[c] = "sent"
      BY <2>4, ProxyAssumption, Zenon DEF IInv, RequestInv, TypeOK
    <3>2. \A d \in Cmds : d # c => call'[d] = call[d]
      BY <2>4, Zenon DEF IInv, TypeOK
    <3>3. /\ DOMAIN req' = DOMAIN req \cup {Len(req) + 1}
          /\ \A i \in DOMAIN req : req'[i] = req[i]
          /\ req'[Len(req) + 1].type = "COMMAND" /\ req'[Len(req) + 1].id = c
      BY <2>1, <2>2, <2>3, AppendFacts
    <3> QED
      BY <2>4, <2>7, <3>1, <3>2, <3>3 DEF IInv, RequestInv
  <2> QED
    BY <2>4, <2>5, <2>6, <2>8, Zenon DEF IInv, ResponseInv, BusyInv
<1>11. CASE send_shutdown_message
  <2>1. /\ UNCHANGED <<life, running, ipc, resp, call, pending, future, stats,
                       listener, worker, cur, reply, detached, server>>
        /\ stage' = "reap"
    BY <1>11, Zenon DEF send_shutdown_message, Stage
  <2>2. CASE req' = req
    BY <2>1, <2>2, QuietStep DEF IInv, TypeOK
  <2>3. CASE ~Full(req) /\ req' = Append(req, Msg("SHUTDOWN", NoCmd, "none"))
    <3>1. /\ Msg("SHUTDOWN", NoCmd, "none") \in Message
          /\ Msg("SHUTDOWN", NoCmd, "none").type = "SHUTDOWN"
          /\ Msg("SHUTDOWN", NoCmd, "none").id = NoCmd
          /\ Msg("SHUTDOWN", NoCmd, "none").payload = "none"
      BY MsgType
    <3>2. req \in Seq(Message) /\ Len(req) <= Capacity
      BY Zenon DEF IInv, TypeOK
    <3>3. TypeOK'
      BY <2>1, <2>3, <3>1, <3>2, SendType DEF IInv, TypeOK
    <3>4. /\ DOMAIN req' = DOMAIN req \cup {Len(req) + 1}
          /\ \A i \in DOMAIN req : req'[i] = req[i]
          /\ req'[Len(req) + 1].type = "SHUTDOWN" /\ req'[Len(req) + 1].id = NoCmd
          /\ req'[Len(req) + 1].payload = "none"
      BY <2>3, <3>1, <3>2, AppendFacts
    <3>5. RequestInv'
      BY <2>1, <3>4, ZenonT(60) DEF IInv, RequestInv
    <3> QED
      BY <2>1, <3>3, <3>5, Zenon DEF IInv, PromiseInv, UnsetFuturesArePending, ResponseInv,
                              BusyInv
  <2> QED
    BY <1>11, <2>2, <2>3, Zenon DEF send_shutdown_message, Send, SendTimesOut
<1>12. CASE handle_heartbeat \/ handle_cut_response
  <2>1. /\ resp # <<>> /\ resp' = Tail(resp)
        /\ UNCHANGED <<life, running, ipc, req, call, pending, future, stats, worker,
                       cur, reply, stage, detached>>
        /\ listener' \in {listener, "check"} /\ server' \in {server, "uncaught"}
    BY <1>12, Zenon DEF handle_heartbeat, handle_cut_response
  <2>2. resp' \in Seq(Message) /\ Len(resp') <= Capacity /\ ResponseInv'
    BY <2>1, ResponseTaken, Zenon
  <2>3. TypeOK'
    BY <2>1, <2>2 DEF IInv, TypeOK
  <2> QED
    BY <2>1, <2>2, <2>3, ZenonT(60) DEF IInv, PromiseInv, UnsetFuturesArePending, RequestInv,
                            BusyInv
<1>13. CASE handle_response_message
  <2>1. /\ resp # <<>> /\ resp' = Tail(resp) /\ listener' = "check"
        /\ UNCHANGED <<life, running, ipc, req, call, worker, cur, reply, stage, detached, server>>
    BY <1>13, Zenon DEF handle_response_message
  <2>2. resp' \in Seq(Message) /\ Len(resp') <= Capacity /\ ResponseInv'
    BY <2>1, ResponseTaken, Zenon
  <2>3. Head(resp) = resp[1] /\ 1 \in DOMAIN resp
    BY <2>1 DEF IInv, TypeOK
  <2>4. /\ Head(resp).id \in Cmds /\ Head(resp).payload \in Answers
        /\ Head(resp).payload = reply[Head(resp).id]
    BY <1>13, <2>3, Zenon DEF handle_response_message, IInv, ResponseInv
  <2>5. stats' \in [{"sent", "completed", "failed", "timeout"} -> Nat]
    BY <1>13, SMTT(30) DEF handle_response_message, Count, IInv, TypeOK
  <2>6. \/ UNCHANGED <<future, pending>>
        \/ /\ Head(resp).id \in pending
           /\ future' = [future EXCEPT ![Head(resp).id] = Head(resp).payload]
           /\ pending' = pending \ {Head(resp).id}
    BY <1>13, Zenon DEF handle_response_message
  <2>7. TypeOK'
    <3>1. future' \in [Cmds -> {"none", "unset"} \cup Settled] /\ pending' \in SUBSET Cmds
      BY <2>4, <2>6, Zenon DEF IInv, TypeOK, Settled
    <3> QED
      BY <2>1, <2>2, <2>5, <3>1, SMTT(30) DEF IInv, TypeOK
  <2>8. PromiseInv'
    BY <2>1, <2>4, <2>6 DEF IInv, TypeOK, PromiseInv, UnsetFuturesArePending, Answers
  <2> QED
    BY <2>1, <2>2, <2>7, <2>8, Zenon DEF IInv, RequestInv, BusyInv
<1>14. CASE handle_shutdown \/ handle_cut_command
  BY <1>14, RequestTaken, Zenon DEF handle_shutdown, handle_cut_command
<1>15. CASE handle_command
  <2>1. /\ req # <<>> /\ req' = Tail(req) /\ worker' = "busy" /\ cur' = Head(req).id
        /\ Head(req).type = "COMMAND"
        /\ reply' = [reply EXCEPT ![Head(req).id] = "begun"]
        /\ UNCHANGED <<life, running, ipc, resp, call, pending, future, stats, listener,
                       stage, detached, server>>
    BY <1>15, Zenon DEF handle_command
  <2>2. /\ req \in Seq(Message) /\ Len(req) <= Capacity
        /\ Len(req) \in Nat /\ Capacity \in Nat
    BY ProxyAssumption DEF IInv, TypeOK
  <2>3. Head(req) = req[1] /\ 1 \in DOMAIN req
    BY <2>1, <2>2, TailFacts, Zenon
  <2>4. /\ Head(req).id \in Cmds /\ reply[Head(req).id] = "none"
        /\ call[Head(req).id] \notin {"idle", "stored"} /\ Head(req).id # NoCmd
    BY <2>1, <2>3, ProxyAssumption DEF IInv, RequestInv
  <2>5. /\ reply'[Head(req).id] = "begun"
        /\ \A c \in Cmds : c # Head(req).id => reply'[c] = reply[c]
    BY <2>1, <2>4, Zenon DEF IInv, TypeOK
  <2>6. TypeOK'
    <3>1. req' \in Seq(Message) /\ Len(req') <= Capacity
      BY <2>1, <2>2, TailFacts
    <3>2. reply' \in [Cmds -> {"none", "begun"} \cup Answers]
      BY <2>1, <2>4, Zenon DEF IInv, TypeOK
    <3> QED
      BY <2>1, <2>4, <3>1, <3>2 DEF IInv, TypeOK, Alive
  <2>7. RequestInv'
    <3>1. \A i \in DOMAIN req' : i + 1 \in DOMAIN req /\ req'[i] = req[i + 1] /\ i + 1 # 1
      BY <2>1, <2>2, TailFacts, Zenon
    <3>2. \A i \in DOMAIN req' : req'[i].id # Head(req).id
      BY <2>3, <2>4, <3>1, ZenonT(60) DEF IInv, RequestInv
    <3>3. \A i, k \in DOMAIN req' : i + 1 = k + 1 => i = k
      BY <2>1, <2>2, TailFacts, Zenon
    <3> QED
      BY <2>1, <2>4, <2>5, <3>1, <3>2, <3>3 DEF IInv, RequestInv
  <2>8. ResponseInv'
    BY <2>1, <2>4, <2>5 DEF IInv, ResponseInv, Answers
  <2>9. PromiseInv' /\ BusyInv'
    BY <2>1, <2>4, <2>5, Zenon DEF IInv, PromiseInv, UnsetFuturesArePending, BusyInv
  <2> QED
    BY <2>6, <2>7, <2>8, <2>9, Zenon DEF IInv
<1>16. CASE send_heartbeat
  <2>1. /\ ~Full(resp) /\ resp' = Append(resp, Msg("HEARTBEAT", NoCmd, "none"))
        /\ UNCHANGED <<life, running, ipc, req, call, pending, future, stats, listener,
                       worker, cur, reply, stage, detached, server>>
    BY <1>16, Zenon DEF send_heartbeat, Send
  <2>2. /\ Msg("HEARTBEAT", NoCmd, "none") \in Message
        /\ Msg("HEARTBEAT", NoCmd, "none").type = "HEARTBEAT"
    BY MsgType
  <2>3. resp \in Seq(Message) /\ Len(resp) <= Capacity
    BY Zenon DEF IInv, TypeOK
  <2>4. TypeOK'
    BY <2>1, <2>2, <2>3, SendType, SMTT(30) DEF IInv, TypeOK
  <2>5. /\ DOMAIN resp' = DOMAIN resp \cup {Len(resp) + 1}
        /\ \A i \in DOMAIN resp : resp'[i] = resp[i]
        /\ resp'[Len(resp) + 1].type = "HEARTBEAT"
    BY <2>1, <2>2, <2>3, AppendFacts
  <2>6. ResponseInv'
    BY <2>1, <2>5, ZenonT(60) DEF IInv, ResponseInv
  <2> QED
    BY <2>1, <2>4, <2>6, ZenonT(60) DEF IInv, PromiseInv, UnsetFuturesArePending, RequestInv,
                            BusyInv
<1>17. CASE send_command_response
  <2>1. /\ worker = "busy" /\ worker' = "loop" /\ cur' = NoCmd
        /\ UNCHANGED <<life, running, ipc, req, call, pending, future, stats, listener,
                       stage, detached, server>>
    BY <1>17, Zenon DEF send_command_response
  <2>2. PICK a \in Answers :
          /\ reply' = [reply EXCEPT ![cur] = a]
          /\ \/ \E p \in Payload(a) : Send(resp, Msg("RESPONSE", cur, p))
             \/ SendTimesOut(resp, listener = "done")
    BY <1>17, Zenon DEF send_command_response
  <2>3. cur \in Cmds /\ reply[cur] = "begun"
    BY <2>1, Zenon DEF IInv, BusyInv
  <2>4. /\ reply'[cur] = a
        /\ \A c \in Cmds : c # cur => reply'[c] = reply[c]
    BY <2>2, <2>3, Zenon DEF IInv, TypeOK
  <2>5. RequestInv' /\ PromiseInv' /\ BusyInv'
    BY <2>1, <2>3, <2>4, ZenonT(60)
       DEF IInv, RequestInv, PromiseInv, UnsetFuturesArePending, BusyInv
  <2>6. \A i \in DOMAIN resp : resp[i].type = "RESPONSE" => resp[i].id # cur
    BY <2>3, Zenon DEF IInv, ResponseInv, Answers
  <2>7. CASE resp' = resp
    <3>1. TypeOK'
      BY <2>1, <2>2, <2>3, <2>7 DEF IInv, TypeOK, Alive
    <3>2. ResponseInv'
      BY <2>4, <2>6, <2>7, Zenon DEF IInv, ResponseInv
    <3> QED
      BY <2>5, <3>1, <3>2, Zenon DEF IInv
  <2>8. ASSUME NEW p \in {a, "cut"}, ~Full(resp),
               resp' = Append(resp, Msg("RESPONSE", cur, p))
        PROVE  IInv'
    <3>1. /\ Msg("RESPONSE", cur, p) \in Message
          /\ Msg("RESPONSE", cur, p).type = "RESPONSE" /\ Msg("RESPONSE", cur, p).id = cur
          /\ Msg("RESPONSE", cur, p).payload = p
      BY <2>3, MsgType
    <3>2. resp \in Seq(Message) /\ Len(resp) <= Capacity
      BY Zenon DEF IInv, TypeOK
    <3>3. resp' \in Seq(Message) /\ Len(resp') <= Capacity
      BY <2>8, <3>1, <3>2, SendType, Zenon
    <3>4. TypeOK'
      BY <2>1, <2>2, <2>3, <3>3, SMTT(30) DEF IInv, TypeOK, Alive
    <3>5. /\ DOMAIN resp' = DOMAIN resp \cup {Len(resp) + 1}
          /\ \A i \in DOMAIN resp : resp'[i] = resp[i]
          /\ resp'[Len(resp) + 1] = Msg("RESPONSE", cur, p)
      BY <2>8, <3>1, <3>2, AppendFacts, SMTT(30)
    <3>6. ResponseInv'
      BY <2>3, <2>4, <2>6, <3>1, <3>5 DEF IInv, ResponseInv
    <3> QED
      BY <2>5, <3>4, <3>6, Zenon DEF IInv
  <2> QED
    BY <2>2, <2>7, <2>8, Zenon DEF Payload, Send, SendTimesOut
<1>18. CASE cleanup_ipc
  <2>1. /\ req' = <<>> /\ resp' = <<>> /\ ipc' = FALSE /\ stage' = "stopped"
        /\ UNCHANGED <<life, running, call, pending, future, stats, listener, worker,
                       cur, reply, detached, server>>
    BY <1>18, Zenon DEF cleanup_ipc, Stage
  <2>2. /\ <<>> \in Seq(Message) /\ Len(<<>>) <= Capacity
        /\ DOMAIN req' = {} /\ DOMAIN resp' = {}
    BY <2>1, ProxyAssumption
  <2>3. TypeOK'
    BY <2>1, <2>2, ZenonT(60) DEF IInv, TypeOK
  <2>4. RequestInv' /\ ResponseInv'
    BY <2>1, <2>2, Zenon DEF IInv, RequestInv, ResponseInv
  <2> QED
    BY <2>1, <2>3, <2>4, Zenon DEF IInv, PromiseInv, UnsetFuturesArePending, BusyInv
<1> QED
  BY <1>0, <1>1, <1>2, <1>3, <1>4, <1>5, <1>6, <1>7, <1>8, <1>9, <1>10, <1>11,
     <1>12, <1>13, <1>14, <1>15, <1>16, <1>17, <1>18, Zenon
  DEF Next, Start, Caller, Listener, Worker, Stop

(* The invariant holds in every reachable state.                             *)
THEOREM Invariance == Spec => []IInv
  BY InitIInv, NextIInv, PTL DEF Spec

(* pending_responses_ holds the promises nobody has set, in every            *)
(* interleaving of the listener, timed-out sends and stop().                 *)
THEOREM UnsetArePending == Spec => []UnsetFuturesArePending
<1>1. IInv => UnsetFuturesArePending
  BY Zenon DEF IInv, PromiseInv
<1> QED
  BY <1>1, Invariance, PTL

-----------------------------------------------------------------------------
(* What stop() has done by each of its stages, and what start() set up.      *)
StopInv ==
  /\ life = "new" =>
       ~running /\ listener = "none" /\ worker = "none" /\ stage = "none"
  /\ life \in {"starting", "started"} /\ stage # "stopped" => ipc
  /\ life = "starting" => running /\ stage = "none"
  /\ stage # "none" => ~running
  /\ stage \in {"join", "promises", "ipc", "stopped"} => worker = "exited"
  /\ stage \in {"promises", "ipc", "stopped"} => listener = "done" \/ detached

(* stop() runs its stages in order and once: running_ lets in one caller, a  *)
(* worker that has exited stays so, and a listener that was joined has left  *)
(* its loop for good.  One that is left running is on its last round.        *)
LEMMA NextStopInv == TypeOK /\ StopInv /\ [Next]_vars => StopInv'
<1> SUFFICES ASSUME TypeOK, StopInv, [Next]_vars PROVE StopInv'
  BY Zenon
<1> USE DEF StopInv, calls, process, stopping
<1>1. CASE start_fails
  BY <1>1, Zenon DEF start_fails
<1>2. CASE start
  BY <1>2, Zenon DEF start
<1>3. CASE start_returns
  BY <1>3, Zenon DEF start_returns
<1>4. CASE start_stops
  BY <1>4, Zenon DEF start_stops
<1>5. ASSUME NEW c \in Cmds, execute_store(c) \/ Caller(c) PROVE StopInv'
  <2>1. UNCHANGED <<life, running, ipc, listener, worker, stage, detached>>
    BY <1>5, Zenon DEF execute_store, Caller, execute_send, execute_null_queue,
       execute_send_timeout, execute_count, execute_sync_ready, execute_sync_timeout
  <2> QED
    BY <2>1, Zenon
<1>6. CASE Listener
  <2>1. UNCHANGED <<life, running, ipc, worker, stage>>
    BY <1>6, Zenon DEF Listener, listener_check, listener_timeout, handle_heartbeat,
       handle_response_message, handle_cut_response, listener_dangles
  <2>2. listener \in {"check", "receive"}
    BY <1>6, Zenon DEF Listener, listener_check, listener_timeout, handle_heartbeat,
       handle_response_message, handle_cut_response, listener_dangles
  <2>3. detached' = detached \/ (~running => listener' = "done")
    BY <1>6, Zenon DEF Listener, listener_check, listener_timeout, handle_heartbeat,
       handle_response_message, handle_cut_response, listener_dangles
  <2> QED
    BY <2>1, <2>2, <2>3, Zenon
<1>7. CASE Worker \/ send_heartbeat \/ worker_crash
  <2>1. UNCHANGED <<life, running, ipc, listener, stage, detached>>
    BY <1>7, Zenon DEF Worker, worker_run, handle_shutdown, handle_command,
       handle_cut_command, send_command_response, send_heartbeat, worker_crash
  <2>2. worker \in Alive
    BY <1>7, Zenon DEF Worker, worker_run, handle_shutdown, handle_command, Alive,
       handle_cut_command, send_command_response, send_heartbeat, worker_crash
  <2> QED
    BY <2>1, <2>2, Zenon DEF Alive
<1>8. CASE stop
  BY <1>8, Zenon DEF stop, Stage
<1>9. CASE send_shutdown_message
  BY <1>9, Zenon DEF send_shutdown_message, Stage
<1>10. CASE stop_worker_process
  BY <1>10, Zenon DEF stop_worker_process, Stage
<1>11. CASE join_response_thread
  BY <1>11, Zenon DEF join_response_thread, Stage
<1>12. CASE detach_response_thread
  BY <1>12, Zenon DEF detach_response_thread, Stage
<1>13. CASE cleanup_pending_promises
  BY <1>13, Zenon DEF cleanup_pending_promises, Stage
<1>14. CASE cleanup_ipc
  BY <1>14, Zenon DEF cleanup_ipc, Stage
<1>15. CASE destroy
  BY <1>15, Zenon DEF destroy
<1>16. CASE UNCHANGED vars
  BY <1>16, Zenon DEF vars
<1> HIDE DEF StopInv
<1> QED
  BY <1>1, <1>2, <1>3, <1>4, <1>5, <1>6, <1>7, <1>8, <1>9, <1>10, <1>11, <1>12,
     <1>13, <1>14, <1>15, <1>16, Zenon
  DEF Next, Start, Stop

(* stop() resets ipc_queue_ only when the worker is gone and the listener is *)
(* out of its loop, or was detached after 500 ms: however stop() meets       *)
(* callers, a late worker or a failing start().                              *)
THEOREM QueuesCloseLast == Spec => []NobodyUsesClosedQueues
<1>1. Init => StopInv
  BY Zenon DEF Init, StopInv
<1>2. IInv => TypeOK
  BY Zenon DEF IInv
<1>3. StopInv => NobodyUsesClosedQueues
  BY Zenon DEF StopInv, NobodyUsesClosedQueues
<1> QED
  BY <1>1, <1>2, <1>3, NextStopInv, Invariance, PTL DEF Spec

-----------------------------------------------------------------------------
(* The ids in a queue: the line of CommandService.                           *)
IdsOf(q) == [i \in DOMAIN q |-> q[i].id]

(* A send appends one id.                                                    *)
LEMMA IdsOfAppend ==
  ASSUME NEW q \in Seq(Message), NEW m \in Message
  PROVE  IdsOf(Append(q, m)) = Append(IdsOf(q), m.id)
<1>1. IdsOf(q) \in Seq({x.id : x \in Message}) /\ Len(IdsOf(q)) = Len(q)
  BY DEF IdsOf
<1>2. DOMAIN IdsOf(Append(q, m)) = 1..(Len(q) + 1)
  BY DEF IdsOf
<1>3. Append(IdsOf(q), m.id) \in Seq({x.id : x \in Message})
  BY <1>1
<1>4. DOMAIN Append(IdsOf(q), m.id) = 1..(Len(q) + 1)
  BY <1>1, <1>3
<1>5. \A i \in 1..(Len(q) + 1) : IdsOf(Append(q, m))[i] = Append(IdsOf(q), m.id)[i]
  BY <1>1 DEF IdsOf
<1>6. /\ IdsOf(Append(q, m)) = [i \in 1..(Len(q) + 1) |-> IdsOf(Append(q, m))[i]]
      /\ Append(IdsOf(q), m.id) = [i \in 1..(Len(q) + 1) |-> Append(IdsOf(q), m.id)[i]]
  BY <1>2, <1>3, <1>4 DEF IdsOf
<1> QED
  BY <1>5, <1>6, Zenon

(* A receive takes the first id.                                             *)
LEMMA IdsOfTail ==
  ASSUME NEW q \in Seq(Message), q # <<>>
  PROVE  /\ IdsOf(q) # <<>>
         /\ Head(IdsOf(q)) = Head(q).id
         /\ IdsOf(Tail(q)) = Tail(IdsOf(q))
<1>1. IdsOf(q) \in Seq({x.id : x \in Message}) /\ Len(IdsOf(q)) = Len(q)
  BY DEF IdsOf
<1>2. IdsOf(q) # <<>> /\ Head(IdsOf(q)) = Head(q).id
  BY <1>1 DEF IdsOf
<1>3. DOMAIN IdsOf(Tail(q)) = 1..(Len(q) - 1)
  BY DEF IdsOf
<1>4. Tail(IdsOf(q)) \in Seq({x.id : x \in Message}) /\ DOMAIN Tail(IdsOf(q)) = 1..(Len(q) - 1)
  BY <1>1, <1>2
<1>5. \A i \in 1..(Len(q) - 1) : IdsOf(Tail(q))[i] = Tail(IdsOf(q))[i]
  BY <1>1, <1>2 DEF IdsOf
<1>6. /\ IdsOf(Tail(q)) = [i \in 1..(Len(q) - 1) |-> IdsOf(Tail(q))[i]]
      /\ Tail(IdsOf(q)) = [i \in 1..(Len(q) - 1) |-> Tail(IdsOf(q))[i]]
  BY <1>3, <1>4 DEF IdsOf
<1> QED
  BY <1>2, <1>5, <1>6, Zenon

(* The initial states of the proxy are initial states of the service.        *)
LEMMA ServiceInit == Init => Service!Init
  BY DEF Init, Service!Init

(* Every step of the proxy is a step of the service or changes nothing of    *)
(* it.                                                                       *)
LEMMA ServiceStep == IInv /\ [Next]_vars => [Service!Next]_(Service!sVars)
<1> SUFFICES ASSUME IInv, [Next]_vars PROVE [Service!Next]_(Service!sVars)
  BY Zenon
<1> USE DEF queues, calls, process, stopping
<1>1. req \in Seq(Message)
  BY Zenon DEF IInv, TypeOK
<1>2. ASSUME UNCHANGED <<future, req, reply>> PROVE [Service!Next]_(Service!sVars)
  BY <1>2, Zenon DEF Service!sVars
<1>3. CASE UNCHANGED vars
  BY <1>2, <1>3, Zenon DEF vars
<1>4. CASE Start
  BY <1>2, <1>4, Zenon DEF Start, start_fails, start, start_returns, start_stops
<1>5. CASE \/ listener_check \/ listener_timeout \/ handle_heartbeat
           \/ handle_cut_response \/ listener_dangles
  BY <1>2, <1>5, Zenon DEF listener_check, listener_timeout, handle_heartbeat,
                    handle_cut_response, listener_dangles
<1>6. CASE worker_run \/ worker_crash \/ send_heartbeat
  BY <1>2, <1>6, Zenon DEF worker_run, worker_crash, send_heartbeat
<1>7. CASE stop \/ stop_worker_process \/ join_response_thread \/ detach_response_thread
  BY <1>2, <1>7, Zenon DEF stop, stop_worker_process, join_response_thread,
                    detach_response_thread
<1>8. ASSUME NEW c \in Cmds,
             \/ execute_null_queue(c) \/ execute_count(c)
             \/ execute_sync_ready(c) \/ execute_sync_timeout(c)
      PROVE  [Service!Next]_(Service!sVars)
  BY <1>2, <1>8, Zenon DEF execute_null_queue, execute_count, execute_sync_ready,
                    execute_sync_timeout
<1>9. ASSUME NEW c \in Cmds, execute_store(c) PROVE [Service!Next]_(Service!sVars)
  <2>1. Service!Request(c)
    BY <1>9, Zenon DEF execute_store, Service!Request, IInv, PromiseInv
  <2> QED
    BY <2>1, Zenon DEF Service!Next
<1>10. ASSUME NEW c \in Cmds, execute_send(c) PROVE [Service!Next]_(Service!sVars)
  <2>1. PICK p \in {"whole", "cut"} : req' = Append(req, Msg("COMMAND", c, p))
    BY <1>10, Zenon DEF execute_send, Payload, Send
  <2>2. Msg("COMMAND", c, p) \in Message /\ Msg("COMMAND", c, p).id = c
    BY MsgType
  <2>3. IdsOf(req') = Append(IdsOf(req), c)
    BY <1>1, <2>1, <2>2, IdsOfAppend, Zenon
  <2>4. /\ future[c] # "none" /\ reply[c] = "none"
        /\ \A i \in DOMAIN req : req[i].id # c
    BY <1>10, ProxyAssumption, ZenonT(60) DEF execute_send, IInv, PromiseInv, RequestInv
  <2>5. UNCHANGED <<future, reply>>
    BY <1>10, Zenon DEF execute_send
  <2>6. Service!Accept(c)
    BY <2>3, <2>4, <2>5, Zenon DEF Service!Accept, IdsOf
  <2> QED
    BY <2>6, Zenon DEF Service!Next
<1>11. ASSUME NEW f \in Failures, NEW S \in SUBSET Cmds,
              \A c \in S : future[c] = "unset",
              future' = [c \in Cmds |-> IF c \in S THEN f ELSE future[c]],
              UNCHANGED <<req, reply>>
       PROVE  [Service!Next]_(Service!sVars)
  <2>1. S \in SUBSET {c \in Cmds : future[c] = "unset"}
    BY <1>11, Zenon
  <2>2. Service!Fail
    BY <1>11, <2>1, Zenon DEF Service!Fail
  <2> QED
    BY <2>2, Zenon DEF Service!Next
<1>12. ASSUME NEW c \in Cmds, execute_send_timeout(c)
       PROVE  [Service!Next]_(Service!sVars)
  <2>1. UNCHANGED <<req, reply>>
    BY <1>12, Zenon DEF execute_send_timeout, SendTimesOut
  <2>2. CASE c \in pending
    <3>1. future' = [d \in Cmds |-> IF d \in {c} THEN "send_timeout" ELSE future[d]]
      BY <1>12, <2>2, Zenon DEF execute_send_timeout, IInv, TypeOK
    <3>2. {c} \in SUBSET Cmds /\ \A d \in {c} : future[d] = "unset"
      BY <2>2, Zenon DEF IInv, PromiseInv, UnsetFuturesArePending
    <3>3. "send_timeout" \in Failures
      BY Zenon DEF Failures
    <3> QED
      BY <1>11, <2>1, <3>1, <3>2, <3>3, Zenon
  <2>3. CASE c \notin pending
    BY <1>2, <1>12, <2>1, <2>3, Zenon DEF execute_send_timeout
  <2> QED
    BY <2>2, <2>3, Zenon
<1>13. CASE cleanup_pending_promises \/ destroy
  <2>1. \A c \in pending : c \in Cmds /\ future[c] = "unset"
    BY Zenon DEF IInv, TypeOK, PromiseInv, UnsetFuturesArePending
  <2>2. \E f \in Failures :
          /\ future' = [c \in Cmds |-> IF c \in pending THEN f ELSE future[c]]
          /\ UNCHANGED <<req, reply>>
    BY <1>13, Zenon DEF cleanup_pending_promises, destroy, Failures
  <2>3. pending \in SUBSET Cmds
    BY <2>1, Zenon
  <2> QED
    BY <1>11, <2>1, <2>2, <2>3, Zenon
<1>14. CASE send_shutdown_message
  <2>1. UNCHANGED <<future, reply>>
    BY <1>14, Zenon DEF send_shutdown_message
  <2>2. CASE req' = req
    BY <1>2, <2>1, <2>2, Zenon
  <2>3. CASE req' = Append(req, Msg("SHUTDOWN", NoCmd, "none"))
    <3>1. /\ Msg("SHUTDOWN", NoCmd, "none") \in Message
          /\ Msg("SHUTDOWN", NoCmd, "none").id = NoCmd
      BY MsgType
    <3>2. IdsOf(req') = Append(IdsOf(req), NoCmd)
      BY <1>1, <2>3, <3>1, IdsOfAppend, Zenon
    <3>3. Service!Close
      BY <2>1, <3>2, Zenon DEF Service!Close, IdsOf
    <3> QED
      BY <3>3, Zenon DEF Service!Next
  <2> QED
    BY <1>14, <2>2, <2>3, Zenon DEF send_shutdown_message, Send, SendTimesOut
<1>15. CASE handle_response_message
  <2>1. /\ resp # <<>> /\ Head(resp).type = "RESPONSE" /\ Head(resp).payload # "cut"
        /\ UNCHANGED <<req, reply>>
    BY <1>15, Zenon DEF handle_response_message
  <2>2. Head(resp) = resp[1] /\ 1 \in DOMAIN resp
    BY <2>1 DEF IInv, TypeOK
  <2>3. /\ Head(resp).id \in Cmds
        /\ reply[Head(resp).id] \in Answers /\ Head(resp).payload = reply[Head(resp).id]
    BY <2>1, <2>2, Zenon DEF IInv, ResponseInv
  <2>4. CASE Head(resp).id \in pending
    <3>1. future[Head(resp).id] = "unset"
      BY <2>3, <2>4, Zenon DEF IInv, PromiseInv, UnsetFuturesArePending
    <3>2. future' = [future EXCEPT ![Head(resp).id] = reply[Head(resp).id]]
      BY <1>15, <2>3, <2>4, Zenon DEF handle_response_message
    <3>3. Service!Answer(Head(resp).id)
      BY <2>1, <2>3, <3>1, <3>2, Zenon DEF Service!Answer
    <3> QED
      BY <2>3, <3>3, Zenon DEF Service!Next
  <2>5. CASE Head(resp).id \notin pending
    BY <1>2, <1>15, <2>1, <2>5, Zenon DEF handle_response_message
  <2> QED
    BY <2>4, <2>5, Zenon
<1>16. ASSUME req # <<>>, IdsOf(req') \in {Tail(IdsOf(req)), <<>>},
              UNCHANGED <<future, reply>>
       PROVE  [Service!Next]_(Service!sVars)
  <2>1. IdsOf(req) # <<>>
    BY <1>1, <1>16, IdsOfTail, Zenon
  <2>2. Service!Lose
    BY <1>16, <2>1, Zenon DEF Service!Lose, IdsOf
  <2> QED
    BY <2>2, Zenon DEF Service!Next
<1>17. CASE handle_shutdown \/ handle_cut_command
  <2>1. req # <<>> /\ req' = Tail(req) /\ UNCHANGED <<future, reply>>
    BY <1>17, Zenon DEF handle_shutdown, handle_cut_command
  <2> QED
    BY <1>1, <1>16, <2>1, IdsOfTail, Zenon
<1>18. CASE cleanup_ipc
  <2>1. req' = <<>> /\ UNCHANGED <<future, reply>>
    BY <1>18, Zenon DEF cleanup_ipc
  <2>2. CASE req = <<>>
    BY <1>2, <2>1, <2>2, Zenon
  <2>3. CASE req # <<>>
    <3>1. IdsOf(req') = <<>>
      BY <2>1 DEF IdsOf
    <3> QED
      BY <1>16, <2>1, <2>3, <3>1, Zenon
  <2> QED
    BY <2>2, <2>3, Zenon
<1>19. CASE handle_command
  <2>1. /\ req # <<>> /\ req' = Tail(req) /\ Head(req).type = "COMMAND"
        /\ reply' = [reply EXCEPT ![Head(req).id] = "begun"] /\ future' = future
    BY <1>19, Zenon DEF handle_command
  <2>2. Head(req) = req[1] /\ 1 \in DOMAIN req
    BY <1>1, <2>1, TailFacts, Zenon
  <2>3. Head(req).id \in Cmds /\ reply[Head(req).id] = "none"
    BY <2>1, <2>2, ZenonT(60) DEF IInv, RequestInv
  <2>4. /\ IdsOf(req) # <<>> /\ Head(IdsOf(req)) = Head(req).id
        /\ IdsOf(req') = Tail(IdsOf(req))
    BY <1>1, <2>1, IdsOfTail, Zenon
  <2>5. Service!Execute
    BY <2>1, <2>3, <2>4, Zenon DEF Service!Execute, IdsOf
  <2> QED
    BY <2>5, Zenon DEF Service!Next
<1>20. CASE send_command_response
  <2>1. cur \in Cmds /\ reply[cur] = "begun"
    BY <1>20, Zenon DEF send_command_response, IInv, BusyInv
  <2>2. Service!Finish(cur)
    BY <1>20, <2>1, Zenon DEF send_command_response, Service!Finish
  <2> QED
    BY <2>1, <2>2, Zenon DEF Service!Next
<1> QED
  BY <1>3, <1>4, <1>5, <1>6, <1>7, <1>8, <1>9, <1>10, <1>12, <1>13, <1>14, <1>15,
     <1>17, <1>18, <1>19, <1>20, Zenon
  DEF Next, Caller, Listener, Worker, Stop

(* The proxy, its two queues, its listener and its worker implement the      *)
(* command service, for every number of commands and every capacity, and     *)
(* with every fault of the environment.                                      *)
THEOREM Implementation == Spec => ImplementsCommandService
<1>1. Init => Service!Init
  BY ServiceInit, Zenon
<1>2. IInv /\ [Next]_vars => [Service!Next]_(Service!sVars)
  BY ServiceStep, Zenon
<1> QED
  BY <1>1, <1>2, Invariance, PTL DEF Spec, ImplementsCommandService, Service!Spec
=============================================================================
