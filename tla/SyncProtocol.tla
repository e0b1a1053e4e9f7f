---------------------------- MODULE SyncProtocol ----------------------------
(***************************************************************************)
(* Measurement scripts on several instruments: the Lua bindings of         *)
(* src/server/RuntimeContext.cpp, the worker's side of the barrier protocol*)
(* (src/workers/generic_worker_main.cpp) and the RESPONSE and SYNC_ACK     *)
(* handlers of the proxies (src/server/InstrumentWorkerProxy.cpp).         *)
(*                                                                         *)
(* A context is one script run.  In a measure job (enqueue_mode_) call and *)
(* parallel only dispatch, and the job's monitor thread runs               *)
(* process_tokens_and_wait after the script.  In the measure command every *)
(* call and every parallel block waits for its own commands.  The queues   *)
(* have room and workers do not die here: WorkerProxy is about that.       *)
(***************************************************************************)
EXTENDS Naturals, Sequences, FiniteSets, BarrierTable

CONSTANTS
  Jobs,         (* contexts of measure jobs                                   *)
  Commands,     (* contexts of measure commands                               *)
  Instruments,  (* the instruments registered at first; numbers stand for     *)
                (* their names, which list_instruments sorts                  *)
  Removable,    (* those that somebody may remove meanwhile                   *)
  MaxBlocks,    (* bounds the calls and parallel blocks of all scripts        *)
  MaxCalls      (* bounds the calls inside one parallel block                 *)

ASSUME ProtocolAssumption ==
  /\ Jobs \cap Commands = {}
  /\ Instruments \subseteq Nat
  /\ IsFiniteSet(Instruments)
  /\ Removable \subseteq Instruments
  /\ MaxBlocks \in Nat
  /\ MaxCalls \in Nat

Contexts == Jobs \cup Commands

VARIABLES
  registered,  (* the keys of the registry's instruments_                     *)
  rbarriers,   (* the registry's SyncCoordinator, the one the proxies know    *)
  barriers,    (* the SyncCoordinator each context was given                  *)
  phase,       (* where each script run is                                    *)
  blocks,      (* next_sync_token_ - 1, calls of measure commands included    *)
  todo,        (* commands of the current parallel block not yet dispatched   *)
  tokens,      (* token_order_ with the token's token_instruments_,           *)
               (* token_futures_ and token_result_indices_; in a measure      *)
               (* command, the call or block being waited for                 *)
  results,     (* collected_results_: the command each entry is for and the   *)
               (* command whose response is in it (0 for none)                *)
  futures,     (* every command the context executed and its future           *)
  req, resp,   (* the queues of each instrument                               *)
  waiting,     (* waiting_sync_token_ of each worker, 0 for none              *)
  server       (* the server process                                          *)

vars == <<registered, rbarriers, barriers, phase, blocks, todo, tokens, results,
          futures, req, resp, waiting, server>>
wires == <<rbarriers, resp, waiting>>

(* Every context counts its tokens from 1.                                   *)
TokenSet == Nat \ {0}

Phases == {"idle", "parse", "dispatch", "wait", "done", "failed"}

(* A command of a parallel block: its place in the buffer, 0 for a NOP, and  *)
(* is_sync_barrier.                                                          *)
Call == [inst : Instruments, at : Nat, barrier : BOOLEAN]
Token == [token : Nat, insts : SUBSET Instruments, inds : Seq(Nat), futs : Seq(Nat)]
Result == [for : Nat, from : Nat]

(* part: the command is one of a parallel block, and no NOP.                 *)
Future == [inst : Instruments, block : Nat, part : BOOLEAN,
           state : {"unset", "answered", "stopped"}]
Message == [type : {"COMMAND", "RESPONSE", "SYNC_ACK", "SYNC_CONTINUE"},
            ctx : Contexts, n : Nat, token : Nat, barrier : BOOLEAN]

TypeOK ==
  /\ registered \subseteq Instruments
  /\ DOMAIN barriers = Contexts
  /\ \A x \in Contexts : DOMAIN barriers[x] \subseteq TokenSet
  /\ phase \in [Contexts -> Phases]
  /\ blocks \in [Contexts -> Nat]
  /\ todo \in [Contexts -> SUBSET Call]
  /\ tokens \in [Contexts -> Seq(Token)]
  /\ results \in [Contexts -> Seq(Result)]
  /\ futures \in [Contexts -> Seq(Future)]
  /\ req \in [Instruments -> Seq(Message)]
  /\ resp \in [Instruments -> Seq(Message)]
  /\ waiting \in [Instruments -> Nat]
  /\ server \in {"up", "crashed"}

Init ==
  /\ registered = Instruments
  /\ rbarriers = NoBarriers
  /\ barriers = [x \in Contexts |-> NoBarriers]
  /\ phase = [x \in Contexts |-> "idle"]
  /\ blocks = [x \in Contexts |-> 0]
  /\ todo = [x \in Contexts |-> {}]
  /\ tokens = [x \in Contexts |-> <<>>]
  /\ results = [x \in Contexts |-> <<>>]
  /\ futures = [x \in Contexts |-> <<>>]
  /\ req = [i \in Instruments |-> <<>>]
  /\ resp = [i \in Instruments |-> <<>>]
  /\ waiting = [i \in Instruments |-> 0]
  /\ server = "up"

-----------------------------------------------------------------------------
(* Starting and ending a script                                              *)

Scripting == {"parse", "dispatch"}

(* The job manager has one thread that runs scripts, and the RPC server one  *)
(* that runs commands; a job's monitor is a thread of its own.               *)
ThreadIsFree(x) ==
  IF x \in Jobs THEN \A y \in Jobs : phase[y] \notin Scripting
  ELSE \A y \in Commands : phase[y] \notin Scripting \cup {"wait"}

(* handle_measure refuses to run with no instruments.                        *)
bind_runtime_context(x) ==
  /\ phase[x] = "idle"
  /\ ThreadIsFree(x)
  /\ phase' = [phase EXCEPT ![x] = IF x \in Commands /\ registered = {}
                                     THEN "failed" ELSE "parse"]
  /\ UNCHANGED <<registered, barriers, blocks, todo, tokens, results, futures,
                 req, wires, server>>

(* The end of the script.  The coordinator is a local variable of the code   *)
(* that ran the script and is gone now, also for the job's monitor.          *)
script_ends(x) ==
  /\ phase[x] = "parse"
  /\ phase' = [phase EXCEPT ![x] = IF x \in Jobs THEN "wait" ELSE "done"]
  /\ barriers' = [barriers EXCEPT ![x] = NoBarriers]
  /\ UNCHANGED <<registered, blocks, todo, tokens, results, futures, req, wires,
                 server>>

(* A script error, also one inside a parallel block, whose buffer is then    *)
(* cleared.  What was dispatched stays with the workers.                     *)
script_fails(x) ==
  /\ phase[x] = "parse"
  /\ phase' = [phase EXCEPT ![x] = "failed"]
  /\ barriers' = [barriers EXCEPT ![x] = NoBarriers]
  /\ tokens' = [tokens EXCEPT ![x] = <<>>]
  /\ UNCHANGED <<registered, blocks, todo, results, futures, req, wires, server>>

-----------------------------------------------------------------------------
(* Dispatching commands                                                      *)

(* The calls and blocks of all scripts so far, which MaxBlocks bounds.       *)
Dispatched ==
  Cardinality({xk \in Contexts \X (1..MaxBlocks) : xk[2] <= blocks[xk[1]]})

(* The number of the next command of x, and the command on its way.          *)
NextId(x) == Len(futures[x]) + 1
Command(x, t, last) == [type |-> "COMMAND", ctx |-> x, n |-> NextId(x),
                        token |-> t, barrier |-> last]
execute(x, i, t, last, part) ==
  /\ req' = [req EXCEPT ![i] = Append(@, Command(x, t, last))]
  /\ futures' = [futures EXCEPT ![x] =
       Append(@, [inst |-> i, block |-> blocks'[x], part |-> part,
                  state |-> "unset"])]

(* context:call in a measure job: a token of its own for one command, with a *)
(* barrier across all instruments.                                           *)
call_enqueue(x, i) ==
  /\ x \in Jobs
  /\ phase[x] = "parse"
  /\ Dispatched < MaxBlocks
  /\ i \in registered
  /\ blocks' = [blocks EXCEPT ![x] = @ + 1]
  /\ barriers' = [barriers EXCEPT ![x] =
       register_barrier(@, blocks'[x], registered)]
  /\ tokens' = [tokens EXCEPT ![x] =
       Append(@, [token |-> blocks'[x], insts |-> registered,
                  inds |-> <<Len(results[x]) + 1>>, futs |-> <<NextId(x)>>])]
  /\ results' = [results EXCEPT ![x] = Append(@, [for |-> NextId(x), from |-> 0])]
  /\ execute(x, i, blocks'[x], TRUE, FALSE)
  /\ UNCHANGED <<registered, phase, todo, wires, server>>

(* context:call in a measure command: send_command waits in execute_sync.    *)
call_sync(x, i) ==
  /\ x \in Commands
  /\ phase[x] = "parse"
  /\ Dispatched < MaxBlocks
  /\ blocks' = [blocks EXCEPT ![x] = @ + 1]
  /\ IF i \in registered
       THEN /\ tokens' = [tokens EXCEPT ![x] =
                 <<[token |-> 0, insts |-> {}, inds |-> <<>>,
                    futs |-> <<NextId(x)>>]>>]
            /\ phase' = [phase EXCEPT ![x] = "wait"]
            /\ execute(x, i, 0, FALSE, FALSE)
            /\ UNCHANGED results
       ELSE /\ results' = [results EXCEPT ![x] = Append(@, [for |-> 0, from |-> 0])]
            /\ UNCHANGED <<tokens, phase, futures, req>>
  /\ UNCHANGED <<registered, barriers, todo, wires, server>>

(* The instruments that the commands of a parallel block are for.            *)
Used(buffer) == {buffer[k] : k \in DOMAIN buffer}

(* What a job makes of a parallel block: the commands of each registered     *)
(* instrument, the last one marked, and a NOP where there are none.          *)
(* Commands for instruments that are not registered are forgotten.           *)
PerInstrument(buffer) ==
  {[inst |-> buffer[k], at |-> k,
    barrier |-> \A j \in DOMAIN buffer : buffer[j] = buffer[k] => j <= k] :
      k \in {j \in DOMAIN buffer : buffer[j] \in registered}}
    \cup {[inst |-> i, at |-> 0, barrier |-> TRUE] : i \in registered \ Used(buffer)}

InBuffer(buffer) ==
  {[inst |-> buffer[k], at |-> k, barrier |-> FALSE] : k \in DOMAIN buffer}

(* list_instruments is sorted: a job goes from instrument to instrument, a   *)
(* measure command through the buffer.                                       *)
Precedes(x, c, d) ==
  IF x \in Jobs /\ c.inst # d.inst THEN c.inst < d.inst ELSE c.at <= d.at

(* context:parallel after its block has filled the buffer.  An empty block   *)
(* does nothing, and a job with no instruments dispatches nothing.           *)
parallel(x, buffer) ==
  LET cmds  == IF x \in Jobs THEN PerInstrument(buffer) ELSE InBuffer(buffer)
      insts == IF x \in Jobs THEN registered ELSE Used(buffer)
  IN  /\ phase[x] = "parse"
      /\ Dispatched < MaxBlocks
      /\ blocks' = [blocks EXCEPT ![x] = @ + 1]
      /\ barriers' = [barriers EXCEPT ![x] =
           register_barrier(@, blocks'[x], insts)]
      /\ tokens' = [tokens EXCEPT ![x] =
           Append(@, [token |-> blocks'[x], insts |-> insts,
                      inds |-> <<>>, futs |-> <<>>])]
      /\ todo' = [todo EXCEPT ![x] = cmds]
      /\ phase' = [phase EXCEPT ![x] = IF cmds = {} THEN "parse" ELSE "dispatch"]
      /\ UNCHANGED <<registered, results, futures, req, wires, server>>

(* The current token, with the index of one more result, in a job, and with  *)
(* one more future, if the instrument is there.                              *)
Noted(x, here) ==
  LET tok == tokens[x][Len(tokens[x])]
  IN  [token |-> tok.token, insts |-> tok.insts,
       inds |-> IF x \in Jobs THEN Append(tok.inds, Len(results[x]) + 1) ELSE tok.inds,
       futs |-> IF here THEN Append(tok.futs, NextId(x)) ELSE tok.futs]

(* One command of the block.  A job notes a result for it before it looks    *)
(* the instrument up, and a future only if the instrument is still there.    *)
dispatch(x) ==
  /\ phase[x] = "dispatch"
  /\ UNCHANGED blocks
  /\ \E c \in todo[x] :
       LET here == c.inst \in registered
       IN  /\ \A d \in todo[x] : Precedes(x, c, d)
           /\ IF here THEN execute(x, c.inst, blocks[x], c.barrier, c.at # 0)
                      ELSE UNCHANGED <<req, futures>>
           /\ results' = IF x \in Commands THEN results
                ELSE [results EXCEPT ![x] =
                        Append(@, [for |-> IF here THEN NextId(x) ELSE 0, from |-> 0])]
           /\ tokens' = [tokens EXCEPT ![x] = [@ EXCEPT ![Len(@)] = Noted(x, here)]]
           /\ todo' = [todo EXCEPT ![x] = @ \ {c}]
           /\ phase' = [phase EXCEPT ![x] =
                IF todo[x] # {c} THEN "dispatch"
                ELSE IF x \in Jobs THEN "parse" ELSE "wait"]
  /\ UNCHANGED <<registered, barriers, wires, server>>

-----------------------------------------------------------------------------
(* Waiting for the answers                                                   *)

(* Fault: only the first future is waited for.                               *)
Settled_first(x, futs) ==
  IF futs = <<>> THEN TRUE ELSE futures[x][Head(futs)].state # "unset"

Settled(x, futs) == \A k \in DOMAIN futs : futures[x][futs[k]].state # "unset"

(* send_sync_continue to every instrument of the token that is still there.  *)
Continue(x, t) == [type |-> "SYNC_CONTINUE", ctx |-> x, n |-> 0, token |-> t,
                   barrier |-> FALSE]
SendContinue(x, tok) ==
  req' = [i \in Instruments |->
            IF i \in tok.insts \cap registered
              THEN Append(req[i], Continue(x, tok.token)) ELSE req[i]]

(* Fault: the futures are taken from the back.                               *)
FillIn_reversed(rs, tok) ==
  [r \in DOMAIN rs |->
     LET ks == {k \in DOMAIN tok.futs : tok.inds[k] = r}
     IN  IF ks = {} THEN rs[r]
         ELSE [rs[r] EXCEPT !.from = tok.futs[Len(tok.futs) + 1 - CHOOSE k \in ks : TRUE]]]

(* Fault: the loop ends before the last future.                              *)
FillIn_short(rs, tok) ==
  [r \in DOMAIN rs |->
     LET ks == {k \in DOMAIN tok.futs : k < Len(tok.futs) /\ tok.inds[k] = r}
     IN  IF ks = {} THEN rs[r]
         ELSE [rs[r] EXCEPT !.from = tok.futs[CHOOSE k \in ks : TRUE]]]

(* The results of a job's token: the k-th response goes to the k-th index.   *)
FillIn(rs, tok) ==
  [r \in DOMAIN rs |->
     LET ks == {k \in DOMAIN tok.futs : tok.inds[k] = r}
     IN  IF ks = {} THEN rs[r]
         ELSE [rs[r] EXCEPT !.from = tok.futs[CHOOSE k \in ks : TRUE]]]

(* clear_barrier by a job's monitor, after the coordinator was destroyed.    *)
(* This is undefined: it may do nothing, hit the coordinator of the script   *)
(* that runs meanwhile in the same place of the stack, or crash.             *)
ClearDead(x, t) ==
  \/ UNCHANGED <<barriers, server>>
  \/ \E y \in Jobs :
       /\ phase[y] \in Scripting
       /\ t \in DOMAIN barriers[y]
       /\ barriers' = [barriers EXCEPT ![y] = clear_barrier(@, t)]
       /\ UNCHANGED server
  \/ server' = "crashed" /\ UNCHANGED barriers

(* One round of process_tokens_and_wait.                                     *)
release_token(x) ==
  /\ x \in Jobs
  /\ phase[x] = "wait"
  /\ tokens[x] # <<>>
  /\ LET tok == Head(tokens[x])
     IN  /\ Settled(x, tok.futs)
         /\ results' = [results EXCEPT ![x] = FillIn(@, tok)]
         /\ SendContinue(x, tok)
         /\ ClearDead(x, tok.token)
  /\ tokens' = [tokens EXCEPT ![x] = Tail(@)]
  /\ UNCHANGED <<registered, phase, blocks, todo, futures, wires>>

(* process_tokens_and_wait returns, and the monitor collects the results.    *)
monitor_ends(x) ==
  /\ x \in Jobs
  /\ phase[x] = "wait"
  /\ tokens[x] = <<>>
  /\ phase' = [phase EXCEPT ![x] = "done"]
  /\ UNCHANGED <<registered, barriers, blocks, todo, tokens, results, futures,
                 req, wires, server>>

(* The end of execute_parallel_buffer.                                       *)
block_ends(x) ==
  /\ x \in Commands
  /\ phase[x] = "wait"
  /\ LET tok == Head(tokens[x])
     IN  /\ tok.token # 0
         /\ Settled(x, tok.futs)
         /\ results' = [results EXCEPT ![x] = @ \o
              [k \in DOMAIN tok.futs |-> [for |-> tok.futs[k], from |-> tok.futs[k]]]]
         /\ SendContinue(x, tok)
         /\ barriers' = [barriers EXCEPT ![x] = clear_barrier(@, tok.token)]
  /\ tokens' = [tokens EXCEPT ![x] = <<>>]
  /\ phase' = [phase EXCEPT ![x] = "parse"]
  /\ UNCHANGED <<registered, blocks, todo, futures, wires, server>>

(* The end of send_command: with the response, or after 5 seconds with an    *)
(* error in its place.                                                       *)
call_returns(x) ==
  /\ x \in Commands
  /\ phase[x] = "wait"
  /\ LET tok == Head(tokens[x])
         n   == Head(tok.futs)
     IN  /\ tok.token = 0
         /\ \E from \in {0, n} :
              /\ from = n => Settled(x, tok.futs)
              /\ results' = [results EXCEPT ![x] = Append(@, [for |-> n, from |-> from])]
  /\ tokens' = [tokens EXCEPT ![x] = <<>>]
  /\ phase' = [phase EXCEPT ![x] = "parse"]
  /\ UNCHANGED <<registered, barriers, blocks, todo, futures, req, wires, server>>

-----------------------------------------------------------------------------
(* The workers and the proxies' listeners                                    *)

(* Fault: is_sync_barrier is serialized.                                     *)
Deserialize_keeps_flag(m) == m

(* A command after serialize_command and deserialize_command: the JSON has   *)
(* no field for is_sync_barrier, which defaults to false.                    *)
Deserialize(m) == [m EXCEPT !.barrier = FALSE]

Reply(m, type) == [m EXCEPT !.type = type, !.barrier = FALSE]

(* A blocked worker drops the command.  Otherwise it executes it, answers,   *)
(* and for a command with a token also acknowledges; after the last command  *)
(* of the token it blocks.                                                   *)
handle_command(i) ==
  /\ req[i] # <<>>
  /\ Head(req[i]).type = "COMMAND"
  /\ LET m == Deserialize(Head(req[i]))
         r == <<Reply(m, "RESPONSE")>>
         a == IF m.token = 0 THEN <<>> ELSE <<Reply(m, "SYNC_ACK")>>
     IN  IF waiting[i] # 0 THEN UNCHANGED <<resp, waiting>>
         ELSE /\ resp' = [resp EXCEPT ![i] = @ \o r \o a]
              /\ waiting' = [waiting EXCEPT ![i] = IF m.barrier THEN m.token ELSE 0]
  /\ req' = [req EXCEPT ![i] = Tail(@)]
  /\ UNCHANGED <<registered, rbarriers, barriers, phase, blocks, todo, tokens,
                 results, futures, server>>

(* A SYNC_CONTINUE for another token only makes a warning.                   *)
handle_sync_continue(i) ==
  /\ req[i] # <<>>
  /\ Head(req[i]).type = "SYNC_CONTINUE"
  /\ waiting' = [waiting EXCEPT ![i] = IF @ = Head(req[i]).token THEN 0 ELSE @]
  /\ req' = [req EXCEPT ![i] = Tail(@)]
  /\ UNCHANGED <<registered, rbarriers, barriers, phase, blocks, todo, tokens,
                 results, futures, resp, server>>

handle_response_message(i) ==
  /\ resp[i] # <<>>
  /\ Head(resp[i]).type = "RESPONSE"
  /\ futures' = [futures EXCEPT ![Head(resp[i]).ctx][Head(resp[i]).n].state = "answered"]
  /\ resp' = [resp EXCEPT ![i] = Tail(@)]
  /\ UNCHANGED <<registered, rbarriers, barriers, phase, blocks, todo, tokens,
                 results, req, waiting, server>>

(* The proxies tell the registry's coordinator.  If that were to complete a  *)
(* barrier, the proxy would send SYNC_CONTINUE to its own worker only.       *)
handle_sync_ack_message(i) ==
  /\ resp[i] # <<>>
  /\ LET m == Head(resp[i])
     IN  /\ m.type = "SYNC_ACK"
         /\ rbarriers' = handle_ack(rbarriers, m.token, i)
         /\ req' = IF Completes(rbarriers, m.token, i)
                     THEN [req EXCEPT ![i] = Append(@, Continue(m.ctx, m.token))]
                     ELSE req
  /\ resp' = [resp EXCEPT ![i] = Tail(@)]
  /\ UNCHANGED <<registered, barriers, phase, blocks, todo, tokens, results,
                 futures, waiting, server>>

-----------------------------------------------------------------------------
(* remove_instrument: the proxy is stopped, which settles what is pending    *)
(* and removes its queues, and leaves the registry.                          *)
remove_instrument(i) ==
  /\ i \in registered \cap Removable
  /\ registered' = registered \ {i}
  /\ futures' = [x \in Contexts |-> [n \in DOMAIN futures[x] |->
       IF futures[x][n].inst = i /\ futures[x][n].state = "unset"
         THEN [futures[x][n] EXCEPT !.state = "stopped"] ELSE futures[x][n]]]
  /\ req' = [req EXCEPT ![i] = <<>>]
  /\ resp' = [resp EXCEPT ![i] = <<>>]
  /\ waiting' = [waiting EXCEPT ![i] = 0]
  /\ UNCHANGED <<rbarriers, barriers, phase, blocks, todo, tokens, results, server>>

-----------------------------------------------------------------------------
Buffers == UNION {[1..k -> Instruments] : k \in 1..MaxCalls}

Script(x) ==
  \/ bind_runtime_context(x)
  \/ script_ends(x)
  \/ script_fails(x)
  \/ \E i \in Instruments : call_enqueue(x, i) \/ call_sync(x, i)
  \/ \E buffer \in Buffers : parallel(x, buffer)

Wait(x) ==
  \/ dispatch(x)
  \/ release_token(x)
  \/ monitor_ends(x)
  \/ block_ends(x)
  \/ call_returns(x)

Worker(i) == handle_command(i) \/ handle_sync_continue(i)
Listener(i) == handle_response_message(i) \/ handle_sync_ack_message(i)

Next ==
  /\ server = "up"
  /\ \/ \E x \in Contexts : Script(x) \/ Wait(x)
     \/ \E i \in Instruments : Worker(i) \/ Listener(i) \/ remove_instrument(i)

Spec == Init /\ [][Next]_vars

(* Threads and worker processes run.  Nobody has to start a script, continue *)
(* one or remove an instrument.                                              *)
Fairness ==
  /\ \A x \in Contexts : WF_vars(server = "up" /\ Wait(x))
  /\ \A i \in Instruments : /\ WF_vars(server = "up" /\ Worker(i))
                            /\ WF_vars(server = "up" /\ Listener(i))

FairSpec == Spec /\ Fairness

-----------------------------------------------------------------------------
(* The command is in its instrument's queue, not yet executed.               *)
Queued(x, n) ==
  LET q == req[futures[x][n].inst]
  IN  \E k \in DOMAIN q : q[k].type = "COMMAND" /\ q[k].ctx = x /\ q[k].n = n

(* In the contexts X no instrument executes a command that comes after a     *)
(* parallel block while another still has to execute one of the block's      *)
(* commands.                                                                 *)
Barrier(X) ==
  \A x \in X : \A n, m \in DOMAIN futures[x] :
    /\ futures[x][n].block < futures[x][m].block
    /\ futures[x][n].part
    /\ ~Queued(x, m)
    => ~Queued(x, n)

(* A parallel block of the measure command is a barrier: nothing that        *)
(* follows it in the script is executed by any instrument before the whole   *)
(* block is (execute_parallel_buffer waits for every future of the block).   *)
ParallelIsABarrier == Barrier(Commands)

(* SYNC_CONTINUE for a token is on its way only once every command of the    *)
(* token has an answer, in both modes (process_tokens_and_wait and           *)
(* execute_parallel_buffer send it after the futures).  The two places that  *)
(* let it come earlier are wrong: see ExecutionAwaitsContinue and            *)
(* BarriersAreForced.                                                        *)
ContinueMeansComplete ==
  \A i \in Instruments : \A k \in DOMAIN req[i] :
    LET m == req[i][k]
    IN  m.type = "SYNC_CONTINUE" =>
          \A n \in DOMAIN futures[m.ctx] :
            futures[m.ctx][n].block = m.token => futures[m.ctx][n].state # "unset"

(* A response is stored in the result of the command it answers, although    *)
(* process_tokens_and_wait pairs the futures of a token with its result      *)
(* indices by position only, as long as no instrument is removed.            *)
Aligned ==
  \A x \in Contexts : \A r \in DOMAIN results[x] :
    results[x][r].from # 0 => results[x][r].from = results[x][r].for
ResultsAreAligned == registered = Instruments => Aligned

(* When a script run is done, each command it executed has one entry among   *)
(* the collected results, also when an instrument was removed meanwhile, and *)
(* if none was each entry of a job holds a response: the placeholders are    *)
(* all filled in.                                                            *)
EveryCommandHasItsResult ==
  \A x \in Contexts : phase[x] = "done" =>
    /\ \A n \in DOMAIN futures[x] :
         \E r \in DOMAIN results[x] :
           \A s \in DOMAIN results[x] : results[x][s].for = n <=> s = r
    /\ (x \in Jobs /\ registered = Instruments) =>
         \A r \in DOMAIN results[x] : results[x][r].from # 0

(* A script run that waits for its commands goes on: no block, call or       *)
(* monitor hangs, also when the token numbers of a job and of a measure      *)
(* command collide, or an instrument is removed meanwhile (unless the server *)
(* went down on the dead coordinator).                                       *)
WaitsEnd ==
  \A x \in Contexts : []<>(phase[x] # "wait" \/ server = "crashed")

(* Not so: "All instruments in parallel block complete before any advances". *)
(* In a measure job too, no instrument that has a command k in a parallel    *)
(* block executes a later command m of the script while another still has to *)
(* execute its command n of the block.  The flag that blocks the worker is   *)
(* lost by the serialization.                                                *)
JobsKeepBarriers ==
  \A x \in Jobs : \A n, k, m \in DOMAIN futures[x] :
    /\ futures[x][n].part /\ futures[x][k].part
    /\ futures[x][n].block = futures[x][k].block
    /\ futures[x][k].block < futures[x][m].block
    /\ futures[x][k].inst = futures[x][m].inst
    /\ ~Queued(x, m)
    => ~Queued(x, n)

(* Not so: responses reach their own results also when an instrument is      *)
(* removed while a job dispatches a parallel block to it.                    *)
ResultsAreAlwaysAligned == Aligned

(* Not so: "SyncCoordinator waits for all ACKs": the ACK of an instrument is *)
(* recorded in the barrier that the script registered for the token.  The    *)
(* proxies report to another coordinator.                                    *)
AcksReachTheBarrier ==
  [][\A i \in Instruments :
       (resp[i] # <<>> /\ resp'[i] = Tail(resp[i]) /\ Head(resp[i]).type = "SYNC_ACK")
       => LET m == Head(resp[i])
          IN  m.token \in DOMAIN barriers'[m.ctx] =>
                i \in barriers'[m.ctx][m.token].acked]_vars

(* Not so: the monitor of a measure job "waits for the context's tokens to   *)
(* be processed and futures to complete", then completes the job.  It calls  *)
(* a coordinator that no longer exists, which may crash the server.          *)
MonitorsFinish ==
  \A x \in Jobs : phase[x] = "wait" ~> phase[x] = "done"

(* Not so: "Actual execution starts only when SYNC_CONTINUE is sent for that *)
(* token."  The worker executes a command when it arrives; SYNC_CONTINUE is  *)
(* sent, and the token dropped, after the answers.                           *)
ExecutionAwaitsContinue ==
  \A x \in Contexts : \A k \in DOMAIN tokens[x] : \A j \in DOMAIN tokens[x][k].futs :
    LET f == futures[x][tokens[x][k].futs[j]]
    IN  f.part => f.state # "answered"

(* Not so: after a timeout "Force-complete barrier (broadcast SYNC_CONTINUE  *)
(* anyway)", which "Prevents deadlock": a token is given up in the end, even *)
(* if a worker hangs in a command of it.  Its futures are waited for without *)
(* a timeout.                                                                *)
BarriersAreForced == WaitsEnd

(* The fairness of a server whose workers may hang.                          *)
HangSpec ==
  /\ Spec
  /\ \A x \in Contexts : WF_vars(server = "up" /\ Wait(x))
  /\ \A i \in Instruments : WF_vars(server = "up" /\ Listener(i))
=============================================================================
