--------------------------- MODULE CommandService ---------------------------
(***************************************************************************)
(* What an instrument promises to the callers of execute and execute_sync, *)
(* without queues, threads and processes.  Commands are executed at most   *)
(* once and in the order in which they were accepted.  A caller is told    *)
(* one outcome: the answer the instrument gave to this very command, or    *)
(* that it failed.  Commands may be lost, and a caller may be told of a    *)
(* failure although its command is executed.                               *)
(***************************************************************************)
EXTENDS Naturals, Sequences

CONSTANTS
  Cmds,      (* the commands                                                  *)
  NoCmd,     (* the place of a request to shut down                           *)
  Answers,   (* what an instrument may answer                                 *)
  Failures   (* what a caller may be told instead                             *)

VARIABLES
  outcome,   (* what the caller of each command was told                      *)
  line,      (* what was accepted and not begun, in order                     *)
  reply      (* what the instrument made of each command                      *)

sVars == <<outcome, line, reply>>

Init ==
  /\ outcome = [c \in Cmds |-> "none"]
  /\ line = <<>>
  /\ reply = [c \in Cmds |-> "none"]

Request(c) ==
  /\ outcome[c] = "none"
  /\ outcome' = [outcome EXCEPT ![c] = "unset"]
  /\ UNCHANGED <<line, reply>>

Accept(c) ==
  /\ outcome[c] # "none"
  /\ reply[c] = "none"
  /\ \A i \in DOMAIN line : line[i] # c
  /\ line' = Append(line, c)
  /\ UNCHANGED <<outcome, reply>>

Close ==
  /\ line' = Append(line, NoCmd)
  /\ UNCHANGED <<outcome, reply>>

Execute ==
  /\ line # <<>>
  /\ Head(line) \in Cmds
  /\ reply[Head(line)] = "none"
  /\ reply' = [reply EXCEPT ![Head(line)] = "begun"]
  /\ line' = Tail(line)
  /\ UNCHANGED outcome

Finish(c) ==
  /\ reply[c] = "begun"
  /\ \E a \in Answers : reply' = [reply EXCEPT ![c] = a]
  /\ UNCHANGED <<outcome, line>>

Lose ==
  /\ line # <<>>
  /\ line' \in {Tail(line), <<>>}
  /\ UNCHANGED <<outcome, reply>>

Answer(c) ==
  /\ outcome[c] = "unset"
  /\ reply[c] \in Answers
  /\ outcome' = [outcome EXCEPT ![c] = reply[c]]
  /\ UNCHANGED <<line, reply>>

(* Those who wait are told of a failure, one or several at a time.           *)
Fail ==
  /\ \E f \in Failures :
       \E S \in SUBSET {c \in Cmds : outcome[c] = "unset"} :
         outcome' = [c \in Cmds |-> IF c \in S THEN f ELSE outcome[c]]
  /\ UNCHANGED <<line, reply>>

Next ==
  \/ \E c \in Cmds : Request(c) \/ Accept(c) \/ Finish(c) \/ Answer(c)
  \/ Close \/ Execute \/ Lose \/ Fail

Spec == Init /\ [][Next]_sVars
=============================================================================
