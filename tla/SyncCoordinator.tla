--------------------------- MODULE SyncCoordinator --------------------------
(***************************************************************************)
(* One SyncCoordinator (src/server/SyncCoordinator.cpp) whose callers do   *)
(* what they like: the table of BarrierTable with what was said to it.     *)
(***************************************************************************)
EXTENDS Naturals, BarrierTable

CONSTANTS Tokens,       (* the sync tokens that occur                         *)
          Members,      (* instrument names                                   *)
          MaxRegs       (* bounds how often one token is registered           *)

ASSUME CoordinatorAssumption == MaxRegs \in Nat

SyncBarrier == [expected : SUBSET Members, acked : SUBSET Members]

-----------------------------------------------------------------------------
VARIABLES
  table,     (* barriers_                                                     *)
  regs,      (* how often each token was registered                           *)
  heard,     (* who has sent an ACK for each token since it was registered    *)
  fired      (* how often handle_ack returned true since then                 *)

coordinatorVars == <<table, regs, heard, fired>>

CoordinatorTypeOK ==
  /\ DOMAIN table \subseteq Tokens
  /\ table \in [DOMAIN table -> SyncBarrier]
  /\ regs \in [Tokens -> 0..MaxRegs]
  /\ heard \in [Tokens -> SUBSET Members]
  /\ fired \in [Tokens -> Nat]

CoordinatorInit ==
  /\ table = NoBarriers
  /\ regs = [t \in Tokens |-> 0]
  /\ heard = [t \in Tokens |-> {}]
  /\ fired = [t \in Tokens |-> 0]

Register(t, S) ==
  /\ regs[t] < MaxRegs
  /\ table' = register_barrier(table, t, S)
  /\ regs' = [regs EXCEPT ![t] = @ + 1]
  /\ heard' = [heard EXCEPT ![t] = {}]
  /\ fired' = [fired EXCEPT ![t] = 0]

(* An ACK may come twice, from anybody and for any token.                    *)
Ack(t, i) ==
  /\ table' = handle_ack(table, t, i)
  /\ heard' = [heard EXCEPT ![t] = @ \cup {i}]
  /\ fired' = [fired EXCEPT ![t] = IF Completes(table, t, i) THEN @ + 1 ELSE @]
  /\ UNCHANGED regs

Clear(t) ==
  /\ table' = clear_barrier(table, t)
  /\ UNCHANGED <<regs, heard, fired>>

CoordinatorNext ==
  \/ \E t \in Tokens, S \in SUBSET Members : Register(t, S)
  \/ \E t \in Tokens, i \in Members : Ack(t, i)
  \/ \E t \in Tokens : Clear(t)

CoordinatorSpec == CoordinatorInit /\ [][CoordinatorNext]_coordinatorVars

-----------------------------------------------------------------------------
(* A barrier is reported complete at most once per registration, whatever    *)
(* ACKs are repeated or come late (handle_ack erases it when it completes).  *)
CompletesOnce == \A t \in Tokens : fired[t] <= 1

(* The table says who is being waited for: exactly the expected instruments  *)
(* whose ACK has not come since the barrier was registered.  So a barrier    *)
(* completes with the last missing ACK, get_waiting_instruments names nobody *)
(* who has answered, and no barrier stays in the table with nobody to wait   *)
(* for, unless it was registered for no instrument at all (handle_ack never  *)
(* returns true for such a token).                                           *)
WaitsForTheSilent ==
  \A t \in DOMAIN table :
    /\ table[t].acked = heard[t] \cap table[t].expected
    /\ get_waiting_instruments(table, t) = table[t].expected \ heard[t]
    /\ get_waiting_instruments(table, t) = {} => table[t].expected = {}
    /\ fired[t] = 0
=============================================================================
