---------------------------- MODULE BarrierTable ----------------------------
(***************************************************************************)
(* The barrier table of src/server/SyncCoordinator.cpp, a function from    *)
(* sync tokens to barriers.  Each operation is one critical section of     *)
(* mutex_ and an operator on the table, so that SyncCoordinator can be one *)
(* coordinator and SyncProtocol can have several.                          *)
(***************************************************************************)

NoBarriers == [t \in {} |-> [expected |-> {}, acked |-> {}]]

has_barrier(b, t) == t \in DOMAIN b

(* A barrier already registered for the token is replaced.                   *)
register_barrier(b, t, instruments) ==
  [x \in DOMAIN b \cup {t} |->
     IF x = t THEN [expected |-> instruments, acked |-> {}] ELSE b[x]]

clear_barrier(b, t) == [x \in DOMAIN b \ {t} |-> b[x]]

(* The ACK is one the barrier waits for.                                     *)
Expected(b, t, i) == has_barrier(b, t) /\ i \in b[t].expected

(* What handle_ack returns.                                                  *)
Completes(b, t, i) ==
  Expected(b, t, i) /\ b[t].acked \cup {i} = b[t].expected

(* Fault: a complete barrier is left in the table.                           *)
handle_ack_no_clear(b, t, i) ==
  IF Expected(b, t, i) THEN [b EXCEPT ![t].acked = @ \cup {i}] ELSE b

(* Fault: the ACKs are counted, whoever sent them.                           *)
handle_ack_unchecked(b, t, i) ==
  IF ~has_barrier(b, t) THEN b
  ELSE IF Completes(b, t, i) THEN clear_barrier(b, t)
  ELSE [b EXCEPT ![t].acked = @ \cup {i}]

(* The table after handle_ack: a complete barrier is erased.                 *)
handle_ack(b, t, i) ==
  IF ~Expected(b, t, i) THEN b
  ELSE IF Completes(b, t, i) THEN clear_barrier(b, t)
  ELSE [b EXCEPT ![t].acked = @ \cup {i}]

get_waiting_instruments(b, t) ==
  IF has_barrier(b, t) THEN b[t].expected \ b[t].acked ELSE {}
=============================================================================
