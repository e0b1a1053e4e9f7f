------------------------- MODULE SyncProtocolProofs -------------------------
(***************************************************************************)
(* Proofs about SyncProtocol, for every set of measure jobs, measure       *)
(* commands and instruments, scripts of every length and instruments       *)
(* removed at any time: SYNC_CONTINUE follows the answers, a parallel      *)
(* block of a measure command is a barrier, responses end up in the        *)
(* results of their own commands, and at the end of a script run every     *)
(* command has its result.                                                 *)
(*                                                                         *)
(* Barriers rest on the invariant of SyncStepProofs.  For the results a    *)
(* second invariant, ResultsInv, is added to it, again stated about the    *)
(* values of one context: its phase p, its tokens T, its futures F and its *)
(* results R.  The first section is about a SyncCoordinator by itself, for *)
(* every set of tokens and instruments.                                    *)
(***************************************************************************)
EXTENDS SyncStepProofs, SyncCoordinator

-----------------------------------------------------------------------------
(* One SyncCoordinator.  Its three properties are inductive together: a      *)
(* barrier in the table has not been reported complete, so that the ACK      *)
(* which completes it, and erases it, is the first to do so.                 *)
CoordinatorInv == CoordinatorTypeOK /\ CompletesOnce /\ WaitsForTheSilent

(* An ACK that the barrier expects and that does not complete it leaves      *)
(* somebody to wait for.                                                     *)
LEMMA AckLeavesSomebody ==
  ASSUME NEW b \in SyncBarrier, NEW i \in b.expected,
         b.acked \subseteq b.expected, b.acked \cup {i} # b.expected
  PROVE  b.expected \ (b.acked \cup {i}) # {}
  BY Zenon DEF SyncBarrier

(* The initial state satisfies the invariant.                                *)
LEMMA CoordinatorInitInv == CoordinatorInit => CoordinatorInv
  BY CoordinatorAssumption
     DEF CoordinatorInit, CoordinatorInv, CoordinatorTypeOK, CompletesOnce,
         WaitsForTheSilent, NoBarriers

(* Every step preserves it.                                                  *)
LEMMA CoordinatorNextInv ==
  CoordinatorInv /\ [CoordinatorNext]_coordinatorVars => CoordinatorInv'
<1> SUFFICES ASSUME CoordinatorInv, [CoordinatorNext]_coordinatorVars PROVE CoordinatorInv'
  BY Zenon
<1> USE CoordinatorAssumption
    DEF CoordinatorInv, CoordinatorTypeOK, CompletesOnce, WaitsForTheSilent,
        get_waiting_instruments, has_barrier, SyncBarrier
<1>1. ASSUME NEW t \in Tokens, NEW S \in SUBSET Members, Register(t, S)
      PROVE  CoordinatorInv'
  <2>1. /\ DOMAIN table' = DOMAIN table \cup {t}
        /\ table'[t] = [expected |-> S, acked |-> {}]
        /\ \A x \in DOMAIN table \ {t} : table'[x] = table[x]
    BY <1>1, Zenon DEF Register, register_barrier
  <2>2. table' = [x \in DOMAIN table' |-> table'[x]]
    BY <1>1, Zenon DEF Register, register_barrier
  <2>3. CoordinatorTypeOK'
    <3>1. \A x \in DOMAIN table' : table'[x] \in SyncBarrier
      BY <2>1
    <3>2. table' \in [DOMAIN table' -> SyncBarrier]
      BY <2>2, <3>1, Zenon
    <3> QED
      BY <1>1, <2>1, <3>2 DEF Register
  <2>4. CompletesOnce'
    BY <1>1, SMTT(30) DEF Register
  <2>5. WaitsForTheSilent'
    BY <1>1, <2>1 DEF Register
  <2> QED
    BY <2>3, <2>4, <2>5, Zenon
<1>2. ASSUME NEW t \in Tokens, NEW i \in Members, Ack(t, i)
      PROVE  CoordinatorInv'
  <2>1. CASE ~Expected(table, t, i)
    <3>1. table' = table /\ fired' = fired
      BY <1>2, <2>1, Zenon DEF Ack, handle_ack, Completes
    <3>2. \A x \in DOMAIN table :
            heard'[x] \cap table[x].expected = heard[x] \cap table[x].expected
      BY <1>2, <2>1, ZenonT(60) DEF Ack, Expected
    <3>3. \A x \in DOMAIN table :
            table[x].expected \ heard'[x] = table[x].expected \ heard[x]
      BY <1>2, <2>1, ZenonT(60) DEF Ack, Expected
    <3>4. CoordinatorTypeOK' /\ CompletesOnce'
      BY <1>2, <3>1, ZenonT(60) DEF Ack
    <3>5. WaitsForTheSilent'
      BY <3>1, <3>2, <3>3, Zenon
    <3> QED
      BY <3>4, <3>5, Zenon
  <2>2. CASE Completes(table, t, i)
    <3>1. Expected(table, t, i)
      BY <2>2, Zenon DEF Completes
    <3>2. /\ table' = clear_barrier(table, t)
          /\ fired' = [fired EXCEPT ![t] = @ + 1]
      BY <1>2, <2>2, <3>1, Zenon DEF Ack, handle_ack
    <3>3. /\ DOMAIN table' = DOMAIN table \ {t}
          /\ \A x \in DOMAIN table \ {t} : table'[x] = table[x]
      BY <3>2, Zenon DEF clear_barrier
    <3>4. table' \in [DOMAIN table' -> SyncBarrier]
      BY <3>2, <3>3, Zenon DEF clear_barrier
    <3>5. fired[t] = 0
      BY <3>1, Zenon DEF Expected
    <3>6. CoordinatorTypeOK' /\ CompletesOnce'
      BY <1>2, <3>2, <3>3, <3>4, <3>5, SMTT(30) DEF Ack
    <3>7. WaitsForTheSilent'
      BY <1>2, <3>2, <3>3, Zenon DEF Ack
    <3> QED
      BY <3>6, <3>7, Zenon
  <2>3. CASE Expected(table, t, i) /\ ~Completes(table, t, i)
    <3>1. /\ table' = [table EXCEPT ![t].acked = @ \cup {i}]
          /\ fired' = fired
      BY <1>2, <2>3, Zenon DEF Ack, handle_ack
    <3>2. t \in DOMAIN table /\ i \in table[t].expected
      BY <2>3, Zenon DEF Expected
    <3>3. /\ DOMAIN table' = DOMAIN table
          /\ table'[t].expected = table[t].expected
          /\ table'[t].acked = table[t].acked \cup {i}
          /\ \A x \in DOMAIN table \ {t} : table'[x] = table[x]
      BY <3>1, <3>2
    <3>4. CoordinatorTypeOK' /\ CompletesOnce'
      BY <1>2, <3>1, <3>2 DEF Ack
    <3>5. table[t].acked \cup {i} # table[t].expected
      BY <2>3, Zenon DEF Completes
    <3>6. table[t].expected \ (table[t].acked \cup {i}) # {}
      BY <3>2, <3>5, AckLeavesSomebody, Zenon
    <3>7. /\ heard'[t] = heard[t] \cup {i}
          /\ \A x \in Tokens \ {t} : heard'[x] = heard[x]
      BY <1>2, Zenon DEF Ack
    <3>8. ASSUME NEW x \in DOMAIN table'
          PROVE  /\ table'[x].acked = heard'[x] \cap table'[x].expected
                 /\ table'[x].expected \ table'[x].acked
                      = table'[x].expected \ heard'[x]
                 /\ table'[x].expected \ table'[x].acked = {}
                      => table'[x].expected = {}
                 /\ fired'[x] = 0
      <4>1. CASE x = t
        BY <3>1, <3>2, <3>3, <3>6, <3>7, <4>1, SMTT(30)
      <4>2. CASE x # t
        BY <3>1, <3>3, <3>7, <4>2, ZenonT(60)
      <4> QED
        BY <4>1, <4>2, Zenon
    <3>9. WaitsForTheSilent'
      BY <3>8, Zenon
    <3> QED
      BY <3>4, <3>9, Zenon
  <2> QED
    BY <2>1, <2>2, <2>3, Zenon
<1>3. ASSUME NEW t \in Tokens, Clear(t)
      PROVE  CoordinatorInv'
  <2>1. /\ DOMAIN table' = DOMAIN table \ {t}
        /\ \A x \in DOMAIN table \ {t} : table'[x] = table[x]
    BY <1>3, Zenon DEF Clear, clear_barrier
  <2>2. table' \in [DOMAIN table' -> SyncBarrier]
    BY <1>3, <2>1, Zenon DEF Clear, clear_barrier
  <2>3. CoordinatorTypeOK' /\ CompletesOnce'
    BY <1>3, <2>1, <2>2, Zenon DEF Clear
  <2>4. WaitsForTheSilent'
    BY <1>3, <2>1, ZenonT(60) DEF Clear
  <2> QED
    BY <2>3, <2>4, Zenon
<1>4. CASE UNCHANGED coordinatorVars
  BY <1>4, Zenon DEF coordinatorVars
<1> QED
  BY <1>1, <1>2, <1>3, <1>4, Zenon DEF CoordinatorNext

(* The table maps tokens to sets of instruments, whatever handle_ack and     *)
(* register_barrier are called with.                                         *)
THEOREM CoordinatorTypes == CoordinatorSpec => []CoordinatorTypeOK
<1>1. CoordinatorInv => CoordinatorTypeOK
  BY Zenon DEF CoordinatorInv
<1> QED
  BY <1>1, CoordinatorInitInv, CoordinatorNextInv, PTL DEF CoordinatorSpec

(* A barrier is reported complete at most once per registration, whatever    *)
(* the number of tokens and instruments, and however often handle_ack is     *)
(* called for it.                                                            *)
THEOREM OneCompletion == CoordinatorSpec => []CompletesOnce
<1>1. CoordinatorInv => CompletesOnce
  BY Zenon DEF CoordinatorInv
<1> QED
  BY <1>1, CoordinatorInitInv, CoordinatorNextInv, PTL DEF CoordinatorSpec

(* The table names exactly the expected instruments that have not answered   *)
(* since the barrier was registered.                                         *)
THEOREM SilentOnes == CoordinatorSpec => []WaitsForTheSilent
<1>1. CoordinatorInv => WaitsForTheSilent
  BY Zenon DEF CoordinatorInv
<1> QED
  BY <1>1, CoordinatorInitInv, CoordinatorNextInv, PTL DEF CoordinatorSpec

-----------------------------------------------------------------------------
(* All steps.                                                                *)

(* The initial states satisfy the invariant.                                 *)
LEMMA InitIInv ==
  Init => IInv
<1> SUFFICES ASSUME Init PROVE IInv
  BY Zenon
<1>1. DOMAIN NoBarriers = {}
  BY Zenon DEF NoBarriers
<1>2. TypeOK
  <2>1. /\ <<>> \in Seq(Token) /\ <<>> \in Seq(Result) /\ <<>> \in Seq(Future)
        /\ <<>> \in Seq(Message)
    BY EmptyFacts, Zenon
  <2> QED
    BY <1>1, <2>1, Zenon DEF Init, TypeOK, Phases
<1>3. ContextsInv
  <2>1. ASSUME NEW x \in Contexts
        PROVE  ContextInv(x, "idle", 0, <<>>, <<>>)
    BY EmptyFacts, Zenon DEF ContextInv, TokenInv, CommandInv
  <2>2. \A x \in Contexts : /\ phase[x] = "idle" /\ blocks[x] = 0 /\ tokens[x] = <<>>
                            /\ futures[x] = <<>>
    BY Zenon DEF Init
  <2> QED
    BY <2>1, <2>2, ZenonT(60) DEF ContextsInv
<1>4. WiresInv
  <2>1. \A i \in Instruments : req[i] = <<>> /\ resp[i] = <<>>
    BY Zenon DEF Init
  <2> QED
    BY <2>1, NothingQueued, Zenon DEF WiresInv
<1> QED
  BY <1>2, <1>3, <1>4, Zenon DEF IInv, Init

(* Every step preserves it.                                                  *)
LEMMA NextIInv ==
  IInv /\ [Next]_vars => IInv'
<1> SUFFICES ASSUME IInv, [Next]_vars PROVE IInv'
  BY Zenon
<1>1. ASSUME NEW x \in Contexts, Script(x) PROVE IInv'
  BY <1>1, NextBind, NextScriptEnds, NextScriptFails, NextCallEnqueue, NextCallSync,
     NextParallel, Zenon DEF Script
<1>2. ASSUME NEW x \in Contexts, Wait(x) PROVE IInv'
  BY <1>2, NextDispatch, NextReleaseToken, NextMonitorEnds, NextBlockEnds,
     NextCallReturns, Zenon DEF Wait
<1>3. ASSUME NEW i \in Instruments, Worker(i) PROVE IInv'
  BY <1>3, NextHandleCommand, NextHandleSyncContinue, Zenon DEF Worker
<1>4. ASSUME NEW i \in Instruments, Listener(i) PROVE IInv'
  BY <1>4, NextHandleResponse, NextHandleSyncAck, Zenon DEF Listener
<1>5. CASE UNCHANGED vars
  <2>1. /\ registered' = registered /\ rbarriers' = rbarriers /\ barriers' = barriers
        /\ phase' = phase /\ blocks' = blocks /\ todo' = todo /\ tokens' = tokens
        /\ results' = results /\ futures' = futures /\ req' = req /\ resp' = resp
        /\ waiting' = waiting /\ server' = server
    BY <1>5, Zenon DEF vars
  <2>2. TypeOK'
    BY <2>1, Zenon DEF IInv, TypeOK
  <2>3. ContextsInv'
    BY <2>1, Zenon DEF IInv, ContextsInv
  <2>4. WiresInv'
    BY <2>1, Zenon DEF IInv, WiresInv
  <2> QED
    BY <2>1, <2>2, <2>3, <2>4, Zenon DEF IInv
<1> QED
  BY <1>1, <1>2, <1>3, <1>4, <1>5, NextRemoveInstrument, ZenonT(60) DEF Next

(* The invariant of the protocol: what a script run has dispatched, noted    *)
(* and released, and what is in the queues, fit together at every moment.    *)
THEOREM Invariance == Spec => []IInv
<1> QED
  BY InitIInv, NextIInv, PTL DEF Spec

-----------------------------------------------------------------------------
(* Barriers.                                                                 *)

(* send_sync_continue for a token follows the answers of all its commands,   *)
(* in measure jobs (process_tokens_and_wait) and in measure commands         *)
(* (execute_parallel_buffer), whatever the other scripts do.                 *)
THEOREM ContinueFollowsTheAnswers == Spec => []ContinueMeansComplete
<1>1. IInv => ContinueMeansComplete
  BY Zenon DEF IInv, WiresInv, ContinueInv, Released, ContinueMeansComplete
<1> QED
  BY <1>1, Invariance, PTL

(* execute_parallel_buffer waits for every future of its block before the    *)
(* script goes on, so that a parallel block of a measure command is a        *)
(* barrier across the instruments.                                           *)
THEOREM ParallelWaits == Spec => []ParallelIsABarrier
<1>1. IInv => ParallelIsABarrier
  <2> SUFFICES ASSUME IInv, NEW x \in Commands, NEW n \in DOMAIN futures[x],
                      NEW m \in DOMAIN futures[x],
                      futures[x][n].block < futures[x][m].block, futures[x][n].part
               PROVE  ~Queued(x, n)
    BY Zenon DEF ParallelIsABarrier, Barrier
  <2> DEFINE F == futures[x]
             i == futures[x][n].inst
  <2>1. x \in Contexts /\ TypeOK
    BY Zenon DEF Contexts, IInv
  <2>2. F \in Seq(Future) /\ blocks[x] \in Nat
    BY <2>1, Zenon DEF TypeOK
  <2>3. F[n] \in Future /\ F[m] \in Future
    BY <2>2
  <2>4. F[n].block \in Nat /\ F[m].block \in Nat /\ i \in Instruments
    BY <2>3, Zenon DEF Future
  <2>5. ContextInv(x, phase[x], blocks[x], tokens[x], F)
    BY <2>1, Zenon DEF IInv, ContextsInv
  <2>6. F[m].block \in 1..blocks[x]
    BY <2>5, Zenon DEF ContextInv, TokenInv
  <2>7. F[n].block < blocks[x]
    BY <2>2, <2>4, <2>6, SMTT(30)
  <2>8. F[n].state # "unset"
    BY <2>5, <2>7, Zenon DEF ContextInv, CommandInv
  <2>9. WireInv(i, req[i], resp[i], futures)
    BY <2>4, ZenonT(60) DEF IInv, WiresInv
  <2> QED
    BY <2>8, <2>9, ZenonT(60) DEF WireInv, Queued
<1> QED
  BY <1>1, Invariance, PTL

-----------------------------------------------------------------------------
(* Each command of the context has at most one result; a result may be for   *)
(* none.                                                                     *)
ResultInv(F, R) ==
  /\ \A r \in DOMAIN R : R[r].for \in DOMAIN F \cup {0}
  /\ \A r, s \in DOMAIN R : R[r].for = R[s].for /\ R[r].for # 0 => r = s

(* A job notes a result for each command it dispatches.  While no instrument *)
(* has been removed, the k-th index of a token is that of the k-th future,   *)
(* and a result that is not filled in belongs to a token.                    *)
JobInv(whole, p, T, F, R) ==
  /\ \A n \in DOMAIN F : \E r \in DOMAIN R : R[r].for = n
  /\ p = "done" => T = <<>>
  /\ \A k \in DOMAIN T : \A j \in DOMAIN T[k].inds : T[k].inds[j] \in DOMAIN R
  /\ whole =>
       /\ \A r \in DOMAIN R : R[r].from \in {0, R[r].for}
       /\ \A k \in DOMAIN T :
            /\ DOMAIN T[k].inds = DOMAIN T[k].futs
            /\ \A j \in DOMAIN T[k].futs : R[T[k].inds[j]].for = T[k].futs[j]
       /\ p # "failed" =>
            \A r \in DOMAIN R : R[r].from = 0 =>
              \E k \in DOMAIN T : \E j \in DOMAIN T[k].inds : T[k].inds[j] = r

(* A measure command appends its results when it has waited: a command has   *)
(* its result or is in the token.                                            *)
CommandResults(T, F, R) ==
  /\ \A r \in DOMAIN R : R[r].from \in {0, R[r].for}
  /\ \A n \in DOMAIN F :
       \/ \E r \in DOMAIN R : R[r].for = n
       \/ \E k \in DOMAIN T : \E j \in DOMAIN T[k].futs : T[k].futs[j] = n
  /\ \A k \in DOMAIN T : \A j \in DOMAIN T[k].futs :
       /\ \A r \in DOMAIN R : R[r].for # T[k].futs[j]
       /\ \A l \in DOMAIN T[k].futs : T[k].futs[j] = T[k].futs[l] => j = l

CollectedInv(x, whole, p, T, F, R) ==
  /\ ResultInv(F, R)
  /\ x \in Jobs => JobInv(whole, p, T, F, R)
  /\ x \in Commands => CommandResults(T, F, R)

ResultsInv ==
  \A x \in Contexts :
    CollectedInv(x, registered = Instruments, phase[x], tokens[x], futures[x], results[x])

-----------------------------------------------------------------------------
(* What a step does to the results of a context.                             *)

(* One more result: for none, or for a command that has none yet.            *)
LEMMA ResultNoted ==
  ASSUME NEW F, NEW R, NEW G, NEW S, ResultInv(F, R), DOMAIN F \subseteq DOMAIN G,
         NEW r0, NEW o, OneMore(S, R, r0, o), o.for \in DOMAIN G \cup {0},
         \A r \in DOMAIN R : R[r].for = o.for => o.for = 0
  PROVE  ResultInv(G, S)
<1>1. /\ DOMAIN S = DOMAIN R \cup {r0} /\ S[r0] = o
      /\ \A r \in DOMAIN R : S[r] = R[r]
  BY Zenon DEF OneMore
<1>2. \A r \in DOMAIN S : S[r].for \in DOMAIN G \cup {0}
  BY <1>1, Zenon DEF ResultInv
<1>3. ASSUME NEW r \in DOMAIN S, NEW s \in DOMAIN S, S[r].for = S[s].for, S[r].for # 0
      PROVE  r = s
  BY <1>1, <1>3, Zenon DEF ResultInv
<1> QED
  BY <1>2, <1>3, Zenon DEF ResultInv

(* The results stay and futures are added.                                   *)
LEMMA ResultsStay ==
  ASSUME NEW F, NEW R, NEW G, ResultInv(F, R), DOMAIN F \subseteq DOMAIN G
  PROVE  ResultInv(G, R)
BY Zenon DEF ResultInv

(* context:parallel of a job: a token with no indices and no futures.        *)
LEMMA JobBegins ==
  ASSUME NEW w, NEW p \in {"parse", "dispatch"}, NEW T, NEW F, NEW R, NEW U, NEW a, NEW t,
         JobInv(w, "parse", T, F, R), OneMore(U, T, a, t),
         DOMAIN t.inds = {}, DOMAIN t.futs = {}, a \notin DOMAIN T
  PROVE  JobInv(w, p, U, F, R)
<1>1. \A k \in DOMAIN T : U[k] = T[k] /\ k \in DOMAIN U
  BY Zenon DEF OneMore
<1>2. ASSUME NEW k \in DOMAIN U
      PROVE  \/ k \in DOMAIN T /\ U[k] = T[k]
             \/ DOMAIN U[k].inds = {} /\ DOMAIN U[k].futs = {}
  BY <1>2, Zenon DEF OneMore
<1>3. \A k \in DOMAIN U : \A j \in DOMAIN U[k].inds : U[k].inds[j] \in DOMAIN R
  BY <1>2, Zenon DEF JobInv
<1>4. ASSUME w, NEW k \in DOMAIN U
      PROVE  /\ DOMAIN U[k].inds = DOMAIN U[k].futs
             /\ \A j \in DOMAIN U[k].futs : R[U[k].inds[j]].for = U[k].futs[j]
  <2>1. CASE k \in DOMAIN T /\ U[k] = T[k]
    BY <1>4, <2>1, SMTT(30) DEF JobInv
  <2> QED
    BY <1>2, <2>1, Zenon
<1>5. ASSUME w, NEW r \in DOMAIN R, R[r].from = 0
      PROVE  \E k \in DOMAIN U : \E j \in DOMAIN U[k].inds : U[k].inds[j] = r
  <2>1. PICK k \in DOMAIN T : \E j \in DOMAIN T[k].inds : T[k].inds[j] = r
    BY <1>5, Zenon DEF JobInv
  <2> QED
    BY <1>1, <2>1, Zenon
<1> QED
  BY <1>3, <1>4, <1>5, Zenon DEF JobInv

(* A job dispatches a command: the token in the place N has one more index   *)
(* r0, that of the result o, and one more future n0.                         *)
LEMMA JobGrows ==
  ASSUME NEW w, NEW p \in {"parse", "dispatch"}, NEW T, NEW F, NEW R, NEW U, NEW G, NEW S,
         JobInv(w, "dispatch", T, F, R), NEW N, Replaced(U, T, N),
         NEW r0, NEW n0, NEW a, NEW c, NEW o,
         OneMore(U[N].inds, T[N].inds, a, r0), OneMore(U[N].futs, T[N].futs, c, n0),
         DOMAIN T[N].inds = DOMAIN T[N].futs => a = c,
         OneMore(S, R, r0, o), o.for = n0, o.from = 0,
         DOMAIN G = DOMAIN F \cup {n0}
  PROVE  JobInv(w, p, U, G, S)
<1> DEFINE ei == T[N].inds
           ef == T[N].futs
           ti == U[N].inds
           tf == U[N].futs
<1>1. /\ N \in DOMAIN T /\ DOMAIN U = DOMAIN T
      /\ \A k \in DOMAIN T : k # N => U[k] = T[k]
  BY Zenon DEF Replaced
<1>2. /\ DOMAIN ti = DOMAIN ei \cup {a} /\ ti[a] = r0
      /\ \A j \in DOMAIN ei : ti[j] = ei[j]
  BY Zenon DEF OneMore
<1>3. /\ DOMAIN tf = DOMAIN ef \cup {c} /\ tf[c] = n0
      /\ \A j \in DOMAIN ef : tf[j] = ef[j]
  BY Zenon DEF OneMore
<1>4. /\ DOMAIN S = DOMAIN R \cup {r0} /\ S[r0].for = n0 /\ S[r0].from = 0
      /\ \A r \in DOMAIN R : S[r] = R[r]
  BY Zenon DEF OneMore
<1>5. /\ T[N].inds = ei /\ T[N].futs = ef /\ U[N].inds = ti /\ U[N].futs = tf
      /\ DOMAIN ei = DOMAIN ef => a = c
  BY Zenon
<1> HIDE DEF ei, ef, ti, tf
<1>6. \A n \in DOMAIN G : \E r \in DOMAIN S : S[r].for = n
  <2>1. ASSUME NEW n \in DOMAIN F PROVE \E r \in DOMAIN S : S[r].for = n
    <3>1. PICK r \in DOMAIN R : R[r].for = n
      BY <2>1, Zenon DEF JobInv
    <3> QED
      BY <1>4, <3>1, Zenon
  <2> QED
    BY <1>4, <2>1, Zenon
<1>7. \A k \in DOMAIN U : \A j \in DOMAIN U[k].inds : U[k].inds[j] \in DOMAIN S
  <2>1. \A k \in DOMAIN T : \A j \in DOMAIN T[k].inds : T[k].inds[j] \in DOMAIN S
    BY <1>4, Zenon DEF JobInv
  <2>2. \A j \in DOMAIN ti : ti[j] \in DOMAIN S
    BY <1>1, <1>2, <1>4, <1>5, <2>1, Zenon
  <2> QED
    BY <1>1, <1>5, <2>1, <2>2, Zenon
<1>8. ASSUME w
      PROVE  \A r \in DOMAIN S : S[r].from \in {0, S[r].for}
  BY <1>4, <1>8, Zenon DEF JobInv
<1>9. ASSUME w, NEW k \in DOMAIN U
      PROVE  /\ DOMAIN U[k].inds = DOMAIN U[k].futs
             /\ \A j \in DOMAIN U[k].futs : S[U[k].inds[j]].for = U[k].futs[j]
  <2>1. \A l \in DOMAIN T :
          /\ DOMAIN T[l].inds = DOMAIN T[l].futs
          /\ \A j \in DOMAIN T[l].futs : /\ R[T[l].inds[j]].for = T[l].futs[j]
                                         /\ T[l].inds[j] \in DOMAIN R
    BY <1>9, ZenonT(60) DEF JobInv
  <2>2. CASE k # N
    BY <1>1, <1>4, <1>9, <2>1, <2>2
  <2>3. CASE k = N
    <3>1. /\ DOMAIN ei = DOMAIN ef
          /\ \A j \in DOMAIN ef : R[ei[j]].for = ef[j] /\ ei[j] \in DOMAIN R
      BY <1>1, <1>5, <2>1, Zenon
    <3>2. DOMAIN ti = DOMAIN tf
      BY <1>2, <1>3, <1>5, <3>1, Zenon
    <3>3. \A j \in DOMAIN tf : S[ti[j]].for = tf[j]
      BY <1>2, <1>3, <1>4, <1>5, <3>1
    <3> QED
      BY <1>5, <2>3, <3>2, <3>3, Zenon
  <2> QED
    BY <2>2, <2>3, Zenon
<1>10. ASSUME w, NEW r \in DOMAIN S, S[r].from = 0
       PROVE  \E k \in DOMAIN U : \E j \in DOMAIN U[k].inds : U[k].inds[j] = r
  <2>1. CASE r = r0
    BY <1>1, <1>2, <1>5, <2>1, Zenon
  <2>2. CASE r \in DOMAIN R
    <3>1. R[r].from = 0
      BY <1>4, <1>10, <2>2, Zenon
    <3>2. PICK k \in DOMAIN T : \E j \in DOMAIN T[k].inds : T[k].inds[j] = r
      BY <1>10, <2>2, <3>1, Zenon DEF JobInv
    <3>3. PICK j \in DOMAIN T[k].inds : T[k].inds[j] = r
      BY <3>2, Zenon
    <3>4. CASE k = N
      BY <1>1, <1>2, <1>5, <3>3, <3>4, ZenonT(60)
    <3>5. CASE k # N
      BY <1>1, <3>3, <3>5, Zenon
    <3> QED
      BY <3>4, <3>5, Zenon
  <2> QED
    BY <1>4, <1>10, <2>1, <2>2, Zenon
<1> QED
  BY <1>6, <1>7, <1>8, <1>9, <1>10, ZenonT(60) DEF JobInv

(* The instrument of the command is gone: there is an index and no future.   *)
LEMMA JobMisses ==
  ASSUME NEW w, ~w, NEW p \in {"parse", "dispatch"}, NEW T, NEW F, NEW R, NEW U, NEW S,
         JobInv(w, "dispatch", T, F, R), NEW N, Replaced(U, T, N), NEW a, NEW r0, NEW o,
         OneMore(U[N].inds, T[N].inds, a, r0), OneMore(S, R, r0, o), r0 \notin DOMAIN R
  PROVE  JobInv(w, p, U, F, S)
<1>1. /\ DOMAIN S = DOMAIN R \cup {r0}
      /\ \A r \in DOMAIN R : S[r] = R[r]
  BY Zenon DEF OneMore
<1>2. \A n \in DOMAIN F : \E r \in DOMAIN S : S[r].for = n
  BY <1>1, Zenon DEF JobInv
<1>3. \A k \in DOMAIN T : \A j \in DOMAIN T[k].inds : T[k].inds[j] \in DOMAIN S
  BY <1>1, Zenon DEF JobInv
<1>4. \A j \in DOMAIN U[N].inds : U[N].inds[j] \in DOMAIN S
  BY <1>1, <1>3, Zenon DEF OneMore, Replaced
<1>5. \A k \in DOMAIN U : \A j \in DOMAIN U[k].inds : U[k].inds[j] \in DOMAIN S
  BY <1>3, <1>4, Zenon DEF Replaced
<1> QED
  BY <1>2, <1>5, Zenon DEF JobInv

(* process_tokens_and_wait releases the first token: the k-th response goes  *)
(* to the k-th index.                                                        *)
LEMMA JobReleases ==
  ASSUME NEW w, NEW T \in Seq(Token), NEW F, NEW R \in Seq(Result), T # <<>>,
         JobInv(w, "wait", T, F, R), 0 \notin DOMAIN F,
         \A k \in DOMAIN T : \A j \in DOMAIN T[k].futs : T[k].futs[j] \in DOMAIN F
  PROVE  /\ JobInv(w, "wait", Tail(T), F, FillIn(R, Head(T)))
         /\ ResultInv(F, R) => ResultInv(F, FillIn(R, Head(T)))
<1> DEFINE V == Tail(T)
           h == Head(T)
           S == FillIn(R, h)
<1>1. /\ \A k \in DOMAIN V : k \in Nat /\ k + 1 \in DOMAIN T /\ V[k] = T[k + 1]
      /\ \A k \in DOMAIN T : k = 1 \/ (k - 1 \in DOMAIN V /\ V[k - 1] = T[k])
      /\ h = T[1] /\ 1 \in DOMAIN T /\ h \in Token
  BY TailFacts, ZenonT(60)
<1>2. /\ DOMAIN S = DOMAIN R
      /\ \A r \in DOMAIN R :
           /\ S[r].for = R[r].for
           /\ \/ S[r].from = R[r].from /\ \A k \in DOMAIN h.futs : h.inds[k] # r
              \/ \E k \in DOMAIN h.futs : h.inds[k] = r /\ S[r].from = h.futs[k]
  BY <1>1, FillInFacts, ZenonT(60)
<1>3. \A k \in DOMAIN T : \A j \in DOMAIN T[k].futs : T[k].futs[j] # 0
  BY Zenon
<1>4. JobInv(w, "wait", T, F, R)
  BY Zenon
<1> HIDE DEF V, S, h
<1>5. ResultInv(F, R) => ResultInv(F, S)
  BY ONLY <1>2, ZenonT(60) DEF ResultInv
<1>6. JobInv(w, "wait", V, F, S)
  <2>1. \A n \in DOMAIN F : \E r \in DOMAIN S : S[r].for = n
    BY ONLY <1>2, <1>4 DEF JobInv
  <2>2. \A k \in DOMAIN V : \A j \in DOMAIN V[k].inds : V[k].inds[j] \in DOMAIN S
    BY ONLY <1>1, <1>2, <1>4 DEF JobInv
  <2>3. ASSUME w
        PROVE  \A k \in DOMAIN T :
                 /\ DOMAIN T[k].inds = DOMAIN T[k].futs
                 /\ \A j \in DOMAIN T[k].futs : R[T[k].inds[j]].for = T[k].futs[j]
                 /\ \A j \in DOMAIN T[k].futs : T[k].inds[j] \in DOMAIN R
    BY ONLY <1>4, <2>3, Zenon DEF JobInv
  <2>4. ASSUME w, NEW r \in DOMAIN S PROVE S[r].from \in {0, S[r].for}
    <3>1. CASE S[r].from = R[r].from
      BY ONLY <1>2, <1>4, <2>4, <3>1, Zenon DEF JobInv
    <3>2. ASSUME NEW k \in DOMAIN h.futs, h.inds[k] = r, S[r].from = h.futs[k]
          PROVE  S[r].from = S[r].for
      BY ONLY <1>1, <1>2, <2>3, <2>4, <3>2, SMTT(30)
    <3> QED
      BY ONLY <1>2, <2>4, <3>1, <3>2, Zenon
  <2>5. ASSUME w, NEW k \in DOMAIN V
        PROVE  /\ DOMAIN V[k].inds = DOMAIN V[k].futs
               /\ \A j \in DOMAIN V[k].futs : S[V[k].inds[j]].for = V[k].futs[j]
    BY ONLY <1>1, <1>2, <2>3, <2>5
  <2>6. ASSUME w, NEW r \in DOMAIN S, S[r].from = 0
        PROVE  \E k \in DOMAIN V : \E j \in DOMAIN V[k].inds : V[k].inds[j] = r
    <3>1. R[r].from = 0 /\ r \in DOMAIN R /\ \A k \in DOMAIN h.futs : h.inds[k] # r
      BY ONLY <1>1, <1>2, <1>3, <2>6, ZenonT(60)
    <3>2. PICK k \in DOMAIN T : \E j \in DOMAIN T[k].inds : T[k].inds[j] = r
      BY ONLY <1>4, <2>6, <3>1, Zenon DEF JobInv
    <3>3. k # 1
      BY ONLY <1>1, <2>3, <2>6, <3>1, <3>2, Zenon
    <3> QED
      BY ONLY <1>1, <3>2, <3>3
  <2> QED
    BY ONLY <2>1, <2>2, <2>4, <2>5, <2>6, Zenon DEF JobInv
<1> QED
  BY <1>5, <1>6, Zenon DEF V, S, h

(* A measure command begins a parallel block.                                *)
LEMMA CommandBegins ==
  ASSUME NEW F, NEW R, NEW U, CommandResults(<<>>, F, R),
         \A k \in DOMAIN U : DOMAIN U[k].futs = {}
  PROVE  CommandResults(U, F, R)
BY EmptyFacts, Zenon DEF CommandResults

(* context:call for an instrument that is not registered: an error result.   *)
LEMMA CommandMisses ==
  ASSUME NEW F, NEW R, NEW S, NEW r0, NEW o, CommandResults(<<>>, F, R),
         OneMore(S, R, r0, o), o.from \in {0, o.for}
  PROVE  CommandResults(<<>>, F, S)
<1>1. \A r \in DOMAIN S : S[r].from \in {0, S[r].for}
  BY Zenon DEF CommandResults, OneMore
<1>2. \A n \in DOMAIN F : \E r \in DOMAIN S : S[r].for = n
  BY EmptyFacts, ZenonT(60) DEF CommandResults, OneMore
<1> QED
  BY ONLY EmptyFacts, <1>1, <1>2, Zenon DEF CommandResults

(* A measure command sends a command: the token has one more future.         *)
LEMMA CommandGrows ==
  ASSUME NEW T, NEW F, NEW R, NEW U, NEW G, NEW c, NEW n0,
         CommandResults(T, F, R), ResultInv(F, R), n0 \notin DOMAIN F \cup {0},
         DOMAIN T = {1}, DOMAIN U = {1}, OneMore(U[1].futs, T[1].futs, c, n0),
         c \notin DOMAIN T[1].futs, DOMAIN G = DOMAIN F \cup {n0},
         \A j \in DOMAIN T[1].futs : T[1].futs[j] \in DOMAIN F
  PROVE  CommandResults(U, G, R)
<1> DEFINE ef == T[1].futs
           tf == U[1].futs
<1>1. /\ DOMAIN tf = DOMAIN ef \cup {c} /\ tf[c] = n0
      /\ \A j \in DOMAIN ef : tf[j] = ef[j]
  BY Zenon DEF OneMore
<1>2. /\ \A n \in DOMAIN F :
           \/ \E r \in DOMAIN R : R[r].for = n
           \/ \E j \in DOMAIN ef : ef[j] = n
      /\ \A j \in DOMAIN ef :
           /\ \A r \in DOMAIN R : R[r].for # ef[j]
           /\ \A l \in DOMAIN ef : ef[j] = ef[l] => j = l
           /\ ef[j] \in DOMAIN F
  BY ZenonT(60) DEF CommandResults
<1>3. \A r \in DOMAIN R : R[r].for # n0 /\ R[r].from \in {0, R[r].for}
  BY DEF ResultInv, CommandResults
<1>4. /\ n0 \notin DOMAIN F /\ DOMAIN G = DOMAIN F \cup {n0} /\ c \notin DOMAIN ef
      /\ DOMAIN U = {1} /\ U[1].futs = tf
  BY Zenon
<1> HIDE DEF ef, tf
<1>5. \A n \in DOMAIN G :
        \/ \E r \in DOMAIN R : R[r].for = n
        \/ \E j \in DOMAIN tf : tf[j] = n
  BY ONLY <1>1, <1>2, <1>4, Zenon
<1>6. \A j \in DOMAIN tf :
        /\ \A r \in DOMAIN R : R[r].for # tf[j]
        /\ \A l \in DOMAIN tf : tf[j] = tf[l] => j = l
  BY ONLY <1>1, <1>2, <1>3, <1>4, SMTT(30)
<1> QED
  BY ONLY <1>3, <1>4, <1>5, <1>6, SMTT(30) DEF CommandResults

(* send_command returns, and its one command has a result.                   *)
LEMMA CommandReturns ==
  ASSUME NEW T, NEW F, NEW R, NEW S, NEW r0, NEW o,
         CommandResults(T, F, R), DOMAIN T = {1}, DOMAIN T[1].futs = {1},
         OneMore(S, R, r0, o), o.for = T[1].futs[1], o.from \in {0, o.for}
  PROVE  CommandResults(<<>>, F, S)
<1>1. \A r \in DOMAIN S : S[r].from \in {0, S[r].for}
  BY Zenon DEF CommandResults, OneMore
<1>2. \A n \in DOMAIN F : n = o.for \/ \E r \in DOMAIN R : R[r].for = n
  BY DEF CommandResults
<1>3. \A n \in DOMAIN F : \E r \in DOMAIN S : S[r].for = n
  BY <1>2, ZenonT(60) DEF OneMore
<1> QED
  BY ONLY EmptyFacts, <1>1, <1>3, Zenon DEF CommandResults

(* The places of a concatenation.                                            *)
LEMMA ConcatFacts ==
  ASSUME NEW S, NEW s \in Seq(S), NEW u \in Seq(S)
  PROVE  /\ \A k \in DOMAIN (s \o u) :
              \/ k \in DOMAIN s /\ (s \o u)[k] = s[k]
              \/ k \notin DOMAIN s /\ k - Len(s) \in DOMAIN u /\ (s \o u)[k] = u[k - Len(s)]
         /\ \A k \in DOMAIN s : k \in DOMAIN (s \o u) /\ (s \o u)[k] = s[k]
         /\ \A k \in DOMAIN u : /\ k + Len(s) \in DOMAIN (s \o u)
                                /\ (s \o u)[k + Len(s)] = u[k]
         /\ \A k, l \in DOMAIN (s \o u) : k - Len(s) = l - Len(s) => k = l
  BY SMTT(30)

(* execute_parallel_buffer returns: a result for each future of the token,   *)
(* with its response.                                                        *)
LEMMA CommandBlockEnds ==
  ASSUME NEW T, NEW F, NEW R \in Seq(Result), NEW ef \in Seq(Nat),
         CommandResults(T, F, R), ResultInv(F, R), DOMAIN T = {1}, ef = T[1].futs,
         \A j \in DOMAIN ef : ef[j] \in DOMAIN F
  PROVE  LET S == R \o [k \in DOMAIN ef |-> [for |-> ef[k], from |-> ef[k]]]
         IN  CommandResults(<<>>, F, S) /\ ResultInv(F, S)
<1> DEFINE Q == [k \in DOMAIN ef |-> [for |-> ef[k], from |-> ef[k]]]
           S == R \o Q
<1>1. /\ \A j \in DOMAIN ef :
           /\ ef[j] \in DOMAIN F
           /\ \A r \in DOMAIN R : R[r].for # ef[j]
           /\ \A l \in DOMAIN ef : ef[j] = ef[l] => j = l
      /\ \A n \in DOMAIN F :
           \/ \E r \in DOMAIN R : R[r].for = n
           \/ \E j \in DOMAIN ef : ef[j] = n
  BY DEF CommandResults
<1>2. /\ Q \in Seq(Result) /\ DOMAIN Q = DOMAIN ef
      /\ \A j \in DOMAIN ef : Q[j].for = ef[j] /\ Q[j].from = ef[j]
  <2>1. DOMAIN ef = 1..Len(ef) /\ Len(ef) \in Nat /\ \A j \in DOMAIN ef : ef[j] \in Nat
    OBVIOUS
  <2>2. Q \in [1..Len(ef) -> Result]
    BY ONLY <2>1, Zenon DEF Result
  <2>3. Q \in Seq(Result)
    BY ONLY <2>1, <2>2
  <2> QED
    BY ONLY <2>3, Zenon
<1>3. ResultInv(F, R) /\ CommandResults(T, F, R) /\ R \in Seq(Result)
  BY Zenon
<1> HIDE DEF Q
<1>4. /\ \A r \in DOMAIN S :
           \/ r \in DOMAIN R /\ S[r] = R[r]
           \/ r \notin DOMAIN R /\ r - Len(R) \in DOMAIN Q /\ S[r] = Q[r - Len(R)]
      /\ \A r \in DOMAIN R : r \in DOMAIN S /\ S[r] = R[r]
      /\ \A j \in DOMAIN Q : j + Len(R) \in DOMAIN S /\ S[j + Len(R)] = Q[j]
      /\ \A r, s \in DOMAIN S : r - Len(R) = s - Len(R) => r = s
  BY ONLY <1>2, <1>3, ConcatFacts, Zenon
<1> HIDE DEF S
<1>5. ResultInv(F, S)
  <2>1. \A r \in DOMAIN S : S[r].for \in DOMAIN F \cup {0}
    BY ONLY <1>1, <1>2, <1>3, <1>4, SMTT(30) DEF ResultInv
  <2>2. ASSUME NEW r \in DOMAIN S, NEW s \in DOMAIN S, S[r].for = S[s].for, S[r].for # 0
        PROVE  r = s
    <3>1. CASE r \in DOMAIN R /\ S[r] = R[r] /\ s \in DOMAIN R /\ S[s] = R[s]
      BY ONLY <1>3, <2>2, <3>1, Zenon DEF ResultInv
    <3>2. CASE /\ r - Len(R) \in DOMAIN Q /\ S[r] = Q[r - Len(R)]
               /\ s - Len(R) \in DOMAIN Q /\ S[s] = Q[s - Len(R)]
      <4>1. r - Len(R) = s - Len(R)
        BY ONLY <1>1, <1>2, <2>2, <3>2, SMTT(30)
      <4> QED
        BY ONLY <1>4, <2>2, <4>1, Zenon
    <3>3. ASSUME NEW u \in DOMAIN R, NEW j \in DOMAIN Q PROVE R[u].for # Q[j].for
      BY ONLY <1>1, <1>2, <3>3, SMTT(30)
    <3> QED
      BY ONLY <1>4, <2>2, <3>1, <3>2, <3>3, SMTT(30)
  <2> QED
    BY ONLY <2>1, <2>2, Zenon DEF ResultInv
<1>6. CommandResults(<<>>, F, S)
  <2>1. \A r \in DOMAIN S : S[r].from \in {0, S[r].for}
    <3>1. \A r \in DOMAIN R : R[r].from \in {0, R[r].for}
      BY ONLY <1>3, Zenon DEF CommandResults
    <3>2. \A j \in DOMAIN Q : Q[j].from \in {0, Q[j].for}
      BY ONLY <1>2, Zenon
    <3> QED
      BY ONLY <1>4, <3>1, <3>2, Zenon
  <2>2. ASSUME NEW n \in DOMAIN F PROVE \E r \in DOMAIN S : S[r].for = n
    <3>1. ASSUME NEW r \in DOMAIN R, R[r].for = n PROVE r \in DOMAIN S /\ S[r].for = n
      BY ONLY <1>4, <3>1, Zenon
    <3>2. ASSUME NEW j \in DOMAIN ef, ef[j] = n
          PROVE  j + Len(R) \in DOMAIN S /\ S[j + Len(R)].for = n
      BY ONLY <1>2, <1>4, <3>2, Zenon
    <3> QED
      BY ONLY <1>1, <2>2, <3>1, <3>2, Zenon
  <2> QED
    BY ONLY EmptyFacts, <2>1, <2>2, Zenon DEF CommandResults
<1> QED
  BY <1>5, <1>6, Zenon DEF S, Q

-----------------------------------------------------------------------------
(* Steps of a script run.                                                    *)

(* g is f with the value v for the context x.                                *)
Sets(g, f, x, v) == g[x] = v /\ \A y \in Contexts : y # x => g[y] = f[y]

(* EXCEPT sets one value.                                                    *)
LEMMA Updated ==
  ASSUME NEW S, NEW f \in [Contexts -> S], NEW x \in Contexts, NEW v, NEW g,
         g = [f EXCEPT ![x] = v]
  PROVE  Sets(g, f, x, v)
BY Zenon DEF Sets

(* A function that stays as it is sets the old value.                        *)
LEMMA NotUpdated ==
  ASSUME NEW f, NEW x, NEW g, g = f
  PROVE  Sets(g, f, x, f[x])
BY Zenon DEF Sets

(* What a step may use.                                                      *)
LEMMA Before ==
  ASSUME IInv, ResultsInv, NEW x \in Contexts
  PROVE  /\ phase \in [Contexts -> Phases] /\ tokens \in [Contexts -> Seq(Token)]
         /\ futures \in [Contexts -> Seq(Future)] /\ results \in [Contexts -> Seq(Result)]
         /\ tokens[x] \in Seq(Token) /\ futures[x] \in Seq(Future)
         /\ results[x] \in Seq(Result)
         /\ TokenInv(phase[x], blocks[x], tokens[x], futures[x])
         /\ x \in Commands => CommandInv(phase[x], blocks[x], tokens[x], futures[x])
         /\ CollectedInv(x, registered = Instruments, phase[x], tokens[x], futures[x],
                         results[x])
<1>1. TypeOK /\ ContextInv(x, phase[x], blocks[x], tokens[x], futures[x])
  BY Zenon DEF IInv, ContextsInv
<1>2. /\ phase \in [Contexts -> Phases] /\ tokens \in [Contexts -> Seq(Token)]
      /\ futures \in [Contexts -> Seq(Future)] /\ results \in [Contexts -> Seq(Result)]
  BY <1>1, Zenon DEF TypeOK
<1> QED
  BY <1>1, <1>2, ZenonT(60) DEF ContextInv, ResultsInv

(* A step of the context x leaves the others alone.                          *)
LEMMA ContextOnly ==
  ASSUME ResultsInv, registered' = registered, NEW x \in Contexts,
         NEW p, NEW T, NEW F, NEW R,
         Sets(phase', phase, x, p), Sets(tokens', tokens, x, T),
         Sets(futures', futures, x, F), Sets(results', results, x, R),
         CollectedInv(x, registered = Instruments, p, T, F, R)
  PROVE  ResultsInv'
<1> SUFFICES ASSUME NEW y \in Contexts
             PROVE  CollectedInv(y, registered = Instruments, phase'[y], tokens'[y],
                                 futures'[y], results'[y])
  BY Zenon DEF ResultsInv
<1>1. CollectedInv(y, registered = Instruments, phase[y], tokens[y], futures[y], results[y])
  BY Zenon DEF ResultsInv
<1>2. CASE y = x
  BY <1>2, Zenon DEF Sets
<1>3. CASE y # x
  BY <1>1, <1>3, Zenon DEF Sets
<1> QED
  BY <1>2, <1>3, Zenon

(* The script begins, ends or fails, or its monitor ends: a phase of a       *)
(* measure command without a token, or of a job.                             *)
LEMMA PhaseOnly ==
  ASSUME NEW x, NEW w, NEW p, NEW p2, NEW T, NEW F, NEW R, CollectedInv(x, w, p, T, F, R),
         p # "failed", p2 = "done" => T = <<>>
  PROVE  CollectedInv(x, w, p2, T, F, R)
<1>1. ASSUME x \in Jobs PROVE JobInv(w, p2, T, F, R)
  BY <1>1, ZenonT(60) DEF CollectedInv, JobInv
<1> QED
  BY <1>1, Zenon DEF CollectedInv

(* The script starts.                                                        *)
LEMMA ResultsBind ==
  ASSUME IInv, ResultsInv, NEW x \in Contexts, bind_runtime_context(x)
  PROVE  ResultsInv'
<1> DEFINE p == IF x \in Commands /\ registered = {} THEN "failed" ELSE "parse"
<1>1. /\ phase[x] = "idle" /\ phase' = [phase EXCEPT ![x] = p]
      /\ UNCHANGED <<registered, tokens, results, futures>>
  BY Zenon DEF bind_runtime_context
<1>2. p # "done" /\ phase[x] # "failed"
  BY <1>1, Zenon
<1> HIDE DEF p
<1>3. CollectedInv(x, registered = Instruments, p, tokens[x], futures[x], results[x])
  BY <1>2, Before, PhaseOnly, Zenon
<1>4. /\ Sets(phase', phase, x, p) /\ Sets(tokens', tokens, x, tokens[x])
      /\ Sets(futures', futures, x, futures[x]) /\ Sets(results', results, x, results[x])
  BY <1>1, Before, Updated, NotUpdated, Zenon
<1> QED
  BY <1>1, <1>3, <1>4, ContextOnly, Zenon

(* The script returns.                                                       *)
LEMMA ResultsScriptEnds ==
  ASSUME IInv, ResultsInv, NEW x \in Contexts, script_ends(x)
  PROVE  ResultsInv'
<1> DEFINE p == IF x \in Jobs THEN "wait" ELSE "done"
<1>1. /\ phase[x] = "parse" /\ phase' = [phase EXCEPT ![x] = p]
      /\ UNCHANGED <<registered, tokens, results, futures>>
  BY Zenon DEF script_ends
<1>2. p = "done" => tokens[x] = <<>>
  <2>1. p = "done" => x \in Commands
    BY Zenon DEF Contexts
  <2>2. x \in Commands => CommandInv("parse", blocks[x], tokens[x], futures[x])
    BY <1>1, Before, Zenon
  <2>3. x \in Commands => tokens[x] = <<>>
    BY ONLY <2>2, Zenon DEF CommandInv
  <2> QED
    BY <2>1, <2>3, Zenon
<1>3. phase[x] # "failed"
  BY <1>1, Zenon
<1> HIDE DEF p
<1>4. CollectedInv(x, registered = Instruments, p, tokens[x], futures[x], results[x])
  BY <1>2, <1>3, Before, PhaseOnly, Zenon
<1>5. /\ Sets(phase', phase, x, p) /\ Sets(tokens', tokens, x, tokens[x])
      /\ Sets(futures', futures, x, futures[x]) /\ Sets(results', results, x, results[x])
  BY <1>1, Before, Updated, NotUpdated, Zenon
<1> QED
  BY <1>1, <1>4, <1>5, ContextOnly, Zenon

(* What the script dispatched before it failed is not filled in any more.    *)
LEMMA ResultsScriptFails ==
  ASSUME IInv, ResultsInv, NEW x \in Contexts, script_fails(x)
  PROVE  ResultsInv'
<1> DEFINE w == registered = Instruments
           F == futures[x]
           R == results[x]
<1>1. /\ phase[x] = "parse" /\ phase' = [phase EXCEPT ![x] = "failed"]
      /\ tokens' = [tokens EXCEPT ![x] = <<>>]
      /\ UNCHANGED <<registered, results, futures>>
  BY Zenon DEF script_fails
<1>2. CollectedInv(x, w, "parse", tokens[x], F, R)
  BY <1>1, Before, Zenon
<1>3. x \in Commands => tokens[x] = <<>>
  <2>1. x \in Commands => CommandInv("parse", blocks[x], tokens[x], futures[x])
    BY <1>1, Before, Zenon
  <2> QED
    BY ONLY <2>1, Zenon DEF CommandInv
<1> HIDE DEF w, F, R
<1>4. x \in Jobs => JobInv(w, "failed", <<>>, F, R)
  BY ONLY <1>2, EmptyFacts, Zenon DEF CollectedInv, JobInv
<1>5. CollectedInv(x, w, "failed", <<>>, F, R)
  BY <1>2, <1>3, <1>4, Zenon DEF CollectedInv
<1>6. /\ Sets(phase', phase, x, "failed") /\ Sets(tokens', tokens, x, <<>>)
      /\ Sets(futures', futures, x, F) /\ Sets(results', results, x, R)
  BY <1>1, Before, Updated, NotUpdated, Zenon DEF F, R
<1> QED
  BY <1>1, <1>5, <1>6, ContextOnly, Zenon DEF w

(* The job has waited for all its tokens.                                    *)
LEMMA ResultsMonitorEnds ==
  ASSUME IInv, ResultsInv, NEW x \in Contexts, monitor_ends(x)
  PROVE  ResultsInv'
<1>1. /\ phase[x] = "wait" /\ tokens[x] = <<>> /\ phase' = [phase EXCEPT ![x] = "done"]
      /\ UNCHANGED <<registered, tokens, results, futures>>
  BY Zenon DEF monitor_ends
<1>2. phase[x] # "failed"
  BY <1>1, Zenon
<1>3. CollectedInv(x, registered = Instruments, "done", tokens[x], futures[x], results[x])
  BY <1>1, <1>2, Before, PhaseOnly, Zenon
<1>4. /\ Sets(phase', phase, x, "done") /\ Sets(tokens', tokens, x, tokens[x])
      /\ Sets(futures', futures, x, futures[x]) /\ Sets(results', results, x, results[x])
  BY <1>1, Before, Updated, NotUpdated, Zenon
<1> QED
  BY <1>1, <1>3, <1>4, ContextOnly, Zenon

(* A block begins.                                                           *)
LEMMA ResultsParallel ==
  ASSUME IInv, ResultsInv, NEW x \in Contexts, NEW buffer, parallel(x, buffer)
  PROVE  ResultsInv'
<1> DEFINE w == registered = Instruments
           T == tokens[x]
           F == futures[x]
           R == results[x]
           insts == IF x \in Jobs THEN registered ELSE Used(buffer)
           t == [token |-> blocks'[x], insts |-> insts, inds |-> <<>>, futs |-> <<>>]
           U == Append(T, t)
           cmds == IF x \in Jobs THEN PerInstrument(buffer) ELSE InBuffer(buffer)
           p == IF cmds = {} THEN "parse" ELSE "dispatch"
<1>1. /\ phase[x] = "parse" /\ phase' = [phase EXCEPT ![x] = p]
      /\ tokens' = [tokens EXCEPT ![x] = U]
      /\ UNCHANGED <<registered, results, futures>>
  BY Zenon DEF parallel
<1> HIDE DEF cmds, insts
<1>2. p \in {"parse", "dispatch"} /\ DOMAIN t.inds = {} /\ DOMAIN t.futs = {}
  BY SMTT(30)
<1> HIDE DEF t
<1>3. T \in Seq(Token) /\ CollectedInv(x, w, "parse", T, F, R)
  BY <1>1, Before, Zenon
<1>4. x \in Commands => T = <<>>
  <2>1. x \in Commands => CommandInv("parse", blocks[x], T, futures[x])
    BY <1>1, Before, Zenon
  <2> QED
    BY ONLY <2>1, Zenon DEF CommandInv
<1> HIDE DEF w, T, F, R, p
<1>5. OneMore(U, T, Len(T) + 1, t) /\ Len(T) + 1 \notin DOMAIN T
  BY ONLY <1>3 DEF OneMore
<1> HIDE DEF U
<1>6. x \in Jobs => JobInv(w, p, U, F, R)
  BY <1>2, <1>3, <1>5, JobBegins, Zenon DEF CollectedInv
<1>7. ASSUME x \in Commands PROVE CommandResults(U, F, R)
  <2>1. CommandResults(<<>>, F, R)
    BY <1>3, <1>4, <1>7, Zenon DEF CollectedInv
  <2>2. \A k \in DOMAIN U : DOMAIN U[k].futs = {}
    BY ONLY <1>2, <1>4, <1>5, <1>7, EmptyFacts, Zenon DEF OneMore
  <2> QED
    BY <2>1, <2>2, CommandBegins, Zenon
<1>8. CollectedInv(x, w, p, U, F, R)
  BY <1>3, <1>6, <1>7, Zenon DEF CollectedInv
<1>9. /\ Sets(phase', phase, x, p) /\ Sets(tokens', tokens, x, U)
      /\ Sets(futures', futures, x, F) /\ Sets(results', results, x, R)
  BY <1>1, Before, Updated, NotUpdated, Zenon DEF F, R
<1> QED
  BY <1>1, <1>8, <1>9, ContextOnly, Zenon DEF w

(* Places are numbered from one.                                             *)
LEMMA NotZero ==
  ASSUME NEW S, NEW s \in Seq(S)
  PROVE  0 \notin DOMAIN s
  OBVIOUS

(* A script run is a measure job or a measure command.                       *)
LEMMA OneKind ==
  \A x : x \in Jobs => x \notin Commands
  BY ProtocolAssumption, Zenon

(* The number of the next future is new.                                     *)
LEMMA FreshFuture ==
  ASSUME NEW F \in Seq(Future), NEW f
  PROVE  /\ Len(F) + 1 \notin DOMAIN F \cup {0} /\ Len(F) + 1 \in Nat
         /\ DOMAIN Append(F, f) = DOMAIN F \cup {Len(F) + 1}
  OBVIOUS

(* The index of the next result is new.                                      *)
LEMMA FreshResult ==
  ASSUME NEW R \in Seq(Result), NEW o
  PROVE  /\ OneMore(Append(R, o), R, Len(R) + 1, o)
         /\ Len(R) + 1 \notin DOMAIN R /\ Len(R) + 1 \in Nat
  BY SMTT(30) DEF OneMore

(* context:call of a measure command.                                        *)
LEMMA ResultsCallSync ==
  ASSUME IInv, ResultsInv, NEW x \in Contexts, NEW i, call_sync(x, i)
  PROVE  ResultsInv'
<1> DEFINE w == registered = Instruments
           T == tokens[x]
           F == futures[x]
           R == results[x]
           n == Len(F) + 1
           f == [inst |-> i, block |-> blocks'[x], part |-> FALSE, state |-> "unset"]
           t == [token |-> 0, insts |-> {}, inds |-> <<>>, futs |-> <<n>>]
           o == [for |-> 0, from |-> 0]
<1>1. /\ x \in Commands /\ phase[x] = "parse" /\ registered' = registered
      /\ \/ /\ tokens' = [tokens EXCEPT ![x] = <<t>>]
            /\ phase' = [phase EXCEPT ![x] = "wait"]
            /\ futures' = [futures EXCEPT ![x] = Append(F, f)]
            /\ results' = results
         \/ /\ results' = [results EXCEPT ![x] = Append(R, o)]
            /\ UNCHANGED <<tokens, phase, futures>>
  BY ZenonT(60) DEF call_sync, execute, NextId
<1>2. x \notin Jobs
  BY <1>1, ProtocolAssumption, Zenon
<1>3. T = <<>>
  <2>1. CommandInv("parse", blocks[x], T, F)
    BY <1>1, Before, Zenon
  <2> QED
    BY ONLY <2>1, Zenon DEF CommandInv
<1>4. /\ F \in Seq(Future) /\ R \in Seq(Result) /\ ResultInv(F, R)
      /\ CommandResults(<<>>, F, R)
  BY <1>1, <1>3, Before, Zenon DEF CollectedInv
<1>5. /\ DOMAIN <<t>> = {1} /\ <<t>>[1].futs = <<n>>
      /\ DOMAIN <<n>> = {1} /\ <<n>>[1] = n
      /\ o.for = 0 /\ o.from = 0
  BY SMTT(30)
<1> HIDE DEF w, T, F, R, f, t, o
<1>6. /\ n \notin DOMAIN F \cup {0} /\ n \in Nat
      /\ DOMAIN Append(F, f) = DOMAIN F \cup {n}
      /\ OneMore(Append(R, o), R, Len(R) + 1, o)
  BY <1>4, FreshFuture, FreshResult, Zenon
<1> HIDE DEF n
<1>7. CASE /\ tokens' = [tokens EXCEPT ![x] = <<t>>]
           /\ phase' = [phase EXCEPT ![x] = "wait"]
           /\ futures' = [futures EXCEPT ![x] = Append(F, f)]
           /\ results' = results
  <2> DEFINE U == <<t>>
             G == Append(F, f)
             V == <<[futs |-> <<>>]>>
  <2>1. /\ DOMAIN V = {1} /\ DOMAIN V[1].futs = {}
        /\ OneMore(<<n>>, V[1].futs, 1, n)
    BY ONLY <1>5 DEF OneMore
  <2>2. DOMAIN U = {1} /\ U[1].futs = <<n>>
    BY <1>5, Zenon
  <2> HIDE DEF U, V, G
  <2>3. CommandResults(V, F, R)
    BY <1>4, <2>1, CommandBegins, Zenon
  <2>4. OneMore(U[1].futs, V[1].futs, 1, n) /\ 1 \notin DOMAIN V[1].futs
    BY <2>1, <2>2, Zenon
  <2>5. DOMAIN G = DOMAIN F \cup {n}
    BY <1>6, Zenon DEF G
  <2>6. CommandResults(U, G, R)
    BY <1>4, <1>6, <2>1, <2>2, <2>3, <2>4, <2>5, CommandGrows, ZenonT(60)
  <2>7. ResultInv(G, R)
    BY <1>4, <2>5, ResultsStay, Zenon
  <2>8. CollectedInv(x, w, "wait", U, G, R)
    BY <1>2, <2>6, <2>7, Zenon DEF CollectedInv
  <2>9. /\ Sets(phase', phase, x, "wait") /\ Sets(tokens', tokens, x, U)
        /\ Sets(futures', futures, x, G) /\ Sets(results', results, x, R)
    BY <1>7, Before, Updated, NotUpdated, Zenon DEF R, G, U
  <2> QED
    BY <1>1, <2>8, <2>9, ContextOnly, ZenonT(60) DEF w
<1>8. CASE /\ results' = [results EXCEPT ![x] = Append(R, o)]
           /\ UNCHANGED <<tokens, phase, futures>>
  <2> DEFINE S == Append(R, o)
  <2>1. OneMore(S, R, Len(R) + 1, o)
    BY <1>6, Zenon
  <2> HIDE DEF S
  <2>2. /\ o.for \in DOMAIN F \cup {0} /\ o.from \in {0, o.for}
        /\ \A r \in DOMAIN R : R[r].for = o.for => o.for = 0
        /\ DOMAIN F \subseteq DOMAIN F
    BY <1>5, Zenon
  <2>3. ResultInv(F, S)
    BY <1>4, <2>1, <2>2, ResultNoted, ZenonT(60)
  <2>4. CommandResults(T, F, S)
    BY <1>3, <1>4, <2>1, <2>2, CommandMisses, ZenonT(60)
  <2>5. CollectedInv(x, w, phase[x], T, F, S)
    BY <1>2, <2>3, <2>4, Zenon DEF CollectedInv
  <2>6. /\ Sets(phase', phase, x, phase[x]) /\ Sets(tokens', tokens, x, T)
        /\ Sets(futures', futures, x, F) /\ Sets(results', results, x, S)
    BY <1>8, Before, Updated, NotUpdated, Zenon DEF T, F, S
  <2> QED
    BY <1>1, <2>5, <2>6, ContextOnly, Zenon DEF w
<1> QED
  BY <1>1, <1>7, <1>8, Zenon

(* The token a measure command waits for.                                    *)
LEMMA OneToken ==
  ASSUME NEW p, NEW b, NEW T \in Seq(Token), NEW F, p = "dispatch" \/ p = "wait",
         TokenInv(p, b, T, F), CommandInv(p, b, T, F)
  PROVE  /\ Len(T) = 1 /\ DOMAIN T = {1} /\ Head(T) = T[1] /\ T[1] \in Token
         /\ T[1].futs \in Seq(Nat)
         /\ \A j \in DOMAIN T[1].futs : T[1].futs[j] \in DOMAIN F
         /\ p = "wait" /\ T[1].token = 0 => Len(T[1].futs) = 1
<1>1. Len(T) = 1
  BY Zenon DEF CommandInv
<1>2. DOMAIN T = {1} /\ Head(T) = T[1] /\ T[1] \in Token
  BY ONLY <1>1, T \in Seq(Token), OneElement, ZenonT(60)
<1>3. T[1].futs \in Seq(Nat)
  BY <1>2, Zenon DEF Token
<1>4. \A j \in DOMAIN T[1].futs : T[1].futs[j] \in DOMAIN F
  BY <1>2, Zenon DEF TokenInv
<1>5. p = "wait" /\ T[1].token = 0 => Len(T[1].futs) = 1
  BY Zenon DEF CommandInv
<1> QED
  BY <1>1, <1>2, <1>3, <1>4, <1>5, ZenonT(60)

(* The call returns and its result is appended.                              *)
LEMMA ResultsCallReturns ==
  ASSUME IInv, ResultsInv, NEW x \in Contexts, call_returns(x)
  PROVE  ResultsInv'
<1> DEFINE w == registered = Instruments
           T == tokens[x]
           F == futures[x]
           R == results[x]
           n == Head(Head(T).futs)
<1>1. /\ x \in Commands /\ phase[x] = "wait" /\ Head(T).token = 0
      /\ tokens' = [tokens EXCEPT ![x] = <<>>]
      /\ phase' = [phase EXCEPT ![x] = "parse"]
      /\ UNCHANGED <<registered, futures>>
  BY Zenon DEF call_returns
<1>2. PICK z \in {0, n} :
        results' = [results EXCEPT ![x] = Append(R, [for |-> n, from |-> z])]
  BY Zenon DEF call_returns
<1> DEFINE o == [for |-> n, from |-> z]
           S == Append(R, o)
<1>3. o.for = n /\ o.from \in {0, o.for} /\ x \notin Jobs
  BY <1>1, <1>2, ProtocolAssumption, Zenon
<1>4. /\ T \in Seq(Token) /\ F \in Seq(Future) /\ R \in Seq(Result)
      /\ TokenInv("wait", blocks[x], T, F) /\ CommandInv("wait", blocks[x], T, F)
      /\ CollectedInv(x, w, "wait", T, F, R)
  BY <1>1, Before, ZenonT(60)
<1> HIDE DEF o, w, T, F, R
<1>5. /\ DOMAIN T = {1} /\ Head(T) = T[1] /\ T[1].futs \in Seq(Nat)
      /\ \A j \in DOMAIN T[1].futs : T[1].futs[j] \in DOMAIN F
      /\ T[1].token = 0 => Len(T[1].futs) = 1
  BY <1>4, OneToken, Zenon
<1>6. DOMAIN T[1].futs = {1} /\ n = T[1].futs[1]
  <2> DEFINE ef == T[1].futs
  <2>1. ef \in Seq(Nat) /\ Len(ef) = 1
    BY <1>1, <1>5, Zenon
  <2>2. n = Head(ef)
    BY <1>5, Zenon
  <2> HIDE DEF ef
  <2>3. DOMAIN ef = {1} /\ Head(ef) = ef[1]
    BY ONLY <2>1, OneElement, Zenon
  <2> QED
    BY <2>2, <2>3, Zenon DEF ef
<1> HIDE DEF n
<1>7. OneMore(S, R, Len(R) + 1, o)
  BY <1>4, FreshResult, Zenon
<1> HIDE DEF S
<1>8. ResultInv(F, R) /\ CommandResults(T, F, R)
  BY <1>1, <1>4, ZenonT(60) DEF CollectedInv
<1>9. n \in DOMAIN F /\ \A r \in DOMAIN R : R[r].for # n
  BY <1>5, <1>6, <1>8, SMTT(30) DEF CommandResults
<1>10. ResultInv(F, S)
  BY <1>3, <1>7, <1>8, <1>9, ResultNoted, SMTT(30)
<1>11. CommandResults(<<>>, F, S)
  BY <1>3, <1>5, <1>6, <1>7, <1>8, CommandReturns, ZenonT(60)
<1>12. CollectedInv(x, w, "parse", <<>>, F, S)
  BY <1>3, <1>10, <1>11, Zenon DEF CollectedInv
<1>13. /\ Sets(phase', phase, x, "parse") /\ Sets(tokens', tokens, x, <<>>)
       /\ Sets(futures', futures, x, F) /\ Sets(results', results, x, S)
  BY <1>1, <1>2, Before, Updated, NotUpdated, Zenon DEF F, S, o
<1> QED
  BY <1>1, <1>12, <1>13, ContextOnly, Zenon DEF w

(* The results of a block are appended.                                      *)
LEMMA ResultsBlockEnds ==
  ASSUME IInv, ResultsInv, NEW x \in Contexts, block_ends(x)
  PROVE  ResultsInv'
<1> DEFINE w == registered = Instruments
           T == tokens[x]
           F == futures[x]
           R == results[x]
           ef == Head(T).futs
           S == R \o [k \in DOMAIN ef |-> [for |-> ef[k], from |-> ef[k]]]
<1>1. /\ x \in Commands /\ phase[x] = "wait"
      /\ results' = [results EXCEPT ![x] = S]
      /\ tokens' = [tokens EXCEPT ![x] = <<>>]
      /\ phase' = [phase EXCEPT ![x] = "parse"]
      /\ UNCHANGED <<registered, futures>>
  BY Zenon DEF block_ends
<1>2. /\ T \in Seq(Token) /\ F \in Seq(Future) /\ R \in Seq(Result)
      /\ TokenInv("wait", blocks[x], T, F) /\ CommandInv("wait", blocks[x], T, F)
      /\ CollectedInv(x, w, "wait", T, F, R)
  BY <1>1, Before, Zenon
<1> HIDE DEF w, T, F, R
<1>3. /\ DOMAIN T = {1} /\ ef = T[1].futs /\ ef \in Seq(Nat)
      /\ \A j \in DOMAIN ef : ef[j] \in DOMAIN F
  <2>1. /\ DOMAIN T = {1} /\ Head(T) = T[1] /\ T[1].futs \in Seq(Nat)
        /\ \A j \in DOMAIN T[1].futs : T[1].futs[j] \in DOMAIN F
    BY <1>2, OneToken, Zenon
  <2> QED
    BY <2>1, Zenon
<1>4. ResultInv(F, R) /\ CommandResults(T, F, R)
  BY <1>1, <1>2, Zenon DEF CollectedInv
<1> HIDE DEF ef
<1>5. CommandResults(<<>>, F, S) /\ ResultInv(F, S)
  BY <1>2, <1>3, <1>4, CommandBlockEnds, ZenonT(60)
<1>6. x \notin Jobs
  BY <1>1, OneKind, Zenon
<1> HIDE DEF S
<1>7. CollectedInv(x, w, "parse", <<>>, F, S)
  BY <1>5, <1>6, Zenon DEF CollectedInv
<1>8. /\ Sets(phase', phase, x, "parse") /\ Sets(tokens', tokens, x, <<>>)
      /\ Sets(futures', futures, x, F) /\ Sets(results', results, x, S)
  BY <1>1, Before, Updated, NotUpdated, ZenonT(60) DEF F
<1> QED
  BY <1>1, <1>7, <1>8, ContextOnly, ZenonT(60) DEF w

(* The responses of the first token are stored.                              *)
LEMMA ResultsReleaseToken ==
  ASSUME IInv, ResultsInv, NEW x \in Contexts, release_token(x)
  PROVE  ResultsInv'
<1> DEFINE w == registered = Instruments
           T == tokens[x]
           F == futures[x]
           R == results[x]
           S == FillIn(R, Head(T))
<1>1. /\ x \in Jobs /\ phase[x] = "wait" /\ T # <<>>
      /\ results' = [results EXCEPT ![x] = S]
      /\ tokens' = [tokens EXCEPT ![x] = Tail(T)]
      /\ UNCHANGED <<registered, phase, futures>>
  BY Zenon DEF release_token
<1>2. /\ T \in Seq(Token) /\ F \in Seq(Future) /\ R \in Seq(Result)
      /\ TokenInv("wait", blocks[x], T, F)
      /\ CollectedInv(x, w, "wait", T, F, R)
  BY <1>1, Before, Zenon
<1> HIDE DEF w, T, F, R
<1>3. 0 \notin DOMAIN F /\ x \notin Commands
  BY <1>1, <1>2, NotZero, OneKind, Zenon
<1>4. \A k \in DOMAIN T : \A j \in DOMAIN T[k].futs : T[k].futs[j] \in DOMAIN F
  BY <1>2, Zenon DEF TokenInv
<1>5. JobInv(w, "wait", T, F, R) /\ ResultInv(F, R)
  BY <1>1, <1>2, Zenon DEF CollectedInv
<1>6. JobInv(w, "wait", Tail(T), F, S) /\ ResultInv(F, S)
  BY <1>1, <1>2, <1>3, <1>4, <1>5, JobReleases, ZenonT(60)
<1> HIDE DEF S
<1>7. CollectedInv(x, w, phase[x], Tail(T), F, S)
  BY <1>1, <1>3, <1>6, Zenon DEF CollectedInv
<1>8. /\ Sets(phase', phase, x, phase[x]) /\ Sets(tokens', tokens, x, Tail(T))
      /\ Sets(futures', futures, x, F) /\ Sets(results', results, x, S)
  BY <1>1, Before, Updated, NotUpdated, Zenon DEF F
<1> QED
  BY <1>1, <1>7, <1>8, ContextOnly, ZenonT(60) DEF w

(* Sequences with the same places have the same length.                      *)
LEMMA SameLength ==
  ASSUME NEW S, NEW s \in Seq(S), NEW u \in Seq(S), DOMAIN s = DOMAIN u
  PROVE  Len(s) = Len(u)
<1>1. ASSUME NEW a \in Nat, NEW b \in Nat, 1..a = 1..b PROVE a = b
  <2>1. a \in 1..a \/ a = 0
    OBVIOUS
  <2>2. b \in 1..b \/ b = 0
    OBVIOUS
  <2>3. \A c \in 1..a : 1 <= c /\ c <= b
    BY <1>1
  <2>4. \A c \in 1..b : 1 <= c /\ c <= a
    BY <1>1
  <2> QED
    BY <2>1, <2>2, <2>3, <2>4, SMTT(30)
<1>2. DOMAIN s = 1..Len(s) /\ DOMAIN u = 1..Len(u) /\ Len(s) \in Nat /\ Len(u) \in Nat
  OBVIOUS
<1> QED
  BY <1>1, <1>2, Zenon

(* context:call of a job: a token of one command.                            *)
LEMMA JobCalls ==
  ASSUME NEW w, NEW T \in Seq(Token), NEW F \in Seq(Future), NEW R \in Seq(Result),
         JobInv(w, "parse", T, F, R), NEW U, NEW G, NEW S, NEW t, NEW o, NEW r0, NEW n0,
         U = Append(T, t), t.inds = <<r0>>, t.futs = <<n0>>, OneMore(S, R, r0, o),
         o.for = n0, o.from = 0, DOMAIN G = DOMAIN F \cup {n0}
  PROVE  JobInv(w, "parse", U, G, S)
<1> DEFINE t0 == [token |-> 0, insts |-> {}, inds |-> <<>>, futs |-> <<>>]
           V == Append(T, t0)
           N == Len(T) + 1
<1>1. /\ t0.inds = <<>> /\ t0.futs = <<>> /\ DOMAIN t0.inds = {} /\ DOMAIN t0.futs = {}
      /\ OneMore(<<r0>>, <<>>, 1, r0) /\ OneMore(<<n0>>, <<>>, 1, n0)
  BY ONLY EmptyFacts DEF OneMore
<1> HIDE DEF t0
<1>2. /\ OneMore(V, T, N, t0) /\ N \notin DOMAIN T
      /\ Replaced(U, V, N) /\ U[N] = t /\ V[N] = t0
  BY ONLY T \in Seq(Token), U = Append(T, t), SMTT(30) DEF OneMore, Replaced
<1> HIDE DEF V, N
<1>3. "dispatch" \in {"parse", "dispatch"} /\ "parse" \in {"parse", "dispatch"}
  BY Zenon
<1>4. JobInv(w, "dispatch", V, F, R)
  BY <1>1, <1>2, <1>3, JobBegins, ZenonT(60)
<1>5. /\ OneMore(U[N].inds, V[N].inds, 1, r0) /\ OneMore(U[N].futs, V[N].futs, 1, n0)
  BY <1>1, <1>2, Zenon
<1> QED
  BY <1>2, <1>3, <1>4, <1>5, JobGrows, ZenonT(60)

(* context:call of a job.                                                    *)
LEMMA ResultsCallEnqueue ==
  ASSUME IInv, ResultsInv, NEW x \in Contexts, NEW i, call_enqueue(x, i)
  PROVE  ResultsInv'
<1> DEFINE w == registered = Instruments
           T == tokens[x]
           F == futures[x]
           R == results[x]
           n == Len(F) + 1
           r == Len(R) + 1
           b == blocks'[x]
           f == [inst |-> i, block |-> b, part |-> FALSE, state |-> "unset"]
           t == [token |-> b, insts |-> registered, inds |-> <<r>>, futs |-> <<n>>]
           o == [for |-> n, from |-> 0]
<1>1. /\ x \in Jobs /\ phase[x] = "parse"
      /\ tokens' = [tokens EXCEPT ![x] = Append(T, t)]
      /\ results' = [results EXCEPT ![x] = Append(R, o)]
      /\ futures' = [futures EXCEPT ![x] = Append(F, f)]
      /\ UNCHANGED <<registered, phase>>
  BY ZenonT(60) DEF call_enqueue, execute, NextId
<1>2. x \notin Commands
  BY <1>1, ProtocolAssumption, Zenon
<1>3. /\ T \in Seq(Token) /\ F \in Seq(Future) /\ R \in Seq(Result) /\ ResultInv(F, R)
      /\ JobInv(w, "parse", T, F, R)
  BY <1>1, Before, Zenon DEF CollectedInv
<1>4. t.inds = <<r>> /\ t.futs = <<n>> /\ o.for = n /\ o.from = 0
  BY Zenon
<1> HIDE DEF w, T, F, R, f, t, o, b
<1>5. /\ n \notin DOMAIN F \cup {0} /\ n \in Nat
      /\ DOMAIN Append(F, f) = DOMAIN F \cup {n}
      /\ OneMore(Append(R, o), R, r, o)
  BY <1>3, FreshFuture, FreshResult, Zenon
<1> DEFINE U == Append(T, t)
           G == Append(F, f)
           S == Append(R, o)
<1>6. DOMAIN G = DOMAIN F \cup {n} /\ OneMore(S, R, r, o) /\ U = Append(T, t)
  BY <1>5, Zenon
<1> HIDE DEF n, r, U, G, S
<1>7. ResultInv(G, S)
  <2>1. /\ DOMAIN F \subseteq DOMAIN G /\ o.for \in DOMAIN G \cup {0}
        /\ \A s \in DOMAIN R : R[s].for = o.for => o.for = 0
    BY ONLY <1>3, <1>4, <1>5, <1>6, Zenon DEF ResultInv
  <2> QED
    BY <1>3, <1>6, <2>1, ResultNoted, ZenonT(60)
<1>8. JobInv(w, "parse", U, G, S)
  BY <1>3, <1>4, <1>6, JobCalls, Zenon
<1>9. CollectedInv(x, w, phase[x], U, G, S)
  BY <1>1, <1>2, <1>7, <1>8, ZenonT(60) DEF CollectedInv
<1>10. /\ Sets(phase', phase, x, phase[x]) /\ Sets(tokens', tokens, x, U)
       /\ Sets(futures', futures, x, G) /\ Sets(results', results, x, S)
  BY <1>1, Before, Updated, NotUpdated, ZenonT(60) DEF U, G, S
<1> QED
  BY <1>1, <1>9, <1>10, ContextOnly, ZenonT(60) DEF w

(* One command of a parallel block.  A job that misses the instrument notes  *)
(* a result and no future, which is where indices and futures of its token   *)
(* part; no instrument is missing before one was removed.                    *)
LEMMA ResultsDispatch ==
  ASSUME IInv, ResultsInv, NEW x \in Contexts, dispatch(x)
  PROVE  ResultsInv'
<1> DEFINE w == registered = Instruments
           T == tokens[x]
           F == futures[x]
           R == results[x]
           e == T[Len(T)]
           n == Len(F) + 1
           r == Len(R) + 1
<1>1. PICK c \in todo[x] :
        /\ IF c.inst \in registered THEN execute(x, c.inst, blocks[x], c.barrier, c.at # 0)
                                    ELSE UNCHANGED <<req, futures>>
        /\ results' = IF x \in Commands THEN results
             ELSE [results EXCEPT ![x] =
                     Append(R, [for |-> IF c.inst \in registered THEN n ELSE 0, from |-> 0])]
        /\ tokens' = [tokens EXCEPT ![x] =
             [T EXCEPT ![Len(T)] = Noted(x, c.inst \in registered)]]
        /\ phase' = [phase EXCEPT ![x] =
             IF todo[x] # {c} THEN "dispatch" ELSE IF x \in Jobs THEN "parse" ELSE "wait"]
  BY Zenon DEF dispatch, NextId
<1> DEFINE here == c.inst \in registered
           t == Noted(x, here)
           U == [T EXCEPT ![Len(T)] = t]
           p == IF todo[x] # {c} THEN "dispatch" ELSE IF x \in Jobs THEN "parse" ELSE "wait"
           f == [inst |-> c.inst, block |-> blocks'[x], part |-> c.at # 0,
                 state |-> "unset"]
           G == IF here THEN Append(F, f) ELSE F
           o == [for |-> IF here THEN n ELSE 0, from |-> 0]
           S == Append(R, o)
<1>2. /\ phase[x] = "dispatch" /\ registered' = registered
      /\ futures' = IF here THEN [futures EXCEPT ![x] = Append(F, f)] ELSE futures
      /\ results' = IF x \in Commands THEN results ELSE [results EXCEPT ![x] = S]
      /\ tokens' = [tokens EXCEPT ![x] = U]
      /\ phase' = [phase EXCEPT ![x] = p]
  <2>1. phase[x] = "dispatch" /\ registered' = registered
    BY Zenon DEF dispatch
  <2>2. futures' = IF here THEN [futures EXCEPT ![x] = Append(F, f)] ELSE futures
    BY <1>1, Zenon DEF execute
  <2> QED
    BY <1>1, <2>1, <2>2, Zenon
<1>3. x \in Jobs => p \in {"parse", "dispatch"}
  BY Zenon
<1>4. w => here
  <2>1. TypeOK
    BY Zenon DEF IInv
  <2>2. c \in Call
    BY <2>1, Zenon DEF TypeOK
  <2>3. c.inst \in Instruments
    BY <2>2, ZenonT(60) DEF Call
  <2> QED
    BY <2>3, Zenon
<1>5. /\ T \in Seq(Token) /\ F \in Seq(Future) /\ R \in Seq(Result) /\ T # <<>>
      /\ TokenInv("dispatch", blocks[x], T, F)
      /\ x \in Commands => CommandInv("dispatch", blocks[x], T, F)
      /\ ResultInv(F, R) /\ (x \in Jobs => JobInv(w, "dispatch", T, F, R))
      /\ x \in Commands => CommandResults(T, F, R)
  <2>1. /\ T \in Seq(Token) /\ F \in Seq(Future) /\ R \in Seq(Result)
        /\ TokenInv("dispatch", blocks[x], T, F)
        /\ x \in Commands => CommandInv("dispatch", blocks[x], T, F)
        /\ CollectedInv(x, w, "dispatch", T, F, R)
    BY <1>2, Before, Zenon
  <2> HIDE DEF T, F, R, w
  <2>2. T # <<>>
    BY <2>1, Zenon DEF TokenInv
  <2> QED
    BY <2>1, <2>2, Zenon DEF CollectedInv
<1>6. /\ x \in Jobs => t.inds = Append(e.inds, r)
      /\ here => t.futs = Append(e.futs, n)
      /\ ~here => t.futs = e.futs
  BY ZenonT(60) DEF Noted, NextId
<1>7. o.from = 0 /\ (here => o.for = n) /\ (~here => o.for = 0)
  BY ZenonT(60)
<1> HIDE DEF w, F, R, t, p, f, o, here
<1>8. /\ Replaced(U, T, Len(T)) /\ U[Len(T)] = t /\ e \in Token
  BY ONLY <1>5, SMTT(30) DEF Replaced
<1>9. e.inds \in Seq(Nat) /\ e.futs \in Seq(Nat)
  <2> HIDE DEF e
  <2> QED
    BY <1>8, Zenon DEF Token
<1>10. /\ n \notin DOMAIN F \cup {0} /\ n \in Nat /\ DOMAIN Append(F, f) = DOMAIN F \cup {n}
       /\ OneMore(S, R, r, o) /\ r \notin DOMAIN R /\ r \in Nat
  BY <1>5, FreshFuture, FreshResult, Zenon
<1> HIDE DEF U, S, n, r, T, e
<1>11. /\ x \in Jobs => OneMore(U[Len(T)].inds, e.inds, Len(e.inds) + 1, r)
       /\ here => OneMore(U[Len(T)].futs, e.futs, Len(e.futs) + 1, n)
       /\ ~here => U[Len(T)].futs = e.futs
  BY <1>6, <1>8, <1>9, <1>10, AppendsANumber, ZenonT(60)
<1>12. /\ here => DOMAIN G = DOMAIN F \cup {n}
       /\ ~here => G = F
       /\ DOMAIN F \subseteq DOMAIN G
  BY <1>10, Zenon
<1> HIDE DEF G
<1>13. ASSUME x \in Jobs PROVE JobInv(w, p, U, G, S)
  <2>1. T[Len(T)] = e
    BY Zenon DEF e
  <2>2. CASE here
    <3>1. DOMAIN e.inds = DOMAIN e.futs => Len(e.inds) + 1 = Len(e.futs) + 1
      BY <1>9, SameLength, Zenon
    <3>2. /\ OneMore(U[Len(T)].inds, T[Len(T)].inds, Len(e.inds) + 1, r)
          /\ OneMore(U[Len(T)].futs, T[Len(T)].futs, Len(e.futs) + 1, n)
          /\ DOMAIN T[Len(T)].inds = DOMAIN T[Len(T)].futs => Len(e.inds) + 1 = Len(e.futs) + 1
          /\ o.for = n /\ o.from = 0 /\ DOMAIN G = DOMAIN F \cup {n}
          /\ p \in {"parse", "dispatch"} /\ JobInv(w, "dispatch", T, F, R)
      BY <1>3, <1>5, <1>7, <1>11, <1>12, <1>13, <2>1, <2>2, <3>1, Zenon
    <3> QED
      BY <1>8, <1>10, <3>2, JobGrows, ZenonT(60)
  <2>3. CASE ~here
    <3>1. /\ ~w /\ G = F /\ p \in {"parse", "dispatch"} /\ JobInv(w, "dispatch", T, F, R)
          /\ OneMore(U[Len(T)].inds, T[Len(T)].inds, Len(e.inds) + 1, r)
      BY <1>3, <1>4, <1>5, <1>11, <1>12, <1>13, <2>1, <2>3, ZenonT(60) DEF w, here
    <3> QED
      BY <1>8, <1>10, <3>1, JobMisses, ZenonT(60)
  <2> QED
    BY <2>2, <2>3, Zenon
<1>14. ASSUME x \in Commands PROVE CommandResults(U, G, R)
  <2>1. /\ Len(T) = 1 /\ DOMAIN T = {1}
        /\ \A j \in DOMAIN T[1].futs : T[1].futs[j] \in DOMAIN F
    BY <1>5, <1>14, OneToken, ZenonT(60)
  <2>2. DOMAIN U = {1} /\ e = T[1]
    BY <1>8, <2>1, Zenon DEF Replaced, e
  <2>3. CASE here
    <3>1. /\ OneMore(U[1].futs, T[1].futs, Len(e.futs) + 1, n)
          /\ DOMAIN G = DOMAIN F \cup {n}
      BY <1>11, <1>12, <2>1, <2>2, <2>3, ZenonT(60)
    <3>2. Len(e.futs) + 1 \notin DOMAIN T[1].futs
      <4> DEFINE ef == e.futs
      <4>1. ef \in Seq(Nat)
        BY <1>9, Zenon
      <4> HIDE DEF ef
      <4>2. Len(ef) + 1 \notin DOMAIN ef
        BY ONLY <4>1, SMTT(30)
      <4> QED
        BY <2>2, <4>2, Zenon DEF ef
    <3> QED
      BY <1>5, <1>10, <1>14, <2>1, <2>2, <3>1, <3>2, CommandGrows, ZenonT(60)
  <2>4. CASE ~here
    <3>1. G = F /\ U[1].futs = T[1].futs /\ CommandResults(T, F, R)
      BY <1>5, <1>11, <1>12, <1>14, <2>1, <2>2, <2>4, ZenonT(60)
    <3> QED
      BY ONLY <2>1, <2>2, <3>1, SMTT(30) DEF CommandResults
  <2> QED
    BY <2>3, <2>4, Zenon
<1>15. ResultInv(G, R) /\ ResultInv(G, S)
  <2>1. ResultInv(G, R)
    BY <1>5, <1>12, ResultsStay, ZenonT(60)
  <2>2. /\ o.for \in DOMAIN G \cup {0}
        /\ \A s \in DOMAIN R : R[s].for = o.for => o.for = 0
    BY ONLY <1>5, <1>7, <1>10, <1>12, ZenonT(60) DEF ResultInv
  <2> QED
    BY <1>5, <1>10, <1>12, <2>1, <2>2, ResultNoted, ZenonT(60)
<1> DEFINE Q == IF x \in Commands THEN R ELSE S
<1>16. CollectedInv(x, w, p, U, G, Q)
  <2>1. x \in Jobs => Q = S
    BY ProtocolAssumption, ZenonT(60)
  <2>2. x \in Commands => Q = R
    BY Zenon
  <2>3. ResultInv(G, Q)
    BY <1>15, Zenon
  <2> HIDE DEF Q
  <2> QED
    BY <1>13, <1>14, <2>1, <2>2, <2>3, ZenonT(60) DEF CollectedInv
<1>17. Sets(phase', phase, x, p) /\ Sets(tokens', tokens, x, U)
  BY <1>2, Before, Updated, ZenonT(60) DEF U, T
<1>18. Sets(futures', futures, x, G)
  BY <1>2, Before, Updated, NotUpdated, ZenonT(60) DEF G, F
<1>19. Sets(results', results, x, Q)
  BY <1>2, Before, Updated, NotUpdated, ZenonT(60) DEF R
<1> HIDE DEF Q
<1> QED
  BY <1>2, <1>16, <1>17, <1>18, <1>19, ContextOnly, ZenonT(60) DEF w

-----------------------------------------------------------------------------
(* Steps of workers and listeners, and all steps.                            *)

(* Futures are settled, or an instrument leaves.                             *)
LEMMA FuturesOnly ==
  ASSUME ResultsInv, registered' = Instruments => registered = Instruments,
         phase' = phase, tokens' = tokens, results' = results,
         \A x \in Contexts : DOMAIN futures'[x] = DOMAIN futures[x]
  PROVE  ResultsInv'
<1>1. ASSUME NEW x, NEW w, NEW w2, NEW p, NEW T, NEW F, NEW G, NEW R,
             CollectedInv(x, w, p, T, F, R), w2 => w, DOMAIN G = DOMAIN F
      PROVE  CollectedInv(x, w2, p, T, G, R)
  <2>1. ResultInv(G, R)
    BY <1>1, Zenon DEF CollectedInv, ResultInv
  <2>2. ASSUME x \in Jobs PROVE JobInv(w2, p, T, G, R)
    <3>1. JobInv(w, p, T, F, R)
      BY <1>1, <2>2, Zenon DEF CollectedInv
    <3> QED
      BY <1>1, <3>1, ZenonT(60) DEF JobInv
  <2>3. ASSUME x \in Commands PROVE CommandResults(T, G, R)
    <3>1. CommandResults(T, F, R)
      BY <1>1, <2>3, ZenonT(60) DEF CollectedInv
    <3> QED
      BY <1>1, <3>1, ZenonT(60) DEF CommandResults
  <2> QED
    BY <2>1, <2>2, <2>3, Zenon DEF CollectedInv
<1> DEFINE w == registered = Instruments
           w2 == registered' = Instruments
<1>2. w2 => w
  BY Zenon
<1> SUFFICES ASSUME NEW x \in Contexts
             PROVE  CollectedInv(x, w2, phase'[x], tokens'[x], futures'[x], results'[x])
  BY Zenon DEF ResultsInv
<1>3. CollectedInv(x, w, phase[x], tokens[x], futures[x], results[x])
  BY Zenon DEF ResultsInv
<1>4. DOMAIN futures'[x] = DOMAIN futures[x]
  BY Zenon
<1> HIDE DEF w, w2
<1>5. CollectedInv(x, w2, phase[x], tokens[x], futures'[x], results[x])
  BY ONLY <1>1, <1>2, <1>3, <1>4, Zenon
<1> QED
  BY <1>5, Zenon

(* Steps that leave results, tokens and futures alone.                       *)
LEMMA ResultsQuiet ==
  ASSUME ResultsInv, UNCHANGED <<registered, phase, tokens, results, futures>>
  PROVE  ResultsInv'
BY Zenon DEF ResultsInv

(* handle_response_message fulfils a promise.                                *)
LEMMA ResultsHandleResponse ==
  ASSUME IInv, ResultsInv, NEW i \in Instruments, handle_response_message(i)
  PROVE  ResultsInv'
<1> DEFINE y == Head(resp[i]).ctx
           n == Head(resp[i]).n
<1>1. /\ futures' = [futures EXCEPT ![y][n].state = "answered"]
      /\ UNCHANGED <<registered, phase, tokens, results>>
  BY ZenonT(60) DEF handle_response_message
<1>2. futures \in [Contexts -> Seq(Future)]
  BY Zenon DEF IInv, TypeOK
<1> HIDE DEF y, n
<1>3. ASSUME NEW x \in Contexts PROVE DOMAIN futures'[x] = DOMAIN futures[x]
  BY <1>1, <1>2, Zenon
<1> QED
  BY <1>1, <1>3, FuturesOnly, ZenonT(60)

(* remove_instrument: WorkerProxy::stop settles the futures that are left.   *)
LEMMA ResultsRemoveInstrument ==
  ASSUME IInv, ResultsInv, NEW i \in Instruments, remove_instrument(i)
  PROVE  ResultsInv'
<1>1. /\ i \in registered /\ registered' = registered \ {i}
      /\ futures' = [x \in Contexts |-> Stopped(futures[x], i)]
      /\ UNCHANGED <<phase, tokens, results>>
  BY Zenon DEF remove_instrument, Stopped
<1>2. registered' # Instruments
  BY <1>1, Zenon
<1>3. ASSUME NEW x \in Contexts PROVE DOMAIN futures'[x] = DOMAIN futures[x]
  <2>1. futures'[x] = Stopped(futures[x], i)
    BY <1>1, Zenon
  <2> QED
    BY <2>1, Zenon DEF Stopped
<1> QED
  BY <1>1, <1>2, <1>3, FuturesOnly, ZenonT(60)

(* The initial states satisfy ResultsInv.                                    *)
LEMMA InitResults ==
  Init => ResultsInv
<1> SUFFICES ASSUME Init, NEW x \in Contexts
             PROVE  CollectedInv(x, registered = Instruments, phase[x], tokens[x],
                                 futures[x], results[x])
  BY Zenon DEF ResultsInv
<1>1. /\ phase[x] = "idle" /\ tokens[x] = <<>> /\ futures[x] = <<>> /\ results[x] = <<>>
  BY Zenon DEF Init
<1>2. ResultInv(<<>>, <<>>) /\ CommandResults(<<>>, <<>>, <<>>)
  BY EmptyFacts, Zenon DEF ResultInv, CommandResults
<1>3. ASSUME NEW w PROVE JobInv(w, "idle", <<>>, <<>>, <<>>)
  BY EmptyFacts, Zenon DEF JobInv
<1> QED
  BY <1>1, <1>2, <1>3, Zenon DEF CollectedInv

(* Every step preserves it, given the types and tokens of IInv.              *)
LEMMA NextResults ==
  IInv /\ ResultsInv /\ [Next]_vars => ResultsInv'
<1> SUFFICES ASSUME IInv, ResultsInv, [Next]_vars PROVE ResultsInv'
  BY Zenon
<1>1. ASSUME NEW x \in Contexts, Script(x) PROVE ResultsInv'
  BY <1>1, ResultsBind, ResultsScriptEnds, ResultsScriptFails, ResultsCallEnqueue,
     ResultsCallSync, ResultsParallel, Zenon DEF Script
<1>2. ASSUME NEW x \in Contexts, Wait(x) PROVE ResultsInv'
  BY <1>2, ResultsDispatch, ResultsReleaseToken, ResultsMonitorEnds, ResultsBlockEnds,
     ResultsCallReturns, Zenon DEF Wait
<1>3. ASSUME NEW i \in Instruments, Worker(i) PROVE ResultsInv'
  BY <1>3, ResultsQuiet, Zenon DEF Worker, handle_command, handle_sync_continue
<1>4. ASSUME NEW i \in Instruments, Listener(i) PROVE ResultsInv'
  BY <1>4, ResultsHandleResponse, ResultsQuiet, ZenonT(60) DEF Listener, handle_sync_ack_message
<1>5. CASE UNCHANGED vars
  BY <1>5, ResultsQuiet, Zenon DEF vars
<1> QED
  BY <1>1, <1>2, <1>3, <1>4, <1>5, ResultsRemoveInstrument, ZenonT(60) DEF Next

(* What the script runs have noted, and what is filled in, fits the commands *)
(* they sent at every moment.                                                *)
THEOREM ResultsInvariance == Spec => []ResultsInv
<1>1. Spec => []IInv
  BY Invariance, ZenonT(60)
<1> QED
  BY <1>1, InitResults, NextResults, PTL DEF Spec

-----------------------------------------------------------------------------
(* Results.                                                                  *)

(* process_tokens_and_wait pairs futures and result indices by position, and *)
(* send_command and execute_parallel_buffer append: as long as no instrument *)
(* is removed, a response is in the result of the command it answers.        *)
THEOREM Alignment == Spec => []ResultsAreAligned
<1>1. ResultsInv => ResultsAreAligned
  <2> SUFFICES ASSUME ResultsInv, registered = Instruments, NEW x \in Contexts,
                      NEW r \in DOMAIN results[x]
               PROVE  results[x][r].from \in {0, results[x][r].for}
    BY Zenon DEF ResultsAreAligned, Aligned
  <2> DEFINE w == registered = Instruments
  <2>1. CollectedInv(x, w, phase[x], tokens[x], futures[x], results[x])
    BY Zenon DEF ResultsInv
  <2>2. w
    BY Zenon
  <2> HIDE DEF w
  <2>3. CASE x \in Jobs
    BY <2>1, <2>2, <2>3, ZenonT(60) DEF CollectedInv, JobInv
  <2>4. CASE x \in Commands
    BY <2>1, <2>4, ZenonT(60) DEF CollectedInv, CommandResults
  <2> QED
    BY <2>3, <2>4, Zenon DEF Contexts
<1> QED
  BY <1>1, ResultsInvariance, PTL

(* collected_results_ at the end of a script run: one entry for each command *)
(* it executed, and no placeholder is left in a job's unless an instrument   *)
(* was removed.                                                              *)
THEOREM Completeness == Spec => []EveryCommandHasItsResult
<1>1. IInv /\ ResultsInv => EveryCommandHasItsResult
  <2> SUFFICES ASSUME IInv, ResultsInv, NEW x \in Contexts, phase[x] = "done"
               PROVE  /\ \A n \in DOMAIN futures[x] : \E r \in DOMAIN results[x] :
                           \A s \in DOMAIN results[x] : results[x][s].for = n <=> s = r
                      /\ (x \in Jobs /\ registered = Instruments) =>
                           \A r \in DOMAIN results[x] : results[x][r].from # 0
    BY Zenon DEF EveryCommandHasItsResult
  <2> DEFINE w == registered = Instruments
             T == tokens[x]
             F == futures[x]
             R == results[x]
  <2>1. /\ CollectedInv(x, w, "done", T, F, R) /\ F \in Seq(Future)
        /\ x \in Commands => CommandInv("done", blocks[x], T, F)
    BY Before, Zenon
  <2> HIDE DEF w, T, F, R
  <2>2. /\ ResultInv(F, R)
        /\ x \in Jobs => JobInv(w, "done", T, F, R)
        /\ x \in Commands => CommandResults(T, F, R)
    BY <2>1, Zenon DEF CollectedInv
  <2>3. T = <<>> /\ \A n \in DOMAIN F : \E r \in DOMAIN R : R[r].for = n
    <3>1. CASE x \in Jobs
      BY <2>2, <3>1, ZenonT(60) DEF JobInv
    <3>2. CASE x \in Commands
      <4>1. CommandInv("done", blocks[x], T, F) /\ CommandResults(T, F, R)
        BY <2>1, <2>2, <3>2, Zenon
      <4>2. T = <<>>
        BY ONLY <4>1, Zenon DEF CommandInv
      <4> QED
        BY ONLY <4>1, <4>2, EmptyFacts, ZenonT(60) DEF CommandResults
    <3> QED
      BY <3>1, <3>2, Zenon DEF Contexts
  <2>4. ASSUME NEW n \in DOMAIN F
        PROVE  \E r \in DOMAIN R : \A s \in DOMAIN R : R[s].for = n <=> s = r
    <3>1. PICK r \in DOMAIN R : R[r].for = n
      BY <2>3, Zenon
    <3>2. n # 0
      BY ONLY <2>1, <2>4
    <3> QED
      BY <2>2, <3>1, <3>2, Zenon DEF ResultInv
  <2>5. ASSUME x \in Jobs, w, NEW r \in DOMAIN R
        PROVE  R[r].from # 0
    <3>1. R[r].from = 0 => \E k \in DOMAIN T : \E j \in DOMAIN T[k].inds : T[k].inds[j] = r
      BY <2>2, <2>5, Zenon DEF JobInv
    <3> QED
      BY ONLY <2>3, <3>1, EmptyFacts, ZenonT(60)
  <2> QED
    BY <2>4, <2>5, Zenon DEF F, R, w
<1> QED
  BY <1>1, Invariance, ResultsInvariance, PTL
=============================================================================
