--------------------------- MODULE SyncStepProofs ---------------------------
(***************************************************************************)
(* The inductive invariant of SyncProtocol, for every set of measure jobs, *)
(* measure commands and instruments, scripts of every length and           *)
(* instruments removed at any time, and one lemma for each action, which   *)
(* preserves it.  The theorems are in SyncProtocolProofs.                  *)
(*                                                                         *)
(* The invariant speaks of one context or one instrument at a time.  What  *)
(* it says of a context is stated about values: its phase p, the number of *)
(* its blocks b, its tokens T and its futures F.  The provers are never    *)
(* shown the whole state: a step is first described by what it does to one *)
(* context, or to the queues of one instrument.                            *)
(***************************************************************************)
EXTENDS SyncProtocol, TLAPS

(* Tokens are in order, and a token holds every future of its block.         *)
TokenInv(p, b, T, F) ==
  /\ \A n \in DOMAIN F : F[n].block \in 1..b
  /\ \A k \in DOMAIN T :
       /\ T[k].token <= b
       /\ \A l \in DOMAIN T : k < l => T[k].token < T[l].token
       /\ \A j \in DOMAIN T[k].futs : T[k].futs[j] \in DOMAIN F
       /\ T[k].token # 0 =>
            \A n \in DOMAIN F : F[n].block = T[k].token =>
              \E j \in DOMAIN T[k].futs : T[k].futs[j] = n
  /\ p = "dispatch" => b # 0 /\ T # <<>> /\ T[Len(T)].token = b

(* A measure command has one token, and only while it waits.  All parallel   *)
(* blocks before the current one are settled.                                *)
CommandInv(p, b, T, F) ==
  /\ p \notin {"dispatch", "wait"} => T = <<>>
  /\ p \in {"dispatch", "wait"} => Len(T) = 1
  /\ p = "wait" /\ T[1].token # 0 => T[1].token = b
  /\ p = "wait" /\ T[1].token = 0 =>
       /\ Len(T[1].futs) = 1
       /\ \A n \in DOMAIN F : F[n].block = b => ~F[n].part
  /\ \A n \in DOMAIN F :
       F[n].part /\ (F[n].block < b \/ p \notin {"dispatch", "wait"})
         => F[n].state # "unset"

ContextInv(x, p, b, T, F) ==
  /\ TokenInv(p, b, T, F)
  /\ x \in Commands => CommandInv(p, b, T, F)

ContextsInv ==
  \A x \in Contexts : ContextInv(x, phase[x], blocks[x], tokens[x], futures[x])

(* A command in the queue of an instrument is there once and has no answer;  *)
(* one with a response on its way is no longer in the queue.                 *)
WireInv(i, q, a, fs) ==
  /\ \A k \in DOMAIN q : q[k].type = "COMMAND" =>
       /\ q[k].n \in DOMAIN fs[q[k].ctx]
       /\ fs[q[k].ctx][q[k].n].inst = i
       /\ fs[q[k].ctx][q[k].n].state = "unset"
       /\ \A l \in DOMAIN q :
            q[l].type = "COMMAND" /\ q[l].ctx = q[k].ctx /\ q[l].n = q[k].n => k = l
  /\ \A k \in DOMAIN a : a[k].type = "RESPONSE" =>
       /\ a[k].n \in DOMAIN fs[a[k].ctx]
       /\ fs[a[k].ctx][a[k].n].inst = i
       /\ \A l \in DOMAIN q :
            q[l].type = "COMMAND" => ~(q[l].ctx = a[k].ctx /\ q[l].n = a[k].n)

(* The block of a token is complete: all its commands are settled and no     *)
(* more will come.                                                           *)
Released(t, p, b, F) ==
  /\ t <= b
  /\ t = b => p # "dispatch"
  /\ \A n \in DOMAIN F : F[n].block = t => F[n].state # "unset"

ContinueInv(q, ph, bs, fs) ==
  \A k \in DOMAIN q : q[k].type = "SYNC_CONTINUE" =>
    Released(q[k].token, ph[q[k].ctx], bs[q[k].ctx], fs[q[k].ctx])

WiresInv ==
  \A i \in Instruments : /\ WireInv(i, req[i], resp[i], futures)
                         /\ ContinueInv(req[i], phase, blocks, futures)

IInv ==
  /\ TypeOK
  /\ rbarriers = NoBarriers
  /\ ContextsInv
  /\ WiresInv

-----------------------------------------------------------------------------
(* Scripts start and end.                                                    *)

(* The phase changes, and the script is not dispatching a block.             *)
LEMMA PhaseChanges ==
  ASSUME NEW x, NEW p, NEW p2, NEW b, NEW T, NEW F,
         ContextInv(x, p, b, T, F), p2 # "dispatch",
         x \in Commands => p \notin {"dispatch", "wait"} /\ p2 # "wait"
  PROVE  ContextInv(x, p2, b, T, F)
<1>1. TokenInv(p2, b, T, F)
  BY Zenon DEF ContextInv, TokenInv
<1>2. ASSUME x \in Commands PROVE CommandInv(p2, b, T, F)
  BY <1>2, Zenon DEF ContextInv, CommandInv
<1> QED
  BY <1>1, <1>2, Zenon DEF ContextInv

(* u is s with one more value m, in the place a.                             *)
OneMore(u, s, a, m) ==
  DOMAIN u = DOMAIN s \cup {a} /\ (\A j \in DOMAIN s : u[j] = s[j]) /\ u[a] = m

(* Futures are settled, and nothing else happens to them.                    *)
Settles(F, G) ==
  /\ DOMAIN G = DOMAIN F /\ Len(G) = Len(F)
  /\ \A n \in DOMAIN F :
       /\ G[n].inst = F[n].inst /\ G[n].block = F[n].block
       /\ G[n].part <=> F[n].part
       /\ F[n].state # "unset" => G[n].state # "unset"

(* A context goes on: futures are only added to the current block while it   *)
(* is being dispatched, or to a new one.                                     *)
Grows(p, b, F, p2, b2, G) ==
  /\ b2 \in {b, b + 1}
  /\ p2 = "dispatch" => p = "dispatch" \/ b2 = b + 1
  /\ \/ Settles(F, G)
     \/ \E n, f : /\ OneMore(G, F, n, f) /\ f.block = b2
                  /\ b2 = b + 1 \/ p = "dispatch"

(* Futures that stay as they are settle nothing.                             *)
LEMMA SettlesItself ==
  ASSUME NEW F
  PROVE  Settles(F, F)
BY Zenon DEF Settles

(* A step of the context x leaves the others alone.                          *)
Only(x) ==
  \A y \in Contexts : y # x =>
    /\ phase'[y] = phase[y] /\ blocks'[y] = blocks[y] /\ tokens'[y] = tokens[y]
    /\ futures'[y] = futures[y]

(* A step of one context has to keep the invariant of that context only.     *)
LEMMA ContextStep ==
  ASSUME IInv, NEW x \in Contexts, Only(x),
         ContextInv(x, phase'[x], blocks'[x], tokens'[x], futures'[x])
  PROVE  ContextsInv'
<1> SUFFICES ASSUME NEW y \in Contexts
             PROVE  ContextInv(y, phase'[y], blocks'[y], tokens'[y], futures'[y])
  BY Zenon DEF ContextsInv
<1>1. ContextInv(y, phase[y], blocks[y], tokens[y], futures[y])
  BY Zenon DEF IInv, ContextsInv
<1>2. CASE y = x
  BY <1>2, Zenon DEF Only
<1>3. CASE y # x
  BY <1>1, <1>3, Zenon DEF Only
<1> QED
  BY <1>2, <1>3, Zenon

(* The SYNC_CONTINUEs in a queue stay justified when futures are settled and *)
(* scripts go on.                                                            *)
LEMMA ContinuesStay ==
  ASSUME NEW q \in Seq(Message), NEW ph, NEW bs \in [Contexts -> Nat], NEW fs,
         NEW ph2, NEW bs2, NEW fs2, ContinueInv(q, ph, bs, fs),
         \A x \in Contexts : Grows(ph[x], bs[x], fs[x], ph2[x], bs2[x], fs2[x])
  PROVE  ContinueInv(q, ph2, bs2, fs2)
<1>StaysReleased. ASSUME NEW t \in Nat, NEW p, NEW b \in Nat, NEW F, NEW p2, NEW b2, NEW G,
                         Released(t, p, b, F), Grows(p, b, F, p2, b2, G)
                  PROVE  Released(t, p2, b2, G)
  <2> USE <1>StaysReleased
  <2>1. b2 \in Nat /\ t <= b2 /\ (b2 = b + 1 => t # b2)
    BY DEF Released, Grows
  <2>2. t = b2 => p2 # "dispatch"
    BY <2>1, Zenon DEF Released, Grows
  <2>3. ASSUME NEW n \in DOMAIN G, G[n].block = t PROVE G[n].state # "unset"
    <3>1. CASE Settles(F, G)
      BY <2>3, <3>1, Zenon DEF Released, Settles
    <3>2. ASSUME NEW m, NEW f, OneMore(G, F, m, f), f.block = b2,
                 b2 = b + 1 \/ p = "dispatch"
          PROVE  G[n].state # "unset"
      <4>1. f.block # t
        BY <2>1, <3>2, Zenon DEF Released, Grows
      <4>2. n \in DOMAIN F /\ G[n] = F[n]
        BY <2>3, <3>2, <4>1, Zenon DEF OneMore
      <4> QED
        BY <2>3, <4>2, Zenon DEF Released
    <3> QED
      BY <3>1, <3>2, Zenon DEF Grows
  <2> QED
    BY <2>1, <2>2, <2>3, Zenon DEF Released
<1> SUFFICES ASSUME NEW k \in DOMAIN q, q[k].type = "SYNC_CONTINUE"
             PROVE  Released(q[k].token, ph2[q[k].ctx], bs2[q[k].ctx], fs2[q[k].ctx])
  BY Zenon DEF ContinueInv
<1> DEFINE x == q[k].ctx
           t == q[k].token
<1>1. q[k] \in Message
  OBVIOUS
<1>2. t \in Nat /\ x \in Contexts
  BY ONLY <1>1, Zenon DEF Message
<1>3. Released(t, ph[x], bs[x], fs[x])
  BY Zenon DEF ContinueInv
<1> HIDE DEF x, t
<1>4. bs[x] \in Nat /\ Grows(ph[x], bs[x], fs[x], ph2[x], bs2[x], fs2[x])
  BY <1>2, Zenon
<1>5. Released(t, ph2[x], bs2[x], fs2[x])
  BY ONLY <1>2, <1>3, <1>4, <1>StaysReleased, Zenon
<1> QED
  BY <1>5, Zenon DEF x, t

(* A step that lets one context go on lets all of them go on.                *)
LEMMA AllGrow ==
  ASSUME NEW x \in Contexts, Only(x),
         Grows(phase[x], blocks[x], futures[x], phase'[x], blocks'[x], futures'[x])
  PROVE  \A y \in Contexts :
           Grows(phase[y], blocks[y], futures[y], phase'[y], blocks'[y], futures'[y])
<1>GrowsItself. ASSUME NEW p, NEW b, NEW F
                PROVE  Grows(p, b, F, p, b, F)
    BY <1>GrowsItself, SettlesItself, Zenon DEF Grows
<1> SUFFICES ASSUME NEW y \in Contexts, y # x
             PROVE  Grows(phase[y], blocks[y], futures[y], phase'[y], blocks'[y], futures'[y])
  BY ZenonT(60)
<1>1. phase'[y] = phase[y] /\ blocks'[y] = blocks[y] /\ futures'[y] = futures[y]
  BY Zenon DEF Only
<1> QED
  BY <1>1, <1>GrowsItself, Zenon

(* Nothing is sent, received or answered.                                    *)
LEMMA WiresQuiet ==
  ASSUME IInv, NEW x \in Contexts, Only(x), req' = req, resp' = resp, futures' = futures,
         Grows(phase[x], blocks[x], futures[x], phase'[x], blocks'[x], futures'[x])
  PROVE  WiresInv'
<1> SUFFICES ASSUME NEW i \in Instruments
             PROVE  /\ WireInv(i, req'[i], resp'[i], futures')
                    /\ ContinueInv(req'[i], phase', blocks', futures')
  BY Zenon DEF WiresInv
<1>1. /\ WireInv(i, req[i], resp[i], futures)
      /\ ContinueInv(req[i], phase, blocks, futures)
  BY ZenonT(60) DEF IInv, WiresInv
<1>2. req[i] \in Seq(Message) /\ blocks \in [Contexts -> Nat]
  BY Zenon DEF IInv, TypeOK
<1>3. \A y \in Contexts :
        Grows(phase[y], blocks[y], futures[y], phase'[y], blocks'[y], futures'[y])
  BY AllGrow, Zenon
<1>4. ContinueInv(req[i], phase', blocks', futures')
  BY ONLY <1>1, <1>2, <1>3, ContinuesStay, Zenon
<1> QED
  BY <1>1, <1>4, Zenon

(* bind_runtime_context: the script starts, or fails for want of an          *)
(* instrument.                                                               *)
LEMMA NextBind ==
  ASSUME IInv, NEW x \in Contexts, bind_runtime_context(x)
  PROVE  IInv'
<1> DEFINE p == IF x \in Commands /\ registered = {} THEN "failed" ELSE "parse"
<1>1. /\ phase[x] = "idle" /\ phase' = [phase EXCEPT ![x] = p]
      /\ UNCHANGED <<registered, barriers, blocks, todo, tokens, results, futures,
                     req, rbarriers, resp, waiting, server>>
  BY Zenon DEF bind_runtime_context, wires
<1>2. p \in {"failed", "parse"}
  BY Zenon
<1>3. TypeOK
  BY Zenon DEF IInv
<1> HIDE DEF p
<1>4. phase'[x] = p /\ Only(x)
  BY <1>1, <1>3, Zenon DEF TypeOK, Only
<1>5. TypeOK'
  BY <1>1, <1>2, <1>3, Zenon DEF TypeOK, Phases
<1>6. ContextInv(x, phase[x], blocks[x], tokens[x], futures[x])
  BY Zenon DEF IInv, ContextsInv
<1>7. ContextInv(x, p, blocks[x], tokens[x], futures[x])
  <2>1. p # "dispatch" /\ p # "wait" /\ phase[x] \notin {"dispatch", "wait"}
    BY <1>1, <1>2, Zenon
  <2> QED
    BY <1>6, <2>1, PhaseChanges, Zenon
<1>8. ContextsInv'
  BY <1>1, <1>4, <1>7, ContextStep, Zenon
<1>9. WiresInv'
  <2>1. Grows(phase[x], blocks[x], futures[x], phase'[x], blocks'[x], futures'[x])
    BY <1>1, <1>2, <1>4, SettlesItself, ZenonT(60) DEF Grows
  <2> QED
    BY <1>1, <1>4, <2>1, WiresQuiet, ZenonT(60)
<1> QED
  BY <1>1, <1>5, <1>8, <1>9, Zenon DEF IInv

(* The barrier tables of the contexts only matter to the type invariant.     *)
BarriersOK ==
  DOMAIN barriers = Contexts /\ \A x \in Contexts : DOMAIN barriers[x] \subseteq TokenSet

(* The SyncCoordinator of a context goes with its script run.                *)
LEMMA BarriersReset ==
  ASSUME BarriersOK, NEW x \in Contexts, barriers' = [barriers EXCEPT ![x] = NoBarriers]
  PROVE  BarriersOK'
<1>1. DOMAIN NoBarriers = {}
  BY Zenon DEF NoBarriers
<1> QED
  BY <1>1, Zenon DEF BarriersOK

(* The part of the type invariant that is about the coordinators.            *)
LEMMA TypeBarriers ==
  ASSUME TypeOK PROVE BarriersOK
  BY Zenon DEF TypeOK, BarriersOK

(* The script returns: a job goes on to wait for its tokens.                 *)
LEMMA NextScriptEnds ==
  ASSUME IInv, NEW x \in Contexts, script_ends(x)
  PROVE  IInv'
<1> DEFINE p == IF x \in Jobs THEN "wait" ELSE "done"
<1>1. /\ phase[x] = "parse" /\ phase' = [phase EXCEPT ![x] = p]
      /\ barriers' = [barriers EXCEPT ![x] = NoBarriers]
      /\ UNCHANGED <<registered, blocks, todo, tokens, results, futures,
                     req, rbarriers, resp, waiting, server>>
  BY Zenon DEF script_ends, wires
<1>2. p \in {"wait", "done"} /\ (x \in Jobs => p = "wait") /\ (x \in Commands => p = "done")
  BY ProtocolAssumption, Zenon
<1>3. TypeOK
  BY Zenon DEF IInv
<1> HIDE DEF p
<1>4. phase'[x] = p /\ Only(x)
  BY <1>1, <1>3, Zenon DEF TypeOK, Only
<1>5. BarriersOK'
  BY <1>1, <1>3, TypeBarriers, BarriersReset, Zenon
<1>6. TypeOK'
  BY <1>1, <1>2, <1>3, <1>5, Zenon DEF TypeOK, Phases, BarriersOK
<1>7. ContextInv(x, phase[x], blocks[x], tokens[x], futures[x])
  BY Zenon DEF IInv, ContextsInv
<1>8. ContextInv(x, p, blocks[x], tokens[x], futures[x])
  <2>1. /\ p # "dispatch" /\ phase[x] \notin {"dispatch", "wait"}
        /\ x \in Commands => p # "wait"
    BY <1>1, <1>2, Zenon
  <2> QED
    BY <1>7, <2>1, PhaseChanges, Zenon
<1>9. ContextsInv'
  BY <1>1, <1>4, <1>8, ContextStep, Zenon
<1>10. WiresInv'
  <2>1. Grows(phase[x], blocks[x], futures[x], phase'[x], blocks'[x], futures'[x])
    BY <1>1, <1>2, <1>4, SettlesItself, Zenon DEF Grows
  <2> QED
    BY <1>1, <1>4, <2>1, WiresQuiet, ZenonT(60)
<1> QED
  BY <1>1, <1>6, <1>9, <1>10, Zenon DEF IInv

(* A block is the last one or an earlier one.                                *)
LEMMA LastOrBefore ==
  ASSUME NEW b \in Nat, NEW m \in 1..b
  PROVE  m < b \/ m = b
  OBVIOUS

(* The results that execute_parallel_buffer appends, one for each future.    *)
LEMMA ResultsGrow ==
  ASSUME NEW R \in Seq(Result), NEW e \in Token
  PROVE  R \o [k \in DOMAIN e.futs |-> [for |-> e.futs[k], from |-> e.futs[k]]]
           \in Seq(Result)
<1> DEFINE ef == e.futs
           Q == [k \in DOMAIN ef |-> [for |-> ef[k], from |-> ef[k]]]
<1>1. ef \in Seq(Nat)
  BY Zenon DEF Token
<1> HIDE DEF ef
<1>2. DOMAIN ef = 1..Len(ef) /\ Len(ef) \in Nat /\ \A j \in DOMAIN ef : ef[j] \in Nat
  BY ONLY <1>1
<1>3. Q \in [1..Len(ef) -> Result]
  BY ONLY <1>2, Zenon DEF Result
<1>4. Q \in Seq(Result)
  BY ONLY <1>2, <1>3
<1> HIDE DEF Q
<1>5. R \o Q \in Seq(Result)
  BY ONLY R \in Seq(Result), <1>4
<1> QED
  BY <1>5, Zenon DEF Q, ef

(* The empty sequence.                                                       *)
LEMMA EmptyFacts ==
  ASSUME NEW S
  PROVE  <<>> \in Seq(S) /\ DOMAIN <<>> = {} /\ Len(<<>>) = 0
  OBVIOUS

(* The script throws.                                                        *)
LEMMA NextScriptFails ==
  ASSUME IInv, NEW x \in Contexts, script_fails(x)
  PROVE  IInv'
(* The script fails, and its tokens are forgotten.                           *)
<1>ScriptFails. ASSUME NEW x1, NEW b, NEW T, NEW F,
                       ContextInv(x1, "parse", b, T, F)
                PROVE  ContextInv(x1, "failed", b, <<>>, F)
  <2> USE <1>ScriptFails
  <2>1. DOMAIN <<>> = {}
    OBVIOUS
  <2>2. TokenInv("failed", b, <<>>, F)
    BY <2>1, Zenon DEF ContextInv, TokenInv
  <2>3. ASSUME x1 \in Commands PROVE CommandInv("failed", b, <<>>, F)
    BY <2>1, <2>3, Zenon DEF ContextInv, CommandInv
  <2> QED
    BY <2>2, <2>3, Zenon DEF ContextInv
<1>1. /\ phase[x] = "parse" /\ phase' = [phase EXCEPT ![x] = "failed"]
      /\ barriers' = [barriers EXCEPT ![x] = NoBarriers]
      /\ tokens' = [tokens EXCEPT ![x] = <<>>]
      /\ UNCHANGED <<registered, blocks, todo, results, futures,
                     req, rbarriers, resp, waiting, server>>
  BY Zenon DEF script_fails, wires
<1>2. TypeOK
  BY Zenon DEF IInv
<1>3. phase'[x] = "failed" /\ tokens'[x] = <<>> /\ Only(x)
  BY <1>1, <1>2, Zenon DEF TypeOK, Only
<1>4. BarriersOK'
  BY <1>1, <1>2, TypeBarriers, BarriersReset, Zenon
<1>5. TypeOK'
  BY <1>1, <1>2, <1>4, EmptyFacts, Zenon DEF TypeOK, Phases, BarriersOK
<1>6. ContextInv(x, phase[x], blocks[x], tokens[x], futures[x])
  BY Zenon DEF IInv, ContextsInv
<1>7. ContextInv(x, "failed", blocks[x], <<>>, futures[x])
  BY <1>1, <1>6, <1>ScriptFails, Zenon
<1>8. ContextsInv'
  BY <1>1, <1>3, <1>7, ContextStep, Zenon
<1>9. WiresInv'
  <2>1. Grows(phase[x], blocks[x], futures[x], phase'[x], blocks'[x], futures'[x])
    BY <1>1, <1>3, SettlesItself, ZenonT(60) DEF Grows
  <2> QED
    BY <1>1, <1>3, <2>1, WiresQuiet, ZenonT(60)
<1> QED
  BY <1>1, <1>5, <1>8, <1>9, Zenon DEF IInv

(* process_tokens_and_wait returns when no token is left.                    *)
LEMMA NextMonitorEnds ==
  ASSUME IInv, NEW x \in Contexts, monitor_ends(x)
  PROVE  IInv'
<1>1. /\ x \in Jobs /\ tokens[x] = <<>>
      /\ phase[x] = "wait" /\ phase' = [phase EXCEPT ![x] = "done"]
      /\ UNCHANGED <<registered, barriers, blocks, todo, tokens, results, futures,
                     req, rbarriers, resp, waiting, server>>
  BY Zenon DEF monitor_ends, wires
<1>2. TypeOK /\ x \notin Commands
  BY <1>1, ProtocolAssumption, Zenon DEF IInv
<1>3. phase'[x] = "done" /\ Only(x)
  BY <1>1, <1>2, Zenon DEF TypeOK, Only
<1>4. TypeOK'
  BY <1>1, <1>2, Zenon DEF TypeOK, Phases
<1>5. ContextInv(x, phase[x], blocks[x], tokens[x], futures[x])
  BY Zenon DEF IInv, ContextsInv
<1>6. ContextInv(x, "done", blocks[x], tokens[x], futures[x])
  <2>1. "done" # "dispatch"
    BY Zenon
  <2> QED
    BY <1>2, <1>5, <2>1, PhaseChanges, Zenon
<1>7. ContextsInv'
  BY <1>1, <1>3, <1>6, ContextStep, Zenon
<1>8. WiresInv'
  <2>1. Grows(phase[x], blocks[x], futures[x], phase'[x], blocks'[x], futures'[x])
    BY <1>1, <1>3, SettlesItself, ZenonT(60) DEF Grows
  <2> QED
    BY <1>1, <1>3, <2>1, WiresQuiet, ZenonT(60)
<1> QED
  BY <1>1, <1>4, <1>7, <1>8, Zenon DEF IInv

-----------------------------------------------------------------------------
(* Workers take messages, and listeners ACKs.                                *)

(* Each message of u is a message of s, in the same order.                   *)
Shortened(u, s) ==
  \A k \in DOMAIN u : k + 1 \in DOMAIN s /\ u[k] = s[k + 1] /\ k \in Nat \ {0}

(* The places of a tail.                                                     *)
LEMMA TailFacts ==
  ASSUME NEW S, NEW s \in Seq(S), s # <<>>
  PROVE  /\ Tail(s) \in Seq(S)
         /\ \A k \in DOMAIN Tail(s) : k \in Nat /\ k + 1 \in DOMAIN s /\ Tail(s)[k] = s[k + 1]
         /\ \A k \in DOMAIN s : k = 1 \/ (k - 1 \in DOMAIN Tail(s) /\ Tail(s)[k - 1] = s[k])
         /\ \A k \in DOMAIN Tail(s) : k + 1 # 1 
         /\ \A k, l \in DOMAIN Tail(s) : k < l <=> k + 1 < l + 1 
         /\ Head(s) = s[1] /\ 1 \in DOMAIN s /\ Head(s) \in S
  OBVIOUS

(* Taking the first message shortens a queue.                                *)
LEMMA TailShortened ==
  ASSUME NEW q \in Seq(Message), q # <<>>
  PROVE  /\ Shortened(Tail(q), q) /\ Tail(q) \in Seq(Message)
         /\ Head(q) = q[1] /\ 1 \in DOMAIN q /\ Head(q) \in Message
  BY TailFacts, SMTT(30) DEF Shortened

(* The SYNC_CONTINUEs that remain in a queue stay justified.                 *)
LEMMA ContinueTaken ==
  ASSUME NEW q, NEW u, Shortened(u, q), NEW ph, NEW bs, NEW fs, ContinueInv(q, ph, bs, fs)
  PROVE  ContinueInv(u, ph, bs, fs)
  BY ZenonT(60) DEF ContinueInv, Shortened

(* The worker takes a message: what is left is as it was.                    *)
LEMMA WireTakes ==
  ASSUME NEW i, NEW q, NEW u, NEW a, NEW fs, WireInv(i, q, a, fs), Shortened(u, q)
  PROVE  WireInv(i, u, a, fs)
<1>1. \A k, l \in DOMAIN u : k + 1 = l + 1 => k = l
  BY DEF Shortened
<1> QED
  BY <1>1 DEF WireInv, Shortened

(* The queues of one instrument change, and no context does.                 *)
LEMMA QueuesStep ==
  ASSUME IInv, NEW i \in Instruments, NEW u \in Seq(Message), NEW c \in Seq(Message),
         UNCHANGED <<phase, blocks, tokens, futures>>,
         req' = [req EXCEPT ![i] = u], resp' = [resp EXCEPT ![i] = c],
         WireInv(i, u, c, futures), ContinueInv(u, phase, blocks, futures)
  PROVE  /\ req' \in [Instruments -> Seq(Message)] /\ resp' \in [Instruments -> Seq(Message)]
         /\ ContextsInv' /\ WiresInv'
<1>1. req \in [Instruments -> Seq(Message)] /\ resp \in [Instruments -> Seq(Message)]
  BY Zenon DEF IInv, TypeOK
<1>2. /\ req' \in [Instruments -> Seq(Message)] /\ resp' \in [Instruments -> Seq(Message)]
      /\ req'[i] = u /\ resp'[i] = c
      /\ \A j \in Instruments : j # i => req'[j] = req[j] /\ resp'[j] = resp[j]
  BY <1>1, Zenon
<1>3. ContextsInv'
  BY Zenon DEF IInv, ContextsInv
<1>4. ASSUME NEW j \in Instruments
      PROVE  /\ WireInv(j, req'[j], resp'[j], futures')
             /\ ContinueInv(req'[j], phase', blocks', futures')
  <2>1. CASE j = i
    BY <1>2, <2>1, Zenon
  <2>2. CASE j # i
    BY <1>2, <2>2, Zenon DEF IInv, WiresInv
  <2> QED
    BY <2>1, <2>2, Zenon
<1> QED
  BY <1>2, <1>3, <1>4, Zenon DEF WiresInv

(* handle_sync_continue: the worker goes on.                                 *)
LEMMA NextHandleSyncContinue ==
  ASSUME IInv, NEW i \in Instruments, handle_sync_continue(i)
  PROVE  IInv'
<1> DEFINE q == req[i]
           a == resp[i]
<1>1. /\ q # <<>> /\ TypeOK
      /\ waiting' = [waiting EXCEPT ![i] = IF waiting[i] = Head(q).token THEN 0 ELSE waiting[i]]
      /\ req' = [req EXCEPT ![i] = Tail(q)]
      /\ UNCHANGED <<registered, rbarriers, barriers, phase, blocks, todo, tokens,
                     results, futures, resp, server>>
  BY Zenon DEF handle_sync_continue, IInv, TypeOK
<1>2. q \in Seq(Message) /\ a \in Seq(Message) /\ resp' = [resp EXCEPT ![i] = a]
  BY <1>1, Zenon DEF TypeOK
<1>3. Tail(q) \in Seq(Message) /\ Shortened(Tail(q), q)
  BY ONLY <1>1, <1>2, TailShortened, Zenon
<1>4. WireInv(i, q, a, futures) /\ ContinueInv(q, phase, blocks, futures)
  BY Zenon DEF IInv, WiresInv
<1>5. WireInv(i, Tail(q), a, futures) /\ ContinueInv(Tail(q), phase, blocks, futures)
  BY ONLY <1>3, <1>4, WireTakes, ContinueTaken, ZenonT(60)
<1>6. waiting' \in [Instruments -> Nat]
  BY <1>1, Zenon DEF TypeOK
<1>7. /\ req' \in [Instruments -> Seq(Message)] /\ resp' \in [Instruments -> Seq(Message)]
      /\ ContextsInv' /\ WiresInv'
  BY <1>1, <1>2, <1>3, <1>5, QueuesStep, ZenonT(60)
<1>8. TypeOK'
  BY <1>1, <1>6, <1>7, Zenon DEF TypeOK
<1> QED
  BY <1>1, <1>7, <1>8, Zenon DEF IInv

(* A response is taken, and its command is not in the queue.                 *)
LEMMA WireHears ==
  ASSUME NEW i, NEW q, NEW a, NEW c, NEW fs, WireInv(i, q, a, fs), Shortened(c, a)
  PROVE  WireInv(i, q, c, fs)
<1>1. \A k \in DOMAIN c : k + 1 \in DOMAIN a /\ c[k] = a[k + 1]
  BY Zenon DEF Shortened
<1>2. ASSUME NEW k \in DOMAIN c, c[k].type = "RESPONSE"
      PROVE  /\ c[k].n \in DOMAIN fs[c[k].ctx]
             /\ fs[c[k].ctx][c[k].n].inst = i
             /\ \A l \in DOMAIN q :
                  q[l].type = "COMMAND" => ~(q[l].ctx = c[k].ctx /\ q[l].n = c[k].n)
  <2>1. k + 1 \in DOMAIN a /\ c[k] = a[k + 1]
    BY <1>1, Zenon
  <2>2. a[k + 1].type = "RESPONSE"
    BY <1>2, <2>1, Zenon
  <2>3. /\ a[k + 1].n \in DOMAIN fs[a[k + 1].ctx]
        /\ fs[a[k + 1].ctx][a[k + 1].n].inst = i
        /\ \A l \in DOMAIN q : q[l].type = "COMMAND" =>
             ~(q[l].ctx = a[k + 1].ctx /\ q[l].n = a[k + 1].n)
    BY <2>1, <2>2, Zenon DEF WireInv
  <2> QED
    BY ONLY <2>1, <2>3, Zenon
<1> QED
  BY <1>2, Zenon DEF WireInv

(* The registry's coordinator knows no barrier, so that an ACK completes     *)
(* nothing there.                                                            *)
LEMMA NextHandleSyncAck ==
  ASSUME IInv, NEW i \in Instruments, handle_sync_ack_message(i)
  PROVE  IInv'
<1> DEFINE q == req[i]
           a == resp[i]
           t == Head(resp[i]).token
<1>1. /\ a # <<>> /\ TypeOK /\ rbarriers = NoBarriers
      /\ rbarriers' = handle_ack(rbarriers, t, i)
      /\ Completes(rbarriers, t, i) \/ req' = req
      /\ resp' = [resp EXCEPT ![i] = Tail(a)]
      /\ UNCHANGED <<registered, barriers, phase, blocks, todo, tokens, results, futures,
                     waiting, server>>
  BY Zenon DEF handle_sync_ack_message, IInv
<1>2. ~Expected(rbarriers, t, i)
  <2>1. DOMAIN rbarriers = {}
    BY <1>1, Zenon DEF NoBarriers
  <2> QED
    BY <2>1, Zenon DEF Expected, has_barrier
<1>3. req' = req /\ rbarriers' = rbarriers
  BY <1>1, <1>2, ZenonT(60) DEF handle_ack, Completes
<1>4. q \in Seq(Message) /\ a \in Seq(Message) /\ req' = [req EXCEPT ![i] = q]
  BY <1>1, <1>3, Zenon DEF TypeOK
<1>5. Tail(a) \in Seq(Message) /\ Shortened(Tail(a), a)
  BY ONLY <1>1, <1>4, TailShortened, Zenon
<1>6. WireInv(i, q, a, futures) /\ ContinueInv(q, phase, blocks, futures)
  BY Zenon DEF IInv, WiresInv
<1>7. WireInv(i, q, Tail(a), futures)
  BY ONLY <1>5, <1>6, WireHears, Zenon
<1>8. /\ req' \in [Instruments -> Seq(Message)] /\ resp' \in [Instruments -> Seq(Message)]
      /\ ContextsInv' /\ WiresInv'
  BY <1>1, <1>4, <1>5, <1>6, <1>7, QueuesStep, ZenonT(60)
<1>9. TypeOK'
  BY <1>1, <1>8, Zenon DEF TypeOK
<1> QED
  BY <1>1, <1>3, <1>8, <1>9, Zenon DEF IInv

(* Sequences with the same elements are the same.                            *)
LEMMA SeqSame ==
  ASSUME NEW S, NEW s \in Seq(S), NEW u \in Seq(S), Len(s) = Len(u),
         \A k \in 1..Len(s) : s[k] = u[k]
  PROVE  s = u
<1>1. \A v \in Seq(S) : v \in [1..Len(v) -> S]
  OBVIOUS
<1>2. s \in [1..Len(s) -> S] /\ u \in [1..Len(s) -> S]
  BY <1>1, Zenon
<1> QED
  BY ONLY <1>2, \A k \in 1..Len(s) : s[k] = u[k]

(* What the worker puts into its response queue.                             *)
Replied(c, a, m) ==
  \A k \in DOMAIN c : c[k].type = "RESPONSE" =>
    \/ c[k].ctx = m.ctx /\ c[k].n = m.n
    \/ k \in DOMAIN a /\ c[k] = a[k]

(* handle_command: a blocked worker drops the command, another answers it.   *)
LEMMA NextHandleCommand ==
  ASSUME IInv, NEW i \in Instruments, handle_command(i)
  PROVE  IInv'
(* A response for the command that was just taken from the queue.            *)
<1>WireAnswers. ASSUME NEW i1, NEW q, NEW u, NEW a, NEW c, NEW fs, WireInv(i1, q, a, fs),
                       1 \in DOMAIN q, Shortened(u, q), q[1].type = "COMMAND",
                       \A k \in DOMAIN c : c[k].type = "RESPONSE" =>
                         \/ c[k].ctx = q[1].ctx /\ c[k].n = q[1].n
                         \/ k \in DOMAIN a /\ c[k] = a[k]
                PROVE  WireInv(i1, u, c, fs)
  <2> USE <1>WireAnswers
  <2>1. WireInv(i1, u, a, fs)
    BY WireTakes, ZenonT(60)
  <2>2. \A l \in DOMAIN u : u[l].type = "COMMAND" => ~(u[l].ctx = q[1].ctx /\ u[l].n = q[1].n)
    <3>1. \A l \in DOMAIN u : l + 1 # 1
      BY DEF Shortened
    <3> QED
      BY <3>1, SMTT(60) DEF WireInv, Shortened
  <2>3. q[1].n \in DOMAIN fs[q[1].ctx] /\ fs[q[1].ctx][q[1].n].inst = i1
    BY Zenon DEF WireInv
  <2>4. \A k \in DOMAIN c : c[k].type = "RESPONSE" =>
          /\ c[k].n \in DOMAIN fs[c[k].ctx]
          /\ fs[c[k].ctx][c[k].n].inst = i1
          /\ \A l \in DOMAIN u :
               u[l].type = "COMMAND" => ~(u[l].ctx = c[k].ctx /\ u[l].n = c[k].n)
    <3>1. SUFFICES ASSUME NEW k \in DOMAIN c, c[k].type = "RESPONSE"
                   PROVE  /\ c[k].n \in DOMAIN fs[c[k].ctx]
                          /\ fs[c[k].ctx][c[k].n].inst = i1
                          /\ \A l \in DOMAIN u :
                               u[l].type = "COMMAND" => ~(u[l].ctx = c[k].ctx /\ u[l].n = c[k].n)
      BY Zenon
    <3>2. CASE c[k].ctx = q[1].ctx /\ c[k].n = q[1].n
      BY ONLY <2>2, <2>3, <3>2, Zenon
    <3>3. CASE k \in DOMAIN a /\ c[k] = a[k]
      <4>1. a[k].type = "RESPONSE"
        BY ONLY <3>1, <3>3, Zenon
      <4>2. /\ a[k].n \in DOMAIN fs[a[k].ctx]
            /\ fs[a[k].ctx][a[k].n].inst = i1
            /\ \A l \in DOMAIN u :
                 u[l].type = "COMMAND" => ~(u[l].ctx = a[k].ctx /\ u[l].n = a[k].n)
        BY ONLY <2>1, <3>3, <4>1, Zenon DEF WireInv
      <4> QED
        BY ONLY <3>3, <4>2, Zenon
    <3> QED
      BY <3>1, <3>2, <3>3, Zenon
  <2> QED
    BY <2>1, <2>4, Zenon DEF WireInv
<1>RepliesAre. ASSUME NEW m \in Message, NEW a \in Seq(Message), NEW d, d = Deserialize(m),
                      NEW ack \in {<<>>, <<Reply(d, "SYNC_ACK")>>},
                      NEW c, c = a \o <<Reply(d, "RESPONSE")>> \o ack
               PROVE  c \in Seq(Message) /\ Replied(c, a, m)
  <2> USE <1>RepliesAre
  <2>ConcatNothing. ASSUME NEW S, NEW s \in Seq(S)
                    PROVE  s \o <<>> = s
    <3> USE <2>ConcatNothing
    <3>1. /\ s \o <<>> \in Seq(S) /\ Len(s \o <<>>) = Len(s)
          /\ \A k \in 1..Len(s) : (s \o <<>>)[k] = s[k]
      OBVIOUS
    <3> QED
      BY <3>1, SeqSame, Zenon
  <2> DEFINE r == Reply(d, "RESPONSE")
             s == Reply(d, "SYNC_ACK")
  <2>1. d \in Message /\ d.ctx = m.ctx /\ d.n = m.n
    BY Zenon DEF Deserialize, Message
  <2>2. /\ r \in Message /\ r.ctx = m.ctx /\ r.n = m.n
        /\ s \in Message /\ s.type = "SYNC_ACK"
    BY <2>1, Zenon DEF Reply, Message
  <2> HIDE DEF r, s
  <2>3. c = a \o <<r>> \/ c = a \o <<r>> \o <<s>>
    <3>1. CASE ack = <<>>
      <4>1. c = a \o <<r>> \o <<>>
        BY <3>1, Zenon DEF r, s
      <4>2. a \o <<r>> \in Seq(Message)
        BY <2>2
      <4> QED
        BY ONLY <4>1, <4>2, <2>ConcatNothing, Zenon
    <3>2. CASE ack = <<s>>
      BY <3>2, Zenon DEF r, s
    <3> QED
      BY <3>1, <3>2, Zenon DEF s
  <2>4. /\ a \o <<r>> \in Seq(Message) /\ DOMAIN (a \o <<r>>) = DOMAIN a \cup {Len(a) + 1}
        /\ \A k \in DOMAIN a : (a \o <<r>>)[k] = a[k]
        /\ (a \o <<r>>)[Len(a) + 1] = r
    BY <2>2, SMTT(30)
  <2> DEFINE g == a \o <<r>>
  <2> HIDE DEF g
  <2>5. CASE c = g
    BY <2>2, <2>4, <2>5, ZenonT(60) DEF g, Replied
  <2>6. CASE c = g \o <<s>>
    <3>1. /\ g \o <<s>> \in Seq(Message) /\ DOMAIN (g \o <<s>>) = DOMAIN g \cup {Len(g) + 1}
          /\ \A k \in DOMAIN g : (g \o <<s>>)[k] = g[k]
          /\ (g \o <<s>>)[Len(g) + 1] = s
      BY <2>2, <2>4, SMTT(30) DEF g
    <3>2. Replied(g, a, m)
      BY <2>2, <2>4, Zenon DEF g, Replied
    <3> QED
      BY ONLY <2>2, <2>6, <3>1, <3>2, ZenonT(60) DEF Replied
  <2> QED
    BY <2>3, <2>5, <2>6, Zenon DEF g
<1> DEFINE q == req[i]
           a == resp[i]
           m == Deserialize(Head(q))
           c == a \o <<Reply(m, "RESPONSE")>>
                  \o IF m.token = 0 THEN <<>> ELSE <<Reply(m, "SYNC_ACK")>>
<1>1. /\ q # <<>> /\ Head(q).type = "COMMAND" /\ TypeOK
      /\ req' = [req EXCEPT ![i] = Tail(q)]
      /\ \/ waiting[i] # 0 /\ resp' = resp /\ waiting' = waiting
         \/ /\ resp' = [resp EXCEPT ![i] = c]
            /\ waiting' = [waiting EXCEPT ![i] = IF m.barrier THEN m.token ELSE 0]
      /\ UNCHANGED <<registered, rbarriers, barriers, phase, blocks, todo, tokens, results,
                     futures, server>>
  BY Zenon DEF handle_command, IInv
<1>2. q \in Seq(Message) /\ a \in Seq(Message) /\ resp = [resp EXCEPT ![i] = a]
  BY <1>1, Zenon DEF TypeOK
<1>3. /\ Tail(q) \in Seq(Message) /\ Shortened(Tail(q), q)
      /\ Head(q) = q[1] /\ 1 \in DOMAIN q /\ Head(q) \in Message
  BY ONLY <1>1, <1>2, TailShortened, Zenon
<1>4. WireInv(i, q, a, futures) /\ ContinueInv(q, phase, blocks, futures)
  BY Zenon DEF IInv, WiresInv
<1>5. WireInv(i, Tail(q), a, futures) /\ ContinueInv(Tail(q), phase, blocks, futures)
  BY ONLY <1>3, <1>4, WireTakes, ContinueTaken, ZenonT(60)
<1>6. CASE waiting[i] # 0 /\ resp' = resp /\ waiting' = waiting
  <2>1. resp' = [resp EXCEPT ![i] = a]
    BY <1>2, <1>6, Zenon
  <2>2. /\ req' \in [Instruments -> Seq(Message)] /\ resp' \in [Instruments -> Seq(Message)]
        /\ ContextsInv' /\ WiresInv'
    BY <1>1, <1>2, <1>3, <1>5, <2>1, QueuesStep, ZenonT(60)
  <2>3. TypeOK'
    BY <1>1, <1>6, <2>2, Zenon DEF TypeOK
  <2> QED
    BY <1>1, <2>2, <2>3, Zenon DEF IInv
<1>7. CASE /\ resp' = [resp EXCEPT ![i] = c]
           /\ waiting' = [waiting EXCEPT ![i] = IF m.barrier THEN m.token ELSE 0]
  <2>1. c \in Seq(Message) /\ Replied(c, a, q[1])
    <3> DEFINE ack == IF m.token = 0 THEN <<>> ELSE <<Reply(m, "SYNC_ACK")>>
    <3>1. /\ m = Deserialize(q[1]) /\ q[1] \in Message
          /\ ack \in {<<>>, <<Reply(m, "SYNC_ACK")>>}
          /\ c = a \o <<Reply(m, "RESPONSE")>> \o ack
      BY <1>3, ZenonT(60)
    <3> HIDE DEF m, c, a, q, ack
    <3> QED
      BY ONLY <1>2, <3>1, <1>RepliesAre, Zenon
  <2>2. waiting' \in [Instruments -> Nat]
    <3>1. m \in Message
      BY <1>3, Zenon DEF Deserialize, Message
    <3>2. m.token \in Nat
      BY <3>1, Zenon DEF Message
    <3> DEFINE v == IF m.barrier THEN m.token ELSE 0
    <3>3. v \in Nat
      BY <3>2, Zenon
    <3> HIDE DEF v
    <3> QED
      BY <1>1, <1>7, <3>3, Zenon DEF TypeOK, v
  <2> HIDE DEF c
  <2>3. WireInv(i, Tail(q), c, futures)
    <3>1. q[1].type = "COMMAND"
      BY <1>1, <1>3, Zenon
    <3> HIDE DEF q, a
    <3> QED
      BY ONLY <1>3, <1>4, <2>1, <3>1, <1>WireAnswers, Zenon DEF Replied
  <2>4. /\ req' \in [Instruments -> Seq(Message)] /\ resp' \in [Instruments -> Seq(Message)]
        /\ ContextsInv' /\ WiresInv'
    BY <1>1, <1>3, <1>5, <1>7, <2>1, <2>3, QueuesStep, ZenonT(60)
  <2>5. TypeOK'
    BY <1>1, <2>2, <2>4, Zenon DEF TypeOK
  <2> QED
    BY <1>1, <2>4, <2>5, Zenon DEF IInv
<1> QED
  BY <1>1, <1>6, <1>7, Zenon

-----------------------------------------------------------------------------
(* Responses are applied, and instruments removed.                           *)

(* Futures are kept: also unsettled, if their command is in the queue q of   *)
(* the instrument i.                                                         *)
Keeps(i, q, fs, gs) ==
  \A x \in Contexts : \A n \in DOMAIN fs[x] :
    /\ n \in DOMAIN gs[x] /\ gs[x][n].inst = fs[x][n].inst
    /\ (\E k \in DOMAIN q : q[k].type = "COMMAND" /\ q[k].ctx = x /\ q[k].n = n) =>
         gs[x][n].state = fs[x][n].state

(* What an instrument has in its queues stays right when its futures are     *)
(* kept.                                                                     *)
LEMMA WireStays ==
  ASSUME NEW i, NEW q \in Seq(Message), NEW a \in Seq(Message), NEW fs, NEW gs,
         WireInv(i, q, a, fs), Keeps(i, q, fs, gs)
  PROVE  WireInv(i, q, a, gs)
<1>1. /\ \A k \in DOMAIN q : q[k] \in Message
      /\ \A k \in DOMAIN a : a[k] \in Message
  OBVIOUS
<1>2. /\ \A k \in DOMAIN q : q[k].ctx \in Contexts
      /\ \A k \in DOMAIN a : a[k].ctx \in Contexts
  BY ONLY <1>1, Zenon DEF Message
<1>3. ASSUME NEW k \in DOMAIN q, q[k].type = "COMMAND"
      PROVE  /\ q[k].n \in DOMAIN gs[q[k].ctx]
             /\ gs[q[k].ctx][q[k].n].inst = i
             /\ gs[q[k].ctx][q[k].n].state = "unset"
             /\ \A l \in DOMAIN q :
                  q[l].type = "COMMAND" /\ q[l].ctx = q[k].ctx /\ q[l].n = q[k].n => k = l
  BY <1>2, <1>3, ZenonT(60) DEF WireInv, Keeps
<1>4. ASSUME NEW k \in DOMAIN a, a[k].type = "RESPONSE"
      PROVE  /\ a[k].n \in DOMAIN gs[a[k].ctx]
             /\ gs[a[k].ctx][a[k].n].inst = i
             /\ \A l \in DOMAIN q :
                  q[l].type = "COMMAND" => ~(q[l].ctx = a[k].ctx /\ q[l].n = a[k].n)
  BY <1>2, <1>4, ZenonT(60) DEF WireInv, Keeps
<1> QED
  BY <1>3, <1>4, Zenon DEF WireInv

(* Futures settle, and no script goes on.                                    *)
LEMMA FuturesStep ==
  ASSUME IInv, UNCHANGED <<phase, blocks, tokens>>,
         \A x \in Contexts : Settles(futures[x], futures'[x])
  PROVE  /\ ContextsInv'
         /\ \A x \in Contexts :
              Grows(phase[x], blocks[x], futures[x], phase'[x], blocks'[x], futures'[x])
<1>FuturesSettle. ASSUME NEW x, NEW p, NEW b, NEW T, NEW F, NEW G,
                         ContextInv(x, p, b, T, F), Settles(F, G)
                  PROVE  ContextInv(x, p, b, T, G)
  <2> USE <1>FuturesSettle
  <2>1. TokenInv(p, b, T, G)
    BY DEF ContextInv, TokenInv, Settles
  <2>2. ASSUME x \in Commands PROVE CommandInv(p, b, T, G)
    BY <2>2, Zenon DEF ContextInv, CommandInv, Settles
  <2> QED
    BY <2>1, <2>2, Zenon DEF ContextInv
<1>1. ASSUME NEW x \in Contexts
      PROVE  ContextInv(x, phase'[x], blocks'[x], tokens'[x], futures'[x])
  <2>1. /\ ContextInv(x, phase[x], blocks[x], tokens[x], futures[x])
        /\ Settles(futures[x], futures'[x])
    BY ZenonT(60) DEF IInv, ContextsInv
  <2>2. ContextInv(x, phase[x], blocks[x], tokens[x], futures'[x])
    BY ONLY <2>1, <1>FuturesSettle, Zenon
  <2> QED
    BY <2>2, Zenon
<1>2. ContextsInv'
  BY <1>1, Zenon DEF ContextsInv
<1>3. ASSUME NEW x \in Contexts
      PROVE  Grows(phase[x], blocks[x], futures[x], phase'[x], blocks'[x], futures'[x])
  <2>1. /\ phase'[x] = phase[x] /\ blocks'[x] = blocks[x]
        /\ Settles(futures[x], futures'[x])
    BY Zenon
  <2> QED
    BY ONLY <2>1, Zenon DEF Grows
<1> QED
  BY <1>2, <1>3, Zenon

(* The response's command is no longer in any queue: not in the one of the   *)
(* instrument that answered, and the others have no command of it.           *)
LEMMA NextHandleResponse ==
  ASSUME IInv, NEW i \in Instruments, handle_response_message(i)
  PROVE  IInv'
<1>AnsweredFacts. ASSUME NEW F \in Seq(Future), NEW n \in DOMAIN F,
                         NEW G, G = [F EXCEPT ![n] = [F[n] EXCEPT !.state = "answered"]]
                  PROVE  /\ G \in Seq(Future) /\ Settles(F, G)
                         /\ \A k \in DOMAIN F : /\ k \in DOMAIN G /\ G[k].inst = F[k].inst
                                                /\ k # n => G[k] = F[k]
  <2> USE <1>AnsweredFacts
  <2> DEFINE f == F[n]
             g == [f EXCEPT !.state = "answered"]
  <2>1. f \in Future
    OBVIOUS
  <2> HIDE DEF f
  <2>2. /\ g \in Future /\ g.inst = f.inst /\ g.block = f.block /\ g.state = "answered"
        /\ g.part <=> f.part
    BY <2>1, Zenon DEF Future
  <2> HIDE DEF g
  <2>3. G = [F EXCEPT ![n] = g]
    BY Zenon DEF f, g
  <2>4. /\ G \in Seq(Future) /\ DOMAIN G = DOMAIN F /\ Len(G) = Len(F) /\ G[n] = g
        /\ \A k \in DOMAIN F : k # n => G[k] = F[k]
    BY ONLY <2>2, <2>3, F \in Seq(Future), n \in DOMAIN F
  <2>5. Settles(F, G)
    <3>1. /\ G[n].inst = F[n].inst /\ G[n].block = F[n].block
          /\ G[n].part <=> F[n].part
          /\ G[n].state # "unset"
      BY <2>2, <2>4, Zenon DEF f
    <3> QED
      BY ONLY <2>4, <3>1, Zenon DEF Settles
  <2> QED
    BY <2>2, <2>4, <2>5, Zenon DEF f
<1> DEFINE a == resp[i]
           y == Head(resp[i]).ctx
           n == Head(resp[i]).n
           F == futures[y]
           G == [F EXCEPT ![n] = [F[n] EXCEPT !.state = "answered"]]
<1>1. /\ a # <<>> /\ TypeOK /\ Head(a).type = "RESPONSE"
      /\ futures' = [futures EXCEPT ![y][n].state = "answered"]
      /\ resp' = [resp EXCEPT ![i] = Tail(a)]
      /\ UNCHANGED <<registered, rbarriers, barriers, phase, blocks, todo, tokens, results,
                     req, waiting, server>>
  BY Zenon DEF handle_response_message, IInv
<1>2. /\ a \in Seq(Message) /\ futures \in [Contexts -> Seq(Future)]
      /\ req \in [Instruments -> Seq(Message)] /\ resp \in [Instruments -> Seq(Message)]
      /\ blocks \in [Contexts -> Nat]
  BY <1>1, Zenon DEF TypeOK
<1>3. /\ Tail(a) \in Seq(Message) /\ Shortened(Tail(a), a)
      /\ Head(a) = a[1] /\ 1 \in DOMAIN a /\ Head(a) \in Message
  BY ONLY <1>1, <1>2, TailShortened, Zenon
<1>4. y \in Contexts /\ F \in Seq(Future)
  <2>1. y \in Contexts
    BY <1>3, Zenon DEF Message
  <2> HIDE DEF y
  <2> QED
    BY <1>2, <2>1, Zenon
<1>5. /\ n \in DOMAIN F /\ F[n].inst = i
      /\ \A l \in DOMAIN req[i] :
           req[i][l].type = "COMMAND" => ~(req[i][l].ctx = y /\ req[i][l].n = n)
  <2>1. WireInv(i, req[i], a, futures)
    BY Zenon DEF IInv, WiresInv
  <2>2. a[1].type = "RESPONSE" /\ a[1].ctx = y /\ a[1].n = n
    BY <1>1, <1>3, Zenon
  <2> DEFINE q == req[i]
  <2> HIDE DEF a, y, n, q
  <2>3. /\ a[1].n \in DOMAIN futures[a[1].ctx] /\ futures[a[1].ctx][a[1].n].inst = i
        /\ \A l \in DOMAIN q :
             q[l].type = "COMMAND" => ~(q[l].ctx = a[1].ctx /\ q[l].n = a[1].n)
    BY ONLY <1>3, <2>1, <2>2, Zenon DEF WireInv, q
  <2> QED
    BY <2>2, <2>3, Zenon DEF q
<1> HIDE DEF y, n
<1>6. futures' = [futures EXCEPT ![y] = G]
  BY <1>1, <1>2, <1>4, Zenon
<1>7. /\ G \in Seq(Future) /\ Settles(F, G)
      /\ \A k \in DOMAIN F : /\ k \in DOMAIN G /\ G[k].inst = F[k].inst
                             /\ k # n => G[k] = F[k]
  <2> HIDE DEF F
  <2> QED
    BY ONLY <1>4, <1>5, <1>AnsweredFacts, SMTT(30)
<1> HIDE DEF G
<1>8. /\ futures' \in [Contexts -> Seq(Future)] /\ futures'[y] = G
      /\ \A x \in Contexts : x # y => futures'[x] = futures[x]
  BY ONLY <1>2, <1>4, <1>6, <1>7, Zenon
<1>9. \A x \in Contexts : Settles(futures[x], futures'[x])
  BY <1>4, <1>7, <1>8, SettlesItself, Zenon
<1>10. /\ ContextsInv'
       /\ \A x \in Contexts :
            Grows(phase[x], blocks[x], futures[x], phase'[x], blocks'[x], futures'[x])
  BY <1>1, <1>9, FuturesStep, Zenon
<1>11. resp' \in [Instruments -> Seq(Message)] /\ resp'[i] = Tail(a)
       /\ \A j \in Instruments : j # i => resp'[j] = resp[j]
  BY ONLY <1>1, <1>2, <1>3, i \in Instruments, Zenon
<1>12. TypeOK'
  BY <1>1, <1>8, <1>11, Zenon DEF TypeOK
<1>13. ASSUME NEW j \in Instruments
       PROVE  /\ WireInv(j, req'[j], resp'[j], futures')
              /\ ContinueInv(req'[j], phase', blocks', futures')
  <2>1. /\ WireInv(j, req[j], resp[j], futures)
        /\ ContinueInv(req[j], phase, blocks, futures)
    BY Zenon DEF IInv, WiresInv
  <2>2. req[j] \in Seq(Message) /\ resp'[j] \in Seq(Message) /\ req'[j] = req[j]
    BY <1>1, <1>2, <1>11, Zenon
  <2>3. WireInv(j, req[j], resp'[j], futures)
    <3>1. CASE j = i
      BY <1>3, <1>11, <2>1, <3>1, WireHears, Zenon
    <3>2. CASE j # i
      BY <1>11, <2>1, <3>2, ZenonT(60)
    <3> QED
      BY <3>1, <3>2, Zenon
  <2>4. ~\E k \in DOMAIN req[j] : /\ req[j][k].type = "COMMAND"
                                  /\ req[j][k].ctx = y /\ req[j][k].n = n
    <3>1. CASE j = i
      BY <1>5, <3>1, Zenon
    <3>2. CASE j # i
      BY <1>5, <2>1, <3>2, Zenon DEF WireInv
    <3> QED
      BY <3>1, <3>2, Zenon
  <2>5. Keeps(j, req[j], futures, futures')
    <3>1. ASSUME NEW x \in Contexts, NEW k \in DOMAIN futures[x]
          PROVE  /\ k \in DOMAIN futures'[x]
                 /\ futures'[x][k].inst = futures[x][k].inst
                 /\ (x # y \/ k # n) => futures'[x][k] = futures[x][k]
      <4>1. CASE x = y
        BY <1>7, <1>8, <4>1, Zenon
      <4>2. CASE x # y
        BY <1>8, <4>2, Zenon
      <4> QED
        BY <4>1, <4>2, Zenon
    <3> QED
      BY ONLY <2>4, <3>1, ZenonT(60) DEF Keeps
  <2>6. WireInv(j, req[j], resp'[j], futures')
    BY <2>2, <2>3, <2>5, WireStays, Zenon
  <2>7. ContinueInv(req[j], phase', blocks', futures')
    BY <1>2, <1>10, <2>1, <2>2, ContinuesStay, Zenon
  <2> QED
    BY <2>2, <2>6, <2>7, Zenon
<1>14. WiresInv'
  BY <1>13, ZenonT(60) DEF WiresInv
<1> QED
  BY <1>1, <1>10, <1>12, <1>14, Zenon DEF IInv

(* Empty queues satisfy the invariant.                                       *)
LEMMA NothingQueued ==
  ASSUME NEW i, NEW ph, NEW bs, NEW fs
  PROVE  ContinueInv(<<>>, ph, bs, fs) /\ WireInv(i, <<>>, <<>>, fs)
  BY EmptyFacts, Zenon DEF ContinueInv, WireInv

Stopped(F, i) ==
  [n \in DOMAIN F |-> IF F[n].inst = i /\ F[n].state = "unset"
                        THEN [F[n] EXCEPT !.state = "stopped"] ELSE F[n]]

(* The proxy's queues go with it, and with them every command of the         *)
(* futures that its stop settles.                                            *)
LEMMA NextRemoveInstrument ==
  ASSUME IInv, NEW i \in Instruments, remove_instrument(i)
  PROVE  IInv'
<1>StoppedFacts. ASSUME NEW F \in Seq(Future), NEW i1
                 PROVE  /\ Stopped(F, i1) \in Seq(Future) /\ Settles(F, Stopped(F, i1))
                        /\ \A k \in DOMAIN F : /\ k \in DOMAIN Stopped(F, i1)
                                               /\ Stopped(F, i1)[k].inst = F[k].inst
                                               /\ F[k].inst # i1 => Stopped(F, i1)[k] = F[k]
  <2> USE <1>StoppedFacts
  <2> DEFINE G == Stopped(F, i1)
  <2> DEFINE H(f) == IF f.inst = i1 /\ f.state = "unset" THEN [f EXCEPT !.state = "stopped"]
                     ELSE f
  <2>1. ASSUME NEW f \in Future
        PROVE  /\ H(f) \in Future /\ H(f).inst = f.inst /\ H(f).block = f.block
               /\ H(f).part <=> f.part
               /\ f.state # "unset" => H(f).state # "unset"
               /\ f.inst # i1 => H(f) = f
    <3>1. CASE f.inst = i1 /\ f.state = "unset"
      <4>1. H(f) = [f EXCEPT !.state = "stopped"]
        BY <3>1, Zenon
      <4> HIDE DEF H
      <4> QED
        BY <3>1, <4>1, Zenon DEF Future
    <3>2. CASE ~(f.inst = i1 /\ f.state = "unset")
      BY <3>2, Zenon
    <3> QED
      BY <3>1, <3>2, Zenon
  <2>2. G = [n \in DOMAIN F |-> H(F[n])]
    BY Zenon DEF Stopped
  <2> HIDE DEF G, H
  <2>3. DOMAIN F = 1..Len(F) /\ Len(F) \in Nat /\ \A n \in DOMAIN F : F[n] \in Future
    OBVIOUS
  <2>4. DOMAIN G = DOMAIN F /\ \A n \in DOMAIN F : G[n] = H(F[n])
    BY ONLY <2>2, Zenon
  <2>5. G \in Seq(Future)
    <3>1. \A n \in 1..Len(F) : H(F[n]) \in Future
      BY ONLY <2>1, <2>3, Zenon
    <3>2. G = [n \in 1..Len(F) |-> H(F[n])]
      BY ONLY <2>2, <2>3, Zenon
    <3>3. G \in [1..Len(F) -> Future]
      BY ONLY <3>1, <3>2, Zenon
    <3> QED
      BY ONLY <2>3, <3>3, SMTT(30)
  <2>6. Len(G) = Len(F)
    BY ONLY <2>3, <2>4, <2>5
  <2>7. ASSUME NEW k \in DOMAIN F
        PROVE  /\ G[k].inst = F[k].inst /\ G[k].block = F[k].block
               /\ G[k].part <=> F[k].part
               /\ F[k].state # "unset" => G[k].state # "unset"
               /\ F[k].inst # i1 => G[k] = F[k]
    <3> DEFINE f == F[k]
               g == G[k]
    <3>1. f \in Future /\ g = H(f)
      BY <2>3, <2>4, Zenon
    <3> HIDE DEF f, g
    <3>2. /\ g.inst = f.inst /\ g.block = f.block
          /\ g.part <=> f.part
          /\ f.state # "unset" => g.state # "unset"
          /\ f.inst # i1 => g = f
      BY ONLY <2>1, <3>1, Zenon
    <3> QED
      BY <3>2, Zenon DEF f, g
  <2>8. Settles(F, G)
    BY ONLY <2>4, <2>6, <2>7, Zenon DEF Settles
  <2> QED
    BY <2>4, <2>5, <2>7, <2>8, Zenon DEF G
<1>1. /\ TypeOK /\ i \in registered /\ registered' = registered \ {i}
      /\ futures' = [x \in Contexts |-> Stopped(futures[x], i)]
      /\ req' = [req EXCEPT ![i] = <<>>] /\ resp' = [resp EXCEPT ![i] = <<>>]
      /\ waiting' = [waiting EXCEPT ![i] = 0]
      /\ UNCHANGED <<rbarriers, barriers, phase, blocks, todo, tokens, results, server>>
  BY Zenon DEF remove_instrument, IInv, Stopped
<1>2. /\ futures \in [Contexts -> Seq(Future)] /\ waiting \in [Instruments -> Nat]
      /\ req \in [Instruments -> Seq(Message)] /\ resp \in [Instruments -> Seq(Message)]
      /\ blocks \in [Contexts -> Nat] /\ <<>> \in Seq(Message)
  BY <1>1, EmptyFacts, Zenon DEF TypeOK
<1>4. ASSUME NEW x \in Contexts
      PROVE  /\ futures'[x] \in Seq(Future) /\ Settles(futures[x], futures'[x])
             /\ \A k \in DOMAIN futures[x] :
                  /\ k \in DOMAIN futures'[x]
                  /\ futures'[x][k].inst = futures[x][k].inst
                  /\ futures[x][k].inst # i => futures'[x][k] = futures[x][k]
  <2>1. futures[x] \in Seq(Future) /\ futures'[x] = Stopped(futures[x], i)
    BY <1>1, <1>2, ZenonT(60)
  <2> DEFINE F == futures[x]
             G == Stopped(F, i)
  <2>2. F \in Seq(Future)
    BY <2>1, Zenon
  <2>3. /\ G \in Seq(Future) /\ Settles(F, G)
        /\ \A k \in DOMAIN F : /\ k \in DOMAIN G /\ G[k].inst = F[k].inst
                               /\ F[k].inst # i => G[k] = F[k]
    <3> HIDE DEF F
    <3> QED
      BY ONLY <2>2, <1>StoppedFacts, Zenon
  <2> HIDE DEF G
  <2> QED
    BY <2>1, <2>3, Zenon DEF G
<1>5. futures' \in [Contexts -> Seq(Future)]
  BY <1>1, <1>4, ZenonT(60)
<1>7. /\ ContextsInv'
      /\ \A x \in Contexts :
           Grows(phase[x], blocks[x], futures[x], phase'[x], blocks'[x], futures'[x])
  BY <1>1, <1>4, FuturesStep, ZenonT(60)
<1>8. /\ req' \in [Instruments -> Seq(Message)] /\ resp' \in [Instruments -> Seq(Message)]
      /\ waiting' \in [Instruments -> Nat] /\ req'[i] = <<>> /\ resp'[i] = <<>>
      /\ \A j \in Instruments : j # i => req'[j] = req[j] /\ resp'[j] = resp[j]
  BY ONLY <1>1, <1>2, i \in Instruments, Zenon
<1>9. TypeOK'
  BY <1>1, <1>5, <1>8, Zenon DEF TypeOK
<1>10. ASSUME NEW j \in Instruments
       PROVE  /\ WireInv(j, req'[j], resp'[j], futures')
              /\ ContinueInv(req'[j], phase', blocks', futures')
  <2>1. CASE j = i
    BY <1>8, <2>1, NothingQueued, Zenon
  <2>2. CASE j # i
    <3>1. /\ WireInv(j, req[j], resp[j], futures)
          /\ ContinueInv(req[j], phase, blocks, futures)
      BY Zenon DEF IInv, WiresInv
    <3>2. /\ req[j] \in Seq(Message) /\ resp[j] \in Seq(Message)
          /\ req'[j] = req[j] /\ resp'[j] = resp[j]
      BY <1>2, <1>8, <2>2, Zenon
    <3>3. Keeps(j, req[j], futures, futures')
      <4>1. \A x \in Contexts : \A n \in DOMAIN futures[x] :
              (\E k \in DOMAIN req[j] : /\ req[j][k].type = "COMMAND"
                                        /\ req[j][k].ctx = x /\ req[j][k].n = n)
                => futures[x][n].inst = j
        BY ONLY <3>1, Zenon DEF WireInv
      <4> QED
        BY ONLY <1>4, <2>2, <4>1, ZenonT(60) DEF Keeps
    <3>4. WireInv(j, req[j], resp[j], futures')
      BY <3>1, <3>2, <3>3, WireStays, Zenon
    <3>5. ContinueInv(req[j], phase', blocks', futures')
      BY <1>2, <1>7, <3>1, <3>2, ContinuesStay, ZenonT(60)
    <3> QED
      BY <3>2, <3>4, <3>5, ZenonT(60)
  <2> QED
    BY <2>1, <2>2, Zenon
<1>11. WiresInv'
  BY <1>10, Zenon DEF WiresInv
<1> QED
  BY <1>1, <1>7, <1>9, <1>11, Zenon DEF IInv

-----------------------------------------------------------------------------
(* A parallel block begins.                                                  *)

(* The steps of one context.                                                 *)
ContextType(b, T, F) ==
  b \in Nat /\ T \in Seq(Token) /\ F \in Seq(Future)

(* Sequences.                                                                *)
LEMMA AppendFacts ==
  ASSUME NEW S, NEW s \in Seq(S), NEW e \in S
  PROVE  /\ Append(s, e) \in Seq(S)
         /\ Len(Append(s, e)) = Len(s) + 1
         /\ DOMAIN Append(s, e) = DOMAIN s \cup {Len(s) + 1}
         /\ \A k \in DOMAIN s : Append(s, e)[k] = s[k]
         /\ Append(s, e)[Len(s) + 1] = e
         /\ Len(s) + 1 \notin DOMAIN s
         /\ \A k \in DOMAIN s : k \in Nat /\ k < Len(s) + 1
  OBVIOUS

(* The element at the end of a sequence is replaced.                         *)
LEMMA AppendReplaced ==
  ASSUME NEW S, NEW s \in Seq(S), NEW e \in S, NEW d \in S
  PROVE  [Append(s, e) EXCEPT ![Len(Append(s, e))] = d] = Append(s, d)
<1> DEFINE a == Append(s, e)
           u == [a EXCEPT ![Len(a)] = d]
           v == Append(s, d)
<1>1. /\ a \in Seq(S) /\ Len(a) = Len(s) + 1 /\ Len(s) \in Nat
      /\ \A k \in 1..Len(s) : a[k] = s[k]
  BY AppendFacts
<1>2. /\ v \in Seq(S) /\ Len(v) = Len(s) + 1 /\ v[Len(s) + 1] = d
      /\ \A k \in 1..Len(s) : v[k] = s[k]
  BY AppendFacts
<1> HIDE DEF a, v
<1>3. /\ u \in Seq(S) /\ Len(u) = Len(s) + 1 /\ u[Len(s) + 1] = d
      /\ \A k \in 1..Len(s) : u[k] = s[k]
  BY <1>1
<1> HIDE DEF u
<1>4. \A k \in 1..Len(u) : u[k] = v[k]
  BY ONLY <1>1, <1>2, <1>3
<1>5. u = v
  BY ONLY <1>2, <1>3, <1>4, SeqSame, Zenon
<1> QED
  BY <1>5, Zenon DEF u, v, a

(* What a sequence has in its places.                                        *)
LEMMA SeqFacts ==
  ASSUME NEW S, NEW s \in Seq(S)
  PROVE  /\ DOMAIN s = 1..Len(s) /\ Len(s) \in Nat
         /\ \A k \in DOMAIN s : s[k] \in S
         /\ s # <<>> <=> Len(s) # 0
  OBVIOUS

(* A parallel block begins: a token without futures.                         *)
LEMMA BlockBegins ==
  ASSUME NEW x, NEW p \in {"parse", "dispatch"}, NEW b, NEW T, NEW F,
         ContextInv(x, "parse", b, T, F), ContextType(b, T, F),
         NEW S \in SUBSET Instruments, x \in Commands => p = "dispatch"
  PROVE  ContextInv(x, p, b + 1,
                    Append(T, [token |-> b + 1, insts |-> S, inds |-> <<>>, futs |-> <<>>]), F)
<1> DEFINE tok == [token |-> b + 1, insts |-> S, inds |-> <<>>, futs |-> <<>>]
           U == Append(T, tok)
<1>1. tok \in Token /\ tok.token = b + 1 /\ DOMAIN tok.inds = {} /\ DOMAIN tok.futs = {}
  BY DEF ContextType, Token
<1>2. b \in Nat /\ Len(T) \in Nat
  BY DEF ContextType
<1>3. /\ Len(U) = Len(T) + 1
      /\ DOMAIN U = DOMAIN T \cup {Len(T) + 1} /\ Len(T) + 1 \notin DOMAIN T
      /\ \A k \in DOMAIN T : U[k] = T[k] /\ k < Len(T) + 1 /\ k \in Nat
      /\ U[Len(T) + 1] = tok
  BY <1>1, AppendFacts DEF ContextType
<1>4. \A k \in DOMAIN T : T[k].token \in Nat
  <2>1. T \in Seq(Token)
    BY Zenon DEF ContextType
  <2>2. \A k \in DOMAIN T : T[k] \in Token
    BY <2>1, SeqFacts, Zenon
  <2> QED
    BY <2>2, Zenon DEF Token
<1> HIDE DEF tok, U
<1>5. TokenInv(p, b + 1, U, F)
  <2>1. \A n \in DOMAIN F : F[n].block \in 1..b + 1 /\ F[n].block # b + 1
    BY <1>2 DEF ContextInv, TokenInv
  <2>2. \A k \in DOMAIN T : T[k].token < b + 1 /\ T[k].token <= b + 1
    BY <1>2, <1>4 DEF ContextInv, TokenInv
  <2>3. U # <<>> /\ b + 1 # 0
    BY <1>2, <1>3
  <2>4. ASSUME NEW k \in DOMAIN U
        PROVE  /\ U[k].token <= b + 1
               /\ \A l \in DOMAIN U : k < l => U[k].token < U[l].token
               /\ \A j \in DOMAIN U[k].futs : U[k].futs[j] \in DOMAIN F
               /\ U[k].token # 0 =>
                    \A n \in DOMAIN F : F[n].block = U[k].token =>
                      \E j \in DOMAIN U[k].futs : U[k].futs[j] = n
    <3>1. CASE k \in DOMAIN T
      BY <1>1, <1>2, <1>3, <2>2, <3>1, SMTT(30) DEF ContextInv, TokenInv
    <3>2. CASE k = Len(T) + 1
      BY <1>1, <1>2, <1>3, <2>1, <3>2
    <3> QED
      BY <1>3, <3>1, <3>2, Zenon
  <2> QED
    BY <1>1, <1>3, <2>1, <2>3, <2>4, Zenon DEF TokenInv
<1>7. ASSUME x \in Commands PROVE CommandInv(p, b + 1, U, F)
  <2>1. T = <<>>
    BY <1>7, Zenon DEF ContextInv, CommandInv
  <2>2. Len(U) = 1 /\ DOMAIN U = {1} /\ U[1] = tok
    BY <1>3, <2>1
  <2> QED
    BY <1>1, <1>2, <1>7, <2>1, <2>2, Zenon DEF ContextInv, CommandInv
<1> QED
  BY <1>5, <1>7, Zenon DEF ContextInv, U, tok

(* The types of the values of one context.                                   *)
LEMMA Typed ==
  ASSUME TypeOK, NEW x \in Contexts
  PROVE  /\ ContextType(blocks[x], tokens[x], futures[x])
         /\ phase[x] \in Phases
  BY Zenon DEF TypeOK, ContextType

(* register_barrier keeps the type of the coordinators.                      *)
LEMMA BarriersRegister ==
  ASSUME BarriersOK, NEW x \in Contexts, NEW t \in Nat \ {0}, NEW S,
         barriers' = [barriers EXCEPT ![x] = register_barrier(barriers[x], t, S)]
  PROVE  BarriersOK'
<1>1. DOMAIN register_barrier(barriers[x], t, S) = DOMAIN barriers[x] \cup {t}
  BY Zenon DEF register_barrier
<1> QED
  BY <1>1, Zenon DEF BarriersOK, TokenSet

(* context:parallel: the commands of a block are collected, and its barrier  *)
(* is registered.                                                            *)
LEMMA NextParallel ==
  ASSUME IInv, NEW x \in Contexts, NEW buffer \in Buffers, parallel(x, buffer)
  PROVE  IInv'
(* The commands of a parallel block.                                         *)
<1>BufferTypes. ASSUME registered \subseteq Instruments, NEW buffer1 \in Buffers
                PROVE  /\ PerInstrument(buffer1) \subseteq Call /\ InBuffer(buffer1) \subseteq Call
                       /\ InBuffer(buffer1) # {} /\ Used(buffer1) \subseteq Instruments
  <2> USE <1>BufferTypes
  <2>1. PICK n \in 1..MaxCalls : buffer1 \in [1..n -> Instruments]
    BY Zenon DEF Buffers
  <2>2. n \in Nat /\ 1 \in DOMAIN buffer1
    BY <2>1, ProtocolAssumption
  <2>3. \A k \in DOMAIN buffer1 : k \in Nat /\ buffer1[k] \in Instruments
    BY <2>1
  <2>4. \A c \in PerInstrument(buffer1) : c \in Call
    <3>1. ASSUME NEW k \in DOMAIN buffer1
          PROVE  [inst |-> buffer1[k], at |-> k,
                  barrier |-> \A j \in DOMAIN buffer1 : buffer1[j] = buffer1[k] => j <= k] \in Call
      <4>1. (\A j \in DOMAIN buffer1 : buffer1[j] = buffer1[k] => j <= k) \in BOOLEAN
        BY Zenon
      <4> QED
        BY <2>3, <3>1, <4>1, Zenon DEF Call
    <3>2. \A i \in registered : [inst |-> i, at |-> 0, barrier |-> TRUE] \in Call
      BY Zenon DEF Call
    <3> QED
      BY <3>1, <3>2, Zenon DEF PerInstrument
  <2>5. \A c \in InBuffer(buffer1) : c \in Call
    <3>1. \A k \in DOMAIN buffer1 : [inst |-> buffer1[k], at |-> k, barrier |-> FALSE] \in Call
      BY <2>3, Zenon DEF Call
    <3> QED
      BY <3>1, Zenon DEF InBuffer
  <2>6. InBuffer(buffer1) # {}
    BY <2>2, Zenon DEF InBuffer
  <2>7. Used(buffer1) \subseteq Instruments
    BY <2>3, Zenon DEF Used
  <2> QED
    BY <2>4, <2>5, <2>6, <2>7, Zenon
<1> DEFINE b == blocks[x] + 1
           cmds == IF x \in Jobs THEN PerInstrument(buffer) ELSE InBuffer(buffer)
           insts == IF x \in Jobs THEN registered ELSE Used(buffer)
           p == IF cmds = {} THEN "parse" ELSE "dispatch"
           t == [token |-> b, insts |-> insts, inds |-> <<>>, futs |-> <<>>]
<1>1. TypeOK /\ b \in Nat \ {0} /\ registered \subseteq Instruments
  BY SMTT(30) DEF IInv, TypeOK
<1>2. blocks' = [blocks EXCEPT ![x] = b] /\ blocks'[x] = b
  BY <1>1, Zenon DEF parallel, TypeOK
<1>3. /\ cmds \subseteq Call /\ insts \in SUBSET Instruments
      /\ x \in Commands => cmds # {}
  BY <1>1, <1>BufferTypes, ProtocolAssumption, Zenon
<1> HIDE DEF cmds, insts
<1>4. /\ phase[x] = "parse"
      /\ barriers' = [barriers EXCEPT ![x] = register_barrier(barriers[x], b, insts)]
      /\ tokens' = [tokens EXCEPT ![x] = Append(tokens[x], t)]
      /\ todo' = [todo EXCEPT ![x] = cmds]
      /\ phase' = [phase EXCEPT ![x] = p]
      /\ UNCHANGED <<registered, results, futures, req, rbarriers, resp, waiting, server>>
  BY <1>1, <1>2, Zenon DEF parallel, wires, TypeOK, cmds, insts
<1>5. p \in {"parse", "dispatch"} /\ (x \in Commands => p = "dispatch")
  BY <1>3, Zenon
<1>6. /\ ContextType(blocks[x], tokens[x], futures[x])
      /\ tokens[x] \in Seq(Token)
  BY <1>1, Typed, Zenon DEF ContextType
<1>7. t \in Token
  BY <1>1, <1>3 DEF Token
<1>8. ContextInv(x, "parse", blocks[x], tokens[x], futures[x])
  BY <1>4, Zenon DEF IInv, ContextsInv
<1> HIDE DEF p
<1>9. ContextInv(x, p, b, Append(tokens[x], t), futures[x])
  BY ONLY <1>3, <1>5, <1>6, <1>8, BlockBegins, ZenonT(60)
<1> HIDE DEF t, b
<1>10. /\ tokens'[x] = Append(tokens[x], t)
       /\ futures'[x] = futures[x] /\ phase'[x] = p /\ Only(x)
  BY <1>1, <1>2, <1>4, Zenon DEF TypeOK, Only
<1>11. BarriersOK'
  BY <1>1, <1>4, TypeBarriers, BarriersRegister, ZenonT(60)
<1>12. TypeOK'
  <2>1. Append(tokens[x], t) \in Seq(Token)
    BY ONLY <1>6, <1>7, SMTT(60)
  <2> QED
    BY <1>1, <1>2, <1>3, <1>4, <1>5, <1>11, <2>1, Zenon DEF TypeOK, BarriersOK, Phases
<1>13. ContextsInv'
  BY <1>2, <1>9, <1>10, ContextStep, Zenon
<1>14. WiresInv'
  <2>1. Grows(phase[x], blocks[x], futures[x], phase'[x], blocks'[x], futures'[x])
    BY <1>2, <1>10, SettlesItself, ZenonT(60) DEF Grows, b
  <2> QED
    BY <1>4, <1>10, <2>1, WiresQuiet, ZenonT(60)
<1> QED
  BY <1>4, <1>12, <1>13, <1>14, Zenon DEF IInv

-----------------------------------------------------------------------------
(* A measure command calls.                                                  *)

(* Append adds one element.                                                  *)
LEMMA AppendIsOneMore ==
  ASSUME NEW S, NEW s \in Seq(S), NEW e \in S
  PROVE  OneMore(Append(s, e), s, Len(s) + 1, e)
BY AppendFacts DEF OneMore

(* One more message is sent: a SYNC_CONTINUE only for a complete block.      *)
LEMMA ContinueSent ==
  ASSUME NEW q \in Seq(Message), NEW ph, NEW bs, NEW fs, ContinueInv(q, ph, bs, fs),
         NEW m \in Message,
         m.type = "SYNC_CONTINUE" =>
           Released(m.token, ph[m.ctx], bs[m.ctx], fs[m.ctx])
  PROVE  ContinueInv(Append(q, m), ph, bs, fs)
<1>1. OneMore(Append(q, m), q, Len(q) + 1, m)
  BY AppendIsOneMore, Zenon
<1> QED
  BY <1>1, Zenon DEF ContinueInv, OneMore

(* execute.                                                                  *)
LEMMA WiresExecute ==
  ASSUME IInv, NEW x \in Contexts, Only(x), NEW i \in Instruments, NEW t \in Nat,
         NEW last \in BOOLEAN, NEW part \in BOOLEAN, execute(x, i, t, last, part), resp' = resp,
         Grows(phase[x], blocks[x], futures[x], phase'[x], blocks'[x], futures'[x]),
         blocks'[x] \in Nat
  PROVE  WiresInv'
(* execute: a command with a number of its own.                              *)
<1>WireSends. ASSUME NEW i1, NEW q \in Seq(Message), NEW a \in Seq(Message), NEW fs, NEW gs,
                     WireInv(i1, q, a, fs), Keeps(i1, q, fs, gs), NEW m \in Message,
                     m.type = "COMMAND", m.n \notin DOMAIN fs[m.ctx],
                     m.n \in DOMAIN gs[m.ctx], gs[m.ctx][m.n].inst = i1,
                     gs[m.ctx][m.n].state = "unset"
              PROVE  WireInv(i1, Append(q, m), a, gs)
  <2> USE <1>WireSends
  <2> DEFINE u == Append(q, m)
  <2>1. OneMore(u, q, Len(q) + 1, m)
    BY AppendIsOneMore, Zenon
  <2>2. WireInv(i1, q, a, gs)
    BY WireStays, ZenonT(60)
  <2>3. /\ \A k \in DOMAIN q : q[k].type = "COMMAND" => q[k].n \in DOMAIN fs[q[k].ctx]
        /\ \A k \in DOMAIN a : a[k].type = "RESPONSE" => a[k].n \in DOMAIN fs[a[k].ctx]
    BY Zenon DEF WireInv
  <2>4. /\ m.type = "COMMAND" /\ m.n \notin DOMAIN fs[m.ctx]
        /\ m.n \in DOMAIN gs[m.ctx] /\ gs[m.ctx][m.n].inst = i1
        /\ gs[m.ctx][m.n].state = "unset"
    BY Zenon
  <2> HIDE DEF u
  <2>5. \A k \in DOMAIN q : q[k].type = "COMMAND" => ~(q[k].ctx = m.ctx /\ q[k].n = m.n)
    BY ONLY <2>3, <2>4, Zenon
  <2>6. \A k \in DOMAIN u : (k \in DOMAIN q /\ u[k] = q[k]) \/ (k = Len(q) + 1 /\ u[k] = m)
    BY ONLY <2>1, Zenon DEF OneMore
  <2>7. ASSUME NEW k \in DOMAIN u, u[k].type = "COMMAND"
        PROVE  /\ u[k].n \in DOMAIN gs[u[k].ctx]
               /\ gs[u[k].ctx][u[k].n].inst = i1
               /\ gs[u[k].ctx][u[k].n].state = "unset"
               /\ \A l \in DOMAIN u :
                    u[l].type = "COMMAND" /\ u[l].ctx = u[k].ctx /\ u[l].n = u[k].n => k = l
    <3>1. CASE k \in DOMAIN q /\ u[k] = q[k]
      <4>1. /\ q[k].n \in DOMAIN gs[q[k].ctx]
            /\ gs[q[k].ctx][q[k].n].inst = i1
            /\ gs[q[k].ctx][q[k].n].state = "unset"
            /\ \A l \in DOMAIN q :
                 q[l].type = "COMMAND" /\ q[l].ctx = q[k].ctx /\ q[l].n = q[k].n => k = l
        BY ONLY <2>2, <2>7, <3>1, Zenon DEF WireInv
      <4> QED
        BY ONLY <2>5, <2>6, <2>7, <3>1, <4>1, ZenonT(60)
    <3>2. CASE k = Len(q) + 1 /\ u[k] = m
      BY ONLY <2>4, <2>5, <2>6, <3>2, ZenonT(60)
    <3> QED
      BY ONLY <2>6, <2>7, <3>1, <3>2, Zenon
  <2>8. ASSUME NEW k \in DOMAIN a, a[k].type = "RESPONSE", NEW l \in DOMAIN u,
               u[l].type = "COMMAND"
        PROVE  ~(u[l].ctx = a[k].ctx /\ u[l].n = a[k].n)
    <3>1. CASE l \in DOMAIN q /\ u[l] = q[l]
      BY ONLY <2>2, <2>8, <3>1, ZenonT(60) DEF WireInv
    <3>2. CASE u[l] = m
      BY ONLY <2>3, <2>4, <2>8, <3>2, Zenon
    <3> QED
      BY ONLY <2>6, <2>8, <3>1, <3>2, Zenon
  <2>9. WireInv(i1, u, a, gs)
    BY ONLY <2>2, <2>7, <2>8, ZenonT(60) DEF WireInv
  <2> QED
    BY <2>9, Zenon DEF u
<1> DEFINE m == Command(x, t, last)
           f == [inst |-> i, block |-> blocks'[x], part |-> part, state |-> "unset"]
           n0 == Len(futures[x]) + 1
<1>1. /\ futures \in [Contexts -> Seq(Future)] /\ futures[x] \in Seq(Future)
      /\ req \in [Instruments -> Seq(Message)] /\ resp \in [Instruments -> Seq(Message)]
      /\ blocks \in [Contexts -> Nat]
  BY Zenon DEF IInv, TypeOK
<1>2. n0 \in Nat /\ n0 \notin DOMAIN futures[x]
  BY ONLY <1>1
<1>3. m \in Message /\ m.type = "COMMAND" /\ m.ctx = x /\ m.n = n0
  BY <1>2, Zenon DEF Command, Message, NextId
<1>4. f \in Future /\ f.inst = i /\ f.state = "unset"
  BY Zenon DEF Future
<1>5. /\ req' = [req EXCEPT ![i] = Append(req[i], m)]
      /\ futures' = [futures EXCEPT ![x] = Append(futures[x], f)]
  BY <1>1, Zenon DEF execute
<1> HIDE DEF m, f
<1>6. /\ req'[i] = Append(req[i], m) /\ futures'[x] = Append(futures[x], f)
      /\ \A j \in Instruments : j # i => req'[j] = req[j]
      /\ \A y \in Contexts : y # x => futures'[y] = futures[y]
  BY ONLY <1>1, <1>5, Zenon
<1>7. OneMore(futures'[x], futures[x], n0, f)
  BY ONLY <1>1, <1>4, <1>6, AppendIsOneMore, Zenon
<1>8. \A q, j : Keeps(j, q, futures, futures')
  BY ONLY <1>6, <1>7, ZenonT(60) DEF Keeps, OneMore
<1>9. \A y \in Contexts :
        Grows(phase[y], blocks[y], futures[y], phase'[y], blocks'[y], futures'[y])
  BY AllGrow, ZenonT(60)
<1>10. ASSUME NEW j \in Instruments
       PROVE  /\ WireInv(j, req[j], resp[j], futures)
              /\ ContinueInv(req[j], phase', blocks', futures')
              /\ req[j] \in Seq(Message) /\ resp[j] \in Seq(Message)
  <2>1. /\ WireInv(j, req[j], resp[j], futures)
        /\ ContinueInv(req[j], phase, blocks, futures)
    BY <1>10, ZenonT(60) DEF IInv, WiresInv
  <2>2. req[j] \in Seq(Message) /\ resp[j] \in Seq(Message)
    BY <1>1, <1>10, Zenon
  <2>3. ContinueInv(req[j], phase', blocks', futures')
    BY ONLY <1>1, <1>9, <2>1, <2>2, ContinuesStay, Zenon
  <2> QED
    BY <2>1, <2>2, <2>3, Zenon
<1>11. ASSUME NEW j \in Instruments, j # i
       PROVE  /\ WireInv(j, req'[j], resp'[j], futures')
              /\ ContinueInv(req'[j], phase', blocks', futures')
  <2>1. WireInv(j, req[j], resp[j], futures')
    BY ONLY <1>8, <1>10, <1>11, WireStays, Zenon
  <2> QED
    BY <1>6, <1>10, <1>11, <2>1, Zenon
<1>12. /\ WireInv(i, req'[i], resp'[i], futures')
       /\ ContinueInv(req'[i], phase', blocks', futures')
  <2>1. /\ m.n \notin DOMAIN futures[m.ctx] /\ m.n \in DOMAIN futures'[m.ctx]
        /\ futures'[m.ctx][m.n].inst = i /\ futures'[m.ctx][m.n].state = "unset"
    BY ONLY <1>2, <1>3, <1>4, <1>7, Zenon DEF OneMore
  <2>2. WireInv(i, Append(req[i], m), resp[i], futures')
    BY <1>3, <1>8, <1>10, <2>1, <1>WireSends, Zenon
  <2>3. ContinueInv(Append(req[i], m), phase', blocks', futures')
    <3>1. m.type # "SYNC_CONTINUE"
      BY <1>3, Zenon
    <3> QED
      BY <1>3, <1>10, <3>1, ContinueSent, ZenonT(60)
  <2> QED
    BY <1>6, <2>2, <2>3, ZenonT(60)
<1> QED
  BY <1>11, <1>12, ZenonT(60) DEF WiresInv

(* execute puts a command in the queue and a future into the context.        *)
LEMMA ExecuteTypes ==
  ASSUME TypeOK, NEW x \in Contexts, NEW i \in Instruments, NEW t \in Nat,
         NEW last \in BOOLEAN, NEW part \in BOOLEAN, execute(x, i, t, last, part),
         blocks'[x] \in Nat
  PROVE  /\ req' \in [Instruments -> Seq(Message)]
         /\ futures' \in [Contexts -> Seq(Future)]
         /\ [inst |-> i, block |-> blocks'[x], part |-> part, state |-> "unset"] \in Future
<1> DEFINE m == Command(x, t, last)
           f == [inst |-> i, block |-> blocks'[x], part |-> part, state |-> "unset"]
<1>1. /\ futures \in [Contexts -> Seq(Future)] /\ futures[x] \in Seq(Future)
      /\ req \in [Instruments -> Seq(Message)] /\ req[i] \in Seq(Message)
  BY Zenon DEF TypeOK
<1>2. NextId(x) \in Nat
  BY ONLY <1>1 DEF NextId
<1>3. m \in Message
  BY <1>2, Zenon DEF Command, Message
<1>4. f \in Future
  BY Zenon DEF Future
<1>5. /\ req' = [req EXCEPT ![i] = Append(req[i], m)]
      /\ futures' = [futures EXCEPT ![x] = Append(futures[x], f)]
  BY <1>1, Zenon DEF execute
<1> HIDE DEF m, f
<1>6. Append(req[i], m) \in Seq(Message) /\ Append(futures[x], f) \in Seq(Future)
  BY ONLY <1>1, <1>3, <1>4, SMTT(30)
<1>7. req' \in [Instruments -> Seq(Message)] /\ futures' \in [Contexts -> Seq(Future)]
  BY ONLY <1>1, <1>5, <1>6, Zenon
<1> QED
  BY <1>4, <1>5, <1>7, ZenonT(60) DEF f

(* context:call of a measure command.                                        *)
LEMMA NextCallSync ==
  ASSUME IInv, NEW x \in Contexts, NEW i \in Instruments, call_sync(x, i)
  PROVE  IInv'
(* context:call: the command is waited for alone.                            *)
(* The instrument is not registered: an error result and no command.         *)
<1>CommandMisses. ASSUME NEW x1 \in Commands, NEW b, NEW T, NEW F, ContextType(b, T, F),
                         ContextInv(x1, "parse", b, T, F)
                  PROVE  ContextInv(x1, "parse", b + 1, T, F)
  <2> USE <1>CommandMisses
  <2>1. b \in Nat
    BY Zenon DEF ContextType
  <2>2. TokenInv("parse", b, T, F) /\ CommandInv("parse", b, T, F)
    BY Zenon DEF ContextInv
  <2>3. T = <<>>
    BY ONLY <2>2, Zenon DEF CommandInv
  <2>4. TokenInv("parse", b + 1, T, F)
    BY ONLY <2>1, <2>2, <2>3, EmptyFacts, SMTT(30) DEF TokenInv
  <2>5. CommandInv("parse", b + 1, T, F)
    BY ONLY <2>2, <2>3, EmptyFacts, Zenon DEF CommandInv
  <2> QED
    BY ONLY <2>4, <2>5, Zenon DEF ContextInv
<1>CommandCalls. ASSUME NEW x1 \in Commands, NEW b, NEW T, NEW F, ContextType(b, T, F),
                        ContextInv(x1, "parse", b, T, F),
                        NEW f \in Future, f.block = b + 1, ~f.part
                 PROVE  ContextInv(x1, "wait", b + 1,
                                   <<[token |-> 0, insts |-> {}, inds |-> <<>>,
                                      futs |-> <<Len(F) + 1>>]>>,
                                   Append(F, f))
  <2> USE <1>CommandCalls
  <2> DEFINE t == [token |-> 0, insts |-> {}, inds |-> <<>>, futs |-> <<Len(F) + 1>>]
             U == <<t>>
             G == Append(F, f)
             n0 == Len(F) + 1
  <2>1. b \in Nat /\ F \in Seq(Future)
    BY Zenon DEF ContextType
  <2>2. TokenInv("parse", b, T, F) /\ CommandInv("parse", b, T, F)
    BY Zenon DEF ContextInv
  <2>3. OneMore(G, F, n0, f) /\ n0 \notin DOMAIN F /\ n0 \in Nat
    BY ONLY <2>1, AppendIsOneMore
  <2>4. /\ Len(U) = 1 /\ DOMAIN U = {1} /\ U[1] = t /\ t.token = 0
        /\ DOMAIN t.futs = {1} /\ Len(t.futs) = 1 /\ t.futs[1] = n0
    BY ONLY <2>1
  <2>6. f.block = b + 1 /\ ~f.part
    BY Zenon
  <2> HIDE DEF t, U, G
  <2>7. TokenInv("wait", b + 1, U, G)
    <3>1. \A n \in DOMAIN G : G[n].block \in 1..b + 1
      BY ONLY <2>1, <2>2, <2>3, <2>6 DEF OneMore, TokenInv
    <3>2. \A j \in DOMAIN t.futs : t.futs[j] \in DOMAIN G
      BY ONLY <2>3, <2>4, Zenon DEF OneMore
    <3> QED
      BY ONLY <2>1, <2>4, <3>1, <3>2 DEF TokenInv
  <2>8. CommandInv("wait", b + 1, U, G)
    <3>1. \A n \in DOMAIN F : /\ F[n].block \in Nat /\ F[n].block <= b /\ G[n] = F[n]
                              /\ F[n].part => F[n].state # "unset"
      BY ONLY <2>1, <2>2, <2>3 DEF TokenInv, CommandInv, OneMore
    <3>2. \A n \in DOMAIN G : G[n].block = b + 1 => ~G[n].part
      BY ONLY <2>1, <2>3, <2>6, <3>1 DEF OneMore
    <3>3. \A n \in DOMAIN G : G[n].part => G[n].state # "unset"
      BY ONLY <2>1, <2>3, <2>6, <3>1, Zenon DEF OneMore
    <3> QED
      BY ONLY <2>4, <3>2, <3>3, Zenon DEF CommandInv
  <2> QED
    BY ONLY <2>7, <2>8, Zenon DEF ContextInv, U, G, t
<1> DEFINE b == blocks[x] + 1
           f == [inst |-> i, block |-> blocks'[x], part |-> FALSE, state |-> "unset"]
           t == [token |-> 0, insts |-> {}, inds |-> <<>>, futs |-> <<Len(futures[x]) + 1>>]
           o == [for |-> 0, from |-> 0]
<1>1. TypeOK /\ b \in Nat /\ x \in Contexts /\ i \in Instruments
  BY SMTT(30) DEF IInv, TypeOK
<1>2. blocks' = [blocks EXCEPT ![x] = b] /\ blocks'[x] = b
  BY <1>1, Zenon DEF call_sync, TypeOK
<1>3. /\ x \in Commands /\ phase[x] = "parse"
      /\ UNCHANGED <<registered, barriers, todo, rbarriers, resp, waiting, server>>
  BY Zenon DEF call_sync, wires
<1>4. /\ ContextType(blocks[x], tokens[x], futures[x])
      /\ tokens[x] \in Seq(Token) /\ results[x] \in Seq(Result) /\ futures[x] \in Seq(Future)
  BY <1>1, Typed, Zenon DEF ContextType, TypeOK
<1>5. ContextInv(x, "parse", blocks[x], tokens[x], futures[x])
  BY <1>3, Zenon DEF IInv, ContextsInv
<1>6. CASE i \in registered
  <2>1. /\ tokens' = [tokens EXCEPT ![x] = <<t>>]
        /\ phase' = [phase EXCEPT ![x] = "wait"]
        /\ execute(x, i, 0, FALSE, FALSE)
        /\ results' = results
    BY <1>6, Zenon DEF call_sync, NextId
  <2>2. blocks'[x] \in Nat /\ FALSE \in BOOLEAN /\ 0 \in Nat
    BY <1>1, <1>2, Zenon
  <2>3. /\ req' \in [Instruments -> Seq(Message)]
        /\ futures' \in [Contexts -> Seq(Future)] /\ f \in Future
    BY ONLY <1>1, <2>1, <2>2, ExecuteTypes, Zenon
  <2>4. futures' = [futures EXCEPT ![x] = Append(futures[x], f)]
    BY ONLY <2>1, Zenon DEF execute
  <2>5. f.block = b /\ ~f.part
    BY <1>2, ZenonT(60)
  <2>6. t \in Token
    <3> DEFINE n == Len(futures[x]) + 1
    <3>1. n \in Nat
      BY ONLY <1>4
    <3> HIDE DEF n
    <3>2. <<n>> \in Seq(Nat) /\ <<>> \in Seq(Nat) /\ 0 \in Nat /\ {} \in SUBSET Instruments
      BY ONLY <3>1
    <3> QED
      BY <3>2, Zenon DEF Token, n
  <2>7. ContextInv(x, "wait", b, <<t>>, Append(futures[x], f))
    BY ONLY <1>3, <1>4, <1>5, <2>3, <2>5, <1>CommandCalls, ZenonT(60)
  <2> HIDE DEF f, t, b
  <2>8. /\ tokens'[x] = <<t>>
        /\ futures'[x] = Append(futures[x], f) /\ phase'[x] = "wait" /\ Only(x)
    BY <1>1, <1>2, <1>3, <2>1, <2>4, Zenon DEF TypeOK, Only
  <2>9. TypeOK'
    <3>1. <<t>> \in Seq(Token)
      BY ONLY <2>6
    <3> QED
      BY <1>1, <1>2, <1>3, <2>1, <2>3, <3>1, ZenonT(60) DEF TypeOK, Phases
  <2>10. ContextsInv'
    BY <1>2, <2>7, <2>8, ContextStep, Zenon
  <2>11. WiresInv'
    <3>1. OneMore(futures'[x], futures[x], Len(futures[x]) + 1, f)
      BY ONLY <1>4, <2>3, <2>8, AppendIsOneMore, ZenonT(60)
    <3>2. blocks'[x] \in {blocks[x], blocks[x] + 1} /\ phase'[x] # "dispatch"
          /\ f.block = blocks'[x] /\ blocks'[x] = blocks[x] + 1
      BY <1>2, <2>5, <2>8, ZenonT(60) DEF b
    <3>3. Grows(phase[x], blocks[x], futures[x], phase'[x], blocks'[x], futures'[x])
      BY ONLY <3>1, <3>2, Zenon DEF Grows
    <3> QED
      BY <1>3, <2>1, <2>2, <2>8, <3>3, WiresExecute, Zenon
  <2> QED
    BY <1>3, <2>9, <2>10, <2>11, Zenon DEF IInv
<1>7. CASE i \notin registered
  <2>1. /\ results' = [results EXCEPT ![x] = Append(results[x], o)]
        /\ UNCHANGED <<tokens, phase, futures, req>>
    BY <1>7, Zenon DEF call_sync
  <2>2. o \in Result
    BY Zenon DEF Result
  <2>3. ContextInv(x, "parse", b, tokens[x], futures[x])
    BY ONLY <1>3, <1>4, <1>5, <1>CommandMisses, ZenonT(60)
  <2> HIDE DEF o, b
  <2>4. /\ Only(x)
        /\ phase'[x] = "parse" /\ tokens'[x] = tokens[x] /\ futures'[x] = futures[x]
    BY <1>1, <1>2, <1>3, <2>1, Zenon DEF TypeOK, Only
  <2>5. TypeOK'
    <3>1. Append(results[x], o) \in Seq(Result)
      BY ONLY <1>4, <2>2
    <3> QED
      BY <1>1, <1>2, <1>3, <2>1, <3>1, Zenon DEF TypeOK
  <2>6. ContextsInv'
    BY <1>2, <2>3, <2>4, ContextStep, Zenon
  <2>7. WiresInv'
    <3>1. Grows(phase[x], blocks[x], futures[x], phase'[x], blocks'[x], futures'[x])
      BY <1>2, <2>4, SettlesItself, Zenon DEF Grows, b
    <3> QED
      BY <1>3, <2>1, <2>4, <3>1, WiresQuiet, ZenonT(60)
  <2> QED
    BY <1>3, <2>5, <2>6, <2>7, Zenon DEF IInv
<1> QED
  BY <1>6, <1>7, Zenon

-----------------------------------------------------------------------------
(* The call returns.                                                         *)

(* A sequence of length one.                                                 *)
LEMMA OneElement ==
  ASSUME NEW S, NEW s \in Seq(S), Len(s) = 1
  PROVE  DOMAIN s = {1} /\ Head(s) = s[1] /\ s[1] \in S
  OBVIOUS

(* send_command returns to a measure command with the response.              *)
LEMMA NextCallReturns ==
  ASSUME IInv, NEW x \in Contexts, call_returns(x)
  PROVE  IInv'
(* send_command returns.                                                     *)
<1>CommandReturns. ASSUME NEW x1 \in Commands, NEW b, NEW T, NEW F, ContextType(b, T, F),
                          ContextInv(x1, "wait", b, T, F), Head(T).token = 0
                   PROVE  /\ ContextInv(x1, "parse", b, <<>>, F)
                          /\ Head(Head(T).futs) \in DOMAIN F
  <2> USE <1>CommandReturns
  <2> DEFINE n == Head(Head(T).futs)
             ef == T[1].futs
  <2>1. b \in Nat /\ T \in Seq(Token)
    BY Zenon DEF ContextType
  <2>2. TokenInv("wait", b, T, F) /\ CommandInv("wait", b, T, F)
    BY Zenon DEF ContextInv
  <2>3. Len(T) = 1
    BY ONLY <2>2, Zenon DEF CommandInv
  <2>4. DOMAIN T = {1} /\ Head(T) = T[1] /\ T[1] \in Token
    BY ONLY <2>1, <2>3, OneElement, Zenon
  <2>5. T[1].token = 0
    BY <2>4, Zenon
  <2>6. Len(ef) = 1 /\ \A m \in DOMAIN F : F[m].block = b => ~F[m].part
    BY ONLY <2>2, <2>5, Zenon DEF CommandInv
  <2>7. ef \in Seq(Nat)
    BY ONLY <2>4, Zenon DEF Token
  <2>8. DOMAIN ef = {1} /\ n = ef[1]
    <3> HIDE DEF ef
    <3>1. DOMAIN ef = {1} /\ Head(ef) = ef[1]
      BY ONLY <2>6, <2>7
    <3> QED
      BY <2>4, <3>1, Zenon DEF ef
  <2> HIDE DEF n, ef
  <2>9. n \in DOMAIN F
    BY ONLY <2>2, <2>4, <2>8, Zenon DEF TokenInv, ef
  <2>10. TokenInv("parse", b, <<>>, F)
    BY ONLY <2>2, EmptyFacts, Zenon DEF TokenInv
  <2>11. CommandInv("parse", b, <<>>, F)
    <3>1. \A m \in DOMAIN F : F[m].part => F[m].state # "unset"
      BY ONLY <2>1, <2>2, <2>6 DEF CommandInv, TokenInv
    <3> QED
      BY ONLY EmptyFacts, <3>1, Zenon DEF CommandInv
  <2> QED
    BY ONLY <2>9, <2>10, <2>11, Zenon DEF ContextInv, n
<1> DEFINE b == blocks[x]
           T == tokens[x]
           F == futures[x]
           R == results[x]
           n == Head(Head(T).futs)
<1>1. /\ x \in Commands /\ phase[x] = "wait" /\ TypeOK /\ x \in Contexts
      /\ Head(T).token = 0
      /\ tokens' = [tokens EXCEPT ![x] = <<>>]
      /\ phase' = [phase EXCEPT ![x] = "parse"]
      /\ UNCHANGED <<registered, barriers, blocks, todo, futures, req, rbarriers, resp,
                     waiting, server>>
  BY Zenon DEF call_returns, wires, IInv
<1>2. PICK z \in {0, n} :
        results' = [results EXCEPT ![x] = Append(R, [for |-> n, from |-> z])]
  BY Zenon DEF call_returns
<1> DEFINE o == [for |-> n, from |-> z]
<1>3. ContextType(b, T, F) /\ ContextInv(x, "wait", b, T, F)
  BY <1>1, Typed, ZenonT(60) DEF IInv, ContextsInv
<1>4. F \in Seq(Future) /\ R \in Seq(Result)
  BY <1>1, Zenon DEF TypeOK
<1>5. ContextInv(x, "parse", b, <<>>, F) /\ n \in DOMAIN F
  <2> HIDE DEF b, T, F, R
  <2> QED
    BY ONLY <1>1, <1>3, <1>CommandReturns, ZenonT(60)
<1>6. o \in Result
  <2> HIDE DEF n
  <2>1. n \in Nat
    BY ONLY <1>4, <1>5, SMTT(60)
  <2> QED
    BY <1>2, <2>1, SMTT(30) DEF Result
<1> HIDE DEF o
<1>7. Append(R, o) \in Seq(Result) /\ results' = [results EXCEPT ![x] = Append(R, o)]
  BY <1>2, <1>4, <1>6 DEF o
<1>8. /\ results' \in [Contexts -> Seq(Result)]
      /\ tokens' \in [Contexts -> Seq(Token)] /\ tokens'[x] = <<>>
      /\ phase' \in [Contexts -> Phases] /\ phase'[x] = "parse"
      /\ Only(x)
  <2>1. /\ results \in [Contexts -> Seq(Result)] /\ tokens \in [Contexts -> Seq(Token)]
        /\ phase \in [Contexts -> Phases] /\ <<>> \in Seq(Token)
    BY <1>1, EmptyFacts, Zenon DEF TypeOK
  <2>2. results' \in [Contexts -> Seq(Result)]
    BY ONLY <1>1, <1>7, <2>1, Zenon
  <2>3. /\ tokens' \in [Contexts -> Seq(Token)] /\ tokens'[x] = <<>>
        /\ \A y \in Contexts : y # x => tokens'[y] = tokens[y]
    BY ONLY <1>1, <2>1, Zenon
  <2>4. /\ phase' \in [Contexts -> Phases] /\ phase'[x] = "parse"
        /\ \A y \in Contexts : y # x => phase'[y] = phase[y]
    BY ONLY <1>1, <2>1, Zenon DEF Phases
  <2> QED
    BY <1>1, <2>2, <2>3, <2>4, ZenonT(60) DEF Only
<1>9. TypeOK'
  BY <1>1, <1>8, Zenon DEF TypeOK
<1>10. ContextsInv'
  BY <1>1, <1>5, <1>8, ContextStep, Zenon
<1>11. WiresInv'
  <2>1. Grows(phase[x], blocks[x], futures[x], phase'[x], blocks'[x], futures'[x])
    BY <1>1, <1>8, SettlesItself, Zenon DEF Grows
  <2> QED
    BY <1>1, <1>8, <2>1, WiresQuiet, ZenonT(60)
<1> QED
  BY <1>1, <1>9, <1>10, <1>11, Zenon DEF IInv

-----------------------------------------------------------------------------
(* A block of a measure command ends.                                        *)

(* send_sync_continue to the instruments of a token that is complete.        *)
LEMMA WiresContinue ==
  ASSUME IInv, NEW x \in Contexts, Only(x), NEW tok \in Token, SendContinue(x, tok),
         resp' = resp, futures' = futures,
         Grows(phase[x], blocks[x], futures[x], phase'[x], blocks'[x], futures'[x]),
         Released(tok.token, phase'[x], blocks'[x], futures'[x])
  PROVE  WiresInv'
<1>WireSignals. ASSUME NEW i, NEW q \in Seq(Message), NEW a, NEW fs, WireInv(i, q, a, fs),
                       NEW m \in Message, m.type = "SYNC_CONTINUE"
                PROVE  WireInv(i, Append(q, m), a, fs)
  <2> USE <1>WireSignals
  <2> DEFINE u == Append(q, m)
  <2>1. OneMore(u, q, Len(q) + 1, m)
    BY AppendIsOneMore, Zenon
  <2>2. \A k \in DOMAIN u : u[k].type = "COMMAND" => k \in DOMAIN q /\ u[k] = q[k]
    BY ONLY <2>1, m.type = "SYNC_CONTINUE", Zenon DEF OneMore
  <2> HIDE DEF u
  <2>3. WireInv(i, u, a, fs)
    <3>1. WireInv(i, q, a, fs)
      BY Zenon
    <3>2. ASSUME NEW k \in DOMAIN u, u[k].type = "COMMAND"
          PROVE  /\ u[k].n \in DOMAIN fs[u[k].ctx]
                 /\ fs[u[k].ctx][u[k].n].inst = i
                 /\ fs[u[k].ctx][u[k].n].state = "unset"
                 /\ \A l \in DOMAIN u :
                      u[l].type = "COMMAND" /\ u[l].ctx = u[k].ctx /\ u[l].n = u[k].n => k = l
      <4>1. k \in DOMAIN q /\ u[k] = q[k] /\ q[k].type = "COMMAND"
        BY ONLY <2>2, <3>2, Zenon
      <4>2. /\ q[k].n \in DOMAIN fs[q[k].ctx]
            /\ fs[q[k].ctx][q[k].n].inst = i
            /\ fs[q[k].ctx][q[k].n].state = "unset"
            /\ \A l \in DOMAIN q :
                 q[l].type = "COMMAND" /\ q[l].ctx = q[k].ctx /\ q[l].n = q[k].n => k = l
        BY ONLY <3>1, <4>1, Zenon DEF WireInv
      <4> QED
        BY ONLY <2>2, <4>1, <4>2, Zenon
    <3>3. ASSUME NEW k \in DOMAIN a, a[k].type = "RESPONSE", NEW l \in DOMAIN u,
                 u[l].type = "COMMAND"
          PROVE  ~(u[l].ctx = a[k].ctx /\ u[l].n = a[k].n)
      <4>1. l \in DOMAIN q /\ u[l] = q[l] /\ q[l].type = "COMMAND"
        BY ONLY <2>2, <3>3, Zenon
      <4>2. \A l1 \in DOMAIN q :
              q[l1].type = "COMMAND" => ~(q[l1].ctx = a[k].ctx /\ q[l1].n = a[k].n)
        BY ONLY <3>1, <3>3, Zenon DEF WireInv
      <4>3. ~(q[l].ctx = a[k].ctx /\ q[l].n = a[k].n)
        BY ONLY <4>1, <4>2, Zenon
      <4> QED
        BY ONLY <4>1, <4>3, Zenon
    <3> QED
      BY ONLY <3>1, <3>2, <3>3, ZenonT(60) DEF WireInv
  <2> QED
    BY <2>3, Zenon DEF u
<1> SUFFICES ASSUME NEW i \in Instruments
             PROVE  /\ WireInv(i, req'[i], resp'[i], futures')
                    /\ ContinueInv(req'[i], phase', blocks', futures')
  BY Zenon DEF WiresInv
<1> DEFINE m == Continue(x, tok.token)
<1>1. /\ WireInv(i, req[i], resp[i], futures)
      /\ ContinueInv(req[i], phase, blocks, futures)
  BY ZenonT(60) DEF IInv, WiresInv
<1>2. req[i] \in Seq(Message) /\ resp[i] \in Seq(Message) /\ blocks \in [Contexts -> Nat]
  BY Zenon DEF IInv, TypeOK
<1>3. \A y \in Contexts :
        Grows(phase[y], blocks[y], futures[y], phase'[y], blocks'[y], futures'[y])
  BY AllGrow, Zenon
<1>4. ContinueInv(req[i], phase', blocks', futures')
  BY ONLY <1>1, <1>2, <1>3, ContinuesStay, ZenonT(60)
<1>5. tok.token \in Nat
  BY Zenon DEF Token
<1>6. m \in Message /\ m.type = "SYNC_CONTINUE" /\ m.ctx = x /\ m.token = tok.token
  BY <1>5, Zenon DEF Message, Continue
<1>7. req'[i] = Append(req[i], m) \/ req'[i] = req[i]
  BY Zenon DEF SendContinue
<1> HIDE DEF m
<1>8. CASE req'[i] = req[i]
  BY <1>1, <1>4, <1>8, Zenon
<1>9. CASE req'[i] = Append(req[i], m)
  <2>1. WireInv(i, Append(req[i], m), resp[i], futures)
    BY <1>1, <1>2, <1>6, <1>WireSignals, Zenon
  <2>2. Released(m.token, phase'[m.ctx], blocks'[m.ctx], futures'[m.ctx])
    BY <1>6, Zenon
  <2>3. ContinueInv(Append(req[i], m), phase', blocks', futures')
    BY <1>2, <1>4, <1>6, <2>2, ContinueSent, ZenonT(60)
  <2> QED
    BY <1>9, <2>1, <2>3, Zenon
<1> QED
  BY <1>7, <1>8, <1>9, Zenon

(* clear_barrier keeps the type of the coordinators.                         *)
LEMMA BarriersClear ==
  ASSUME BarriersOK, NEW x \in Contexts, NEW t,
         barriers' = [barriers EXCEPT ![x] = clear_barrier(barriers[x], t)]
  PROVE  BarriersOK'
<1>1. DOMAIN clear_barrier(barriers[x], t) \subseteq DOMAIN barriers[x]
  BY Zenon DEF clear_barrier
<1> QED
  BY <1>1, Zenon DEF BarriersOK

(* A token whose futures are settled is complete: nothing is added to its    *)
(* block any more, since the script has gone on.                             *)
LEMMA TokenReleased ==
  ASSUME NEW o, NEW p, p # "dispatch", NEW b \in Nat, NEW T, NEW F, TokenInv(o, b, T, F),
         NEW e, 1 \in DOMAIN T, e = T[1],
         \A j \in DOMAIN e.futs : F[e.futs[j]].state # "unset"
  PROVE  Released(e.token, p, b, F)
<1>1. /\ e.token <= b
      /\ \A n \in DOMAIN F : F[n].block \in 1..b
      /\ e.token # 0 =>
           \A n \in DOMAIN F : F[n].block = e.token => \E j \in DOMAIN e.futs : e.futs[j] = n
  BY Zenon DEF TokenInv
<1>2. ASSUME NEW n \in DOMAIN F, F[n].block = e.token
      PROVE  F[n].state # "unset"
  <2>1. F[n].block # 0
    BY <1>1
  <2>2. PICK j \in DOMAIN e.futs : e.futs[j] = n
    BY <1>1, <1>2, <2>1, Zenon
  <2> QED
    BY <2>2, Zenon
<1> QED
  BY <1>1, <1>2, Zenon DEF Released

(* send_sync_continue keeps the type of the queues.                          *)
LEMMA ContinueTypes ==
  ASSUME TypeOK, NEW x \in Contexts, NEW e \in Token, SendContinue(x, e)
  PROVE  req' \in [Instruments -> Seq(Message)]
<1>1. e.token \in Nat
  BY Zenon DEF Token
<1>2. Continue(x, e.token) \in Message
  BY <1>1, Zenon DEF Continue, Message
<1>3. \A i \in Instruments : /\ req[i] \in Seq(Message)
                             /\ Append(req[i], Continue(x, e.token)) \in Seq(Message)
  BY <1>2 DEF TypeOK
<1> QED
  BY <1>3, Zenon DEF SendContinue

(* execute_parallel_buffer has waited for all futures of the block.          *)
LEMMA NextBlockEnds ==
  ASSUME IInv, NEW x \in Contexts, block_ends(x)
  PROVE  IInv'
(* execute_parallel_buffer returns, after the futures of the block.          *)
<1>CommandBlockEnds. ASSUME NEW x1 \in Commands, NEW b, NEW T, NEW F, ContextType(b, T, F),
                            ContextInv(x1, "wait", b, T, F), Head(T).token # 0,
                            \A j \in DOMAIN Head(T).futs : F[Head(T).futs[j]].state # "unset"
                     PROVE  ContextInv(x1, "parse", b, <<>>, F)
  <2> USE <1>CommandBlockEnds
  <2> DEFINE ef == Head(T).futs
  <2>1. b \in Nat /\ T \in Seq(Token)
    BY Zenon DEF ContextType
  <2>2. TokenInv("wait", b, T, F) /\ CommandInv("wait", b, T, F)
    BY Zenon DEF ContextInv
  <2>3. Len(T) = 1
    BY ONLY <2>2, Zenon DEF CommandInv
  <2>4. DOMAIN T = {1} /\ Head(T) = T[1] /\ T[1] \in Token
    BY ONLY <2>1, <2>3, OneElement, Zenon
  <2>5. T[1].token # 0 /\ ef = T[1].futs
    BY <2>4, Zenon
  <2>6. T[1].token = b
    BY ONLY <2>2, <2>5, Zenon DEF CommandInv
  <2>7. \A j \in DOMAIN ef : F[ef[j]].state # "unset"
    BY Zenon
  <2> HIDE DEF ef
  <2>8. TokenInv("parse", b, <<>>, F)
    BY ONLY <2>2, EmptyFacts, Zenon DEF TokenInv
  <2>9. CommandInv("parse", b, <<>>, F)
    <3>1. ASSUME NEW n \in DOMAIN F, F[n].part PROVE F[n].state # "unset"
      <4>1. CASE F[n].block < b
        BY ONLY <2>2, <3>1, <4>1, Zenon DEF CommandInv
      <4>2. CASE F[n].block = b
        <5>1. 1 \in DOMAIN T
          BY ONLY <2>4, Zenon
        <5>2. \A m \in DOMAIN F : F[m].block = T[1].token =>
                \E j \in DOMAIN T[1].futs : T[1].futs[j] = m
          BY ONLY <2>2, <2>5, <5>1, Zenon DEF TokenInv
        <5>3. \E j \in DOMAIN ef : ef[j] = n
          BY ONLY <2>5, <2>6, <3>1, <4>2, <5>2, Zenon
        <5> QED
          BY ONLY <2>7, <5>3, Zenon
      <4>3. F[n].block < b \/ F[n].block = b
        <5>1. F[n].block \in 1..b
          BY ONLY <2>2, <3>1, Zenon DEF TokenInv
        <5> QED
          BY ONLY <2>1, <5>1, LastOrBefore, Zenon
      <4> QED
        BY ONLY <4>1, <4>2, <4>3, Zenon
    <3> QED
      BY ONLY EmptyFacts, <3>1, ZenonT(60) DEF CommandInv
  <2> QED
    BY ONLY <2>8, <2>9, ZenonT(60) DEF ContextInv
<1> DEFINE b == blocks[x]
           T == tokens[x]
           F == futures[x]
           R == results[x]
           e == Head(tokens[x])
           S == R \o [k \in DOMAIN e.futs |-> [for |-> e.futs[k], from |-> e.futs[k]]]
<1>1. /\ x \in Commands /\ phase[x] = "wait" /\ TypeOK /\ x \in Contexts
      /\ e.token # 0 /\ Settled(x, e.futs)
      /\ results' = [results EXCEPT ![x] = S]
      /\ SendContinue(x, e)
      /\ barriers' = [barriers EXCEPT ![x] = clear_barrier(barriers[x], e.token)]
      /\ tokens' = [tokens EXCEPT ![x] = <<>>]
      /\ phase' = [phase EXCEPT ![x] = "parse"]
      /\ UNCHANGED <<registered, blocks, todo, futures, rbarriers, resp, waiting, server>>
  BY Zenon DEF block_ends, wires, IInv
<1>2. ContextType(b, T, F) /\ ContextInv(x, "wait", b, T, F)
  BY <1>1, Typed, ZenonT(60) DEF IInv, ContextsInv
<1>3. b \in Nat /\ T \in Seq(Token) /\ F \in Seq(Future) /\ R \in Seq(Result)
  BY <1>1, <1>2, Zenon DEF ContextType, TypeOK
<1>4. Len(T) = 1
  BY <1>1, <1>2, Zenon DEF ContextInv, CommandInv
<1>5. e = T[1] /\ 1 \in DOMAIN T /\ e \in Token
  BY ONLY <1>3, <1>4, OneElement, Zenon
<1>6. \A j \in DOMAIN e.futs : F[e.futs[j]].state # "unset"
  BY <1>1, Zenon DEF Settled
<1>7. ContextInv(x, "parse", b, <<>>, F) /\ S \in Seq(Result)
  <2>1. ContextInv(x, "parse", b, <<>>, F)
    <3> HIDE DEF b, T, F, R
    <3> QED
      BY ONLY <1>1, <1>2, <1>6, <1>CommandBlockEnds, ZenonT(60) DEF T
  <2>2. S \in Seq(Result)
    BY ONLY <1>3, <1>5, ResultsGrow, Zenon
  <2> QED
    BY ONLY <2>1, <2>2, Zenon
<1>8. Released(e.token, "parse", b, F)
  <2>1. TokenInv("wait", b, T, F)
    BY <1>2, Zenon DEF ContextInv
  <2> HIDE DEF b, T, F, e
  <2> QED
    BY ONLY <1>3, <1>5, <1>6, <2>1, TokenReleased, Zenon
<1> HIDE DEF S
<1>9. /\ results' \in [Contexts -> Seq(Result)]
      /\ tokens' \in [Contexts -> Seq(Token)] /\ tokens'[x] = <<>>
      /\ phase' \in [Contexts -> Phases] /\ phase'[x] = "parse"
      /\ Only(x)
  <2>1. /\ results \in [Contexts -> Seq(Result)] /\ tokens \in [Contexts -> Seq(Token)]
        /\ phase \in [Contexts -> Phases] /\ <<>> \in Seq(Token)
    BY <1>1, EmptyFacts, Zenon DEF TypeOK
  <2>2. results' \in [Contexts -> Seq(Result)]
    BY ONLY <1>1, <1>7, <2>1, Zenon
  <2>3. /\ tokens' \in [Contexts -> Seq(Token)] /\ tokens'[x] = <<>>
        /\ \A y \in Contexts : y # x => tokens'[y] = tokens[y]
    BY ONLY <1>1, <2>1, Zenon
  <2>4. /\ phase' \in [Contexts -> Phases] /\ phase'[x] = "parse"
        /\ \A y \in Contexts : y # x => phase'[y] = phase[y]
    BY ONLY <1>1, <2>1, Zenon DEF Phases
  <2> QED
    BY <1>1, <2>2, <2>3, <2>4, ZenonT(60) DEF Only
<1>10. req' \in [Instruments -> Seq(Message)]
  BY <1>1, <1>5, ContinueTypes, Zenon
<1>11. BarriersOK'
  BY <1>1, TypeBarriers, BarriersClear, ZenonT(60)
<1>12. TypeOK'
  BY <1>1, <1>9, <1>10, <1>11, Zenon DEF TypeOK, BarriersOK
<1>13. ContextsInv'
  BY <1>1, <1>7, <1>9, ContextStep, Zenon
<1>14. WiresInv'
  <2>1. Grows(phase[x], blocks[x], futures[x], phase'[x], blocks'[x], futures'[x])
    BY <1>1, <1>9, SettlesItself, Zenon DEF Grows
  <2>2. Released(e.token, phase'[x], blocks'[x], futures'[x])
    BY <1>1, <1>8, <1>9, Zenon
  <2> QED
    BY <1>1, <1>5, <1>9, <2>1, <2>2, WiresContinue, ZenonT(60)
<1> QED
  BY <1>1, <1>12, <1>13, <1>14, Zenon DEF IInv

-----------------------------------------------------------------------------
(* A job releases its first token.                                           *)

(* process_tokens_and_wait: the responses of the first token are stored.     *)
LEMMA FillInFacts ==
  ASSUME NEW R \in Seq(Result), NEW tok \in Token
  PROVE  /\ FillIn(R, tok) \in Seq(Result) /\ DOMAIN FillIn(R, tok) = DOMAIN R
         /\ \A r \in DOMAIN R :
              /\ FillIn(R, tok)[r].for = R[r].for
              /\ \/ /\ FillIn(R, tok)[r].from = R[r].from
                    /\ \A k \in DOMAIN tok.futs : tok.inds[k] # r
                 \/ \E k \in DOMAIN tok.futs :
                      tok.inds[k] = r /\ FillIn(R, tok)[r].from = tok.futs[k]
<1> DEFINE S == FillIn(R, tok)
           ks(r) == {k \in DOMAIN tok.futs : tok.inds[k] = r}
<1>1. /\ DOMAIN S = DOMAIN R
      /\ \A r \in DOMAIN R :
           S[r] = IF ks(r) = {} THEN R[r]
                  ELSE [R[r] EXCEPT !.from = tok.futs[CHOOSE k \in ks(r) : TRUE]]
  BY Zenon DEF FillIn
<1>2. \A r \in DOMAIN R : R[r] \in Result
  BY SeqFacts, Zenon
<1>3. \A k \in DOMAIN tok.futs : tok.futs[k] \in Nat
  <2>1. tok.futs \in Seq(Nat)
    BY Zenon DEF Token
  <2> QED
    BY ONLY <2>1
<1>4. ASSUME NEW r \in DOMAIN R
      PROVE  /\ S[r] \in Result
             /\ S[r].for = R[r].for
             /\ \/ S[r].from = R[r].from /\ \A k \in DOMAIN tok.futs : tok.inds[k] # r
                \/ \E k \in DOMAIN tok.futs : tok.inds[k] = r /\ S[r].from = tok.futs[k]
  <2>1. CASE ks(r) = {}
    BY <1>1, <1>2, <2>1, Zenon
  <2>2. CASE ks(r) # {}
    <3>1. (CHOOSE k \in ks(r) : TRUE) \in ks(r)
      BY <2>2, Zenon
    <3>2. PICK k \in DOMAIN tok.futs :
            tok.inds[k] = r /\ S[r] = [R[r] EXCEPT !.from = tok.futs[k]]
      BY <1>1, <2>2, <3>1, Zenon
    <3> QED
      BY <1>2, <1>3, <3>2, Zenon DEF Result
  <2> QED
    BY <2>1, <2>2, Zenon
<1>5. S \in Seq(Result)
  <2>1. DOMAIN R = 1..Len(R) /\ Len(R) \in Nat
    OBVIOUS
  <2>2. S \in [1..Len(R) -> Result]
    <3>1. S = [r \in DOMAIN S |-> S[r]]
      BY Zenon DEF FillIn
    <3> QED
      BY <1>1, <1>4, <2>1, <3>1, ZenonT(60)
  <2> QED
    BY <2>1, <2>2
<1> QED
  BY <1>1, <1>4, <1>5, Zenon

(* process_tokens_and_wait has waited for all futures of the first token.    *)
LEMMA NextReleaseToken ==
  ASSUME IInv, NEW x \in Contexts, release_token(x)
  PROVE  IInv'
<1>JobReleases. ASSUME NEW x1 \in Jobs, NEW b, NEW T, NEW F, ContextType(b, T, F),
                       ContextInv(x1, "wait", b, T, F), T # <<>>
                PROVE  ContextInv(x1, "wait", b, Tail(T), F)
  <2> USE <1>JobReleases
  <2> DEFINE V == Tail(T)
  <2>1. \A k \in DOMAIN V : k \in Nat /\ k + 1 \in DOMAIN T /\ V[k] = T[k + 1]
    BY TailFacts, Zenon DEF ContextType
  <2>2. TokenInv("wait", b, T, F)
    BY Zenon DEF ContextInv
  <2>3. x1 \notin Commands
    BY ProtocolAssumption, Zenon
  <2> HIDE DEF V
  <2>4. TokenInv("wait", b, V, F)
    <3>1. \A k, l \in DOMAIN V : k < l => k + 1 < l + 1
      BY ONLY <2>1
    <3> QED
      BY ONLY <2>1, <2>2, <3>1 DEF TokenInv
  <2> QED
    BY <2>3, <2>4, Zenon DEF ContextInv, V
<1> DEFINE b == blocks[x]
           T == tokens[x]
           F == futures[x]
           R == results[x]
           e == Head(tokens[x])
<1>1. /\ x \in Jobs /\ phase[x] = "wait" /\ T # <<>> /\ TypeOK /\ x \in Contexts
      /\ results' = [results EXCEPT ![x] = FillIn(R, e)]
      /\ tokens' = [tokens EXCEPT ![x] = Tail(T)]
      /\ SendContinue(x, e) /\ ClearDead(x, e.token) /\ Settled(x, e.futs)
      /\ UNCHANGED <<registered, phase, blocks, todo, futures, rbarriers, resp, waiting>>
  BY Zenon DEF release_token, wires, IInv
<1>2. ContextType(b, T, F) /\ ContextInv(x, "wait", b, T, F)
  BY <1>1, Typed, ZenonT(60) DEF IInv, ContextsInv
<1>3. b \in Nat /\ T \in Seq(Token) /\ F \in Seq(Future) /\ R \in Seq(Result)
  BY <1>1, <1>2, Zenon DEF ContextType, TypeOK
<1>4. e = T[1] /\ 1 \in DOMAIN T /\ e \in Token /\ Tail(T) \in Seq(Token)
  BY ONLY <1>1, <1>3, TailFacts, Zenon
<1>5. FillIn(R, e) \in Seq(Result)
  BY ONLY <1>3, <1>4, FillInFacts, Zenon
<1>6. ContextInv(x, "wait", b, Tail(T), F)
  <2> HIDE DEF b, T, F, R
  <2> QED
    BY ONLY <1>1, <1>2, <1>JobReleases, ZenonT(60) DEF T
<1>7. Released(e.token, "wait", b, F)
  <2>1. \A j \in DOMAIN e.futs : F[e.futs[j]].state # "unset"
    BY <1>1, Zenon DEF Settled
  <2>2. TokenInv("wait", b, T, F)
    BY <1>2, Zenon DEF ContextInv
  <2> HIDE DEF b, T, F, e
  <2> QED
    BY ONLY <1>3, <1>4, <2>1, <2>2, TokenReleased, ZenonT(60)
<1> DEFINE S == FillIn(R, e)
<1> HIDE DEF S
<1>8. /\ results' \in [Contexts -> Seq(Result)]
      /\ tokens' \in [Contexts -> Seq(Token)] /\ tokens'[x] = Tail(T)
      /\ Only(x)
  <2>1. /\ results' = [results EXCEPT ![x] = S] /\ S \in Seq(Result)
        /\ tokens' = [tokens EXCEPT ![x] = Tail(T)] /\ Tail(T) \in Seq(Token)
    BY <1>1, <1>4, <1>5, Zenon DEF S
  <2>2. results \in [Contexts -> Seq(Result)] /\ tokens \in [Contexts -> Seq(Token)]
    BY <1>1, Zenon DEF TypeOK
  <2>3. results' \in [Contexts -> Seq(Result)]
    BY ONLY <1>1, <2>1, <2>2, Zenon
  <2>4. /\ tokens' \in [Contexts -> Seq(Token)] /\ tokens'[x] = Tail(T)
        /\ \A y \in Contexts : y # x => tokens'[y] = tokens[y]
    BY ONLY <1>1, <2>1, <2>2, Zenon
  <2> QED
    BY <1>1, <2>3, <2>4, Zenon DEF Only
<1>9. req' \in [Instruments -> Seq(Message)]
  BY <1>1, <1>4, ContinueTypes, Zenon
<1>10. BarriersOK' /\ server' \in {"up", "crashed"}
  <2>1. BarriersOK /\ server \in {"up", "crashed"}
    BY <1>1, TypeBarriers, Zenon DEF TypeOK
  <2>2. CASE UNCHANGED <<barriers, server>>
    BY <2>1, <2>2, Zenon DEF BarriersOK
  <2>3. CASE \E y \in Jobs :
               /\ barriers' = [barriers EXCEPT ![y] = clear_barrier(barriers[y], e.token)]
               /\ UNCHANGED server
    <3>1. PICK y \in Jobs :
            /\ barriers' = [barriers EXCEPT ![y] = clear_barrier(barriers[y], e.token)]
            /\ UNCHANGED server
      BY <2>3, Zenon
    <3>2. y \in Contexts
      BY Zenon DEF Contexts
    <3> QED
      BY <2>1, <3>1, <3>2, BarriersClear, Zenon
  <2>4. CASE server' = "crashed" /\ UNCHANGED barriers
    BY <2>1, <2>4, Zenon DEF BarriersOK
  <2> QED
    BY <1>1, <2>2, <2>3, <2>4, ZenonT(60) DEF ClearDead
<1>11. TypeOK'
  BY <1>1, <1>8, <1>9, <1>10, Zenon DEF TypeOK, BarriersOK
<1>12. ContextsInv'
  BY <1>1, <1>6, <1>8, ContextStep, Zenon
<1>13. WiresInv'
  <2>1. Grows(phase[x], blocks[x], futures[x], phase'[x], blocks'[x], futures'[x])
    BY <1>1, SettlesItself, Zenon DEF Grows
  <2>2. Released(e.token, phase'[x], blocks'[x], futures'[x])
    BY <1>1, <1>7, Zenon
  <2> QED
    BY <1>1, <1>4, <1>8, <2>1, <2>2, WiresContinue, ZenonT(60)
<1> QED
  BY <1>1, <1>11, <1>12, <1>13, Zenon DEF IInv

-----------------------------------------------------------------------------
(* A command of a parallel block is dispatched.                              *)

(* Append, to a sequence of numbers.                                         *)
LEMMA AppendNat ==
  ASSUME NEW s \in Seq(Nat), NEW m \in Nat, NEW u, u = Append(s, m)
  PROVE  /\ u \in Seq(Nat)
         /\ DOMAIN u = DOMAIN s \cup {Len(s) + 1}
         /\ \A k \in DOMAIN s : u[k] = s[k]
         /\ u[Len(s) + 1] = m
         /\ Len(s) + 1 \notin DOMAIN s
  OBVIOUS

(* U is T except in the place N.                                             *)
Replaced(U, T, N) ==
  N \in DOMAIN T /\ DOMAIN U = DOMAIN T /\ \A k \in DOMAIN T : k # N => U[k] = T[k]

(* Append adds one number.                                                   *)
LEMMA AppendsANumber ==
  ASSUME NEW s \in Seq(Nat), NEW m \in Nat, NEW u, u = Append(s, m)
  PROVE  OneMore(u, s, Len(s) + 1, m)
BY AppendNat DEF OneMore

(* The last token is replaced.                                               *)
LEMMA LastReplaced ==
  ASSUME NEW T \in Seq(Token), T # <<>>, NEW t \in Token, NEW U,
         U = [T EXCEPT ![Len(T)] = t]
  PROVE  /\ Replaced(U, T, Len(T)) /\ U[Len(T)] = t /\ T[Len(T)] \in Token
         /\ U \in Seq(Token) /\ U # <<>> /\ Len(U) = Len(T)
BY DEF Replaced

(* A command of a block is dispatched: the last token has one more future.   *)
LEMMA TokenGrows ==
  ASSUME NEW p, NEW b \in Nat, NEW T \in Seq(Token), NEW F, NEW U, NEW G,
         TokenInv("dispatch", b, T, F), NEW n0, NEW a, NEW f,
         Replaced(U, T, Len(T)), Len(U) = Len(T), U # <<>>,
         U[Len(T)].token = T[Len(T)].token,
         OneMore(U[Len(T)].futs, T[Len(T)].futs, a, n0),
         OneMore(G, F, n0, f), n0 \notin DOMAIN F, f.block = b
  PROVE  TokenInv(p, b, U, G)
<1> DEFINE N == Len(T)
           ef == T[N].futs
           tf == U[N].futs
<1>1. \A k \in DOMAIN T : k \in Nat /\ (k # N => k < N) /\ T[k].token \in Nat
  <2>1. \A k \in DOMAIN T : k \in Nat /\ (k # N => k < N) /\ T[k] \in Token
    OBVIOUS
  <2> QED
    BY ONLY <2>1, Zenon DEF Token
<1>2. /\ N \in DOMAIN T /\ DOMAIN U = DOMAIN T
      /\ \A k \in DOMAIN T : k # N => U[k] = T[k]
  BY Zenon DEF Replaced
<1>3. /\ DOMAIN tf = DOMAIN ef \cup {a} /\ tf[a] = n0
      /\ \A j \in DOMAIN ef : tf[j] = ef[j]
  BY Zenon DEF OneMore
<1>4. /\ DOMAIN G = DOMAIN F \cup {n0} /\ G[n0] = f
      /\ \A n \in DOMAIN F : G[n] = F[n]
  BY Zenon DEF OneMore
<1>5. /\ T[N].futs = ef /\ U[N].futs = tf /\ Len(U) = N
      /\ \A k \in DOMAIN T : U[k].token = T[k].token
  BY <1>2, Zenon
<1>6. /\ \A n \in DOMAIN F : F[n].block \in 1..b
      /\ \A k \in DOMAIN T :
           /\ T[k].token <= b
           /\ \A l \in DOMAIN T : k < l => T[k].token < T[l].token
           /\ \A j \in DOMAIN T[k].futs : T[k].futs[j] \in DOMAIN F
           /\ T[k].token # 0 =>
                \A n \in DOMAIN F : F[n].block = T[k].token =>
                  \E j \in DOMAIN T[k].futs : T[k].futs[j] = n
      /\ b # 0 /\ T[N].token = b
  BY Zenon DEF TokenInv
<1>7. b \in Nat /\ n0 \notin DOMAIN F /\ f.block = b /\ U # <<>>
  BY Zenon
<1> HIDE DEF N, ef, tf
<1>8. \A n \in DOMAIN G : G[n].block \in 1..b
  BY ONLY <1>4, <1>6, <1>7
<1>9. \A k \in DOMAIN U :
        /\ U[k].token <= b
        /\ \A l \in DOMAIN U : k < l => U[k].token < U[l].token
  BY ONLY <1>2, <1>5, <1>6, Zenon
<1>10. \A k \in DOMAIN U : \A j \in DOMAIN U[k].futs : U[k].futs[j] \in DOMAIN G
  <2>1. \A j \in DOMAIN tf : tf[j] \in DOMAIN G
    BY ONLY <1>2, <1>3, <1>4, <1>5, <1>6, Zenon
  <2> QED
    BY ONLY <1>2, <1>4, <1>5, <1>6, <2>1, ZenonT(60)
<1>11. ASSUME NEW k \in DOMAIN U, U[k].token # 0, NEW n \in DOMAIN G,
              G[n].block = U[k].token
       PROVE  \E j \in DOMAIN U[k].futs : U[k].futs[j] = n
  <2>1. CASE k = N
    <3>1. CASE n = n0
      BY ONLY <1>3, <1>5, <2>1, <3>1, Zenon
    <3>2. CASE n \in DOMAIN F
      <4>1. PICK j \in DOMAIN ef : ef[j] = n
        BY ONLY <1>2, <1>4, <1>5, <1>6, <1>11, <2>1, <3>2, SMTT(30)
      <4> QED
        BY ONLY <1>3, <1>5, <2>1, <4>1, Zenon
    <3> QED
      BY ONLY <1>4, <1>11, <3>1, <3>2, Zenon
  <2>2. CASE k # N
    <3>1. U[k] = T[k] /\ k \in DOMAIN T /\ T[k].token < b
      BY ONLY <1>1, <1>2, <1>6, <1>11, <2>2, Zenon
    <3>2. n # n0
      BY ONLY <1>1, <1>4, <1>7, <1>11, <3>1
    <3>3. n \in DOMAIN F /\ F[n].block = T[k].token /\ T[k].token # 0
      BY ONLY <1>4, <1>11, <3>1, <3>2, Zenon
    <3> QED
      BY ONLY <1>6, <3>1, <3>3, ZenonT(60)
  <2> QED
    BY ONLY <2>1, <2>2, Zenon
<1>12. U[Len(U)].token = b
  BY ONLY <1>2, <1>5, <1>6, Zenon
<1> QED
  BY ONLY <1>6, <1>7, <1>8, <1>9, <1>10, <1>11, <1>12, Zenon DEF TokenInv

(* A command is dispatched to an instrument that is gone.                    *)
LEMMA TokenStays ==
  ASSUME NEW p, NEW b, NEW T \in Seq(Token), NEW F,
         TokenInv("dispatch", b, T, F),
         NEW t \in Token, t.token = T[Len(T)].token, t.futs = T[Len(T)].futs
  PROVE  TokenInv(p, b, [T EXCEPT ![Len(T)] = t], F)
<1> DEFINE U == [T EXCEPT ![Len(T)] = t]
<1>1. /\ DOMAIN U = DOMAIN T /\ Len(U) = Len(T) /\ U # <<>>
      /\ \A k \in DOMAIN T : U[k].token = T[k].token /\ U[k].futs = T[k].futs
      /\ Len(T) \in DOMAIN T
  BY DEF TokenInv
<1> HIDE DEF U
<1> QED
  BY <1>1 DEF TokenInv, U

(* The same for the sequences that dispatch makes.                           *)
LEMMA LastTokenGrows ==
  ASSUME NEW p, NEW b \in Nat, NEW T \in Seq(Token), NEW F \in Seq(Future),
         TokenInv("dispatch", b, T, F), NEW f \in Future, f.block = b, NEW t \in Token,
         t.token = T[Len(T)].token, t.futs = Append(T[Len(T)].futs, Len(F) + 1)
  PROVE  TokenInv(p, b, [T EXCEPT ![Len(T)] = t], Append(F, f))
<1> DEFINE U == [T EXCEPT ![Len(T)] = t]
           G == Append(F, f)
           N == Len(T)
           ef == T[N].futs
           n0 == Len(F) + 1
<1>1. T # <<>>
  BY Zenon DEF TokenInv
<1>2. /\ Replaced(U, T, N) /\ U[N] = t /\ T[N] \in Token
      /\ U # <<>> /\ Len(U) = Len(T)
  BY <1>1, LastReplaced, Zenon
<1>3. ef \in Seq(Nat)
  BY ONLY <1>2, Zenon DEF Token
<1>4. n0 \in Nat /\ n0 \notin DOMAIN F
  BY ONLY F \in Seq(Future)
<1>5. OneMore(G, F, n0, f)
  BY ONLY F \in Seq(Future), f \in Future, AppendIsOneMore, Zenon
<1>6. OneMore(t.futs, ef, Len(ef) + 1, n0)
  BY <1>3, <1>4, AppendsANumber, Zenon
<1>7. OneMore(U[N].futs, T[N].futs, Len(ef) + 1, n0) /\ U[N].token = T[N].token
  BY <1>2, <1>6, Zenon
<1> HIDE DEF U, G, n0, ef
<1>8. TokenInv(p, b, U, G)
  BY <1>2, <1>4, <1>5, <1>7, TokenGrows, Zenon
<1> QED
  BY <1>8, Zenon DEF U, G

(* The next command of a parallel block is sent, or its instrument is        *)
(* missing.                                                                  *)
LEMMA NextDispatch ==
  ASSUME IInv, NEW x \in Contexts, dispatch(x)
  PROVE  IInv'
(* A command of a parallel block.                                            *)
<1>CommandDispatchMisses. ASSUME NEW x1 \in Commands, NEW b, NEW T, NEW F, ContextType(b, T, F),
                                 ContextInv(x1, "dispatch", b, T, F),
                                 NEW p \in {"dispatch", "wait"}, NEW t \in Token,
                                 t.token = T[Len(T)].token, t.futs = T[Len(T)].futs
                          PROVE  ContextInv(x1, p, b, [T EXCEPT ![Len(T)] = t], F)
  <2> USE <1>CommandDispatchMisses
  <2> DEFINE U == [T EXCEPT ![Len(T)] = t]
  <2>1. b \in Nat /\ T \in Seq(Token)
    BY Zenon DEF ContextType
  <2>2. TokenInv("dispatch", b, T, F) /\ CommandInv("dispatch", b, T, F)
    BY Zenon DEF ContextInv
  <2>3. T # <<>> /\ b # 0
    BY <2>2, Zenon DEF TokenInv
  <2>4. TokenInv(p, b, U, F)
    BY <2>1, <2>2, TokenStays, Zenon
  <2>5. /\ Replaced(U, T, Len(T)) /\ U[Len(T)] = t
        /\ U \in Seq(Token) /\ U # <<>> /\ Len(U) = Len(T)
    BY <2>1, <2>3, LastReplaced, Zenon
  <2>6. t.token = T[Len(T)].token /\ p \in {"dispatch", "wait"}
    BY Zenon
  <2> HIDE DEF U
  <2>7. Len(U) = 1 /\ U[1].token = b
    <3>1. Len(T) = 1 /\ T[Len(T)].token = b
      BY ONLY <2>2, Zenon DEF CommandInv, TokenInv
    <3> QED
      BY ONLY <2>1, <2>5, <2>6, <3>1, OneElement, Zenon
  <2>8. CommandInv(p, b, U, F)
    <3>1. \A n \in DOMAIN F : F[n].part /\ F[n].block < b => F[n].state # "unset"
      BY ONLY <2>2, Zenon DEF CommandInv
    <3> QED
      BY ONLY <2>3, <2>6, <2>7, <3>1, Zenon DEF CommandInv
  <2> QED
    BY ONLY <2>4, <2>8, Zenon DEF ContextInv, U
<1>CommandNotes. ASSUME NEW x1 \in Commands, NEW b, NEW T, NEW F, ContextType(b, T, F),
                        ContextInv(x1, "dispatch", b, T, F), NEW p \in {"dispatch", "wait"},
                        NEW f \in Future, f.block = b, NEW t \in Token,
                        t.token = T[Len(T)].token,
                        t.futs = Append(T[Len(T)].futs, Len(F) + 1)
                 PROVE  ContextInv(x1, p, b, [T EXCEPT ![Len(T)] = t], Append(F, f))
  <2> USE <1>CommandNotes
  <2> DEFINE U == [T EXCEPT ![Len(T)] = t]
             G == Append(F, f)
  <2>1. b \in Nat /\ T \in Seq(Token) /\ F \in Seq(Future)
    BY Zenon DEF ContextType
  <2>2. TokenInv("dispatch", b, T, F) /\ CommandInv("dispatch", b, T, F)
    BY Zenon DEF ContextInv
  <2>3. T # <<>> /\ b # 0
    BY <2>2, Zenon DEF TokenInv
  <2>4. /\ U[Len(T)] = t /\ U \in Seq(Token) /\ Len(U) = Len(T)
    BY <2>1, <2>3, LastReplaced, Zenon
  <2>5. OneMore(G, F, Len(F) + 1, f)
    BY ONLY <2>1, AppendIsOneMore, Zenon
  <2>6. TokenInv(p, b, U, G)
    BY ONLY <2>1, <2>2, f.block = b, t.token = T[Len(T)].token, t \in Token, f \in Future,
       t.futs = Append(T[Len(T)].futs, Len(F) + 1), LastTokenGrows, Zenon
  <2>7. f.block = b /\ t.token = T[Len(T)].token /\ p \in {"dispatch", "wait"}
    BY Zenon
  <2> HIDE DEF U, G
  <2>8. CommandInv(p, b, U, G)
    <3>1. Len(U) = 1 /\ U[1].token = b
      <4>1. Len(T) = 1 /\ T[Len(T)].token = b
        BY ONLY <2>2, Zenon DEF CommandInv, TokenInv
      <4> QED
        BY ONLY <2>4, <2>7, <4>1, Zenon
    <3>2. \A n \in DOMAIN G : G[n].part /\ G[n].block < b => G[n].state # "unset"
      BY ONLY <2>1, <2>2, <2>5, <2>7, SMTT(30) DEF CommandInv, OneMore
    <3> QED
      BY ONLY <2>3, <2>7, <3>1, <3>2, Zenon DEF CommandInv
  <2> QED
    BY ONLY <2>6, <2>8, ZenonT(60) DEF ContextInv, U, G
<1>NotedFacts. ASSUME NEW e \in Token, NEW ti \in Seq(Nat), NEW tf \in Seq(Nat), NEW t,
                      t = [token |-> e.token, insts |-> e.insts, inds |-> ti, futs |-> tf]
               PROVE  t \in Token /\ t.token = e.token /\ t.inds = ti /\ t.futs = tf
    BY <1>NotedFacts, <1>NotedFacts DEF Token
<1>1. TypeOK /\ x \in Contexts
  BY Zenon DEF IInv
<1>2. /\ phase[x] = "dispatch" /\ blocks' = blocks
      /\ UNCHANGED <<registered, barriers, rbarriers, resp, waiting, server>>
  BY Zenon DEF dispatch, wires
<1>3. PICK c \in todo[x] :
        /\ IF c.inst \in registered THEN execute(x, c.inst, blocks[x], c.barrier, c.at # 0)
                                    ELSE UNCHANGED <<req, futures>>
        /\ results' = IF x \in Commands THEN results
             ELSE [results EXCEPT ![x] =
                     Append(results[x],
                       [for |-> IF c.inst \in registered THEN NextId(x) ELSE 0, from |-> 0])]
        /\ tokens' = [tokens EXCEPT ![x] =
             [tokens[x] EXCEPT ![Len(tokens[x])] = Noted(x, c.inst \in registered)]]
        /\ todo' = [todo EXCEPT ![x] = todo[x] \ {c}]
        /\ phase' = [phase EXCEPT ![x] =
             IF todo[x] # {c} THEN "dispatch" ELSE IF x \in Jobs THEN "parse" ELSE "wait"]
  BY Zenon DEF dispatch
<1> DEFINE here == c.inst \in registered
           b == blocks[x]
           T == tokens[x]
           F == futures[x]
           R == results[x]
           e == T[Len(T)]
           t == Noted(x, here)
           p == IF todo[x] # {c} THEN "dispatch" ELSE IF x \in Jobs THEN "parse" ELSE "wait"
           f == [inst |-> c.inst, block |-> blocks'[x], part |-> c.at # 0,
                 state |-> "unset"]
           o == [for |-> IF here THEN NextId(x) ELSE 0, from |-> 0]
           U == [T EXCEPT ![Len(T)] = t]
<1>4. c \in Call
  BY <1>1, Zenon DEF TypeOK
<1>5. c.inst \in Instruments /\ c.barrier \in BOOLEAN
  BY <1>4, Zenon DEF Call
<1>6. ContextType(b, T, F) /\ ContextInv(x, "dispatch", b, T, F)
  BY <1>1, <1>2, Typed, ZenonT(60) DEF IInv, ContextsInv
<1>7. b \in Nat /\ T \in Seq(Token) /\ F \in Seq(Future) /\ R \in Seq(Result)
  BY <1>1, <1>6, Zenon DEF ContextType, TypeOK
<1>8. T # <<>> /\ b # 0
  BY <1>6, Zenon DEF ContextInv, TokenInv
<1>9. Len(F) + 1 \in Nat /\ Len(R) + 1 \in Nat /\ e \in Token
  BY ONLY <1>7, <1>8
<1> DEFINE ei == e.inds
           ef == e.futs
           ti == IF x \in Jobs THEN Append(ei, Len(R) + 1) ELSE ei
           tf == IF here THEN Append(ef, Len(F) + 1) ELSE ef
<1>10. ei \in Seq(Nat) /\ ef \in Seq(Nat)
  BY <1>9, Zenon DEF Token
<1>11. t = [token |-> e.token, insts |-> e.insts, inds |-> ti, futs |-> tf]
  BY Zenon DEF Noted, NextId
<1>12. /\ t \in Token /\ t.token = e.token
       /\ here => t.futs = Append(e.futs, Len(F) + 1)
       /\ ~here => t.futs = e.futs
  <2> HIDE DEF ei, ef, e, t
  <2>1. Append(ei, Len(R) + 1) \in Seq(Nat) /\ Append(ef, Len(F) + 1) \in Seq(Nat)
    BY ONLY <1>9, <1>10, AppendFacts, Zenon
  <2>2. ti \in Seq(Nat) /\ tf \in Seq(Nat)
    BY <1>10, <2>1, Zenon
  <2> HIDE DEF ti, tf
  <2>3. t \in Token /\ t.token = e.token /\ t.inds = ti /\ t.futs = tf
    BY ONLY <1>9, <1>11, <2>2, <1>NotedFacts, ZenonT(60)
  <2> QED
    BY <2>3, Zenon DEF ti, tf, ei, ef
<1>13. t \in Token
  BY <1>12, Zenon
<1>14. /\ p \in {"dispatch", "parse", "wait"}
       /\ x \in Jobs => p \in {"parse", "dispatch"}
       /\ x \in Commands => p \in {"dispatch", "wait"}
  BY ProtocolAssumption, Zenon
<1>15. U \in Seq(Token)
  BY ONLY <1>7, <1>8, <1>13
<1>16. /\ tokens' = [tokens EXCEPT ![x] = U]
       /\ todo' = [todo EXCEPT ![x] = todo[x] \ {c}]
       /\ phase' = [phase EXCEPT ![x] = p]
       /\ results' = IF x \in Commands THEN results
                     ELSE [results EXCEPT ![x] = Append(R, o)]
  BY <1>3, Zenon
<1>17. o \in Result
  BY ONLY <1>9, Zenon DEF Result, NextId
<1> HIDE DEF t, p, U
<1>18. /\ tokens' \in [Contexts -> Seq(Token)] /\ tokens'[x] = U
       /\ todo' \in [Contexts -> SUBSET Call]
       /\ phase' \in [Contexts -> Phases] /\ phase'[x] = p
       /\ results' \in [Contexts -> Seq(Result)]
       /\ \A y \in Contexts : y # x => tokens'[y] = tokens[y] /\ phase'[y] = phase[y]
  <2>1. Append(R, o) \in Seq(Result)
    BY ONLY <1>7, <1>17, SMTT(30)
  <2> HIDE DEF o
  <2>2. /\ tokens \in [Contexts -> Seq(Token)] /\ todo \in [Contexts -> SUBSET Call]
        /\ phase \in [Contexts -> Phases] /\ results \in [Contexts -> Seq(Result)]
    BY <1>1, Zenon DEF TypeOK
  <2>3. /\ tokens' \in [Contexts -> Seq(Token)] /\ tokens'[x] = U
        /\ \A y \in Contexts : y # x => tokens'[y] = tokens[y]
    BY ONLY <1>1, <1>15, <1>16, <2>2, ZenonT(60)
  <2>4. todo' \in [Contexts -> SUBSET Call]
    BY ONLY <1>1, <1>16, <2>2, Zenon
  <2>5. /\ phase' \in [Contexts -> Phases] /\ phase'[x] = p
        /\ \A y \in Contexts : y # x => phase'[y] = phase[y]
    BY ONLY <1>1, <1>14, <1>16, <2>2, Zenon DEF Phases
  <2>6. results' \in [Contexts -> Seq(Result)]
    BY ONLY <1>1, <1>16, <2>1, <2>2, Zenon
  <2> QED
    BY ONLY <2>3, <2>4, <2>5, <2>6, Zenon
<1>a. /\ ContextType(b, T, F) /\ blocks[x] = b /\ futures[x] = F
      /\ ContextInv(x, "dispatch", b, T, F)
      /\ t.token = T[Len(T)].token
      /\ here => t.futs = Append(T[Len(T)].futs, Len(F) + 1)
      /\ ~here => t.futs = T[Len(T)].futs
  BY <1>6, <1>12, Zenon
<1> HIDE DEF T, F, R, e
<1>19. CASE here
  <2>1. execute(x, c.inst, b, c.barrier, c.at # 0) /\ (c.at # 0) \in BOOLEAN
    BY <1>3, <1>19, Zenon
  <2>2. blocks'[x] \in Nat /\ b \in Nat
    BY <1>2, <1>7, Zenon
  <2>3. /\ req' \in [Instruments -> Seq(Message)]
        /\ futures' \in [Contexts -> Seq(Future)] /\ f \in Future
    BY ONLY <1>1, <1>5, <2>1, <2>2, ExecuteTypes, ZenonT(60)
  <2>4. futures' = [futures EXCEPT ![x] = Append(futures[x], f)]
    BY ONLY <2>1, Zenon DEF execute
  <2>5. f.block = b
    BY <1>2, ZenonT(60)
  <2> HIDE DEF f, o, b
  <2>7. /\ futures'[x] = Append(F, f) /\ Only(x)
    BY <1>1, <1>2, <1>18, <1>a, <2>4, Zenon DEF TypeOK, Only
  <2>8. ASSUME x \in Jobs PROVE ContextInv(x, p, b, U, Append(F, f))
    <3>1. TokenInv("dispatch", b, T, F) /\ x \notin Commands
      BY <1>a, <2>8, ProtocolAssumption, Zenon DEF ContextInv
    <3>2. TokenInv(p, b, U, Append(F, f))
      BY ONLY <1>7, <1>13, <1>19, <1>a, <2>3, <2>5, <3>1, LastTokenGrows, ZenonT(60) DEF U
    <3> QED
      BY <3>1, <3>2, Zenon DEF ContextInv
  <2>9. ASSUME x \in Commands PROVE ContextInv(x, p, b, U, Append(F, f))
    <3>1. /\ ContextType(b, T, F) /\ p \in {"dispatch", "wait"} /\ f.block = b
          /\ f \in Future /\ t \in Token /\ x \in Commands
          /\ ContextInv(x, "dispatch", b, T, F)
          /\ t.token = T[Len(T)].token
          /\ t.futs = Append(T[Len(T)].futs, Len(F) + 1)
      BY ONLY <1>13, <1>14, <1>19, <1>a, <2>3, <2>5, <2>9, ZenonT(60)
    <3>2. ContextInv(x, p, b, [T EXCEPT ![Len(T)] = t], Append(F, f))
      BY ONLY <3>1, <1>CommandNotes, ZenonT(60)
    <3> QED
      BY ONLY <3>2, Zenon DEF U
  <2>10. ContextsInv'
    <3>1. ContextInv(x, p, b, U, Append(F, f))
      BY <2>8, <2>9, Zenon DEF Contexts
    <3> QED
      BY <1>2, <1>18, <1>a, <2>7, <3>1, ContextStep, ZenonT(60)
  <2>11. TypeOK'
    BY <1>1, <1>2, <1>18, <2>3, ZenonT(60) DEF TypeOK
  <2>12. WiresInv'
    <3>1. OneMore(futures'[x], futures[x], Len(futures[x]) + 1, f)
      BY ONLY <1>7, <1>a, <2>3, <2>7, AppendIsOneMore, Zenon
    <3>2. blocks'[x] \in {blocks[x], blocks[x] + 1} /\ f.block = blocks'[x]
      BY ONLY <1>2, <1>a, <2>5, Zenon
    <3>3. Grows(phase[x], blocks[x], futures[x], phase'[x], blocks'[x], futures'[x])
      BY ONLY <1>2, <3>1, <3>2, ZenonT(60) DEF Grows
    <3> QED
      BY <1>2, <1>5, <2>1, <2>2, <2>7, <3>3, WiresExecute, ZenonT(60)
  <2> QED
    BY <1>2, <2>10, <2>11, <2>12, Zenon DEF IInv
<1>20. CASE ~here
  <2>1. req' = req /\ futures' = futures
    BY <1>3, <1>20, Zenon
  <2> HIDE DEF o, b
  <2>5. futures'[x] = F /\ Only(x)
    BY <1>2, <1>18, <1>a, <2>1, Zenon DEF Only
  <2>6. ASSUME x \in Jobs PROVE ContextInv(x, p, b, U, F)
    <3>1. TokenInv("dispatch", b, T, F) /\ x \notin Commands
      BY <1>a, <2>6, ProtocolAssumption, Zenon DEF ContextInv
    <3>2. TokenInv(p, b, U, F)
      BY ONLY <1>7, <1>13, <1>20, <1>a, <3>1, TokenStays, ZenonT(60) DEF U
    <3> QED
      BY <3>1, <3>2, Zenon DEF ContextInv
  <2>7. ASSUME x \in Commands PROVE ContextInv(x, p, b, U, F)
    BY ONLY <1>13, <1>14, <1>20, <1>a, <2>7, <1>CommandDispatchMisses, ZenonT(60) DEF U
  <2>8. ContextsInv'
    <3>1. ContextInv(x, p, b, U, F)
      BY <2>6, <2>7, Zenon DEF Contexts
    <3> QED
      BY <1>2, <1>18, <1>a, <2>5, <3>1, ContextStep, ZenonT(60)
  <2>9. TypeOK'
    BY <1>1, <1>2, <1>18, <2>1, Zenon DEF TypeOK
  <2>10. WiresInv'
    <3>1. Grows(phase[x], blocks[x], futures[x], phase'[x], blocks'[x], futures'[x])
      BY <1>2, <1>7, <1>a, <2>5, SettlesItself, Zenon DEF Grows
    <3> QED
      BY <1>2, <2>1, <2>5, <3>1, WiresQuiet, Zenon
  <2> QED
    BY <1>2, <2>8, <2>9, <2>10, Zenon DEF IInv
<1> QED
  BY <1>19, <1>20, Zenon

-----------------------------------------------------------------------------
(* A job calls: its commands are sent without waiting.                       *)

(* context:call of a job.                                                    *)
LEMMA NextCallEnqueue ==
  ASSUME IInv, NEW x \in Contexts, NEW i \in Instruments, call_enqueue(x, i)
  PROVE  IInv'
(* context:call of a job: a block of one command.                            *)
<1>JobCalls. ASSUME NEW x1 \in Jobs, NEW b, NEW T, NEW F, ContextType(b, T, F),
                    ContextInv(x1, "parse", b, T, F), NEW S \in SUBSET Instruments,
                    NEW r \in Nat, NEW f \in Future, f.block = b + 1
             PROVE  ContextInv(x1, "parse", b + 1,
                               Append(T, [token |-> b + 1, insts |-> S, inds |-> <<r>>,
                                          futs |-> <<Len(F) + 1>>]),
                               Append(F, f))
  <2> USE <1>JobCalls
  <2> DEFINE t0 == [token |-> b + 1, insts |-> S, inds |-> <<>>, futs |-> <<>>]
             t == [token |-> b + 1, insts |-> S, inds |-> <<r>>,
                   futs |-> <<Len(F) + 1>>]
             U == Append(T, t0)
  <2>1. b + 1 \in Nat /\ T \in Seq(Token) /\ F \in Seq(Future)
    BY DEF ContextType
  <2>2. x1 \notin Commands
    BY ProtocolAssumption, Zenon
  <2>3. ContextInv(x1, "dispatch", b + 1, U, F)
    BY <2>2, BlockBegins, ZenonT(60)
  <2>4. t0 \in Token /\ t \in Token
    BY <2>1 DEF Token
  <2>5. /\ t0.token = b + 1 /\ t.token = b + 1
        /\ t.futs = Append(t0.futs, Len(F) + 1)
    OBVIOUS
  <2> HIDE DEF t0, t
  <2>6. /\ U \in Seq(Token) /\ U[Len(U)] = t0
        /\ [U EXCEPT ![Len(U)] = t] = Append(T, t)
    BY ONLY <2>1, <2>4, AppendReplaced, AppendFacts
  <2> HIDE DEF U
  <2>7. t.token = U[Len(U)].token /\ t.futs = Append(U[Len(U)].futs, Len(F) + 1)
    BY <2>5, <2>6, Zenon
  <2>8. TokenInv("dispatch", b + 1, U, F)
    BY <2>3, Zenon DEF ContextInv
  <2>9. TokenInv("parse", b + 1, [U EXCEPT ![Len(U)] = t], Append(F, f))
    BY <2>1, <2>4, <2>6, <2>7, <2>8, LastTokenGrows, ZenonT(60)
  <2> QED
    BY <2>2, <2>6, <2>9, Zenon DEF ContextInv, t
<1> DEFINE b == blocks[x] + 1
           f == [inst |-> i, block |-> blocks'[x], part |-> FALSE, state |-> "unset"]
           t == [token |-> b, insts |-> registered, inds |-> <<Len(results[x]) + 1>>,
                 futs |-> <<Len(futures[x]) + 1>>]
           o == [for |-> Len(futures[x]) + 1, from |-> 0]
<1>1. TypeOK /\ b \in Nat \ {0} /\ registered \in SUBSET Instruments
  <2>1. TypeOK
    BY Zenon DEF IInv
  <2>2. blocks[x] \in Nat /\ registered \subseteq Instruments
    BY <2>1, Zenon DEF TypeOK
  <2> QED
    BY ONLY <2>1, <2>2
<1>2. blocks' = [blocks EXCEPT ![x] = b] /\ blocks'[x] = b
  BY <1>1, Zenon DEF call_enqueue, TypeOK
<1>3. /\ x \in Jobs /\ phase[x] = "parse"
      /\ barriers' = [barriers EXCEPT ![x] = register_barrier(barriers[x], b, registered)]
      /\ tokens' = [tokens EXCEPT ![x] = Append(tokens[x], t)]
      /\ results' = [results EXCEPT ![x] = Append(results[x], o)]
      /\ execute(x, i, b, TRUE, FALSE)
      /\ UNCHANGED <<registered, phase, todo, rbarriers, resp, waiting, server>>
  BY <1>1, <1>2, ZenonT(60) DEF call_enqueue, wires, NextId, TypeOK
<1>4. /\ req' \in [Instruments -> Seq(Message)]
      /\ futures' \in [Contexts -> Seq(Future)] /\ f \in Future
      /\ futures' = [futures EXCEPT ![x] = Append(futures[x], f)]
  <2>1. /\ x \in Contexts /\ i \in Instruments
        /\ b \in Nat /\ blocks'[x] \in Nat /\ TRUE \in BOOLEAN
    BY <1>1, <1>2, Zenon
  <2> HIDE DEF b
  <2>2. /\ req' \in [Instruments -> Seq(Message)]
        /\ futures' \in [Contexts -> Seq(Future)] /\ f \in Future
    BY ONLY <1>1, <1>3, <2>1, ExecuteTypes, Zenon
  <2>3. futures' = [futures EXCEPT ![x] = Append(futures[x], f)]
    BY ONLY <1>3, Zenon DEF execute
  <2> QED
    BY ONLY <2>2, <2>3, Zenon
<1>5. /\ ContextType(blocks[x], tokens[x], futures[x])
      /\ tokens[x] \in Seq(Token) /\ results[x] \in Seq(Result) /\ futures[x] \in Seq(Future)
  BY <1>1, Typed, Zenon DEF ContextType, TypeOK
<1>6. f.block = b
  BY <1>2, Zenon
<1>7. t \in Token /\ o \in Result
  <2> DEFINE r == Len(results[x]) + 1
             n == Len(futures[x]) + 1
  <2>1. r \in Nat /\ n \in Nat /\ 0 \in Nat /\ b \in Nat
    BY ONLY <1>1, <1>5
  <2> HIDE DEF r, n, b
  <2>2. <<r>> \in Seq(Nat) /\ <<n>> \in Seq(Nat)
    BY ONLY <2>1
  <2> QED
    BY <1>1, <2>1, <2>2, ZenonT(60) DEF Token, Result, r, n
<1>8. ContextInv(x, "parse", blocks[x], tokens[x], futures[x])
  BY <1>3, Zenon DEF IInv, ContextsInv
<1>9. ContextInv(x, "parse", b, Append(tokens[x], t), Append(futures[x], f))
  <2>1. Len(results[x]) + 1 \in Nat
    BY ONLY <1>5
  <2> QED
    BY ONLY <1>1, <1>3, <1>4, <1>5, <1>6, <1>8, <2>1, <1>JobCalls, ZenonT(60)
<1> HIDE DEF f, t, o, b
<1>10. /\ tokens'[x] = Append(tokens[x], t)
       /\ futures'[x] = Append(futures[x], f) /\ phase'[x] = "parse" /\ Only(x)
  <2>1. /\ tokens \in [Contexts -> Seq(Token)] /\ futures \in [Contexts -> Seq(Future)]
        /\ blocks \in [Contexts -> Nat]
    BY <1>1, Zenon DEF TypeOK
  <2> QED
    BY <1>2, <1>3, <1>4, <2>1, ZenonT(60) DEF Only
<1>11. BarriersOK'
  BY <1>1, <1>3, TypeBarriers, BarriersRegister, ZenonT(60)
<1>12. TypeOK'
  <2>1. Append(tokens[x], t) \in Seq(Token) /\ Append(results[x], o) \in Seq(Result)
    BY ONLY <1>5, <1>7, AppendFacts, Zenon
  <2> QED
    BY <1>1, <1>2, <1>3, <1>4, <1>11, <2>1, Zenon DEF TypeOK, BarriersOK
<1>13. ContextsInv'
  BY <1>2, <1>9, <1>10, ContextStep, Zenon
<1>14. WiresInv'
  <2>1. OneMore(futures'[x], futures[x], Len(futures[x]) + 1, f)
    BY ONLY <1>4, <1>5, <1>10, AppendIsOneMore, ZenonT(60)
  <2>2. blocks'[x] \in {blocks[x], blocks[x] + 1} /\ phase'[x] # "dispatch"
        /\ f.block = blocks'[x] /\ blocks'[x] = blocks[x] + 1
    BY <1>2, <1>6, <1>10, ZenonT(60) DEF b
  <2>3. Grows(phase[x], blocks[x], futures[x], phase'[x], blocks'[x], futures'[x])
    BY ONLY <2>1, <2>2, Zenon DEF Grows
  <2>4. b \in Nat /\ blocks'[x] \in Nat /\ TRUE \in BOOLEAN
    BY <1>1, <1>2, Zenon
  <2> QED
    BY <1>3, <1>10, <2>3, <2>4, WiresExecute, ZenonT(60)
<1> QED
  BY <1>3, <1>12, <1>13, <1>14, Zenon DEF IInv
=============================================================================
