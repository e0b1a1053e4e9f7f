-------------------------- MODULE JobManagerProofs --------------------------
(***************************************************************************)
(* Proofs about JobManager, for every set of job ids.  The properties of   *)
(* the module are not inductive one by one: who owns a running job decides *)
(* what a status may be overwritten with, and what the worker peeked       *)
(* decides what it may pop.  IInv adds the facts that tie them together.   *)
(***************************************************************************)
EXTENDS JobManager, SequenceTheorems, TLAPS

(* What the worker knows of the job it holds or peeked.                      *)
WorkerInv ==
  /\ pc \in Holding \cup Peeking => jid \in Jobs
  /\ pc \in Holding => monitor[jid] = "none"
  /\ pc \in {"enqueued", "spawn"} => type[jid] = "measure"
  /\ pc \in Peeking => status[jid] \in {"queued", "canceled"}
  /\ pc \in Peeking /\ status[jid] = "queued" =>
       queue # <<>> /\ queue[1] = jid

(* A monitor that has done its work leaves a completed job.                  *)
MonitorInv ==
  \A j \in Jobs : monitor[j] \in {"notify", "gone"} => status[j] = "completed"

IInv ==
  /\ TypeOK
  /\ RunningJobsHaveAnOwner
  /\ NonMeasureExclusion
  /\ QueueHoldsQueuedJobs
  /\ ActiveJobsAreMonitored
  /\ WorkerInv
  /\ MonitorInv

-----------------------------------------------------------------------------
(* erase(find(...)) keeps the other elements of the deque in their order.    *)
LEMMA EraseElements ==
  ASSUME NEW S, NEW s \in Seq(S), NEW i \in 1..Len(s)
  PROVE  /\ Erase(s, i) \in Seq(S)
         /\ Len(Erase(s, i)) = Len(s) - 1
         /\ \A k \in 1..(Len(s) - 1) :
              Erase(s, i)[k] = IF k < i THEN s[k] ELSE s[k + 1]
<1> DEFINE a == SubSeq(s, 1, i - 1)
           b == SubSeq(s, i + 1, Len(s))
<1>1. a \in Seq(S) /\ Len(a) = i - 1 /\ \A k \in 1..(i - 1) : a[k] = s[k]
  BY SMT
<1>2. b \in Seq(S) /\ Len(b) = Len(s) - i
      /\ \A k \in 1..(Len(s) - i) : b[k] = s[i + k]
  BY SMT
<1>3. /\ a \o b \in Seq(S)
      /\ Len(a \o b) = Len(a) + Len(b)
      /\ \A k \in 1..(Len(a) + Len(b)) :
           (a \o b)[k] = IF k <= Len(a) THEN a[k] ELSE b[k - Len(a)]
  BY <1>1, <1>2, ConcatProperties, ZenonT(60)
<1>4. Erase(s, i) = a \o b
  BY Zenon DEF Erase
<1> HIDE DEF a, b
<1>5. Len(a) + Len(b) = Len(s) - 1
  BY <1>1, <1>2
<1>6. ASSUME NEW k \in 1..(Len(s) - 1)
      PROVE  (a \o b)[k] = IF k < i THEN s[k] ELSE s[k + 1]
  <2>1. CASE k < i
    BY <1>1, <1>2, <1>3, <1>5, <2>1
  <2>2. CASE ~(k < i)
    <3>1. (a \o b)[k] = b[k - (i - 1)]
      <4>1. k \in 1..(Len(a) + Len(b)) /\ ~(k <= Len(a))
        BY <1>1, <1>5, <2>2, SMTT(30)
      <4> QED
        BY ONLY <1>1, <1>3, <4>1, Zenon
    <3>2. k - (i - 1) \in 1..(Len(s) - i)
      BY <2>2
    <3>3. i + (k - (i - 1)) = k + 1
      OBVIOUS
    <3> QED
      BY <1>2, <2>2, <3>1, <3>2, <3>3, Zenon
  <2> QED
    BY <2>1, <2>2, Zenon
<1> QED
  BY <1>3, <1>4, <1>5, <1>6, ZenonT(60)

(* The initial state satisfies the invariant.                               *)
LEMMA InitIInv == Init => IInv
<1> SUFFICES ASSUME Init PROVE IInv
  BY Zenon
<1> USE DEF Init, Holding, Peeking
<1>1. TypeOK
  <2>1. queue \in Seq(Jobs)
    OBVIOUS
  <2>2. jid \in Jobs \cup {NoJob}
    BY Zenon
  <2>3. type \in [Jobs -> Types] /\ status \in [Jobs -> Statuses]
    BY Zenon DEF Types, Statuses, Finished
  <2> QED
    BY <2>1, <2>2, <2>3, Zenon DEF TypeOK
<1>2. QueueHoldsQueuedJobs
  BY DEF QueueHoldsQueuedJobs
<1>3. RunningJobsHaveAnOwner /\ NonMeasureExclusion /\ ActiveJobsAreMonitored
  BY Zenon DEF RunningJobsHaveAnOwner, NonMeasureExclusion, ActiveJobsAreMonitored
<1>4. WorkerInv /\ MonitorInv
  BY Zenon DEF WorkerInv, MonitorInv
<1> QED
  BY <1>1, <1>2, <1>3, <1>4, Zenon DEF IInv

(* Every step preserves it.                                                  *)
LEMMA NextIInv == IInv /\ [Next]_vars => IInv'
<1> SUFFICES ASSUME IInv, [Next]_vars PROVE IInv'
  BY Zenon
<1>0. CASE UNCHANGED vars
  BY <1>0 DEF vars, IInv, TypeOK, RunningJobsHaveAnOwner, NonMeasureExclusion,
              QueueHoldsQueuedJobs, ActiveJobsAreMonitored, WorkerInv, MonitorInv
<1> SUFFICES ASSUME pc # "crashed", Next PROVE IInv'
  BY <1>0, Zenon DEF Next
<1> USE JobsAssumption
    DEF IInv, TypeOK, RunningJobsHaveAnOwner, NonMeasureExclusion,
        QueueHoldsQueuedJobs, ActiveJobsAreMonitored, WorkerInv, MonitorInv,
        Types, Statuses, Finished, Holding, Peeking, jobs, queues
<1>1. ASSUME NEW j \in Jobs, cancel_running(j) PROVE IInv'
  BY <1>1 DEF cancel_running
<1>2. ASSUME NEW j \in Jobs, cancel_corrupted(j) PROVE IInv'
  <2> USE <1>2 DEF cancel_corrupted
  <2>1. TypeOK'
    BY Zenon
  <2>2. QueueHoldsQueuedJobs'
    BY ZenonT(60)
  <2>3. RunningJobsHaveAnOwner' /\ NonMeasureExclusion' /\ ActiveJobsAreMonitored'
    BY Zenon
  <2>4. WorkerInv' /\ MonitorInv'
    BY Zenon
  <2> QED
    BY <2>1, <2>2, <2>3, <2>4, Zenon
<1>3. ASSUME NEW j \in Jobs, MonitorCompletes(j) PROVE IInv'
  BY <1>3 DEF MonitorCompletes
<1>4. ASSUME NEW j \in Jobs, MonitorNotifies(j) PROVE IInv'
  BY <1>4 DEF MonitorNotifies
<1>5. CASE PeekAndWait
  BY <1>5 DEF PeekAndWait, MustWait
<1>6. CASE SpuriousWake
  BY <1>6, ZenonT(60) DEF SpuriousWake
<1>7. CASE WaitAgain
  BY <1>7, ZenonT(60) DEF WaitAgain
<1>8. CASE TakeCorrupted
  BY <1>8, ZenonT(60) DEF TakeCorrupted
<1>9. CASE ExitLoop
  BY <1>9 DEF ExitLoop
<1>10. CASE SleepCanceled
  BY <1>10, ZenonT(60) DEF SleepCanceled, Goto
<1>11. CASE SleepDone
  BY <1>11, ZenonT(60) DEF SleepDone, Goto
<1>12. CASE UnknownType
  BY <1>12, ZenonT(60) DEF UnknownType, Goto
<1>13. CASE ScriptFails
  BY <1>13, ZenonT(60) DEF ScriptFails, Goto
<1>14. CASE ScriptEnqueues
  BY <1>14, ZenonT(60) DEF ScriptEnqueues, Goto
<1>15. CASE MarkActive
  BY <1>15, ZenonT(60) DEF MarkActive, Goto
<1>16. CASE SpawnMonitor
  BY <1>16, ZenonT(60) DEF SpawnMonitor, Goto
<1>17. CASE FinishCompleted
  BY <1>17 DEF FinishCompleted
<1>18. CASE FinishFailed
  BY <1>18 DEF FinishFailed
<1>19. CASE FinishEnqueued
  BY <1>19, ZenonT(60) DEF FinishEnqueued, Goto
<1>20. CASE stop
  BY <1>20, ZenonT(60) DEF stop
<1>21. CASE stop_join
  BY <1>21, ZenonT(60) DEF stop_join
<1>30. ASSUME NEW j \in Jobs, NEW t \in Types, submit_job(j, t) PROVE IInv'
  <2> USE <1>30 DEF submit_job
  <2>0. \/ queue' = queue
        \/ /\ queue' = Append(queue, j)
           /\ queue' \in Seq(Jobs)
           /\ Len(queue') = Len(queue) + 1
           /\ \A i \in 1..Len(queue) : queue'[i] = queue[i]
           /\ queue'[Len(queue) + 1] = j
    BY AppendProperties DEF PushBack
  <2>1. TypeOK'
    BY <2>0, ZenonT(60) DEF PushBack
  <2>2. QueueHoldsQueuedJobs'
    <3>1. CASE queue' = queue
      BY <3>1
    <3>2. CASE queue' # queue
      <4>1. \A i \in DOMAIN queue : queue[i] # j /\ status'[queue[i]] = "queued"
        OBVIOUS
      <4>2. DOMAIN queue' = DOMAIN queue \cup {Len(queue) + 1}
        <5>1. DOMAIN queue = 1..Len(queue) /\ Len(queue) \in Nat
          OBVIOUS
        <5>2. DOMAIN queue' = 1..(Len(queue) + 1)
          BY <2>0, <3>2
        <5> QED
          BY <5>1, <5>2
      <4>3. /\ \A i \in DOMAIN queue : queue'[i] = queue[i]
            /\ queue'[Len(queue) + 1] = j
            /\ status'[j] = "queued"
        <5>1. status'[j] = "queued"
          BY Zenon
        <5>2. \A i \in DOMAIN queue : i \in 1..Len(queue)
          BY queue \in Seq(Jobs)
        <5> QED
          BY ONLY <2>0, <3>2, <5>1, <5>2, Zenon
      <4> QED
        BY <4>1, <4>2, <4>3, SMTT(30)
    <3> QED
      BY <3>1, <3>2, Zenon
  <2>3. RunningJobsHaveAnOwner' /\ NonMeasureExclusion' /\ ActiveJobsAreMonitored'
    BY ZenonT(60)
  <2>4. WorkerInv' /\ MonitorInv'
    BY <2>0, SMTT(30)
  <2> QED
    BY <2>1, <2>2, <2>3, <2>4, Zenon
<1>31. ASSUME NEW j \in Jobs, cancel_queued(j) PROVE IInv'
  <2> USE <1>31 DEF cancel_queued
  <2>1. CASE (\A i \in DOMAIN queue : queue[i] # j) /\ UNCHANGED queue
    BY <2>1
  <2>2. ASSUME NEW i \in DOMAIN queue, queue[i] = j, queue' = Erase(queue, i)
        PROVE  IInv'
    <3>1. /\ queue' \in Seq(Jobs)
          /\ Len(queue') = Len(queue) - 1
          /\ \A k \in 1..(Len(queue) - 1) :
               queue'[k] = IF k < i THEN queue[k] ELSE queue[k + 1]
      <4>1. queue \in Seq(Jobs)
        BY Zenon
      <4>2. i \in 1..Len(queue)
        BY ONLY <2>2, <4>1
      <4> QED
        BY ONLY <2>2, <4>1, <4>2, EraseElements, Zenon
    <3>2. TypeOK'
      BY <3>1, ZenonT(60)
    <3>3. QueueHoldsQueuedJobs'
      <4> DEFINE old(k) == IF k < i THEN k ELSE k + 1
      <4>1. \A k \in DOMAIN queue' :
              old(k) \in DOMAIN queue \ {i} /\ queue'[k] = queue[old(k)]
        BY <3>1
      <4>2. \A k, m \in DOMAIN queue' : old(k) = old(m) => k = m
        BY <3>1
      <4>3. \A k \in DOMAIN queue \ {i} :
              queue[k] # j /\ status'[queue[k]] = "queued"
        BY <2>2
      <4> HIDE DEF old
      <4> QED
        BY <4>1, <4>2, <4>3, SMTT(30)
    <3>4. RunningJobsHaveAnOwner' /\ NonMeasureExclusion' /\ ActiveJobsAreMonitored'
      BY ZenonT(60)
    <3>5. WorkerInv'
      <4>1. ASSUME pc \in Peeking, status'[jid] = "queued"
            PROVE  queue' # <<>> /\ queue'[1] = jid
        <5>1. jid # j /\ queue # <<>> /\ queue[1] = jid
          BY <4>1, Zenon
        <5>2. i > 1 /\ Len(queue) > 1
          BY <2>2, <5>1
        <5> QED
          BY <3>1, <5>1, <5>2
      <4> QED
        BY <4>1, ZenonT(60)
    <3>6. MonitorInv'
      BY ZenonT(60)
    <3> QED
      BY <3>2, <3>3, <3>4, <3>5, <3>6, Zenon
  <2> QED
    BY <2>1, <2>2, Zenon DEF EraseFirst
<1>32. ASSUME NEW j \in Jobs, PopAndRun(j), jid' = j, monitor[j] = "none",
              pc \notin Holding, status[j] \in {"queued", "canceled"},
              status[j] = "queued" => queue # <<>> /\ queue[1] = j,
              type[j] = "measure" \/ active = {} \/ ~running
       PROVE  IInv'
  <2> USE <1>32 DEF PopAndRun
  <2>1. queue # <<>> =>
          /\ Tail(queue) \in Seq(Jobs)
          /\ Len(Tail(queue)) = Len(queue) - 1
          /\ \A i \in 1..(Len(queue) - 1) : Tail(queue)[i] = queue[i + 1]
    BY HeadTailProperties
  <2>2. TypeOK'
    <3>1. queue' \in Seq(Jobs)
      BY <2>1, ZenonT(60)
    <3>2. status' \in [Jobs -> Statuses]
      BY Zenon
    <3>3. pc' \in {"run", "crashed"} /\ underrun' \in BOOLEAN
      BY Zenon
    <3> QED
      BY <3>1, <3>2, <3>3, ZenonT(60)
  <2>3. QueueHoldsQueuedJobs'
    <3>1. CASE queue' = Tail(queue) /\ queue # <<>>
      <4>1. \A i \in DOMAIN queue' :
              i + 1 \in DOMAIN queue /\ i + 1 # 1 /\ queue'[i] = queue[i + 1]
        BY <2>1, <3>1
      <4>2. \A i \in DOMAIN queue : i # 1 =>
              queue[i] # j /\ status'[queue[i]] = "queued"
        OBVIOUS
      <4>3. \A i, k \in DOMAIN queue' : i + 1 = k + 1 => i = k
        BY <2>1, <3>1
      <4> QED
        BY <4>1, <4>2, <4>3
    <3>2. CASE queue' = queue /\ queue = <<>>
      BY <3>2
    <3> QED
      BY <3>1, <3>2, Zenon
  <2>4. RunningJobsHaveAnOwner' /\ NonMeasureExclusion' /\ ActiveJobsAreMonitored'
    BY ZenonT(60)
  <2>5. WorkerInv' /\ MonitorInv'
    BY ZenonT(60)
  <2> QED
    BY <2>2, <2>3, <2>4, <2>5, ZenonT(60)
<1>33. CASE TakeJob
  <2>1. Head(queue) = queue[1] /\ queue[1] \in Jobs /\ 1 \in DOMAIN queue
    BY <1>33 DEF TakeJob
  <2> QED
    BY <1>32, <1>33, <2>1 DEF TakeJob, MustWait
<1>34. CASE TakePeeked
  BY <1>32, <1>34, Zenon DEF TakePeeked, MustWait
<1> HIDE DEF IInv
<1> QED
  BY <1>1, <1>2, <1>3, <1>4, <1>5, <1>6, <1>7, <1>8, <1>9, <1>10, <1>11, <1>12,
     <1>13, <1>14, <1>15, <1>16, <1>17, <1>18, <1>19, <1>20, <1>21, <1>30,
     <1>31, <1>33, <1>34, Zenon
  DEF Next, Client, cancel_job, Worker, Monitor

(* The invariant holds in every reachable state.                             *)
THEOREM Invariance == Spec => []IInv
  BY InitIInv, NextIInv, PTL DEF Spec

-----------------------------------------------------------------------------
(* Type correctness of the job table, the queue and the threads.             *)
THEOREM TypeCorrect == Spec => []TypeOK
  BY Invariance, PTL DEF IInv

(* worker_loop and the monitors never leave a running job without the thread *)
(* that will settle it.                                                      *)
THEOREM Ownership == Spec => []RunningJobsHaveAnOwner
  BY Invariance, PTL DEF IInv

(* The wait on measure_cv_ keeps non-measure jobs and active measure jobs    *)
(* apart until stop().                                                       *)
THEOREM Exclusion == Spec => []NonMeasureExclusion
  BY Invariance, PTL DEF IInv

(* submit_job, cancel_job and worker_loop keep queue_ free of duplicates and *)
(* of jobs that are no longer queued.                                        *)
THEOREM QueueIntegrity == Spec => []QueueHoldsQueuedJobs
  BY Invariance, PTL DEF IInv

(* active_measure_jobs_ leaks no entry.                                      *)
THEOREM NoActiveLeak == Spec => []ActiveJobsAreMonitored
  BY Invariance, PTL DEF IInv

(* A step writes the status of a job that is queued, canceled or owned by    *)
(* the writing thread, so a settled job and its result are left alone.       *)
LEMMA SettledStep ==
  ASSUME IInv, [Next]_vars, NEW j \in Jobs, status[j] \in {"completed", "failed"}
  PROVE  status'[j] = status[j] /\ result'[j] = result[j]
<1>0. CASE UNCHANGED vars
  BY <1>0, ZenonT(60) DEF vars
<1> SUFFICES ASSUME pc # "crashed", Next
             PROVE  status'[j] = status[j] /\ result'[j] = result[j]
  BY <1>0, ZenonT(60) DEF Next
<1> USE DEF jobs, queues, Holding, Peeking
<1>1. /\ status \in [Jobs -> Statuses] /\ result \in [Jobs -> {"null", "slept", "collected"}]
      /\ monitor[j] # "waiting"
      /\ pc \in Holding \cup Peeking => jid # j
      /\ pc \in Holding \cup Peeking => jid \in Jobs
      /\ \A i \in DOMAIN queue : queue[i] # j /\ queue[i] \in Jobs
  BY DEF IInv, TypeOK, RunningJobsHaveAnOwner, QueueHoldsQueuedJobs, WorkerInv
<1>2. CASE Client
  BY <1>1, <1>2, ZenonT(60) DEF Client, submit_job, cancel_job, cancel_queued,
                    cancel_corrupted, cancel_running, stop
<1>3. CASE TakeJob
  <2>1. queue \in Seq(Jobs)
    BY Zenon DEF IInv, TypeOK
  <2>2. Head(queue) \in Jobs /\ Head(queue) # j
    BY <1>1, <1>3, <2>1 DEF TakeJob
  <2> QED
    BY <1>1, <1>3, <2>2, Zenon DEF TakeJob, PopAndRun
<1>4. CASE TakePeeked
  BY <1>1, <1>4, Zenon DEF TakePeeked, PopAndRun
<1>5. CASE FinishCompleted \/ FinishFailed
  BY <1>1, <1>5, ZenonT(60) DEF FinishCompleted, FinishFailed
<1>6. CASE \/ PeekAndWait \/ WaitAgain \/ TakeCorrupted \/ ExitLoop
           \/ SpuriousWake \/ stop_join
  BY <1>6, ZenonT(60) DEF PeekAndWait, WaitAgain, TakeCorrupted, ExitLoop, SpuriousWake,
              stop_join
<1>7. CASE \/ SleepCanceled \/ SleepDone \/ UnknownType \/ ScriptFails
           \/ ScriptEnqueues \/ MarkActive \/ SpawnMonitor \/ FinishEnqueued
  BY <1>7, ZenonT(60) DEF SleepCanceled, SleepDone, UnknownType, ScriptFails,
              ScriptEnqueues, MarkActive, SpawnMonitor, FinishEnqueued, Goto
<1>8. ASSUME NEW k \in Jobs, Monitor(k)
      PROVE  status'[j] = status[j] /\ result'[j] = result[j]
  BY <1>1, <1>8, ZenonT(60) DEF Monitor, MonitorCompletes, MonitorNotifies
<1> QED
  BY <1>2, <1>3, <1>4, <1>5, <1>6, <1>7, <1>8, ZenonT(60) DEF Next, Worker

(* worker_loop, cancel_job and the monitors never overwrite a final status,  *)
(* and a client that polls get_job_result sees one result.                   *)
THEOREM SettledForGood == Spec => OutcomesAreFinal
<1>1. ASSUME IInv, [Next]_vars, NEW j \in Jobs, status[j] \in {"completed", "failed"}
      PROVE  status'[j] = status[j] /\ get_job_result(j)' = get_job_result(j)
  BY <1>1, SettledStep, Zenon DEF get_job_result
<1>2. IInv /\ [Next]_vars =>
        [\A j \in Jobs :
           status[j] \in {"completed", "failed"} =>
             status'[j] = status[j] /\ get_job_result(j)' = get_job_result(j)]_vars
  BY <1>1, Zenon
<1> QED
  BY <1>2, Invariance, PTL DEF Spec, OutcomesAreFinal

=============================================================================
