----------------------------- MODULE JobManager -----------------------------
(***************************************************************************)
(* The job queue of the server (src/server/JobManager.cpp).  Client        *)
(* threads submit and cancel jobs; one worker thread takes jobs from the   *)
(* front of the queue; every measure job whose script was enqueued gets a  *)
(* detached monitor thread that completes it when the instruments have     *)
(* answered.  One step is one critical section of mutex_, or one stretch   *)
(* of code between two of them.                                            *)
(*                                                                         *)
(* cv_ is waited on with a predicate, so waiting on it is an action guard. *)
(* measure_cv_ is not: a sleeping worker is woken only by notify_all (or   *)
(* spuriously), so sleeping and woken are two values of pc.                *)
(***************************************************************************)
EXTENDS Naturals, Sequences

CONSTANTS Jobs,   (* the job ids make_job_id can hand out; bounds submissions *)
          NoJob   (* the empty jid of a worker that has not taken a job yet   *)

ASSUME JobsAssumption == NoJob \notin Jobs

VARIABLES
  type,      (* jobs_[j].type; every type the loop does not know is "other"   *)
  status,    (* jobs_[j].status; "none" while j is not in jobs_               *)
  result,    (* jobs_[j].result                                               *)
  queue,     (* queue_                                                        *)
  underrun,  (* queue_ was popped while empty: its begin lies behind its end  *)
  running,   (* running_                                                      *)
  active,    (* active_measure_jobs_                                          *)
  pc,        (* where the worker thread is in worker_loop                     *)
  jid,       (* the worker's local jid                                        *)
  monitor,   (* the monitor thread of each job                                *)
  stopper    (* the caller of stop()                                          *)

jobs == <<type, status, result>>
queues == <<queue, underrun>>
vars == <<type, status, result, queue, underrun, running, active, pc, jid,
          monitor, stopper>>

Types == {"measure", "sleep", "status", "other"}
Finished == {"completed", "failed", "canceled"}
Statuses == {"none", "queued", "running", "canceling"} \cup Finished

(* pc values at which the worker holds a job it popped and must settle.      *)
Holding == {"run", "slept", "threw", "enqueued", "spawn"}
(* pc values at which the worker waits for the active measure jobs.          *)
Peeking == {"measure_wait", "measure_woken"}

TypeOK ==
  /\ type \in [Jobs -> Types]
  /\ status \in [Jobs -> Statuses]
  /\ result \in [Jobs -> {"null", "slept", "collected"}]
  /\ queue \in Seq(Jobs)
  /\ underrun \in BOOLEAN
  /\ running \in BOOLEAN
  /\ active \in SUBSET Jobs
  /\ pc \in Holding \cup Peeking \cup {"wait", "spawned", "done", "crashed"}
  /\ jid \in Jobs \cup {NoJob}
  /\ monitor \in [Jobs -> {"none", "waiting", "notify", "gone"}]
  /\ stopper \in {"none", "joining", "stopped"}

Init ==
  /\ type = [j \in Jobs |-> "other"]
  /\ status = [j \in Jobs |-> "none"]
  /\ result = [j \in Jobs |-> "null"]
  /\ queue = <<>>
  /\ underrun = FALSE
  /\ running = TRUE
  /\ active = {}
  /\ pc = "wait"
  /\ jid = NoJob
  /\ monitor = [j \in Jobs |-> "none"]
  /\ stopper = "none"

-----------------------------------------------------------------------------
(* Clients.                                                                  *)

(* push_back on a deque whose begin is one past its end makes it empty: the  *)
(* pushed id is swallowed.                                                   *)
PushBack(j) ==
  /\ queue' = IF underrun THEN queue ELSE Append(queue, j)
  /\ underrun' = FALSE

(* Also accepted after stop().                                               *)
submit_job(j, t) ==
  /\ status[j] = "none"
  /\ type' = [type EXCEPT ![j] = t]
  /\ status' = [status EXCEPT ![j] = "queued"]
  /\ PushBack(j)
  /\ UNCHANGED <<result, running, active, pc, jid, monitor, stopper>>

(* queue_.erase(it) for the iterator of index i.                             *)
Erase(s, i) == SubSeq(s, 1, i - 1) \o SubSeq(s, i + 1, Len(s))

(* queue_.erase(std::find(...)): the first entry of the id, if there is one. *)
EraseFirst(j) ==
  \/ /\ \A i \in DOMAIN queue : queue[i] # j
     /\ UNCHANGED queue
  \/ \E i \in DOMAIN queue :
       /\ queue[i] = j
       /\ \A k \in 1..(i - 1) : queue[k] # j
       /\ queue' = Erase(queue, i)

(* Fault: the canceled job is not erased from queue_.                        *)
cancel_queued_no_erase(j) ==
  /\ status[j] = "queued"
  /\ ~underrun
  /\ status' = [status EXCEPT ![j] = "canceled"]
  /\ UNCHANGED <<type, result, queues, running, active, pc, jid, monitor,
                 stopper>>

cancel_queued(j) ==
  /\ status[j] = "queued"
  /\ ~underrun
  /\ EraseFirst(j)
  /\ status' = [status EXCEPT ![j] = "canceled"]
  /\ UNCHANGED <<type, result, underrun, running, active, pc, jid, monitor,
                 stopper>>

(* std::find over [begin, end) with begin behind end runs off the deque.     *)
cancel_corrupted(j) ==
  /\ status[j] = "queued"
  /\ underrun
  /\ pc' = "crashed"
  /\ UNCHANGED <<jobs, queues, running, active, jid, monitor, stopper>>

cancel_running(j) ==
  /\ status[j] = "running"
  /\ status' = [status EXCEPT ![j] = "canceling"]
  /\ UNCHANGED <<type, result, queues, running, active, pc, jid, monitor,
                 stopper>>

cancel_job(j) == cancel_queued(j) \/ cancel_corrupted(j) \/ cancel_running(j)

(* What get_job_result hands out: the result of a completed job, or nothing. *)
get_job_result(j) ==
  IF status[j] = "completed" THEN <<result[j]>> ELSE <<>>

stop ==
  /\ running
  /\ running' = FALSE
  /\ stopper' = "joining"
  /\ UNCHANGED <<jobs, queues, active, pc, jid, monitor>>

stop_join ==
  /\ stopper = "joining"
  /\ pc = "done"
  /\ stopper' = "stopped"
  /\ UNCHANGED <<jobs, queues, running, active, pc, jid, monitor>>

-----------------------------------------------------------------------------
(* The worker thread, up to "Pop and set running".                           *)

(* pop_front takes whatever is at the front NOW, the job that is started is  *)
(* the one peeked.  pop_front on an empty deque is undefined: the process    *)
(* aborts on the stale slot, or runs on with begin behind end.               *)
PopAndRun(j) ==
  /\ \/ /\ queue # <<>>
        /\ queue' = Tail(queue)
        /\ pc' = "run"
        /\ status' = [status EXCEPT ![j] = "running"]
        /\ UNCHANGED underrun
     \/ /\ queue = <<>>
        /\ underrun' = TRUE
        /\ pc' = "run"
        /\ status' = [status EXCEPT ![j] = "running"]
        /\ UNCHANGED queue
     \/ /\ queue = <<>>
        /\ pc' = "crashed"
        /\ UNCHANGED <<queue, status, underrun>>
  /\ UNCHANGED <<type, result, running, active, monitor, stopper>>

MustWait(j) == type[j] # "measure" /\ active # {} /\ running

(* Lines 137-161 without a wait on measure_cv_.                              *)
TakeJob ==
  /\ pc = "wait"
  /\ ~underrun
  /\ queue # <<>>
  /\ ~MustWait(Head(queue))
  /\ jid' = Head(queue)
  /\ PopAndRun(Head(queue))

(* The front is a non-measure job and measure jobs are active: sleep on      *)
(* measure_cv_, which releases mutex_ with jid already read.                 *)
PeekAndWait ==
  /\ pc = "wait"
  /\ ~underrun
  /\ queue # <<>>
  /\ MustWait(Head(queue))
  /\ jid' = Head(queue)
  /\ pc' = "measure_wait"
  /\ UNCHANGED <<jobs, queues, running, active, monitor, stopper>>

SpuriousWake ==
  /\ pc = "measure_wait"
  /\ pc' = "measure_woken"
  /\ UNCHANGED <<jobs, queues, running, active, jid, monitor, stopper>>

WaitAgain ==
  /\ pc = "measure_woken"
  /\ MustWait(jid)
  /\ pc' = "measure_wait"
  /\ UNCHANGED <<jobs, queues, running, active, jid, monitor, stopper>>

(* Fault: if instead of while, so a spurious wake-up starts the job.         *)
TakePeeked_if ==
  /\ pc = "measure_woken"
  /\ PopAndRun(jid)
  /\ UNCHANGED jid

TakePeeked ==
  /\ pc = "measure_woken"
  /\ ~MustWait(jid)
  /\ PopAndRun(jid)
  /\ UNCHANGED jid

(* front() of the corrupted deque is no job id: jobs_.at throws outside any  *)
(* handler and the process terminates.                                       *)
TakeCorrupted ==
  /\ pc = "wait"
  /\ underrun
  /\ pc' = "crashed"
  /\ UNCHANGED <<jobs, queues, running, active, jid, monitor, stopper>>

(* Fault: the predicate of cv_.wait leaves out !running_.                    *)
ExitLoop_deaf ==
  /\ pc = "wait"
  /\ ~running
  /\ queue # <<>>
  /\ pc' = "done"
  /\ UNCHANGED <<jobs, queues, running, active, jid, monitor, stopper>>

ExitLoop ==
  /\ pc = "wait"
  /\ ~underrun
  /\ ~running
  /\ queue = <<>>
  /\ pc' = "done"
  /\ UNCHANGED <<jobs, queues, running, active, jid, monitor, stopper>>

-----------------------------------------------------------------------------
(* The worker thread, executing jid.                                         *)

Goto(from, to) ==
  /\ pc = from
  /\ pc' = to
  /\ UNCHANGED <<jobs, queues, running, jid, stopper>>

(* A check of the sleep loop that finds a cancellation throws "canceled".    *)
SleepCanceled ==
  /\ Goto("run", "threw")
  /\ type[jid] = "sleep"
  /\ status[jid] \in {"canceling", "canceled"}
  /\ UNCHANGED <<active, monitor>>

(* The loop ends once slept >= ms, whatever was requested since its last     *)
(* check.                                                                    *)
SleepDone ==
  /\ Goto("run", "slept")
  /\ type[jid] = "sleep"
  /\ UNCHANGED <<active, monitor>>

UnknownType ==
  /\ Goto("run", "threw")
  /\ type[jid] \notin {"sleep", "measure"}
  /\ UNCHANGED <<active, monitor>>

(* No script_path, or the script does not run to its end.                    *)
ScriptFails ==
  /\ Goto("run", "threw")
  /\ type[jid] = "measure"
  /\ UNCHANGED <<active, monitor>>

ScriptEnqueues ==
  /\ Goto("run", "enqueued")
  /\ type[jid] = "measure"
  /\ UNCHANGED <<active, monitor>>

MarkActive ==
  /\ Goto("enqueued", "spawn")
  /\ active' = active \cup {jid}
  /\ UNCHANGED monitor

(* Fault: the job is handed over to a monitor that is never started.         *)
SpawnMonitor_nobody ==
  /\ Goto("spawn", "spawned")
  /\ UNCHANGED <<active, monitor>>

SpawnMonitor ==
  /\ Goto("spawn", "spawned")
  /\ monitor' = [monitor EXCEPT ![jid] = "waiting"]
  /\ UNCHANGED active

(* The closing critical section, lines 285-314: one action per outcome.  The *)
(* notify_all of a failed measure job finds nobody asleep, its only possible *)
(* sleeper being the worker itself.                                          *)
FinishCompleted ==
  /\ pc = "slept"
  /\ pc' = "wait"
  /\ status' = [status EXCEPT ![jid] = "completed"]
  /\ result' = [result EXCEPT ![jid] = "slept"]
  /\ UNCHANGED <<type, queues, running, active, jid, monitor, stopper>>

(* Fault: a measure job that failed at enqueue time is left running.         *)
FinishFailed_not_measure ==
  /\ pc = "threw"
  /\ pc' = "wait"
  /\ status' = IF type[jid] = "measure" THEN status
               ELSE [status EXCEPT ![jid] = "failed"]
  /\ UNCHANGED <<type, result, queues, running, active, jid, monitor, stopper>>

FinishFailed ==
  /\ pc = "threw"
  /\ pc' = "wait"
  /\ status' = [status EXCEPT ![jid] = "failed"]
  /\ active' = IF type[jid] = "measure" THEN active \ {jid} ELSE active
  /\ UNCHANGED <<type, result, queues, running, jid, monitor, stopper>>

(* Fault: "remains running" is written, over what a quick monitor wrote.     *)
FinishEnqueued_running ==
  /\ pc = "spawned"
  /\ pc' = "wait"
  /\ status' = [status EXCEPT ![jid] = "running"]
  /\ UNCHANGED <<type, result, queues, running, active, jid, monitor, stopper>>

FinishEnqueued ==
  /\ Goto("spawned", "wait")
  /\ UNCHANGED <<active, monitor>>

-----------------------------------------------------------------------------
(* The monitor threads.                                                      *)

(* Fault: the job stays in active_measure_jobs_.                             *)
MonitorCompletes_no_erase(j) ==
  /\ monitor[j] = "waiting"
  /\ monitor' = [monitor EXCEPT ![j] = "notify"]
  /\ result' = [result EXCEPT ![j] = "collected"]
  /\ status' = [status EXCEPT ![j] = "completed"]
  /\ UNCHANGED <<type, queues, running, active, pc, jid, stopper>>

(* process_tokens_and_wait has returned: every future of the job is ready.   *)
MonitorCompletes(j) ==
  /\ monitor[j] = "waiting"
  /\ monitor' = [monitor EXCEPT ![j] = "notify"]
  /\ result' = [result EXCEPT ![j] = "collected"]
  /\ status' = [status EXCEPT ![j] = "completed"]
  /\ active' = active \ {j}
  /\ UNCHANGED <<type, queues, running, pc, jid, stopper>>

(* Fault: measure_cv_ is not notified.                                       *)
MonitorNotifies_silent(j) ==
  /\ monitor[j] = "notify"
  /\ monitor' = [monitor EXCEPT ![j] = "gone"]
  /\ UNCHANGED <<jobs, queues, running, active, pc, jid, stopper>>

MonitorNotifies(j) ==
  /\ monitor[j] = "notify"
  /\ monitor' = [monitor EXCEPT ![j] = "gone"]
  /\ pc' = IF pc = "measure_wait" THEN "measure_woken" ELSE pc
  /\ UNCHANGED <<jobs, queues, running, active, jid, stopper>>

-----------------------------------------------------------------------------
Client ==
  \/ \E j \in Jobs, t \in Types : submit_job(j, t)
  \/ \E j \in Jobs : cancel_job(j)
  \/ stop

Worker ==
  \/ TakeJob \/ PeekAndWait \/ WaitAgain \/ TakePeeked \/ TakeCorrupted
  \/ ExitLoop
  \/ SleepCanceled \/ SleepDone \/ UnknownType
  \/ ScriptFails \/ ScriptEnqueues \/ MarkActive \/ SpawnMonitor
  \/ FinishCompleted \/ FinishFailed \/ FinishEnqueued

Monitor(j) == MonitorCompletes(j) \/ MonitorNotifies(j)

Next ==
  /\ pc # "crashed"
  /\ \/ Client
     \/ Worker
     \/ SpuriousWake
     \/ \E j \in Jobs : Monitor(j)
     \/ stop_join

Spec == Init /\ [][Next]_vars

(* The scheduler runs every thread that can run; monitors return because the *)
(* futures they wait for are answered.  Clients owe nothing, and a spurious  *)
(* wake-up need never come.                                                  *)
Fairness ==
  /\ WF_vars(pc # "crashed" /\ Worker)
  /\ \A j \in Jobs : WF_vars(pc # "crashed" /\ Monitor(j))
  /\ WF_vars(pc # "crashed" /\ stop_join)

FairSpec == Spec /\ Fairness

-----------------------------------------------------------------------------
(* Properties.                                                               *)

(* A job is "running" or "canceling" exactly while one thread answers for    *)
(* it: the worker until it settled the job or handed it over, a monitor      *)
(* after that.  No job is left running with nobody to finish it, short of a  *)
(* crash of the server.                                                      *)
RunningJobsHaveAnOwner ==
  pc # "crashed" =>
    \A j \in Jobs :
      status[j] \in {"running", "canceling"} <=>
        (pc \in Holding /\ jid = j) \/ monitor[j] = "waiting"

(* While the manager runs, a non-measure job executes only when no measure   *)
(* job is active (the wait on measure_cv_, and "Non-measure jobs wait until  *)
(* this set is empty").                                                      *)
NonMeasureExclusion ==
  running /\ pc \in Holding /\ type[jid] # "measure" => active = {}

(* queue_ holds each queued job at most once and nothing else: a canceled or *)
(* started job is never left behind in it.                                   *)
QueueHoldsQueuedJobs ==
  /\ \A i \in DOMAIN queue : status[queue[i]] = "queued"
  /\ \A i, k \in DOMAIN queue : queue[i] = queue[k] => i = k

(* active_measure_jobs_ is the set of measure jobs that were enqueued and    *)
(* whose monitor has not completed them: no entry is leaked, which would     *)
(* block every later non-measure job.                                        *)
ActiveJobsAreMonitored ==
  pc # "crashed" =>
    \A j \in Jobs :
      j \in active <=> monitor[j] = "waiting" \/ (pc = "spawn" /\ jid = j)

(* A job that completed or failed keeps that status, and what get_job_result *)
(* has once handed out for it is handed out for ever, although the worker,   *)
(* its monitor and cancel_job may all still write to it.                     *)
OutcomesAreFinal ==
  [][\A j \in Jobs :
       status[j] \in {"completed", "failed"} =>
         status'[j] = status[j] /\ get_job_result(j)' = get_job_result(j)]_vars

(* "queued: Job submitted, waiting in queue" (JOB_SCHEDULING.md).  Fails: a  *)
(* worker that slept on measure_cv_ pops the front of queue_ for the id it   *)
(* peeked before, and when that one was canceled meanwhile it pops another   *)
(* job, which stays queued with no entry left in queue_.                     *)
QueuedIsInQueue ==
  pc # "crashed" =>
    \A j \in Jobs : status[j] = "queued" => \E i \in DOMAIN queue : queue[i] = j

(* "If queued, remove from queue and mark canceled" (cancel_job): a job      *)
(* canceled while queued is never run.  Fails for the job the worker peeked. *)
CanceledIsFinal ==
  [][\A j \in Jobs : status[j] = "canceled" => status'[j] = "canceled"]_vars

(* A job whose cancellation was requested while it ran, and that then ends,  *)
(* ends "canceled" (JOB_SCHEDULING.md, "canceled: Job was canceled").  Fails *)
(* for every job type: the closing critical section and the monitor write    *)
(* "failed" and "completed" without looking at the status.                   *)
CancelingEndsCanceled ==
  [][\A j \in Jobs :
       status[j] = "canceling" /\ status'[j] \in Finished =>
         status'[j] = "canceled"]_vars

(* "If status or list, executes immediately without waiting"                 *)
(* (JOB_SCHEDULING.md).  Fails: the loop exempts measure jobs only.          *)
StatusJobsDoNotWait == pc \in Peeking => type[jid] # "status"

(* Every started job is eventually settled, canceled or not.                 *)
StartedJobsEnd ==
  \A j \in Jobs :
    status[j] \in {"running", "canceling"} ~>
      status[j] \in Finished \/ pc = "crashed"

(* No job that was queued before the worker left its loop stays in queue_    *)
(* for ever: a worker waiting for measure jobs is always woken, also when    *)
(* stop() comes in between, and it drains the queue before it exits.         *)
QueueMovesOn ==
  \A j \in Jobs :
    (\E i \in DOMAIN queue : queue[i] = j) /\ pc # "done" ~>
      (\A i \in DOMAIN queue : queue[i] # j) \/ pc = "crashed"

(* stop() returns.                                                           *)
StopReturns == stopper = "joining" ~> stopper = "stopped" \/ pc = "crashed"
=============================================================================
