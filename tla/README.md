# A TLA+ model of the instrument script server

The server runs Lua measurement scripts against laboratory instruments. Each
instrument is driven by a worker process of its own; the server talks to it
through a pair of message queues in shared memory. Clients use the command line,
an HTTP RPC port or the embedding API. What is hard about the program is its
concurrency: a job thread, one detached monitor thread per measurement, a
listener thread per instrument, the RPC thread, the threads of an embedding
application, and processes that die. Most of the models are about that; one is
about the files that describe instruments and the tools that process them.

Paths below are relative to `src/` of the repository (`src/src/server/...` is
written `server/...`).

## The system

| Part | State | Operations | Talks to |
|---|---|---|---|
| JobManager (`server/JobManager.cpp`) | `jobs_`, `queue_`, `active_measure_jobs_`, `running_` | submit, cancel, worker loop, monitor threads, stop | RuntimeContext |
| RuntimeContext (`server/RuntimeContext.cpp`) | parallel buffer, tokens with futures and result indices, results | call, parallel, process_tokens_and_wait | registry, proxies, a SyncCoordinator |
| SyncCoordinator (`server/SyncCoordinator.cpp`) | `barriers_` | register, ack, clear | RuntimeContext, proxies |
| InstrumentRegistry (`server/InstrumentRegistry.cpp`) | `instruments_`, `metadata_`, `mutex_` | create, get, list, remove, stop_all | proxies, plugin registry |
| InstrumentWorkerProxy (`server/InstrumentWorkerProxy.cpp`) | `pending_responses_`, `stats_`, `running_`, queue pointer, listener thread | start, execute, execute_sync, stop | SharedQueue, ProcessManager |
| SharedQueue (`ipc/SharedQueue.cpp`) | two bounded FIFO queues per name | timed send and receive, cleanup | |
| Worker (`workers/generic_worker_main.cpp`) | `waiting_sync_token_`, `g_running` | message loop, command, barrier, heartbeat, shutdown | plugin |
| ProcessManager (`ipc/ProcessManager.cpp`) | `processes_`, the system's process table | spawn, is_alive, wait_for_exit, kill, cleanup_all | |
| ServerDaemon (`server/ServerDaemon.cpp`), HttpRpcServer | PID file, port, `running_`, two threads | start, stop, destructor, RPC dispatch | handlers, registry |
| Command handlers (`server/CommandHandlers.cpp`) | none | daemon, start, stop, status, test, measure, job commands | everything above |
| PluginRegistry, PluginLoader (`plugin/*.cpp`) | `plugins_`, `plugin_paths_`, dlopen handles, two `once_flag`s in the handlers | load, discover, built-in plugins, unload, lookup | handlers, InstrumentRegistry |
| VISA plugins (`plugins/visa/visa_plugin.c`, `workers/visa_builtin.cpp`) | static session handles and `initialized` | initialize, execute, shutdown | the VISA library |
| DataBufferManager (`ipc/DataBufferManager.cpp`) | `buffers_` with reference counts, `next_buffer_id_` | create, get, release, list, clear | plugins, clients of the embedding API |
| Configuration tools (`template_expander.cpp`, `instrument_configuration_generator.cpp`, `SchemaValidator.cpp`, `server/ApiRefResolver.cpp`) | files | expand, validate, generate, resolve | InstrumentRegistry, RuntimeContext |
| Logging | not modelled | | |

`PROJECT.json` lists every part with its status, the source lines of each
definition, and the hazards with the properties aimed at them.

## The modules

One module per cluster of code that shares state. A step is one critical section
of a mutex, one queue operation, one system call, or a stretch of code between
two of these that touches nothing shared. Actions and operators have the names
of the functions they model. Definitions with a suffix and a comment that begins
with "Fault:" are defective variants, used to confirm that each property notices
a plausible mistake; no specification uses them.

**JobManager.** Clients submit and cancel jobs, the worker takes them, monitors
complete measure jobs. `cv_` is waited on with a predicate and is therefore a
guard. `measure_cv_` is not, so that sleeping (`measure_wait`) and woken
(`measure_woken`) are places of the worker; it keeps the id it peeked while it
sleeps, as the code does. `pop_front` on an empty deque is undefined behaviour;
`underrun` and the actions with `corrupted` in their name are the outcomes
libstdc++ produces. A script (`ScriptFails`, `ScriptEnqueues`) either throws or
enqueues; what it enqueues is the subject of SyncProtocol.

**WorkerProxy.** One proxy, its queues, its worker. Callers of `execute` store a
promise, send, count; the listener receives and settles; `stop()` sends
SHUTDOWN, waits for or kills the worker, joins the listener, settles what is
pending, closes the queues. Environment faults are chosen per configuration:
`"crash"` of the worker, a receiver `"slow"` past a send timeout, `"large"`
payloads, which are cut at the size of a message and are then no JSON, and a
`"stall"` of the thread in `stop()`: `join_response_thread_with_timeout` blocks in
`join()` however long that takes, and detaches the listener only when 500 ms went
by before it first looked at the clock. `server` leaves `"up"` when the server
dereferences the reset queue pointer, an exception leaves the listener thread, or
a detached listener touches what `stop()` or the destructor has deleted. `reply`, what the worker made of a
command, is history and not in the code.

**CommandService.** What an instrument promises to its callers, without queues,
threads and processes: commands are executed at most once and in the order in
which they were accepted, and a caller is told one outcome, the answer to its own
command or a failure. WorkerProxy implements it: `outcome` is the state of the
futures, `line` the ids in the request queue.

**BarrierTable** and **SyncCoordinator.** The operations of the coordinator as
operators on its table, a function from tokens to barriers, and one coordinator
whose callers do anything in any order. `heard` and `fired` record the ACKs and
completions since the registration; they are history and not in the code.

**SyncProtocol.** Script runs on several instruments, in a measure job (commands
are enqueued, the monitor waits afterwards) and in the measure command (each call
and block waits). It has a BarrierTable for the coordinator of the registry,
which the proxies report to, and one for that of each run, which the script
registers with: the program has both. `Deserialize` is
what the round trip through JSON does to a command. The coordinator of a job is
destroyed when the worker loop goes on; a monitor that calls it afterwards either
gets away with it or crashes the server (`server`).

**InstrumentRegistry.** Threads run handlers against the registry, with `mutex_`
held over starting and stopping as in the code, and lookups in between. Message
queues belong to a name, not to a proxy. Processes are free, a worker, a zombie
until someone reaps it, or foreign: with `PidReuse` the system hands reaped pids
out again. A proxy still referenced by a handler outlives its removal; its
destructor runs with the last reference.

**ServerDaemon.** Several server processes share the PID file and the port.
`stop()` may run in the main thread or, through RPC, in the server thread.
`Events` selects what may happen: overlapping starts, kills, reused pids, a port
taken by another program, daemon commands by RPC. The server thread reads a
request with `recv` and no timeout, so a client it accepted holds it until the
client lets go.

**PluginRegistry.** Threads run `discover`, `plugins`, `start` and `test` against
the plugin registry of the server; an embedding program unloads. `has_plugin` and
`load_plugin` are critical sections of their own, so a protocol may be taken
between them. `mapped` counts the handles dlopen gave out, and a handler that
looks at a file holds a loader on its stack (`temp`). Each of the two handlers
has its own `std::call_once`; one that throws leaves it to the next. Files are
good plugins, plugins of another API version, or throw when loaded.

**PluginHost** and **DataBufferManager.** A worker loads one plugin, initialises
it, executes and shuts down; an embedding program may have several loaders of one
library, whose statics they share. The VISA sessions are numbered handles;
`misused` records that one was closed twice or was never open, `lost` that the
handle of one still open was overwritten by another initialisation. A call of the
VISA library that fails sets its handle to null or leaves it. DataBufferManager
holds the operations on a table of buffers as operators, `byte_size` with the
width of `size_t`; PluginHost has one table per process, and creation is split
where the code takes the id before the mutex. `owed` counts the references
handed out; it is history.

**Configuration.** From an author's API template to the text an instrument is
sent. The tools and `create_instrument` are steps on the files of two directories
that may hold an API of the same name; the validators change nothing and are
predicates. A script's call goes through the channel, the parameter conversion of
the worker and `substitute_template` of the VISA plugin, whose buffer, parameter
table and strings are bounded (`Size`, `MaxParams`, `MaxString`). A template is a
sequence of characters and placeholders. `Cut` is what `strncpy` into a field of a
PluginCommand leaves of it; `Unterminated` gives the characters that follow a
string which fills `value_str` and is copied there without its terminator. Port names come from a table, because `a` with
channel 11 and `a1` with channel 1 are one name. Nodes have the kind the tools
expect or are `Missing`, and names are none that YAML reads as a number or truth
value (`yaml_to_json` would convert them).

Composition: SyncProtocol has several of the tables that SyncCoordinator has one
of, PluginHost uses DataBufferManager, WorkerProxy implements CommandService; the others meet at
interfaces. JobManager's `MonitorCompletes` stands for what SyncProtocol's
`WaitsEnd` is about, SyncProtocol's queues for what WorkerProxy's
`ImplementsCommandService` and `EveryFutureSettles` are about,
InstrumentRegistry's steps of a stop for what WorkerProxy's `StopEnds` is about,
and its plugin lookup for PluginRegistry's `create_instrument`.

## Runs

Each `MC*` module extends its component; the `.cfg` files give the constants.
SyncCoordinator needs no such module.

| Run | Configuration | States | Shows |
|---|---|---|---|
| `jobs` | 3 jobs of any type | 110,876 | Running jobs have exactly one owner; non-measure jobs run alone; queue and active set are exact; outcomes and results are final; started jobs end, the queue moves, `stop()` returns |
| `proxy` | 2 commands, queues of 2, all faults | 349,941 | Promises are pending exactly while unset; queues are closed after the worker and the listener, unless that was detached; the proxy implements CommandService; every future settles unless the worker or its answer is lost; `stop()` ends |
| `coordinator` | 2 tokens, 3 instruments, 2 registrations each | 16,384 | Barriers complete once and wait for exactly the silent |
| `registry` | 2 threads, 2 names, 2 proxies, 2 pids reused | 249,376 | No orphan or double workers; queues and metadata belong to the registered proxy; `mutex_` is released |
| `sync` | a job, a measure command, or both at once, 2 blocks of up to 2 calls, 2 instruments of which one may be removed | 509,435 | Each result is the response to its command, and each is filled; a parallel block of a measure command is a barrier; SYNC_CONTINUE only after all answers; every wait ends |
| `daemon` | 2 processes, every event | 51,326 | The RPC server object outlives its thread |
| `daemon_serial` | 3 processes, no overlapping starts | 55,241 | One daemon; the PID file names it and goes with it; no `std::terminate`; `stop()` ends unless a client keeps silent |
| `plugins` | 2 threads, 4 plugin files, 3 handler calls or unloads in all | 72,949 | A library is mapped exactly as often as loaders hold it; discovery lists every usable plugin; handlers return |
| `plugin_host` | a worker and an embedding program, any of 3 plugins, 2 initialisations, 2 loaders, 2 buffers | 1,334,290 | VISA sessions are closed, and by `visa_plugin` once, but for those an initialisation lost; reference counts are those the clients hold |
| `configuration` | 148 pairs of API files, 3 tool runs, every order of up to 7 gates | 398,166 | Expansion completes a template; a generated configuration fits its API; the server starts with that API; commands are sent whole; accepted devices are chains of dots |
| `jobs_queued` | 3 jobs | counterexample | A "queued" job that is not in the queue |
| `sync_barrier` | 1 job, 2 blocks, 2 instruments | counterexample | An instrument that took part in a parallel block goes on while the command of another in that block is still queued |

### Bounds

- Three jobs are what the longest known race needs: one measure job that is
  active, one job peeked, one job popped in its place. Job ids also bound the
  submissions.
- Two commands and queues of two: both commands, or one and a SHUTDOWN, fill the
  request queue, and a heartbeat, a response and another fill the other, so that
  every send can meet a full queue. The code's 100 only makes this rarer. The
  invariants and the refinement are also proved for every number and capacity.
- Two instruments, two blocks and two calls: a block in which one instrument has
  several commands and the other only the no-op the code sends, and something
  that comes after it. The job and the command use the same tokens. Two jobs are
  out of TLC's reach here; the proofs of the safety invariants are for any number.
- Two threads and two proxies: every interleaving of two handlers, creation after
  removal under one name included. The safety invariants are also proved for every
  number of each; so are those of `sync` and `plugins`.
- Three processes: a server that died, one that runs, one that starts.
- Two tokens with two registrations each: a token used again after completion,
  after a clear and before completion.
- Three calls of two threads: both inside `call_once`, or a discovery, a start
  and an unload that meet. Two VISA plugins compete for one protocol; one is in
  two places.
- Two initialisations and two loaders: a session that fails half-way, a second
  shutdown, and a loader destroyed while another is in use. Two buffers with two
  references: created at the same time, released while the other gets.
- Three tool runs: a template is expanded, the configuration generated and the
  instrument created, each from either directory. `MaxParams`, `Size` and
  `MaxString` stand for 16, the payload and 128; lengths of verbs, values and the
  ending are chosen so that a command just fits, fits without all of the ending,
  and does not fit, and that a template or value is as long as a string may be, or
  longer. Orders of seven
  gates are the chains of up to one dot and everything that differs from them.

Deadlock is checked only for SyncCoordinator; the other systems come to rest when
nobody asks for anything more, or bounds are used up, or the server has ended.

### Fairness

Only weak fairness, and only of code that goes on by itself: threads inside an
operation, listener and worker loops, timeouts that will expire. Clients need
not call anything nor let go of a connection (so `StopEnds` of the daemon excepts
a server thread that is with a client), faults need not happen, a spurious wake-up need not come, and
scripts need not continue. A thread that runs a handler (`plugins`) goes on, and
`std::call_once` wakes a waiting thread. `proxy` needs no absence of faults:
`EveryFutureSettles` holds under all of them and excepts only a worker that ended
on its own before anyone calls `stop()`, and an answer the worker gave up sending.
Monitors (`jobs`) are fair because a future is settled, which `proxy` and `sync`
show but for those two cases. For
`std::mutex`, which is not fair, no more is claimed than that it is always
released (`MutexIsReleased`): a request may starve while other threads keep
taking the mutex.

## Proofs

`JobManagerProofs` proves, for every set `Jobs` and assuming only
`NoJob \notin Jobs`, that `TypeOK`, `RunningJobsHaveAnOwner`,
`NonMeasureExclusion`, `QueueHoldsQueuedJobs` and `ActiveJobsAreMonitored` are
invariants, and that every step satisfies `OutcomesAreFinal`. None of the
invariants is inductive alone. `IInv` is their conjunction with
- `WorkerInv`: the worker's `jid` is a job whenever it holds or peeked one; a job
  it holds has no monitor yet; a job it peeked is still queued, and then in front
  of the queue, or was canceled. This is why popping the front in place of the
  peeked id never marks a job running that somebody else owns.
- `MonitorInv`: once a monitor is past its critical section its job is completed,
  so that no job gets a second monitor.

`NextIInv` has one step per action. `EraseElements` says what erasing from the
middle of the deque leaves. The action property follows from `IInv` by
`SettledStep`: only an owner writes a status, and settled jobs have none.

`WorkerProxyProofs` proves, for every set of commands, every capacity and every
set of faults, that `TypeOK` and `UnsetFuturesArePending` are invariants and that
the specification implements CommandService, and `NobodyUsesClosedQueues` with
it. The latter rests on `StopInv`, which says how far `stop()` is: past waiting for
the worker no worker runs, past the join no listener does that was not detached. The refinement needs
more than the invariant of the promises, and `IInv` adds what the service cannot
see:
- `RequestInv`: a command not yet sent was not begun, and one in the request queue
  was sent, is there once and was not begun. So accepting and executing are steps
  of the service.
- `ResponseInv`: a response carries the answer the worker gave to that very
  command, or was cut. So what the listener sets a promise to is `Answer`.
- `BusyInv`: what the worker executes was begun and not answered.

`IdsOfAppend` and `IdsOfTail` say what a send and a receive do to `line`;
`ServiceInit` and `ServiceStep` are the two halves of the simulation, the second
with one case per action: an action that takes a message and settles nothing is
`Lose` or a stutter, a failing send and the end of `stop()` are `Fail`.

`ServerDaemonProofs` proves four invariants for every finite set of pids:
`ServerOutlivesItsThread` whatever the environment does; `OneDaemon` and
`PidFileNamesTheServer` if starts do not overlap; `NoTerminate` if moreover
nobody else takes the port and `stop()` does not come by RPC. The three
hypotheses are needed: the `MCServerDaemonOverlap`, `Busy`, `BusyStop` and
`RpcStop` configurations are what happens without them. Three invariants carry
the proofs:
- `BaseInv`: `TypeOK`, which parts of an RPC server exist together, and which
  steps of `stop()` a process can be in.
- `SerialInv`: who starts does so alone and has found no active server; an active
  server is in the PID file; a pid is left there only by a server that was killed
  or terminated, or whose `stop()` failed. Without the last, a start could take a
  stale file for a running server's.
- `JoinInv`: an RPC server not yet stopped is serving, since only an active server
  has the port. So `stop()` finds a thread it can join.

`PluginHostProofs` proves `SessionsAreClosed` and `ReferencesAreCounted` for every
set of processes and every bound. The two halves of the state are independent, a
worker's exit apart. `SessionInv` says of each process (`HostInv`) that what is
open is what a shutdown would close or was lost to an overwritten handle, and that
nothing was misused before that; `OneHost` reduces a step to the process that takes
it. `BufferInv` adds that the id of a buffer being created is new, because the
counter is past every id given: this is why `try_emplace`, after the lock was not
held, never meets an entry.

`InstrumentRegistryProofs` proves `NoOrphans`, `QueuesAreItsOwn` and
`MetadataIsItsOwn` for every set of threads, names, proxies and pids, whether the
system hands pids out again or not. `IInv` needs, besides types and the lock:
- `StartingInv`: nobody else knows a proxy that is being started; its name is not
  registered, and the queues and metadata of that name are already its own.
- `StoppingInv`: what a thread will erase from the map it has stopped or is still
  to stop, so `erase` and `clear` leave no running proxy behind.
- `RunningInv`: a running proxy is registered or being started.
- `WorkerInv`: a worker process is in ProcessManager's table under the pid its
  proxy holds, and outlives `running_` only while `stop()` waits for it. With
  reused pids the table does not tell whose a process is; this conjunct does.

`SyncStepProofs` and `SyncProtocolProofs` prove the four safety invariants of
SyncProtocol for every set of measure jobs, measure commands and instruments,
scripts of every length and instruments removed at any time, assuming that
instrument names are finitely many and ordered. None is inductive: what a result
holds depends on the token it belonged to, and what SYNC_CONTINUE means on every
future of a block. Two invariants carry them. `IInv` is inductive, gives
`ContinueMeansComplete` and `ParallelIsABarrier`, and consists of what holds of one
script run and of one instrument:
- `TokenInv`: tokens are in order, and a token holds every future of its block.
  So the token that is released settles its block.
- `CommandInv`: a measure command has one token and only while it dispatches or
  waits; its earlier parallel blocks are settled.
- `WireInv`: a command in the queue of an instrument is there once, and is not yet
  answered; one whose response is on its way has left the queue.
- `ContinueInv`: the block of a SYNC_CONTINUE in a queue is `Released`, that is,
  settled and closed to further commands.

`ResultsInv` is inductive together with `IInv` and gives `ResultsAreAligned` and
`EveryCommandHasItsResult`:
- `ResultInv`: no command has two results.
- `JobInv`: every command of a job has one; while no instrument has been removed,
  the k-th result index of a token is that of its k-th future. This is why pairing
  them by position is right, and why it is not after a removal.
- `CommandResults`: the results of a measure command and the futures of its token
  are together all its commands.

These predicates are about values, not variables, so that what an operation does
to a token, a result or a queue is a lemma about sequences (`TokenGrows`,
`ContinueSent`, `JobGrows`, `JobReleases`, `CommandBlockEnds`, ...), and an action's
proof only puts together the lemmas for what it changes. `SyncStepProofs` has
`IInv` and a lemma per action, `SyncProtocolProofs` the theorems and `ResultsInv`.

The beginning of `SyncProtocolProofs` is about SyncCoordinator: `CompletesOnce` and
`WaitsForTheSilent` for every set of tokens and instruments and every bound. They
are inductive together with the types: a barrier in the table has not been
reported complete, and the ACK that completes it erases it.

`PluginRegistryProofs` proves `LibrariesStayMapped` and the action property
`DiscoveryIsComplete` for all finite sets of threads and plugin files. `CountInv`
is the first together with the finiteness the counting needs; `StackOpens`,
`StackCloses`, `RegistryOpens` and `RegistryCloses` say what a loader created or
destroyed does to the counts. `ThreadInv` says where a usable file is
that a search has found: still to be visited, in the loader on the stack, or its
protocol has a plugin or lost it by an unload since. It survives another thread
taking the protocol between `has_plugin` and `load_plugin`.

Only model-checked: all liveness properties (the prover handles neither fairness
nor `ENABLED`), and the properties of Configuration: what the folds over files and
templates compute would need induction over data. `StartsWithItsApi` alone would
not, and is not proved yet.

Leaves that need one prover, or longer than the default, name it (`Zenon`,
`SMTT(30)`). `SyncStepProofs` and `SyncProtocolProofs` take some ten minutes each,
the others up to five.

`TypeOK` is proved for every module above but PluginHost, whose invariants carry
the types they need. No run lists it.

## Where the code and its documentation disagree

The runs `jobs_queued` and `sync_barrier` are recorded as findings. Further
statements that do not hold of the code have a configuration each, which ends in
a counterexample. The `Refuted` files hold several; the ones not active are
commented, to be tried one at a time:

| Configuration | Statement | What the code does |
|---|---|---|
| `MCJobManagerRefuted` `CanceledIsFinal` | `docs/RPC.md:250`, `docs/JOB_SCHEDULING.md:36` | A job canceled while the worker has peeked it is run |
| `MCJobManagerRefuted` `CancelingEndsCanceled` | `docs/JOB_SCHEDULING.md:35` | A job canceled while running ends "completed" or "failed" (`server/JobManager.cpp:257`, `:295`) |
| `MCJobManagerRefuted` `StatusJobsDoNotWait` | `docs/JOB_SCHEDULING.md:70`, `docs/RPC.md:173` | `status` and `list` jobs wait like the others (`server/JobManager.cpp:145`) |
| `MCWorkerProxyRefuted` `DeathFailsPending` | `docs/IPC_PROTOCOL.md:280` | Pending commands of a dead worker stay unanswered until `stop()` |
| `MCWorkerProxyRefuted` `LateResponseDiscarded` | `docs/IPC_PROTOCOL.md:243` | A late response is delivered and counted after the timeout was counted |
| `MCWorkerProxyRefuted` `MalformedIsAnswered` | `docs/IPC_PROTOCOL.md:259` | A worker that cannot parse a command exits |
| `MCWorkerProxyRefuted` `NoNullQueue` | `docs/EMBEDDING_API.md:224` | `execute` may dereference the queue pointer that `stop()` reset |
| `MCWorkerProxyRefuted` `ServerSurvivesWorkers` | `docs/ARCHITECTURE.md:123` | A response that was cut makes the listener thread throw, which ends the server |
| `MCWorkerProxyRefuted` `DetachingIsHarmless` | comment at `server/InstrumentWorkerProxy.cpp:103` | A listener that was detached after 500 ms goes on using the queue that `stop()` deletes next |
| `MCSyncProtocolRefuted` `AcksReachTheBarrier` | `docs/ARCHITECTURE.md:402` | ACKs go to the registry's coordinator, scripts register with another |
| `MCSyncProtocolRefuted` `ResultsAreAlwaysAligned` | `RuntimeContext.hpp:114` | After an instrument was removed, results of a block move to the wrong commands |
| `MCSyncProtocolRefuted` `MonitorsFinish` | `server/JobManager.cpp:206` | The monitor calls a coordinator that was destroyed |
| `MCSyncProtocolRefuted` `ExecutionAwaitsContinue` | `RuntimeContext.hpp:61` | Workers execute the commands of a block as they come; SYNC_CONTINUE is sent when all of them are answered |
| `MCSyncProtocolRefuted` `BarriersAreForced` (`HangSpec`) | `docs/ARCHITECTURE.md:647` | No timeout completes a barrier: SYNC_CONTINUE needs every answer, and the wait for an instrument that never answers does not end |
| `MCServerDaemonOverlap` | `docs/CLI_USAGE.md:107` | Two overlapping starts both succeed |
| `MCServerDaemonBusy` | `server/ServerDaemon.cpp:197` | `start` succeeds although the port is taken |
| `MCServerDaemonBusyStop` | `docs/EMBEDDING_API.md:123` | ... and stopping then destroys a joinable thread |
| `MCServerDaemonRpcStop` | `docs/EMBEDDING_API.md:123` | Stopping by RPC makes the server thread join itself |
| `MCServerDaemonCliStop` | `docs/CLI_USAGE.md:133` | `daemon stop` stops the daemon object of its own process |
| `MCServerDaemonRpcStart` | `docs/RPC.md:79` | `daemon start` by RPC is not answered before the daemon stops |
| `MCServerDaemonSilent` `StopInterruptsReads` | comment at `server/HttpRpcServer.cpp:163` | `stop()` shuts down the listening socket and then joins a thread that may be in `recv` on a client's |
| `MCInstrumentRegistryTest` | `docs/CLI_USAGE.md:637` | `test` uses and removes the last instrument in name order |
| `MCPluginRegistryRefuted` `BuiltinsAreAvailable` | `docs/PLUGIN_DEVELOPMENT.md:72`, `:78` | Built-in plugins are loaded by `discover` and `plugins` only; a `start` before these finds none |
| `MCPluginRegistryRefuted` `CustomPluginIsUsed` | `docs/CLI_USAGE.md:178`, `:187` | `--plugin` has no effect if the protocol already has a plugin |
| `MCPluginHostRefuted` `WorkersTryTheAddress` | `docs/CONFIGURATION.md:138` | The address is not passed to the worker, which initialises its plugin with `{}` (`workers/generic_worker_main.cpp:155`) |
| `MCPluginHostRefuted` `ShutdownCleansUp` | `PluginInterface.h:140` | A second `plugin_initialize` overwrites the handles of the first, whose sessions no shutdown closes |
| `MCPluginHostRefuted` `BufferIdsAreUnique` | `docs/CLI_USAGE.md:372`, `DataBufferManager.hpp:73` | Two workers may give one id in the same millisecond |
| `MCPluginHostRefuted` `BlocksHoldTheirElements` | `DataBufferManager.hpp:78` | The product of count and size wraps (`ipc/DataBufferManager.cpp:234`) |
| `MCPluginHostRefuted` `BuiltinClosesOnce` | no document | `visa_builtin` closes its resource manager a second time after a failed `viOpen` |
| `MCConfigurationRefuted` `TemplatesAreSent` | `docs/CONFIGURATION.md:528` | The worker passes the verb; the template is only used if a script passes it as a parameter (`visa_plugin.c:277`) |
| `MCConfigurationRefuted` `WiringNamesTheGates` | comment at `SchemaValidator.cpp:457` | Only the numbers of gates and wires are compared |
| `MCInstrumentRegistryStray` | no document | With reused pids a SIGKILL may hit a process that is no longer the worker |

Met while modelling, without a configuration: verbs, templates and strings of 128
characters or more are cut to 127 without an error, and a string value of 127 or
more is copied to `value_str` without a terminator (`visa_plugin.c:85`), so that
what follows it there may be sent too (`CommandsAreWhole` excepts both); with an API
of the same name next to the configuration that one is read in place of the one the
configuration was generated from (`StartsWithItsApi` excepts it); a generated `io_config` is null, and
invalid, when no port is an input, output or inout; array types are allowed in an
API and rejected in the configuration generated from it; a channel reaches the
plugin as the parameter `channel`, while the validator wants the group's name in
the template; the comment at `SchemaValidator.cpp:199` describes a check of
outputs that is not there.

## Not modelled

- Logging, version output, argument parsing, the programs that print the result
  of a validation: they change nothing another part reads.
- The VISA library itself, dlopen and Boost's queues are external and modelled by
  how the code uses them; a process that dies inside a Boost queue lock is left
  out.
- The text of responses and its conversion into values, units, descriptions and
  the wording of validation errors.
- `get_metadata`, `total_memory_usage`, `list_jobs` and `get_job_info` only read;
  the C API of the buffers and the `list` and job handlers only forward.
- `ipc/WorkerProtocol.cpp` (not built), the heartbeat monitor of ProcessManager,
  `handle_worker_death` and `start_all` (no caller), the Windows branches.
- Destruction of static objects at exit, in which a detached monitor or a
  destructor may use an object already gone.
- `daemon start` by RPC that the server thread reads after `stop()` cleared
  `running_`, with no live server in the PID file by then (another server took it
  over and died): it would run `start()` in the server thread.
- HTTP parsing, the Lua conversion of values, contents of replies.

## Plan

1. Extend: an abstract barrier implemented by SyncProtocol's measure command; a
   worker that loads its plugin while the registry of the server unloads it.
2. Prove: `StartsWithItsApi` of Configuration.
