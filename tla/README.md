# Formal models of mlcp-core

TLA+ specifications of the controller program in `src/mlcp-hmi`: a Qt user
interface over a small control system that keeps a temperature with a fan. The
modules are translated from the C++ sources. TLC checks them on small instances,
and for every instance TLAPS proves each safety property that those checks pass.

## The system

| Component | State | Operations | Talks to |
|---|---|---|---|
| Runtime worker (`system/runtime`) | thread, state, stop flag, posted tasks, periodic tasks | start, stop, postTask, registerPeriodicTask, unregisterPeriodicTask, the loop | runs closures of everybody |
| Runtime | four workers: service, io, safety, monitor | start, stop, post and run-and-wait for service and io | the workers |
| System state machine (`core/state_machine`) | one of seven system states | applyEvent | Lifecycle |
| Lifecycle (`service/lifecycle`) | reported state per component, the state machine | reportComponentState, enterStartup ... enterStopped | reported to by all |
| SelfTestFlow (`service/selftest`) | checks, last report | run | runs on service, asks io, reports to Lifecycle |
| ServiceHost (`service/serviceHost.cpp`) | service records | add, remove, clear, startAll, stopAll | services |
| TempService, TemperatureSampler (`service/temp`) | state, configuration, last sample | start, stop, tick, sample | reads the sampler, posts fan writes to io |
| AppControl, ApplicationWiring, DeviceRegistry, RuntimeTaskRegistry, ApplicationServiceRegistry (`system/appcontrol`) | the objects themselves and who exists | startup, shutdown, requestSelfTest, configuration calls | all of the above |
| Devices (`device`): fan, temperature, system info | files under /sys and /proc | read, write | called on io |
| Configuration stores (`persistence/storage`) | a file | load, save | ApplicationWiring |
| View models (`bridge`) | what the pages show | refresh, apply | AppControl |
| Ring buffer (`common/utils`) | a bounded array | push, pop | nobody yet |

The main thread starts the runtime and then does almost everything by posting a
closure to the service or the io worker and waiting for its future. The service
worker owns the services and the lifecycle, the io worker the devices. A self-test
runs on the service worker and waits for the io worker. Periodic tasks sample on io
and tick on service.

What is hard: start, stop, posts and registrations from any thread against the
worker's loop; handlers that run from copies after their task is gone; threads
that wait for each other; the order in which shutdown takes things down; devices
that are missing or fail at any time; reports in any order, and the lifecycle's
bounded evaluation of them; files and configurations that are written half. The
list with its lines is `hazards` in `PROJECT.json`.

## Modules

| Module | Models | Checked by |
|---|---|---|
| `FifoExecutor` | what a worker promises its callers (abstract) | refined by `RuntimeWorker` |
| `RuntimeWorker` | one worker: life cycle, posted tasks, failures | run `runtime_worker`, `RuntimeWorkerProofs` |
| `PeriodicTasks` | the worker's table of periodic tasks | run `periodic_tasks`, `PeriodicTasksProofs` |
| `SystemStateMachine` | the transition table | used by `Lifecycle` |
| `Lifecycle` | reports and the derived system state | run `lifecycle`, `LifecycleProofs` |
| `AppControl` | startup, self-test, control and shutdown over two workers; uses `Lifecycle` | runs `app_control`, `app_control_without_fan`, `AppControlProofs` |
| `ServiceHost` | startAll, stopAll and the list of services | run `service_host`, `ServiceHostProofs` |
| `FanControl` | TempService, its sampler, the fan controller and the driver's files | runs `fan_control`, `fan_control_fault`, `FanControlProofs` |
| `FanSettings` | the settings page, the configuration calls of AppControl, the store and its file | runs `fan_settings`, `fan_settings_failed_apply`, `FanSettingsProofs` |
| `SystemInfo` | the CPU and memory usage and the counters kept for it | run `system_info`, `LeafProofs` |
| `BoundedQueue` | what a ring buffer promises (abstract) | refined by `RingBuffer` |
| `RingBuffer` | push, pop, peek and clear on an array | run `ring_buffer`, `LeafProofs` |

A definition marked `mutant` is a plausible bug in the definition after it. It is
no part of the specification; `PROJECT.json` says which property it breaks when it
is put in the place of that definition.

**RuntimeWorker.** An action is a section of code under `mutex`, so that start()
and stop() are several actions: enter, join, reset or finish, launch. `holder` is
`lifecycleMutex`, kept through the join. `tpc` is the thread. `accepted` and
`executed` are history. LoopThrows is an allocation that fails in the loop, Launch
can fail to create the thread (the state then stays "starting", as in the code).
An exception of a task is caught and counts as run. The callers may be any thread,
the worker's own tasks included (PostTask); only the other threads may wait.

**PeriodicTasks.** `nextRunAt` is the time left, negative when it is past. Scan copies
the due handlers and restarts their intervals under the lock. RunHandler runs a copy,
MarkPeriodicTask looks the record up again by its name. Between them, other
threads register and unregister. An exception that leaves the loop ends the thread: a
handler cannot be copied (ScanThrows; the records before it are put off already) or an
error text cannot be stored (MarkThrows). Start and Stop are the worker's, in one step
each; the table outlives the thread. The number of each registration (`gen`) is
history; the code has none, and that is what RunCountIsOwn is about. So is `since`, the
time since a record was last found due, for RunsAreSpaced.

**Lifecycle.** One action per public operation, as each is under one mutex. The
operations enterSelftest() and so on are one or two reports. `Devices` are the
components that have no rule of their own.

**AppControl.** The main thread is a sequence of labels, a call being two steps:
the post and the return of its future. `After` is the control flow of startup()
and shutdown(), try blocks included. The workers are the FIFO loops that
`RuntimeWorker` is shown to implement; every io closure, every tick and the
self-test begin and end in separate steps. `alive` is which objects exist, `Uses`
which of them a running closure works on. A device can be missing, and any read or
write fails whenever it likes; a failed fan write may have reached the fan. A
sample is none, good or bad, and a tick asks for the fan on or off. Runtime::start()
is one step, since a worker that is starting accepts posts like one that runs. A
control interval that is not over is a tick that Scan does not find due.

**ServiceHost.** startAll() and stopAll() run on the service worker and walk a copy of
the list; `walk` is where they are with the service at `at`: record it as starting,
call it, record the outcome. Add, Remove and Clear are the calls of any thread and fall
between any two of these steps. A service that throws may have come to work or not
(`up`). The record of a service that is not listed is Fresh, as add() would make it.

**FanControl.** Every call of TempService comes from the service worker, so that
each is one step. A duty is posted to io, where DutyWrites makes it two file
writes per channel in the order of writeDuty(): a file that cannot be opened drops the
rest (WriteThrows), a value that the driver refuses when the stream is
flushed by its destructor is lost unseen (WriteLost). Controlled is
calculateFanDuty() in tenths of a degree with the conversion of a double to int that does
not fit (ToInt: undefined, so either extreme); rounding of double is left out. Posting
never throws here, since io is up; a Post held back by MaxQueue is a bound of the model.

**FanSettings.** The main thread waits for each closure it posts, so one `pc` says where
screen, service and store are. save() is Open, Flush, Rename; the lines fit the stream's
buffer and are written by its destructor, whose failure nobody sees: `Cuts` is what may
be left of a file, key by key in the order they are written. Load() is what startup makes
of that. Killed keeps `file`, PowerFails gives back what was on `disk`, the new file
or a part of it, as nothing is synchronised. Temperatures are in units of 10^-5 degree,
because save() does not keep all digits of a double: Printed are the decimals of six
significant digits that it may write for one, two of them when the double lies in the middle (it
is then never exactly there), and AsFiles the files it may write for a configuration. BackendFails is a service worker that failed.

**SystemInfo.** One action per sample; the kernel moves its counters (`Run`), takes ticks
back, and changes or hides the memory lines in between. `since` and `spent` are history.

**RingBuffer.** One action per method. `returned` is what the caller got. Its specification is
named RingSpec, so that `LeafProofs` can extend it together with `SystemInfo`.

## Runs

| Run | Instance | Distinct states | Expected |
|---|---|---|---|
| `runtime_worker` | 2 clients, 3 tasks, 1 failure | 24 164 | passes |
| `lifecycle` | 2 devices | 51 946 | passes |
| `periodic_tasks` | 2 tasks (intervals 1 and 2), 3 registrations, 1 failure, overdue up to 2 | 715 608 | passes |
| `app_control` | io queue 1, 1 further self-test | 258 948 | passes |
| `app_control_without_fan` | the same | about 20 000 | violation, a finding |
| `service_host` | 3 services (symmetric), 2 calls of startAll or stopAll | 397 731 | passes |
| `fan_control` | 2 channels, 4 configurations, 3 temperatures, io queue 2, 2 faults, 3 changes | 718 896 | passes |
| `fan_control_fault` | the same | stops early | violation, a finding |
| `fan_settings` | 4 commands, 3 files, 3 applies, 1 fault, 2 crashes | 1 204 357 | passes |
| `fan_settings_failed_apply` | the same, 2 applies | stops early | violation, a finding |
| `system_info` | counters up to 4, steps -1, 0, 1 and 3 | 390 200 | passes |
| `ring_buffer` | 3 values, 3 slots | 837 | passes |

What they show, and why the bounds are enough:

`runtime_worker`. QueueConserved: accepted is executed, drained and posted, in this
order, over restarts and failures. OneThread: no std::thread is assigned over a
joinable one. RunningIsAlive, StopIsFinal: what the published state says about
the thread, although markRunning() may overwrite "stopping". FailureStaysVisible: only
start() takes the state away from "failed", also when the loop fails while stop() waits in
its join. StopIsPrompt: at most
one more drain. ImplementsExecutor: the refinement of `FifoExecutor`.
LifecycleCallsReturn: start() and stop() end. ServedWhileDraining: what was accepted
is run and waiters are answered, as long as the worker keeps draining. Without that
premise the program makes no promise: a task posted after the last drain before a
stop waits, with its client, for the next start.
Deadlock is not checked in this run: after a thread could not be created, all
clients can wait for tasks that nobody will run, which the code really does.
Two clients are enough for one in start() or stop() and another at any other
place; the mutex admits no third kind of partner. Three tasks make a batch of two
with a third posted behind it.

`lifecycle`. EventsAreAccepted: derived events are in the table. FaultsAreShown,
ModeIsExplained: the shown state follows from the reports. ReportSettles: the
budget of three turns is enough, with one exception that the property names.
StandbyNeedsSelftest: how standby is entered. Two devices let one fail while the
other recovers; the proofs are for any set.

`periodic_tasks`. OneRecordPerName; RetiredRunsAtMostOnce: one run after
unregistering, from the copy; RunCountIsOwn: at most one run is counted for the
wrong registration. RunsAreSpaced: a registration is due again only a whole interval after it
was due, so that neither a failed handler nor runs missed while the worker was held up, stopped or
failed come in a burst. TasksKeepRunning: no task is starved by a faster one or by errors of
handlers, as long as the worker stays up. A scan that threw is no such case: the thread ends as
failed (`runtime.cpp:232`), nothing in the program starts it again, and no task runs any more.
Intervals 1 and 2 make the tasks due together and apart; three registrations allow a
replacement while the other task is registered. To be overdue by 2 is to have missed two runs
of the fast task and one of the slow one. Counts above 2 and failures above 1 repeat what smaller
ones did.

`app_control`. NoUseAfterDestroyWithFan, FanOffAtExit, NothingLeftUnrun: shutdown
takes things down in an order that leaves no handler with a destroyed object, no
write behind and no fan on. StoppedForGood: nothing moves the system out of
stopped. MissingDeviceMeansAlarm: without fan or sensor the program comes up in
alarm and stays there. StartupAndShutdownEnd: main, service and io never wait for
each other in a circle. Deadlock is checked; the end of the program is a stuttering
step (Done). MaxQueue = 1 holds back a tick while a fan write is queued, so that
the queue stays finite (the code has no bound); a second queued write would meet the
same shutdown. One further self-test is one more than startup's.

`app_control_without_fan` is a disagreement of the code with its rules.
`rule/runtimeScheduling.md:413` forbids that an unregistered task accesses destroyed
objects. Without a fan `stopFan()` returns at once (`deviceRegistry.cpp:113`), no
call has waited for io, and `clear()` destroys the sampler and the monitor while a
sample that was due before may be in progress. With a fan, the last fan write is
waited for and is behind every sample.

`service_host`. RecordsTellTheTruth: a record never says of a service what is not so, although
services are removed and added again while they are started. EachInItsTurn: start in order,
stop in reverse, and one that throws keeps no other from its turn. Three services let one be
removed from between two others; two calls are start after stop and stop after start. A
third call (3.48 million states) was checked too and passes.

`fan_control`. StaleDutyNeverSpins: the order of the two writes of a channel and the dropping
of the rest after a failure never enable a fan with a duty of earlier. DutyIsJustified: each
posted duty is the least within the limits that covers the excess, against a definition that
does not compute it, in exact tenths. (The code computes with doubles, whose rounding can make
it one more than the least: with the target 31.7, the tolerance 0.5 and the default gain 32, the reading 33.2
gives 33 and not 32.) FanConverges: after the last fault the fan runs as asked. The
configurations are automatic, manual, one whose gain overflows int (IntMax is scaled
to 1000, the hot sensor gives 2140 or 6240) and one that is refused. Two faults are a failed
write whose repetition fails too, or a write lost in each channel; a third meets the same states.

`fan_control_fault` is a disagreement of the code with its rules. `rule/arch.md:195` and
`rule/coderule.md:125` demand that a device fault becomes an error or an alarm; the closure posted at
`applicationWiring.cpp:32` throws on io, where it is logged, and TempService goes on to report
"running".

`fan_settings`. SettingsSurviveRestart: killed at any step, the next start loads what was
reported as saved last, or in the middle of an apply that or the new settings, the temperatures to
six significant digits. The page and validateConfig take any decimal, and
`tempServiceConfigStore.cpp:176` prints with the default precision of a stream: a target of
37.12345 is reported as "Saved" and runs, and is 37.1235 or 37.1234 after the next start. Its
exception `damaged` is what the store cannot see: a flush that fails in the destructor
(`tempServiceConfigStore.cpp:183`) or a power failure before the kernel wrote the file, as
nothing calls fsync; in both the program says "Saved" (compare `rule/arch.md:197`). ValidConfigRuns
says that even then a valid configuration runs. ScreenShowsWhatRuns: a page without an error
shows what runs. The files are none, an old one and one edited into an invalid target; the
commands are two valid targets, 37.12345 in the middle of two printed numbers and 59.99999, which is
printed as the limit 60, a target and a duty that are refused. Three applies let a failed one lie
between two that succeed.

`fan_settings_failed_apply` is a disagreement of the code with its documents.
`docum/qt_stl_bridge_optimization.md:715` and `rule/arch.md:194` say that a failed apply does not
overwrite the current configuration; `applicationWiring.cpp:204` sets it before it saves it, so that
when saving throws the page shows an error, its old settings, and the service runs the new ones.
A detail met on the way: the error that the mapper takes from the runtime
(`fanSettingsMapper.cpp:38`) is never shown, as refresh() puts the last operation's back
(`fanSettingsViewModel.cpp:141`).

`system_info`. UsageIsOfLastInterval: the usage is that of the time between the last two reads
of the counters, whatever samples failed between, and zero where the kernel took ticks
back. Steps of 1 and 3 give several shares, -1 makes each of the three guards bite.

`ring_buffer`. ImplementsQueue: the refinement of `BoundedQueue`. Three slots wrap the
indices at different fillings.

**Fairness.** `RuntimeWorker`: weak fairness of the thread and of a client inside
start() or stop(): threads are scheduled, posted tasks end. Nobody is obliged to
start, stop or post. `PeriodicTasks`: weak fairness of the loop, in which handlers end, and of time.
Nobody has to start the worker, the first time or after a failure. `AppControl`: weak fairness of main and of
both workers; device reads and writes return. Whether the user quits is open.
`FanControl`: weak fairness of the tick and of its interval (a periodic task of a worker that
runs, `TasksKeepRunning`) and of the io closures; strong fairness of Sample, because each turn of
the io loop works off the posted duties and then takes the samples that are due, so that duties
disable a sample only for a while. Faults, settings and the sensor are owed nothing. The other
modules state safety only.

## Proofs

`RuntimeWorkerProofs`, for any sets of clients and tasks (NoClient and NoTask not
among them) and any bound on failures. None of the safety properties is inductive by itself.
The strengthening LifecycleInv says who owns `lifecycleMutex` (LockOwned), what
thread and state can be while it is free (QuietWhenFree), and what they can be at
each place of start() and stop() (StartHolds, StopHolds); in particular a stop() in
its join admits a thread that overwrites the state with "running". StopIsFinal,
OneThread, RunningIsAlive and FailureStaysVisible follow from it. DrainInv adds that the flag is tested
between two drains. QueueConserved is inductive with the types, by lemmas on
concatenation (MoveHead, HeadTailOfConcat, InConcat); with it every step is a step
of `FifoExecutor` or a stutter (ImplementsExecutorHolds).

`LifecycleProofs`, for any set of devices. EvaluationEndsWell says where the three
turns end from any state with any reports; its cases are a stopped runtime, a fault or a
degraded component, and neither, each by what a single turn does (OnceStopped,
OnceAsleep, OnceUnhealthy, OnceHealthy). ThreeTurns relates the turns to the loop.
All five properties follow, by StepEndsWell, for each step.

`PeriodicTasksProofs`, for any names with any intervals. OneRecordPerName is inductive with the
types and the difference of registrations (InOrderLists: erasing and copying keep the order, by the
pigeonhole principle). The other two need what is known of the copies: of different names, each
of the registration that had the name, and none run yet (LateOnlyOnce, CountOf). RunsAreSpaced needs
OnTime for the records that are not due yet: what is left of the interval and what has passed of it
make up the whole.

`ServiceHostProofs`, for any services and any number of calls. IInv adds to the two properties that
unlisted records are fresh, and what the worker knows between two steps: the record in its hand
is of this call or a new one (RecordInHand), the service is as the outcome says (OutcomeInHand).

`FanControlProofs`, for any channels, configurations and temperatures. StaleDutyNeverSpins needs
WritesInPairs and HalfWritten: the writes left are whole pairs of channels, or begin in the middle of
one whose first write has been done. DutyIsJustified is DutiesAreJustified, arithmetic on
the rounding and the limits, with the types.

`FanSettingsProofs`, for any commands and old files. StoredIsKnown says what the next start loads at
every step; it rests on LoadOfSaved, that load() reads what save() writes back to six digits, on
PrintedIsNear, that printing is that exact and rounds no temperature across a limit, and on CutsType,
that whatever is left of a file is one. With LoadType, that load() makes a valid configuration of any
file, ValidConfigRuns is inductive. ScreenShowsWhatRuns is inductive as it stands.

`AppControlProofs`, for any bound of the io queue and any number of self-tests. None of the safety
properties is inductive, and they are proved together. The invariant IInv follows the order of the
io queue. What a worker is inside of, its batch and its queue are one line (Line), first in, first
out; the loop moves it along and never reorders it (WorkerLoopFrame).

- ServiceLine: the service worker has the one closure that main waits for, or none. IoLine: who
  waits for io is the last in its line, before it are only fan writes, and those have a fan. Both
  hold because main waits for one call at a time and a self-test for one check.
- Handlers: a handler that can still run, be it registered, copied or running, has its objects, up
  to the labels at which shutdown destroys them. Unregistering is not enough for that: the copies of
  the due handlers outlive it, and only an answer from the same worker shows that they are gone.
- IoRests: so the answer to fanStop, the last of its line, finds io with nothing to do, and nothing
  is posted to it any more. NoUseAfterDestroyWithFan, FanOffAtExit and NothingLeftUnrun follow.
  They need the condition that there was a fan, as the run `app_control_without_fan` shows.
- Reports and Faults: a reported fault is shown, by EvaluationShows of `LifecycleProofs`, which is
  instantiated here; a missing fan or sensor has been reported or is still to be checked by the
  first self-test. StoppedForGood and MissingDeviceMeansAlarm follow.

NobodyWaitsInVainHolds is the safe half of StartupAndShutdownEnd: the closure that main or a
self-test waits for is always in the line of a worker that runs and was not told to stop, so
that main, service and io cannot wait for each other in a circle. It takes two more
invariants. Awaited: who has no answer yet is last in io's line. Working: a worker is up from the
first call until it is told to stop, which is after the last call. TLC has checked these two, each part
of IInv and NobodyWaitsInVain on an io queue of 2 and one further self-test.

`LeafProofs`, about the two components that use no other. `SystemInfo`, for any memory and any
steps of the counters: SinceIsDifference, that the history is the difference of the counters, makes
UsageIsOfLastInterval inductive. `RingBuffer`, for any capacity: IndicesAgree is inductive
(WrapsOnce: a remainder is a subtraction here); with it each call is a step of `BoundedQueue`
(ImplementsQueueHolds).

The assumptions are those named in the modules: what the constants are, that marks such as None
are no values, that bounds are numbers.

Model-checked only: the liveness properties LifecycleCallsReturn, ServedWhileDraining,
TasksKeepRunning, FanConverges and StartupAndShutdownEnd. Liveness under fairness is out of reach of
the proof system used here. The properties of the three runs that expect a violation are false, and
there is nothing to prove.

## Not modelled

- Heartbeats, names, log and error texts; `threadSnapshots()` and other pure reads; the safety and
  monitor workers, which are given nothing.
- In `AppControl`, a worker that fails (shutdown then skips all its steps because isRunning() is
  false, the fan's stop included), and the catch of initializeServices, which takes an exception
  no device causes. The failure of a worker is in `RuntimeWorker`, of the service worker under the
  settings page in `FanSettings`.
- ExampleService with its sampler and store: a template that is not wired in, and a copy of
  TempService's tick, sample and store, so that a module of it would repeat `FanControl` and
  `FanSettings`. The pressure sensor is not wired in either.
- Calls of TempService from several threads: tick() releases its mutex between its steps
  (`tempService.cpp:108`), but nothing calls it outside the service worker.
- In a file edited by hand, `nan`: it is read as a number and passes validateConfig, as it compares
  with nothing. The page lets no such target through.
- Rounding of double in the computations (that of printing is in `FanSettings`), and 64 bits of ticks running over. The search of /sys and the parsing of its
  files: pure I/O. readCpuUsagePercent(interval), which nothing calls.
- LifecycleViewModel and Qt signals copy what they are told. QML, logger and spdlog carry no
  control logic.

## What is left

1. `AppControl` with a worker that fails: the answers it owes would then be errors, and IoRests has
   to be stated for a worker that is up.
2. A bound of the io queue, should the code get one (`runtime.cpp:213`): it then is a property of
   `FanControl` and no longer a bound of the model.
