----------------------------- MODULE AppControl -----------------------------
(***************************************************************************)
(* system/appcontrol: AppControl::startup() and shutdown() on the main      *)
(* thread, with the service and the io worker they drive.  Composes the     *)
(* queues of RuntimeWorker (here as the FIFO they implement), the due       *)
(* copies of PeriodicTasks and the Lifecycle.                               *)
(*                                                                          *)
(* The main thread is a sequence of labels.  A label in CallOps is a        *)
(* runServiceTaskAndWait or runIoTaskAndWait, and names the posted closure; *)
(* `After` says where its outcome leads.  The other labels are local steps. *)
(* A worker drains its queue, runs the batch, copies the due handlers, runs *)
(* the copies, and begins again; begin and end of what it runs are separate *)
(* steps, so that anything can happen in between (a sensor read takes long).*)
(*                                                                          *)
(* Not here: a worker that fails (RuntimeWorker has it), the safety and     *)
(* monitor workers (nothing is given to them), and what commands a fan duty *)
(* beyond "on" and "off".                                                   *)
(***************************************************************************)
EXTENDS Naturals, Sequences

CONSTANTS MaxQueue,     \* bound on the io queue: a tick is not due beyond it
          MaxUiTests    \* bound on the self-tests asked for from outside

ASSUME BoundsAssumption == MaxQueue \in Nat /\ MaxUiTests \in Nat

Workers == {"service", "io"}

Outcomes == {"ok", "error"}

VARIABLES
    main,           \* the main thread's label
    waiting,        \* it waits for the future of the call at that label
    answer,         \* the future of each waiting thread: none, ok, error
    phase,          \* each worker: off, loop, batch, periodic, exited
    stopRequested,  \* its stop flag
    queue,          \* its postedTasks
    batch,          \* its drained tasks
    due,            \* its copies of the due handlers
    doing,          \* the closure or handler it is inside of, or "none"
    tasks,          \* the registered periodic tasks
    alive,          \* the objects that exist now
    hadFan,         \* history: shutdown found a fan controller
    temp,           \* TempService's state
    sample,         \* the last sample of TemperatureSampler
    duty,           \* what the fan does: on, off
    fanWrite,       \* how the last write to the fan ended
    stage,          \* SelfTestFlow::run: none, checking, asking
    checks,         \* its checks that are left
    verdict,        \* its result so far
    uiTests,        \* self-tests asked for from outside so far
    systemState, componentStates    \* of Lifecycle

mainVars   == <<main, waiting, uiTests>>
workerVars == <<phase, stopRequested, queue, batch, due, doing, answer>>
deviceVars == <<alive, hadFan, tasks, temp, sample, duty, fanWrite>>
testVars   == <<stage, checks, verdict>>
lifeVars   == <<systemState, componentStates>>
vars == <<mainVars, workerVars, deviceVars, testVars, lifeVars>>

LC == INSTANCE Lifecycle
        WITH Devices <- {"fan", "temperatureSensor", "tempService", "systemInfoReader",
                         "alarm"}

-----------------------------------------------------------------------------
(* What the closures and handlers are.                                       *)

\* The closures that only report a component state.
ReportOf ==
    [fanReady        |-> <<"fan", "ready">>,
     fanDegraded     |-> <<"fan", "degraded">>,
     sensorReady     |-> <<"temperatureSensor", "ready">>,
     sensorDegraded  |-> <<"temperatureSensor", "degraded">>,
     monitorReady    |-> <<"systemInfoReader", "ready">>,
     monitorDegraded |-> <<"systemInfoReader", "degraded">>,
     tempDegraded    |-> <<"tempService", "degraded">>,
     enterStopped    |-> <<"runtime", "stopped">>]

ServiceCalls == DOMAIN ReportOf \union
    {"powerOn", "addService", "selfTest", "uiSelfTest", "startServices", "stopServices",
     "clearServices"}
IoCalls == {"fanInit", "sensorRead", "firstSample", "monitorSample", "fanStop"}
CallOps == ServiceCalls \union IoCalls

\* The closures a self-test check posts to io and waits for.
CheckOf == [fan |-> "dryRun", temperatureSensor |-> "rangeRead",
            systemInfoReader |-> "monitorCheck"]
CheckOps == {CheckOf[c] : c \in DOMAIN CheckOf}

\* The fan writes that TempService posts and nobody waits for.
DutyOps == {"dutyOn", "dutyOff"}

TaskWorker == [tempTick |-> "service", temperatureSample |-> "io", systemSample |-> "io"]
TaskNames  == DOMAIN TaskWorker

Objects == {"fan", "sampler", "monitor", "temp"}

\* The objects a closure or handler works on.
Uses(op) ==
    CASE op \in {"fanInit", "fanStop", "dryRun"} \union DutyOps -> {"fan"}
      [] op \in {"sensorRead", "firstSample", "rangeRead", "temperatureSample"} -> {"sampler"}
      [] op \in {"monitorSample", "monitorCheck", "systemSample"} -> {"monitor"}
      [] op = "tempTick" -> {"temp", "sampler"}
      [] OTHER -> {}

\* Where the main thread goes on after a call, by its outcome.
Always(l) == [ok |-> l, error |-> l]

After ==
    [powerOn         |-> Always("findFan"),
     fanInit         |-> [ok |-> "fanReady", error |-> "dropFan"],
     fanReady        |-> Always("findSensor"),
     fanDegraded     |-> Always("findSensor"),
     sensorRead      |-> [ok |-> "firstSample", error |-> "dropSensor"],
     firstSample     |-> [ok |-> "registerSampler", error |-> "dropSensor"],
     sensorReady     |-> Always("newMonitor"),
     sensorDegraded  |-> Always("newMonitor"),
     monitorSample   |-> [ok |-> "registerMonitor", error |-> "dropMonitor"],
     monitorReady    |-> Always("wire"),
     monitorDegraded |-> Always("wire"),
     tempDegraded    |-> Always("selfTest"),
     addService      |-> Always("registerTick"),
     selfTest        |-> Always("startServices"),
     startServices   |-> Always("up"),
     uiSelfTest      |-> Always("up"),
     stopServices    |-> Always("clearServices"),
     clearServices   |-> Always("enterStopped"),
     enterStopped    |-> Always("stopFan"),
     fanStop         |-> Always("clearDevices")]

LocalLabels ==
    {"start", "findFan", "dropFan", "findSensor", "registerSampler", "dropSensor",
     "newMonitor", "registerMonitor", "dropMonitor", "wire", "registerTick", "up",
     "offTick", "offSampler", "offMonitor", "stopFan", "clearDevices",
     "stopService", "joinService", "stopIo", "joinIo", "done"}

WorkerOps == CallOps \union CheckOps \union DutyOps \union TaskNames \union {"poweredOn"}

TypeOK ==
    /\ main \in LocalLabels \union CallOps
    /\ waiting \in BOOLEAN
    /\ answer \in [{"main", "service"} -> Outcomes \union {"none"}]
    /\ phase \in [Workers -> {"off", "loop", "batch", "periodic", "exited"}]
    /\ stopRequested \in [Workers -> BOOLEAN]
    /\ queue \in [Workers -> Seq(WorkerOps)]
    /\ batch \in [Workers -> Seq(WorkerOps)]
    /\ due \in [Workers -> SUBSET TaskNames]
    /\ doing \in [Workers -> WorkerOps \union {"none"}]
    /\ tasks \in SUBSET TaskNames
    /\ alive \in SUBSET Objects
    /\ hadFan \in BOOLEAN
    /\ temp \in {"stopped", "running", "degraded"}
    /\ sample \in {"none", "good", "bad"}
    /\ duty \in {"on", "off"}
    /\ fanWrite \in Outcomes
    /\ stage \in {"none", "checking", "asking"}
    /\ checks \in Seq(DOMAIN CheckOf \union {"tempService"})
    /\ verdict \in {"ready", "degraded", "fault"}
    /\ uiTests \in 0..MaxUiTests
    /\ LC!TypeOK

Init ==
    /\ main = "start" /\ waiting = FALSE /\ uiTests = 0
    /\ answer = [t \in {"main", "service"} |-> "none"]
    /\ phase = [w \in Workers |-> "off"]
    /\ stopRequested = [w \in Workers |-> FALSE]
    /\ queue = [w \in Workers |-> <<>>]
    /\ batch = [w \in Workers |-> <<>>]
    /\ due = [w \in Workers |-> {}]
    /\ doing = [w \in Workers |-> "none"]
    /\ tasks = {} /\ alive = {} /\ hadFan = FALSE
    /\ temp = "stopped" /\ sample = "none"
    /\ duty \in {"on", "off"} /\ fanWrite = "ok"      \* a fan left on by an earlier run
    /\ stage = "none" /\ checks = <<>> /\ verdict = "ready"
    /\ LC!Init

-----------------------------------------------------------------------------
(* What both threads use.                                                    *)

Post(w, op) == queue' = [queue EXCEPT ![w] = Append(@, op)]

\* The closure ended with o: whoever waits for its future has it.
Answer(thread, o) == answer' = [answer EXCEPT ![thread] = o]

ReportFirst(c, v) ==      \* mutant: emplace() in the place of operator[]
    IF componentStates[c] # "absent" THEN UNCHANGED lifeVars
    ELSE LC!reportComponentState(c, v)

Report(c, v) ==
    IF componentStates[c] = v THEN UNCHANGED lifeVars ELSE LC!reportComponentState(c, v)

-----------------------------------------------------------------------------
(* The main thread.                                                          *)

GoTo(l) == main' = l /\ UNCHANGED <<waiting, uiTests>>

\* runServiceTaskAndWait and runIoTaskAndWait: the post, then future.get().
Call ==
    /\ main \in CallOps /\ ~waiting
    /\ Post(IF main \in IoCalls THEN "io" ELSE "service", main)
    /\ waiting' = TRUE /\ Answer("main", "none")
    /\ UNCHANGED <<main, uiTests, phase, stopRequested, batch, due, doing,
                   deviceVars, testVars, lifeVars>>

Return ==
    /\ waiting /\ answer["main"] # "none"
    /\ main' = After[main][answer["main"]]
    /\ waiting' = FALSE
    /\ UNCHANGED <<uiTests, workerVars, deviceVars, testVars, lifeVars>>

RuntimeStart ==
    /\ main = "start"
    /\ GoTo("powerOn")
    /\ phase' = [w \in Workers |-> "loop"]
    /\ UNCHANGED <<stopRequested, queue, batch, due, doing, answer,
                   deviceVars, testVars, lifeVars>>

\* A device's try block: it is found and constructed, or the catch is entered.
FindDevice(label, object, call, missing) ==
    /\ main = label
    /\ \/ alive' = alive \union {object} /\ GoTo(call)
       \/ UNCHANGED alive /\ GoTo(missing)
    /\ UNCHANGED <<hadFan, tasks, temp, sample, duty, fanWrite,
                   workerVars, testVars, lifeVars>>

\* The catch: its periodic task is unregistered, then the object is gone.
DropDevice(label, object, task, next) ==
    /\ main = label
    /\ alive' = alive \ {object} /\ tasks' = tasks \ {task}
    /\ sample' = IF object = "sampler" THEN "none" ELSE sample
    /\ GoTo(next)
    /\ UNCHANGED <<hadFan, temp, duty, fanWrite, workerVars, testVars, lifeVars>>

RegisterTask(label, task, next) ==
    /\ main = label
    /\ tasks' = tasks \union {task}
    /\ GoTo(next)
    /\ UNCHANGED <<alive, hadFan, temp, sample, duty, fanWrite,
                   workerVars, testVars, lifeVars>>

UnregisterTask(label, task, next) ==
    /\ main = label
    /\ tasks' = tasks \ {task}
    /\ GoTo(next)
    /\ UNCHANGED <<alive, hadFan, temp, sample, duty, fanWrite,
                   workerVars, testVars, lifeVars>>

DevicesStartup ==
    \/ FindDevice("findFan", "fan", "fanInit", "dropFan")
    \/ DropDevice("dropFan", "fan", "none", "fanDegraded")
    \/ FindDevice("findSensor", "sampler", "sensorRead", "dropSensor")
    \/ RegisterTask("registerSampler", "temperatureSample", "sensorReady")
    \/ DropDevice("dropSensor", "sampler", "temperatureSample", "sensorDegraded")
    \/ RegisterTask("registerMonitor", "systemSample", "monitorReady")
    \/ DropDevice("dropMonitor", "monitor", "systemSample", "monitorDegraded")

NewMonitor ==      \* the reader of /proc is always constructed
    /\ main = "newMonitor"
    /\ alive' = alive \union {"monitor"}
    /\ GoTo("monitorSample")
    /\ UNCHANGED <<hadFan, tasks, temp, sample, duty, fanWrite,
                   workerVars, testVars, lifeVars>>

\* initializeServices: no TempService without the sampler and the fan.
InitializeServices ==
    /\ main = "wire"
    /\ IF {"fan", "sampler"} \subseteq alive
       THEN alive' = alive \union {"temp"} /\ GoTo("addService")
       ELSE UNCHANGED alive /\ GoTo("tempDegraded")
    /\ UNCHANGED <<hadFan, tasks, temp, sample, duty, fanWrite,
                   workerVars, testVars, lifeVars>>

RequestSelfTest ==
    /\ main = "up" /\ uiTests < MaxUiTests
    /\ main' = "uiSelfTest" /\ uiTests' = uiTests + 1
    /\ UNCHANGED <<waiting, workerVars, deviceVars, testVars, lifeVars>>

Quit ==      \* app.exec() returned, shutdown() is entered
    /\ main = "up"
    /\ GoTo("offTick")
    /\ UNCHANGED <<workerVars, deviceVars, testVars, lifeVars>>

UnregisterAllButMonitor ==      \* mutant
    \/ UnregisterTask("offTick", "tempTick", "offSampler")
    \/ UnregisterTask("offSampler", "temperatureSample", "offMonitor")
    \/ UnregisterTask("offMonitor", "none", "stopServices")

UnregisterAll ==
    \/ UnregisterTask("offTick", "tempTick", "offSampler")
    \/ UnregisterTask("offSampler", "temperatureSample", "offMonitor")
    \/ UnregisterTask("offMonitor", "systemSample", "stopServices")

StopFanPosts ==      \* mutant: the fan is stopped, but nobody waits for it
    /\ main = "stopFan"
    /\ hadFan' = ("fan" \in alive)
    /\ IF "fan" \in alive THEN Post("io", "dutyOff") ELSE UNCHANGED queue
    /\ GoTo("clearDevices")
    /\ UNCHANGED <<alive, tasks, temp, sample, duty, fanWrite, phase, stopRequested,
                   batch, due, doing, answer, testVars, lifeVars>>

\* DeviceRegistry::stopFan: without a fan controller it returns at once.
StopFan ==
    /\ main = "stopFan"
    /\ hadFan' = ("fan" \in alive)
    /\ GoTo(IF "fan" \in alive THEN "fanStop" ELSE "clearDevices")
    /\ UNCHANGED <<alive, tasks, temp, sample, duty, fanWrite,
                   workerVars, testVars, lifeVars>>

ClearDevices ==
    /\ main = "clearDevices"
    /\ alive' = {} /\ sample' = "none"
    /\ GoTo("stopService")
    /\ UNCHANGED <<hadFan, tasks, temp, duty, fanWrite, workerVars, testVars, lifeVars>>

\* Runtime::stop: every worker in turn, the flag and then the join.
RuntimeStop ==
    /\ \E w \in Workers :
         \/ /\ main = (IF w = "service" THEN "stopService" ELSE "stopIo")
            /\ stopRequested' = [stopRequested EXCEPT ![w] = TRUE]
            /\ GoTo(IF w = "service" THEN "joinService" ELSE "joinIo")
         \/ /\ main = (IF w = "service" THEN "joinService" ELSE "joinIo")
            /\ phase[w] = "exited"
            /\ UNCHANGED stopRequested
            /\ GoTo(IF w = "service" THEN "stopIo" ELSE "done")
    /\ UNCHANGED <<phase, queue, batch, due, doing, answer, deviceVars, testVars, lifeVars>>

MainStep ==
    \/ Call \/ Return \/ RuntimeStart \/ DevicesStartup \/ NewMonitor \/ InitializeServices
    \/ RegisterTask("registerTick", "tempTick", "selfTest")
    \/ UnregisterAll \/ StopFan \/ ClearDevices \/ RuntimeStop

-----------------------------------------------------------------------------
(* Both workers.                                                             *)

CheckStop(w) ==
    /\ phase[w] = "loop" /\ stopRequested[w]
    /\ phase' = [phase EXCEPT ![w] = "exited"]
    /\ UNCHANGED <<stopRequested, queue, batch, due, doing, answer,
                   mainVars, deviceVars, testVars, lifeVars>>

Drain(w) ==
    /\ phase[w] = "loop" /\ ~stopRequested[w]
    /\ phase' = [phase EXCEPT ![w] = "batch"]
    /\ batch' = [batch EXCEPT ![w] = queue[w]]
    /\ queue' = [queue EXCEPT ![w] = <<>>]
    /\ UNCHANGED <<stopRequested, due, doing, answer, mainVars, deviceVars, testVars, lifeVars>>

BeginJob(w) ==
    /\ phase[w] = "batch" /\ doing[w] = "none" /\ batch[w] # <<>>
    /\ doing' = [doing EXCEPT ![w] = Head(batch[w])]
    /\ batch' = [batch EXCEPT ![w] = Tail(@)]
    /\ UNCHANGED <<phase, stopRequested, queue, due, answer,
                   mainVars, deviceVars, testVars, lifeVars>>

\* The due handlers are copied under the lock.  Which intervals are over is open.
Scan(w) ==
    /\ phase[w] = "batch" /\ doing[w] = "none" /\ batch[w] = <<>>
    /\ \E copies \in SUBSET {t \in tasks : TaskWorker[t] = w} :
         /\ "tempTick" \in copies => Len(queue["io"]) < MaxQueue
         /\ due' = [due EXCEPT ![w] = copies]
         /\ phase' = [phase EXCEPT ![w] = IF copies = {} THEN "loop" ELSE "periodic"]
    /\ UNCHANGED <<stopRequested, queue, batch, doing, answer,
                   mainVars, deviceVars, testVars, lifeVars>>

BeginHandler(w) ==
    /\ phase[w] = "periodic" /\ doing[w] = "none"
    /\ \E t \in due[w] :
         /\ doing' = [doing EXCEPT ![w] = t]
         /\ due' = [due EXCEPT ![w] = @ \ {t}]
    /\ UNCHANGED <<phase, stopRequested, queue, batch, answer,
                   mainVars, deviceVars, testVars, lifeVars>>

\* The closure or handler of w returns: on to the next, or back to the loop.
EndsDoing(w) ==
    /\ doing' = [doing EXCEPT ![w] = "none"]
    /\ phase' = [phase EXCEPT ![w] = IF phase[w] = "periodic" /\ due[w] = {}
                                     THEN "loop" ELSE @]
    /\ UNCHANGED <<stopRequested, batch, due>>

-----------------------------------------------------------------------------
(* What the io worker runs.                                                  *)

WritesFan == {"fanInit", "fanStop"} \union DutyOps
Samples   == {"firstSample", "temperatureSample"}

\* A write commands the duty; one that fails may have reached the fan or not.
Written(op, o) ==
    IF o = "ok" THEN {IF op = "dutyOn" THEN "on" ELSE "off"}
    ELSE {duty, IF op = "dutyOn" THEN "on" ELSE "off"}

\* An exception reaches the waiting thread; without one it is only logged.
FinishIo ==
    /\ doing["io"] \notin {"none", "dryRun"}
    /\ EndsDoing("io")
    /\ UNCHANGED <<queue, alive, hadFan, tasks, temp, mainVars, testVars, lifeVars>>
    /\ \E o \in Outcomes :
         /\ sample' = IF doing["io"] \in Samples
                      THEN (IF o = "ok" THEN "good" ELSE "bad") ELSE sample
         /\ IF doing["io"] \in WritesFan
            THEN duty' \in Written(doing["io"], o) /\ fanWrite' = o
            ELSE UNCHANGED <<duty, fanWrite>>
         /\ IF doing["io"] \in CallOps THEN Answer("main", o)
            ELSE IF doing["io"] \in CheckOps THEN Answer("service", o)
            ELSE UNCHANGED answer

\* setDutyForDryRun only prints.
FinishDryRun ==
    /\ doing["io"] = "dryRun"
    /\ EndsDoing("io") /\ Answer("service", "ok")
    /\ UNCHANGED <<queue, mainVars, deviceVars, testVars, lifeVars>>

-----------------------------------------------------------------------------
(* What the service worker runs.                                             *)

ReportJob ==
    /\ doing["service"] \in DOMAIN ReportOf
    /\ Report(ReportOf[doing["service"]][1], ReportOf[doing["service"]][2])
    /\ Answer("main", "ok") /\ EndsDoing("service")
    /\ UNCHANGED <<queue, mainVars, deviceVars, testVars>>

PowerOn ==      \* lifecycle_.enterStartup(), the first half of the closure
    /\ doing["service"] = "powerOn"
    /\ LC!enterStartup
    /\ doing' = [doing EXCEPT !["service"] = "poweredOn"]
    /\ UNCHANGED <<phase, stopRequested, queue, batch, due, answer,
                   mainVars, deviceVars, testVars>>

PoweredOn ==
    /\ doing["service"] = "poweredOn"
    /\ Report("runtime", "running")
    /\ Answer("main", "ok") /\ EndsDoing("service")
    /\ UNCHANGED <<queue, mainVars, deviceVars, testVars>>

AddService ==
    /\ doing["service"] = "addService"
    /\ Answer("main", "ok") /\ EndsDoing("service")
    /\ UNCHANGED <<queue, mainVars, deviceVars, testVars, lifeVars>>

\* ServiceHost::startAll: TempService::start(), if there is one.
StartServices ==
    /\ doing["service"] = "startServices"
    /\ IF "temp" \in alive
       THEN temp' = "running" /\ Report("tempService", "running")
       ELSE UNCHANGED <<temp, lifeVars>>
    /\ Answer("main", "ok") /\ EndsDoing("service")
    /\ UNCHANGED <<queue, alive, hadFan, tasks, sample, duty, fanWrite, mainVars, testVars>>

\* ServiceHost::stopAll: TempService::stop() posts the fan off, then reports.
StopServices ==
    /\ doing["service"] = "stopServices"
    /\ IF "temp" \in alive
       THEN temp' = "stopped" /\ Post("io", "dutyOff") /\ Report("tempService", "stopped")
       ELSE UNCHANGED <<temp, queue, lifeVars>>
    /\ Answer("main", "ok") /\ EndsDoing("service")
    /\ UNCHANGED <<alive, hadFan, tasks, sample, duty, fanWrite, mainVars, testVars>>

ClearServices ==
    /\ doing["service"] = "clearServices"
    /\ alive' = alive \ {"temp"}
    /\ Answer("main", "ok") /\ EndsDoing("service")
    /\ UNCHANGED <<queue, hadFan, tasks, temp, sample, duty, fanWrite,
                   mainVars, testVars, lifeVars>>

\* TempService::tick: a stopped service does nothing, a sampler without a good
\* sample degrades it, else a duty is posted to io.
Tick ==
    /\ doing["service"] = "tempTick"
    /\ \/ temp = "stopped" /\ UNCHANGED <<temp, queue, lifeVars>>
       \/ /\ temp # "stopped" /\ sample = "good"
          /\ \E op \in DutyOps : Post("io", op)
          /\ temp' = "running" /\ Report("tempService", "running")
       \/ /\ temp # "stopped" /\ sample # "good"
          /\ temp' = "degraded" /\ Report("tempService", "degraded")
          /\ UNCHANGED queue
    /\ EndsDoing("service")
    /\ UNCHANGED <<answer, alive, hadFan, tasks, sample, duty, fanWrite, mainVars, testVars>>

-----------------------------------------------------------------------------
(* SelfTestFlow::run on the service worker, with the checks of the wiring.   *)

ObjectOf == [fan |-> "fan", temperatureSensor |-> "sampler", tempService |-> "temp",
             systemInfoReader |-> "monitor"]

ConfiguredIfPresent ==      \* mutant: a device that is missing is not checked
    SelectSeq(<<"fan", "temperatureSensor", "tempService", "systemInfoReader">>,
              LAMBDA c : ObjectOf[c] \in alive)

ConfiguredExample ==        \* mutant: a service nobody installed
    <<"fan", "temperatureSensor", "exampleService", "systemInfoReader">>

Configured ==      \* configureSelfTestChecks: the services' checks in the middle
    <<"fan", "temperatureSensor">> \o
    (IF "temp" \in alive THEN <<"tempService">> ELSE <<>>) \o <<"systemInfoReader">>

SelfTest == doing["service"] \in {"selfTest", "uiSelfTest"}

\* The user may not ask for one while the system is running.
Refused == doing["service"] = "uiSelfTest" /\ systemState = "running"

BeginSelfTest ==
    /\ SelfTest /\ stage = "none"
    /\ IF Refused
       THEN Answer("main", "error") /\ EndsDoing("service") /\ UNCHANGED <<testVars, lifeVars>>
       ELSE /\ stage' = "checking" /\ checks' = Configured /\ verdict' = "ready"
            /\ Report("selftest", "running")
            /\ UNCHANGED <<phase, stopRequested, batch, due, doing, answer>>
    /\ UNCHANGED <<queue, mainVars, deviceVars>>

\* The result of the first check is reported and becomes part of the verdict.
Record(passed) ==
    LET c == Head(checks)
        result == IF passed THEN "ready"
                  ELSE IF c = "systemInfoReader" THEN "degraded" ELSE "fault"
    IN  /\ Report(c, result)
        /\ verdict' = IF passed \/ verdict = "fault" THEN verdict ELSE result
        /\ checks' = Tail(checks) /\ stage' = "checking"

CheckHere ==      \* the device is missing, or the service is there
    /\ SelfTest /\ stage = "checking" /\ checks # <<>>
    /\ Head(checks) = "tempService" \/ ObjectOf[Head(checks)] \notin alive
    /\ Record(ObjectOf[Head(checks)] \in alive)
    /\ UNCHANGED <<mainVars, workerVars, deviceVars>>

CheckAsksItself ==      \* mutant: postServiceTask and a future, past the test of the thread
    /\ SelfTest /\ stage = "checking" /\ checks # <<>>
    /\ Head(checks) # "tempService" /\ ObjectOf[Head(checks)] \in alive
    /\ Post("service", CheckOf[Head(checks)]) /\ Answer("service", "none")
    /\ stage' = "asking"
    /\ UNCHANGED <<phase, stopRequested, batch, due, doing, checks, verdict,
                   mainVars, deviceVars, lifeVars>>

CheckAsks ==      \* runIoTaskAndWait on the service thread
    /\ SelfTest /\ stage = "checking" /\ checks # <<>>
    /\ Head(checks) # "tempService" /\ ObjectOf[Head(checks)] \in alive
    /\ Post("io", CheckOf[Head(checks)]) /\ Answer("service", "none")
    /\ stage' = "asking"
    /\ UNCHANGED <<phase, stopRequested, batch, due, doing, checks, verdict,
                   mainVars, deviceVars, lifeVars>>

CheckReturns ==
    /\ stage = "asking" /\ answer["service"] # "none"
    /\ Record(answer["service"] = "ok")
    /\ UNCHANGED <<mainVars, workerVars, deviceVars>>

EndSelfTest ==
    /\ SelfTest /\ stage = "checking" /\ checks = <<>>
    /\ Report("selftest", verdict)
    /\ stage' = "none" /\ Answer("main", "ok") /\ EndsDoing("service")
    /\ UNCHANGED <<checks, verdict, queue, mainVars, deviceVars>>

-----------------------------------------------------------------------------
WorkerLoop(w) == CheckStop(w) \/ Drain(w) \/ BeginJob(w) \/ Scan(w) \/ BeginHandler(w)

IoStep == WorkerLoop("io") \/ FinishIo \/ FinishDryRun

ServiceStep ==
    \/ WorkerLoop("service")
    \/ ReportJob \/ PowerOn \/ PoweredOn \/ AddService \/ StartServices \/ StopServices
    \/ ClearServices \/ Tick
    \/ BeginSelfTest \/ CheckHere \/ CheckAsks \/ CheckReturns \/ EndSelfTest

Done == main = "done" /\ UNCHANGED vars      \* main() returns

Next == MainStep \/ RequestSelfTest \/ Quit \/ IoStep \/ ServiceStep \/ Done

\* The threads are scheduled, and a read or a write of a device file returns.
\* Whether the user ever asks for anything or quits is not assumed.
Fairness == WF_vars(MainStep) /\ WF_vars(IoStep) /\ WF_vars(ServiceStep)

Spec == Init /\ [][Next]_vars /\ Fairness

-----------------------------------------------------------------------------
\* What DeviceRegistry::clear() relies on: when shutdown found a fan, its last
\* write has gone through the io queue behind everything else, so no worker is
\* inside a closure or a handler whose object is gone.
NoUseAfterDestroyWithFan ==
    hadFan => \A w \in Workers : Uses(doing[w]) \subseteq alive

\* The same without the condition: no handler works on a destroyed object after
\* its task was unregistered (rule/runtimeScheduling.md).  Without a fan
\* stopFan() waits for nothing, and a sample in flight outlives its sampler.
NoUseAfterDestroy ==
    \A w \in Workers : Uses(doing[w]) \subseteq alive

\* Ticks, TempService::stop() and stopFan() write the fan through one queue:
\* if the last of these writes worked, the fan is off when the program ends.
FanOffAtExit == main = "done" /\ hadFan /\ fanWrite = "ok" => duty = "off"

\* Every closure posted to a worker has run when the program ends: the stop
\* flags, which leave queued closures behind, find nothing to leave.
NothingLeftUnrun ==
    main = "done" => \A w \in Workers : queue[w] = <<>> /\ batch[w] = <<>>

\* Once lifecycle_.enterStopped() ran, no late tick and no device report moves
\* the system out of "stopped".
StoppedForGood ==
    main \in {"stopFan", "fanStop", "clearDevices", "stopService", "joinService",
              "stopIo", "joinIo", "done"} => systemState = "stopped"

\* The program does come up without its fan or its sensor, but then it is in
\* alarm from the end of the self-test until it is shut down, whatever the other
\* devices do and however often the self-test is repeated.
MissingDeviceMeansAlarm ==
    /\ main \in {"startServices", "up", "uiSelfTest", "offTick", "offSampler",
                  "offMonitor", "stopServices", "clearServices"}
    /\ ~({"fan", "sampler"} \subseteq alive)
    => systemState = "alarm"

\* No thread waits for ever: the program comes up, and when it is told to quit it
\* ends, although main waits for the service worker and the service worker for io.
StartupAndShutdownEnd ==
    /\ <>(main = "up")
    /\ main = "offTick" ~> main = "done"
=============================================================================
