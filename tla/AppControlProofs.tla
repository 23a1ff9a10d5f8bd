-------------------------- MODULE AppControlProofs --------------------------
(***************************************************************************)
(* Proofs about AppControl, for any length of the io queue and any number   *)
(* of self-tests.  The parts of the inductive invariant IInv are:           *)
(*                                                                          *)
(* - a worker's closures form one line: what it is inside of, its batch,    *)
(*   its queue.  Its loop moves the line along and never reorders it;       *)
(* - main waits for one call at a time, and a self-test for one check, so   *)
(*   the service worker's line is that call or empty, and whoever waits     *)
(*   for io is the last in its line (ServiceLine, IoLine);                  *)
(* - a handler that can still run, as registered, copied or running, has    *)
(*   its objects, up to the labels where shutdown destroys them (Handlers,  *)
(*   Present);                                                              *)
(* - so the answer to fanStop, being the last of the line, finds io with    *)
(*   nothing left to do, and nothing is posted to it any more (IoRests);    *)
(* - a fault that was reported is shown, and a fan or a sensor that is      *)
(*   missing was reported, or is still to be checked (Reports, Faults).     *)
(* With IInv it is also inductive that who waits for io is last in its line *)
(* (Awaited) and that a worker is up until it is told to stop (Working):    *)
(* nobody waits for a closure that no worker will run.                      *)
(***************************************************************************)
EXTENDS AppControl, SequenceTheorems, TLAPS

-----------------------------------------------------------------------------
(* Where main is.                                                            *)

Ended   == {"stopService", "joinService", "stopIo", "joinIo", "done"}
Closing == {"clearDevices"} \union Ended
Leaving == {"enterStopped", "stopFan", "fanStop"} \union Closing
Quiet   == {"clearServices"} \union Leaving
Off     == {"stopServices"} \union Quiet

FindingFan     == {"start", "powerOn", "findFan", "fanInit", "dropFan", "fanReady", "fanDegraded"}
FindingSensor  == FindingFan \union
                  {"findSensor", "sensorRead", "firstSample", "registerSampler", "dropSensor"}
FindingMonitor == FindingSensor \union
                  {"sensorReady", "sensorDegraded", "newMonitor", "monitorSample",
                   "registerMonitor", "dropMonitor"}
Wiring         == FindingMonitor \union {"monitorReady", "monitorDegraded", "wire"}
StartingUp     == Wiring \union {"addService", "registerTick", "tempDegraded"}

\* The call was answered, or main is past it.
Past(call, labels) == main \in labels \/ (main = call /\ waiting /\ answer["main"] # "none")

-----------------------------------------------------------------------------
(* A worker's line: the closure it is inside of, its batch, its queue.        *)

Jobs == CallOps \union CheckOps \union DutyOps
NoJob == TaskNames \union {"none"}

\* The second half of powerOn is still powerOn.
Current(op) ==
    IF op \in NoJob THEN <<>> ELSE IF op = "poweredOn" THEN <<"powerOn">> ELSE <<op>>

LineOf(op, b, q) == Current(op) \o (b \o q)
Line(w) == LineOf(doing[w], batch[w], queue[w])

\* The phase of a worker says which of its parts can be filled.
Phases ==
    \A w \in Workers :
        /\ queue[w] \in Seq(Jobs) /\ batch[w] \in Seq(Jobs)
        /\ main = "start" => phase[w] = "off"
        /\ phase[w] \in {"off", "loop", "exited"} =>
               batch[w] = <<>> /\ due[w] = {} /\ doing[w] = "none"
        /\ phase[w] = "batch" => due[w] = {} /\ doing[w] \notin TaskNames
        /\ phase[w] = "periodic" => batch[w] = <<>> /\ doing[w] \in NoJob
        /\ \A t \in due[w] \union {doing[w]} : t \in TaskNames => TaskWorker[t] = w

-----------------------------------------------------------------------------
(* The calls.                                                                *)

Unanswered == waiting /\ answer["main"] = "none"

\* Only main posts to the service worker, one closure at a time.
ServiceLine ==
    Line("service") = IF Unanswered /\ main \in ServiceCalls THEN <<main>> ELSE <<>>

\* What io has in line: whoever waits is last.
IoLine ==
    \A i \in 1..Len(Line("io")) :
        LET op == Line("io")[i]
        IN  /\ op \in IoCalls => Unanswered /\ op = main /\ i = Len(Line("io"))
            /\ op \in CheckOps => /\ stage = "asking" /\ answer["service"] = "none"
                                  /\ i = Len(Line("io"))
            /\ op \in DutyOps => "fan" \in alive /\ main \notin StartingUp
            /\ op \notin ServiceCalls

\* A self-test asks about a device that is there.
Tests ==
    /\ waiting => main \in CallOps
    /\ stage # "none" => SelfTest
    /\ stage = "asking" =>
         /\ checks # <<>> /\ Head(checks) # "tempService"
         /\ ObjectOf[Head(checks)] \in alive

-----------------------------------------------------------------------------
(* The periodic tasks and their objects.                                     *)

InHand(t) == t \in tasks \union due[TaskWorker[t]] \union {doing[TaskWorker[t]]}

Handlers ==
    /\ InHand("tempTick") => /\ main \notin StartingUp /\ ~Past("stopServices", Quiet)
                             /\ {"fan", "sampler", "temp"} \subseteq alive
    /\ InHand("temperatureSample") =>
            main \notin FindingSensor /\ (main \in Ended \/ "sampler" \in alive)
    /\ InHand("systemSample") =>
            main \notin FindingMonitor /\ (main \in Ended \/ "monitor" \in alive)
    /\ main \in {"offSampler", "offMonitor"} \union Off => "tempTick" \notin tasks
    /\ main \in {"offMonitor"} \union Off => "temperatureSample" \notin tasks
    /\ main \in Off => "systemSample" \notin tasks

Present ==
    /\ main \in {"sensorRead", "firstSample", "registerSampler"} => "sampler" \in alive
    /\ main \in {"monitorSample", "registerMonitor"} => "monitor" \in alive
    /\ main \in {"addService", "registerTick"} => "temp" \in alive
    /\ "temp" \in alive => /\ {"fan", "sampler"} \subseteq alive
                           /\ main \notin Wiring
    /\ Past("clearServices", Leaving) => "temp" \notin alive
    /\ hadFan => main \in {"fanStop"} \union Closing
    /\ main = "fanStop" => hadFan
    /\ main \in {"fanStop", "clearDevices"} => (hadFan <=> "fan" \in alive)

\* After the fan was stopped, or if there is none, io has nothing to do.
IoRests ==
    /\ Past("fanStop", Closing) /\ hadFan =>
         /\ doing["io"] = "none" /\ due["io"] = {}
         /\ fanWrite = "ok" => duty = "off"
    /\ Past("fanStop", Ended) \/ (main = "clearDevices" /\ hadFan) => Line("io") = <<>>

-----------------------------------------------------------------------------
(* The reports.                                                              *)

FaultShown ==
    LC!hasComponentState(componentStates, "fault") /\ componentStates["runtime"] # "stopped" =>
        systemState = "alarm"

Reports ==
    /\ main \in {"start", "powerOn"} /\ doing["service"] # "poweredOn" /\ ~Past("powerOn", {}) =>
            componentStates = [c \in LC!Components |-> "absent"]
    /\ FaultShown
    /\ IF Past("enterStopped", Leaving \ {"enterStopped"})
       THEN componentStates["runtime"] = "stopped" /\ systemState = "stopped"
       ELSE componentStates["runtime"] # "stopped"

Faults ==
    \A c \in {"fan", "temperatureSensor"} :
        \/ ObjectOf[c] \in alive
        \/ componentStates[c] = "fault"
        \/ main \in StartingUp \/ (main = "selfTest" /\ ~Past("selfTest", {})
                /\ (stage = "none" \/ \E i \in 1..Len(checks) : checks[i] = c))
        \/ main \in Ended

IInv == /\ TypeOK /\ Phases /\ ServiceLine /\ IoLine /\ Tests /\ Handlers /\ Present /\ IoRests
        /\ Reports /\ Faults

-----------------------------------------------------------------------------
(* What a report does to the lifecycle, by the lemmas about it.              *)

LP == INSTANCE LifecycleProofs
        WITH Devices <- {"fan", "temperatureSensor", "tempService", "systemInfoReader",
                         "alarm"}

LEMMA SameOnce == \A s, cs : LC!evaluateOnce(s, cs) = LP!evaluateOnce(s, cs)
<1>1. \A cs, v : LC!hasComponentState(cs, v) = LP!hasComponentState(cs, v)
  BY DEF LC!hasComponentState, LP!hasComponentState, LC!Components, LP!Components
<1>2. /\ \A cs : LC!isRuntimeStopped(cs) = LP!isRuntimeStopped(cs)
      /\ \A cs : LC!selftestReady(cs) = LP!selftestReady(cs)
      /\ \A cs : LC!selftestActive(cs) = LP!selftestActive(cs)
      /\ \A cs : LC!operationActive(cs) = LP!operationActive(cs)
      /\ LC!NoEvent = LP!NoEvent /\ LC!FaultStates = LP!FaultStates
  BY DEF LC!isRuntimeStopped, LP!isRuntimeStopped, LC!selftestReady, LP!selftestReady,
         LC!selftestActive, LP!selftestActive, LC!operationActive, LP!operationActive,
         LC!NoEvent, LP!NoEvent, LC!FaultStates, LP!FaultStates
<1>3. \A cs : LC!resolveStopOrFaultEvent(cs) = LP!resolveStopOrFaultEvent(cs)
  BY <1>1, <1>2 DEF LC!resolveStopOrFaultEvent, LP!resolveStopOrFaultEvent
<1>4. \A s, cs : LC!resolveProgressEvent(s, cs) = LP!resolveProgressEvent(s, cs)
  BY <1>1, <1>2 DEF LC!resolveProgressEvent, LP!resolveProgressEvent
<1>5. \A cs : LC!wakesUp(cs) = LP!wakesUp(cs)
  BY <1>2, <1>3 DEF LC!wakesUp, LP!wakesUp
<1>6. \A s, cs : LC!resolveSystemEvent(s, cs) = LP!resolveSystemEvent(s, cs)
  BY <1>2, <1>3, <1>4, <1>5 DEF LC!resolveSystemEvent, LP!resolveSystemEvent
<1>7. \A s, e : LC!applyEvent(s, e) = LP!applyEvent(s, e)
  BY DEF LC!applyEvent, LP!applyEvent, LC!Accepts, LP!Accepts, LC!canTransit, LP!canTransit,
         LC!resolveNextState, LP!resolveNextState, LC!SystemEvents, LP!SystemEvents,
         LC!SystemStates, LP!SystemStates, LC!FaultStates, LP!FaultStates
<1> QED BY <1>2, <1>6, <1>7 DEF LC!evaluateOnce, LP!evaluateOnce

LEMMA SameEvaluation ==
    ASSUME NEW s, NEW cs
    PROVE  LC!evaluateSystemState(s, cs) = LP!evaluateSystemState(s, cs)
BY SameOnce DEF LC!evaluateSystemState, LP!evaluateSystemState, LC!SystemStates, LP!SystemStates

LEMMA EvaluationShows ==
    ASSUME NEW cs, NEW s \in LC!SystemStates
    PROVE  /\ LC!evaluateSystemState(s, cs) \in LC!SystemStates
           /\ cs["runtime"] = "stopped" => LC!evaluateSystemState(s, cs) = "stopped"
           /\ cs["runtime"] # "stopped" /\ LC!hasComponentState(cs, "fault") =>
                LC!evaluateSystemState(s, cs) = "alarm"
BY SameEvaluation, LP!EvaluationShows
DEF LP!Faulty, LP!isRuntimeStopped, LC!hasComponentState, LP!hasComponentState,
    LC!Components, LP!Components, LC!SystemStates, LP!SystemStates

\* The report is in the table, and the worst of the table is shown.
LEMMA ReportShows ==
    ASSUME LC!TypeOK, FaultShown, componentStates["runtime"] # "stopped",
           NEW c \in LC!Components, NEW v \in LC!ComponentStates, Report(c, v)
    PROVE  /\ LC!TypeOK' /\ FaultShown'
           /\ componentStates' = [componentStates EXCEPT ![c] = v]
           /\ componentStates'["runtime"] = "stopped" => systemState' = "stopped"
<1>1. CASE componentStates[c] = v
    BY <1>1 DEF Report, lifeVars, LC!TypeOK, FaultShown
<1>2. CASE componentStates[c] # v
    <2>1. /\ componentStates' = [componentStates EXCEPT ![c] = v]
          /\ systemState' = LC!evaluateSystemState(systemState, componentStates')
        BY <1>2 DEF Report, LC!reportComponentState
    <2>2. /\ systemState' \in LC!SystemStates
          /\ componentStates'["runtime"] = "stopped" => systemState' = "stopped"
          /\ FaultShown'
        BY <2>1, EvaluationShows DEF LC!TypeOK, FaultShown
    <2> QED
        BY <2>1, <2>2 DEF LC!TypeOK
<1> QED
    BY <1>1, <1>2

-----------------------------------------------------------------------------
(* Lemmas about lines.                                                       *)

Ops == WorkerOps \union {"none"}

\* What is what: the closures, the handlers, and who runs them.
LEMMA Kinds ==
    /\ Ops = Jobs \union NoJob \union {"poweredOn"}
    /\ Jobs \intersect NoJob = {} /\ "poweredOn" \notin Jobs \union NoJob
    /\ ServiceCalls \intersect IoCalls = {} /\ CallOps = ServiceCalls \union IoCalls
    /\ CheckOps \intersect CallOps = {} /\ DutyOps \intersect CallOps = {}
    /\ CheckOps \intersect DutyOps = {}
    /\ "powerOn" \in ServiceCalls
BY DEF Ops, WorkerOps, Jobs, NoJob, CallOps, ServiceCalls, IoCalls, CheckOps, CheckOf,
       DutyOps, TaskNames, TaskWorker, ReportOf

LEMMA CurrentIsSeq ==
    ASSUME NEW op \in Ops
    PROVE  Current(op) \in Seq(Jobs)
<1>1. op \in NoJob \/ op = "poweredOn" \/ op \in Jobs
    BY Kinds
<1>2. "powerOn" \in Jobs
    BY Kinds DEF Jobs
<1>3. \A x \in Jobs : <<x>> \in Seq(Jobs)
    OBVIOUS
<1> QED
    BY <1>1, <1>2, <1>3, EmptySeq DEF Current

LEMMA LineIsSeq ==
    ASSUME NEW op \in Ops, NEW b \in Seq(Jobs), NEW q \in Seq(Jobs)
    PROVE  LineOf(op, b, q) \in Seq(Jobs)
BY CurrentIsSeq, ConcatProperties DEF LineOf

\* A closure that is posted goes to the end.
LEMMA LineOfPost ==
    ASSUME NEW op \in Ops, NEW b \in Seq(Jobs), NEW q \in Seq(Jobs), NEW x \in Jobs
    PROVE  LineOf(op, b, Append(q, x)) = Append(LineOf(op, b, q), x)
<1>1. <<x>> \in Seq(Jobs)
    OBVIOUS
<1>2. Append(q, x) = q \o <<x>>
    BY AppendIsConcat
<1>3. b \o (q \o <<x>>) = (b \o q) \o <<x>> /\ b \o q \in Seq(Jobs)
    BY <1>1, ConcatAssociative, ConcatProperties
<1>4. Current(op) \o ((b \o q) \o <<x>>) = LineOf(op, b, q) \o <<x>>
    BY <1>1, <1>3, CurrentIsSeq, ConcatAssociative DEF LineOf
<1>5. Append(LineOf(op, b, q), x) = LineOf(op, b, q) \o <<x>>
    BY LineIsSeq, AppendIsConcat
<1> QED
    BY <1>2, <1>3, <1>4, <1>5 DEF LineOf

\* Draining the queue and taking the first closure out of the batch move nothing.
LEMMA LineOfDrain ==
    ASSUME NEW op, NEW q \in Seq(Jobs)
    PROVE  LineOf(op, q, <<>>) = LineOf(op, <<>>, q)
BY ConcatEmptySeq DEF LineOf

LEMMA LineOfBegin ==
    ASSUME NEW b \in Seq(Jobs), NEW q \in Seq(Jobs), b # <<>>
    PROVE  LineOf(Head(b), Tail(b), q) = LineOf("none", b, q)
<1>1. Head(b) \in Jobs /\ Tail(b) \in Seq(Jobs)
    BY HeadTailProperties
<1>2. Current(Head(b)) = <<Head(b)>> /\ Current("none") = <<>>
    BY <1>1, Kinds DEF Current, NoJob
<1>3. <<Head(b)>> \in Seq(Jobs) /\ b = <<Head(b)>> \o Tail(b)
    BY <1>1
<1>4. <<Head(b)>> \o (Tail(b) \o q) = b \o q
    BY <1>1, <1>3, ConcatAssociative
<1>5. <<>> \o (b \o q) = b \o q
    BY ConcatProperties, ConcatEmptySeq
<1> QED
    BY <1>2, <1>4, <1>5 DEF LineOf

\* The handlers of periodic tasks are not in line.
LEMMA LineOfNoJob ==
    ASSUME NEW op \in NoJob, NEW b, NEW q
    PROVE  LineOf(op, b, q) = LineOf("none", b, q)
BY DEF LineOf, Current, NoJob

\* The closure that runs is the first, and the rest follows when it ends.
Job(op) == IF op = "poweredOn" THEN "powerOn" ELSE op

LEMMA LineOfEnd ==
    ASSUME NEW op \in Ops \ NoJob, NEW b \in Seq(Jobs), NEW q \in Seq(Jobs)
    PROVE  /\ LineOf(op, b, q) # <<>> /\ Head(LineOf(op, b, q)) = Job(op)
           /\ LineOf("none", b, q) = Tail(LineOf(op, b, q))
<1> DEFINE rest == b \o q
<1>1. rest \in Seq(Jobs)
    BY ConcatProperties
<1>2. Job(op) \in Jobs /\ Current(op) = <<Job(op)>> /\ Current("none") = <<>>
    BY Kinds DEF Job, Current, NoJob, Jobs, CallOps
<1>3. LineOf(op, b, q) = <<Job(op)>> \o rest /\ LineOf("none", b, q) = <<>> \o rest
    BY <1>2 DEF LineOf
<1>4. <<>> \o rest = rest
    BY <1>1, ConcatEmptySeq
<1> HIDE DEF rest
<1>5. <<Job(op)>> \o rest # <<>> /\ Head(<<Job(op)>> \o rest) = Job(op)
      /\ Tail(<<Job(op)>> \o rest) = rest
    BY <1>1, <1>2
<1> QED
    BY <1>3, <1>4, <1>5

LEMMA LineOfNothing ==
    ASSUME NEW op \in Ops, NEW b \in Seq(Jobs), NEW q \in Seq(Jobs), LineOf(op, b, q) = <<>>
    PROVE  op \in NoJob /\ b = <<>> /\ q = <<>>
<1>1. op \in NoJob
    BY LineOfEnd
<1>2. <<>> \o (b \o q) = <<>>
    BY <1>1 DEF LineOf, Current
<1>3. b \o q = <<>>
    BY <1>2, ConcatProperties, ConcatEmptySeq
<1> QED
    BY <1>1, <1>3, ConcatEqualIffEmpty

-----------------------------------------------------------------------------
(* What the workers are inside of.                                           *)

\* TypeOK of what the workers have in hand.
WorkerTypes ==
    /\ phase \in [Workers -> {"off", "loop", "batch", "periodic", "exited"}]
    /\ queue \in [Workers -> Seq(WorkerOps)]
    /\ batch \in [Workers -> Seq(WorkerOps)]
    /\ due \in [Workers -> SUBSET TaskNames]
    /\ doing \in [Workers -> WorkerOps \union {"none"}]

LEMMA TypesOfWorkers == TypeOK => WorkerTypes
BY DEF TypeOK, WorkerTypes

LEMMA BothWorkers ==
    ASSUME WorkerTypes, NEW w \in Workers
    PROVE  /\ phase[w] \in {"off", "loop", "batch", "periodic", "exited"}
           /\ due[w] \subseteq TaskNames /\ doing[w] \in Ops
BY DEF WorkerTypes, Ops

\* The service worker is inside of the call that main waits for, or of a tick.
LEMMA ServiceDoes ==
    ASSUME WorkerTypes, Phases, ServiceLine
    PROVE  /\ doing["service"] \notin NoJob =>
                /\ Unanswered /\ main \in ServiceCalls /\ Job(doing["service"]) = main
                /\ phase["service"] = "batch" /\ due["service"] = {}
                /\ LineOf("none", batch["service"], queue["service"]) = <<>>
           /\ doing["service"] \in TaskNames =>
                doing["service"] = "tempTick" /\ phase["service"] = "periodic"
<1>1. "service" \in Workers
    BY DEF Workers
<1>2. doing["service"] \in Ops
    BY <1>1, BothWorkers
<1>3. ASSUME doing["service"] \notin NoJob
      PROVE  /\ Unanswered /\ main \in ServiceCalls /\ Job(doing["service"]) = main
             /\ LineOf("none", batch["service"], queue["service"]) = <<>>
    <2>1. batch["service"] \in Seq(Jobs) /\ queue["service"] \in Seq(Jobs)
        BY <1>1 DEF Phases
    <2>2. /\ Line("service") # <<>> /\ Head(Line("service")) = Job(doing["service"])
          /\ LineOf("none", batch["service"], queue["service"]) = Tail(Line("service"))
        BY <1>2, <1>3, <2>1, LineOfEnd DEF Line
    <2>3. Unanswered /\ main \in ServiceCalls /\ Line("service") = <<main>>
        BY <2>2 DEF ServiceLine
    <2>4. Head(<<main>>) = main /\ Tail(<<main>>) = <<>>
        OBVIOUS
    <2> QED
        BY <2>2, <2>3, <2>4
<1>4. doing["service"] \notin NoJob => phase["service"] = "batch" /\ due["service"] = {}
    BY <1>1, BothWorkers DEF Phases, NoJob
<1>5. doing["service"] \in TaskNames =>
            doing["service"] = "tempTick" /\ phase["service"] = "periodic"
    BY <1>1, BothWorkers DEF Phases, TaskNames, TaskWorker, NoJob
<1> QED
    BY <1>3, <1>4, <1>5

\* Of main's own steps, or of a call of io, the service worker knows nothing.
LEMMA ServiceIdle ==
    ASSUME WorkerTypes, Phases, ServiceLine, ~Unanswered \/ main \notin ServiceCalls
    PROVE  /\ doing["service"] \in {"none", "tempTick"} /\ ~SelfTest
           /\ batch["service"] = <<>> /\ queue["service"] = <<>>
<1>1. "service" \in Workers
    BY DEF Workers
<1>2. doing["service"] \in Ops /\ batch["service"] \in Seq(Jobs) /\ queue["service"] \in Seq(Jobs)
    BY <1>1, BothWorkers DEF Phases
<1>3. Line("service") = <<>>
    BY DEF ServiceLine
<1>4. doing["service"] \in NoJob /\ batch["service"] = <<>> /\ queue["service"] = <<>>
    BY <1>2, <1>3, LineOfNothing DEF Line
<1>5. doing["service"] \in {"none", "tempTick"}
    BY <1>4, ServiceDoes DEF NoJob
<1> QED
    BY <1>4, <1>5 DEF SelfTest

\* The io worker is inside of the first of its line.
LEMMA IoDoes ==
    ASSUME WorkerTypes, Phases, IoLine, doing["io"] \notin NoJob
    PROVE  /\ doing["io"] \in IoCalls \union CheckOps \union DutyOps
           /\ phase["io"] = "batch" /\ due["io"] = {}
           /\ Line("io") \in Seq(Jobs) /\ Line("io") # <<>>
           /\ Line("io")[1] = doing["io"]
           /\ LineOf("none", batch["io"], queue["io"]) = Tail(Line("io"))
           /\ doing["io"] \in IoCalls => Unanswered /\ main = doing["io"]
           /\ doing["io"] \in CheckOps => stage = "asking" /\ answer["service"] = "none"
           /\ doing["io"] \in DutyOps => "fan" \in alive /\ main \notin StartingUp
           /\ doing["io"] \in IoCalls \union CheckOps =>
                LineOf("none", batch["io"], queue["io"]) = <<>>
<1>1. "io" \in Workers
    BY DEF Workers
<1>2. doing["io"] \in Ops /\ batch["io"] \in Seq(Jobs) /\ queue["io"] \in Seq(Jobs)
    BY <1>1, BothWorkers DEF Phases
<1>3. phase["io"] = "batch" /\ due["io"] = {}
    BY <1>1, BothWorkers DEF Phases, NoJob
<1>4. /\ Line("io") # <<>> /\ Head(Line("io")) = Job(doing["io"])
      /\ LineOf("none", batch["io"], queue["io"]) = Tail(Line("io"))
      /\ Line("io") \in Seq(Jobs)
    BY <1>2, LineOfEnd, LineIsSeq DEF Line
<1> DEFINE line == Line("io")
<1> HIDE DEF line
<1>5. line \in Seq(Jobs) /\ line # <<>> /\ 1 \in 1..Len(line) /\ line[1] = Job(doing["io"])
    BY <1>4 DEF line
<1>6. line[1] \notin ServiceCalls
    BY <1>5 DEF IoLine, line
<1>7. doing["io"] # "poweredOn" /\ line[1] = doing["io"]
    BY <1>5, <1>6, Kinds DEF Job
<1>8. /\ doing["io"] \in IoCalls => Unanswered /\ main = doing["io"] /\ Len(line) = 1
      /\ doing["io"] \in CheckOps =>
            stage = "asking" /\ answer["service"] = "none" /\ Len(line) = 1
      /\ doing["io"] \in DutyOps => "fan" \in alive /\ main \notin StartingUp
    BY <1>5, <1>7 DEF IoLine, line
<1>9. Len(line) = 1 => Tail(line) = <<>>
    <2>1. Tail(line) \in Seq(Jobs) /\ Len(Tail(line)) = Len(line) - 1
        BY <1>5, HeadTailProperties
    <2>2. Tail(line) # <<>> => Len(Tail(line)) \in Nat \ {0}
        BY <2>1, EmptySeq
    <2>3. Len(line) \in Nat
        BY <1>5
    <2> QED
        BY <2>1, <2>2, <2>3
<1>10. doing["io"] \in IoCalls \union CheckOps \union DutyOps
    BY <1>2, <1>6, <1>7, Kinds DEF Jobs
<1> QED
    BY <1>3, <1>4, <1>5, <1>7, <1>8, <1>9, <1>10 DEF line

-----------------------------------------------------------------------------
(* The loop of a worker.                                                     *)

\* An empty worker without tasks stays empty.
Rests(w) == tasks = {} /\ due[w] = {} /\ doing[w] = "none" /\ Line(w) = <<>>

\* Draining, beginning and scanning change neither the lines nor what anybody
\* else can see, and nothing comes in hand that was not.
LEMMA WorkerLoopFrame ==
    ASSUME WorkerTypes, Phases, tasks \subseteq TaskNames, NEW w \in Workers, WorkerLoop(w)
    PROVE  /\ UNCHANGED <<answer, stopRequested, mainVars, deviceVars, testVars, lifeVars>>
           /\ WorkerTypes' /\ Phases'
           /\ \A v \in Workers :
                /\ Line(v)' = Line(v)
                /\ doing[v] \notin NoJob => doing'[v] = doing[v]
                /\ doing'[v] = "poweredOn" => doing[v] = "poweredOn"
                /\ Rests(v) => due'[v] = {} /\ doing'[v] = "none"
           /\ \A t \in TaskNames : InHand(t)' => InHand(t)
<1>1. /\ phase[w] \in {"off", "loop", "batch", "periodic", "exited"}
      /\ due[w] \subseteq TaskNames /\ doing[w] \in Ops
      /\ queue[w] \in Seq(Jobs) /\ batch[w] \in Seq(Jobs)
    BY BothWorkers DEF Phases
<1>2. CASE CheckStop(w)
    <2>1. WorkerTypes'
        BY <1>2 DEF WorkerTypes, CheckStop
    <2>2. Phases'
        BY <1>2 DEF WorkerTypes, CheckStop, Phases, mainVars
    <2> QED
        BY <1>2, <2>1, <2>2 DEF CheckStop, Line, InHand, deviceVars, Rests
<1>3. CASE Drain(w)
    <2>1. batch[w] = <<>> /\ doing[w] = "none"
        BY <1>3 DEF Drain, Phases
    <2>2. WorkerTypes'
        BY <1>3, EmptySeq DEF WorkerTypes, Drain
    <2>3. Phases'
        BY <1>1, <1>3, EmptySeq DEF WorkerTypes, Drain, Phases, mainVars, NoJob, TaskNames,
           TaskWorker
    <2>4. \A v \in Workers : Line(v)' = Line(v)
        BY <1>1, <1>3, <2>1, LineOfDrain DEF Drain, Line, WorkerTypes
    <2> QED
        BY <1>3, <2>2, <2>3, <2>4 DEF Drain, InHand, deviceVars, Rests
<1>4. CASE BeginJob(w)
    <2>1. Head(batch[w]) \in Jobs /\ Tail(batch[w]) \in Seq(Jobs) /\ batch[w] # <<>>
        BY <1>1, <1>4, HeadTailProperties DEF BeginJob
    <2>2. WorkerTypes'
        <3>1. batch[w] \in Seq(WorkerOps)
            BY DEF WorkerTypes
        <3>2. Head(batch[w]) \in WorkerOps /\ Tail(batch[w]) \in Seq(WorkerOps)
            BY <2>1, <3>1, HeadTailProperties
        <3> QED
            BY <1>4, <3>2 DEF WorkerTypes, BeginJob
    <2>3. Phases'
        BY <1>1, <1>4, <2>1, Kinds DEF WorkerTypes, BeginJob, Phases, mainVars, NoJob
    <2>4. \A v \in Workers : Line(v)' = Line(v)
        BY <1>1, <1>4, <2>1, LineOfBegin DEF BeginJob, Line, WorkerTypes
    <2>5. \A v \in Workers : v # w => doing'[v] = doing[v]
        BY <1>4 DEF BeginJob, WorkerTypes
    <2>6. doing[w] = "none" /\ doing'[w] \notin TaskNames \union {"poweredOn", "none"}
        BY <1>4, <2>1, Kinds DEF BeginJob, WorkerTypes, NoJob
    <2>7. ~Rests(w)
        BY <1>1, <1>4, <2>1, LineOfNothing DEF Rests, Line
    <2>8. \A t \in TaskNames : InHand(t)' => InHand(t)
        BY <1>4, <2>5, <2>6 DEF BeginJob, deviceVars, InHand, TaskNames, TaskWorker, Workers
    <2> QED
        BY <1>4, <2>2, <2>3, <2>4, <2>5, <2>6, <2>7, <2>8 DEF BeginJob, NoJob, Rests
<1>5. CASE Scan(w)
    <2>1. PICK copies \in SUBSET {t \in tasks : TaskWorker[t] = w} :
            /\ due' = [due EXCEPT ![w] = copies]
            /\ phase' = [phase EXCEPT ![w] = IF copies = {} THEN "loop" ELSE "periodic"]
        BY <1>5 DEF Scan
    <2>2. copies \subseteq TaskNames /\ (\A t \in copies : t \in tasks /\ TaskWorker[t] = w)
        OBVIOUS
    <2>3. WorkerTypes'
        BY <1>5, <2>1, <2>2 DEF WorkerTypes, Scan
    <2>4. Phases'
        BY <1>1, <1>5, <2>1, <2>2 DEF WorkerTypes, Scan, Phases, mainVars, NoJob
    <2>5. \A v \in Workers : Line(v)' = Line(v)
        BY <1>5 DEF Scan, Line
    <2>6. \A t \in TaskNames : InHand(t)' => InHand(t)
        BY <1>5, <2>1, <2>2 DEF Scan, deviceVars, InHand, WorkerTypes, Workers, TaskNames, TaskWorker
    <2>7. \A v \in Workers : Rests(v) => due'[v] = {}
        BY <2>1, <2>2 DEF WorkerTypes, Rests
    <2> QED
        BY <1>5, <2>3, <2>4, <2>5, <2>6, <2>7 DEF Scan, Rests
<1>6. CASE BeginHandler(w)
    <2>1. PICK t \in due[w] : /\ doing' = [doing EXCEPT ![w] = t]
                              /\ due' = [due EXCEPT ![w] = @ \ {t}]
        BY <1>6 DEF BeginHandler
    <2>2. t \in TaskNames /\ TaskWorker[t] = w
        BY <1>1 DEF Phases
    <2>3. t \in NoJob /\ t \in WorkerOps /\ t # "poweredOn" /\ "none" \in NoJob
        BY <2>2, Kinds DEF NoJob, WorkerOps
    <2>4. WorkerTypes'
        BY <1>6, <2>1, <2>3 DEF WorkerTypes, BeginHandler
    <2>5. Phases'
        BY <1>1, <1>6, <2>1, <2>2, <2>3 DEF WorkerTypes, BeginHandler, Phases, mainVars
    <2>6. \A v \in Workers : Line(v)' = Line(v)
        BY <1>6, <2>1, <2>3, LineOfNoJob DEF BeginHandler, Line, WorkerTypes
    <2>7. \A u \in TaskNames : InHand(u)' => InHand(u)
        BY <1>6, <2>1, <2>2 DEF BeginHandler, deviceVars, InHand, WorkerTypes, Workers, TaskNames,
           TaskWorker
    <2>8. /\ ~Rests(w) /\ doing[w] = "none" /\ doing'[w] = t
          /\ \A v \in Workers : v # w => doing'[v] = doing[v] /\ due'[v] = due[v]
        BY <1>6, <2>1 DEF BeginHandler, Rests, WorkerTypes
    <2> QED
        BY <1>6, <2>3, <2>4, <2>5, <2>6, <2>7, <2>8 DEF BeginHandler, Rests
<1> QED
    BY <1>2, <1>3, <1>4, <1>5, <1>6 DEF WorkerLoop

-----------------------------------------------------------------------------
(* The loops of the workers keep the invariant.                              *)

LEMMA NoTasks ==
    ASSUME TypeOK, Handlers, main \in Off
    PROVE  tasks = {}
BY DEF TypeOK, Handlers, Off, TaskNames, TaskWorker

LEMMA WorkerLoopKeeps ==
    ASSUME IInv, NEW w \in Workers, WorkerLoop(w)
    PROVE  IInv'
<1>1. WorkerTypes /\ tasks \subseteq TaskNames
    BY TypesOfWorkers DEF IInv, TypeOK
<1>2. /\ UNCHANGED <<main, waiting, uiTests, answer, stopRequested, alive, hadFan, tasks, temp,
                     sample, duty, fanWrite, stage, checks, verdict, systemState,
                     componentStates>>
      /\ WorkerTypes' /\ Phases'
      /\ \A v \in Workers :
           /\ Line(v)' = Line(v)
           /\ doing[v] \notin NoJob => doing'[v] = doing[v]
           /\ doing'[v] = "poweredOn" => doing[v] = "poweredOn"
           /\ Rests(v) => due'[v] = {} /\ doing'[v] = "none"
      /\ \A t \in TaskNames : InHand(t)' => InHand(t)
    BY <1>1, WorkerLoopFrame DEF IInv, mainVars, deviceVars, testVars, lifeVars
<1>3. "service" \in Workers /\ "io" \in Workers
    BY DEF Workers
<1>4. \A call, labels : Past(call, labels)' <=> Past(call, labels)
    BY <1>2 DEF Past
<1>5. TypeOK'
    BY <1>2 DEF IInv, TypeOK, WorkerTypes, LC!TypeOK
<1>6. ServiceLine'
    BY <1>2, <1>3 DEF IInv, ServiceLine, Unanswered
<1>7. IoLine'
    BY <1>2, <1>3 DEF IInv, IoLine, Unanswered
<1>8. Tests'
    BY <1>2, <1>3 DEF IInv, Tests, SelfTest, NoJob, TaskNames, TaskWorker
<1>9. Handlers'
    BY <1>2, <1>4 DEF IInv, Handlers, TaskNames, TaskWorker
<1>10. Present'
    BY <1>2, <1>4 DEF IInv, Present
<1>11. IoRests'
    <2>1. ASSUME Past("fanStop", Closing), hadFan PROVE Rests("io")
        <3>1. main \in Off
            BY <2>1 DEF Past, Off, Quiet, Leaving
        <3>2. tasks = {}
            BY <3>1, NoTasks DEF IInv
        <3>3. Line("io") = <<>>
            BY <2>1 DEF IInv, IoRests, Past, Closing
        <3> QED
            BY <2>1, <3>2, <3>3 DEF IInv, IoRests, Rests
    <2> QED
        BY <1>2, <1>3, <1>4, <2>1 DEF IInv, IoRests
<1>12. Reports'
    BY <1>2, <1>3, <1>4, Kinds DEF IInv, Reports, FaultShown
<1>13. Faults'
    BY <1>2, <1>4 DEF IInv, Faults
<1> QED
    BY <1>2, <1>5, <1>6, <1>7, <1>8, <1>9, <1>10, <1>11, <1>12, <1>13 DEF IInv

-----------------------------------------------------------------------------
(* The steps of main that are not calls.                                     *)

MainLocal ==
    \/ RuntimeStart \/ DevicesStartup \/ NewMonitor \/ InitializeServices
    \/ RegisterTask("registerTick", "tempTick", "selfTest")
    \/ UnregisterAll \/ StopFan \/ ClearDevices \/ RuntimeStop \/ RequestSelfTest \/ Quit

\* Where such a step leads, and what it does to the objects and the tasks.
Moves ==
    \/ /\ UNCHANGED <<tasks, hadFan>>
       /\ \/ main = "findFan" /\ main' = "fanInit" /\ alive' = alive \union {"fan"}
          \/ main = "findSensor" /\ main' = "sensorRead" /\ alive' = alive \union {"sampler"}
          \/ main = "newMonitor" /\ main' = "monitorSample" /\ alive' = alive \union {"monitor"}
          \/ /\ main = "wire" /\ main' = "addService" /\ {"fan", "sampler"} \subseteq alive
             /\ alive' = alive \union {"temp"}
          \/ main = "clearDevices" /\ main' = "stopService" /\ alive' = {}
    \/ /\ UNCHANGED hadFan
       /\ \E o, t : /\ <<main, o, t, main'>> \in
                           {<<"dropFan", "fan", "none", "fanDegraded">>,
                            <<"dropSensor", "sampler", "temperatureSample", "sensorDegraded">>,
                            <<"dropMonitor", "monitor", "systemSample", "monitorDegraded">>}
                    /\ alive' = alive \ {o} /\ tasks' = tasks \ {t}
    \/ /\ UNCHANGED <<alive, hadFan>>
       /\ \E t : \/ /\ <<main, t, main'>> \in
                           {<<"registerSampler", "temperatureSample", "sensorReady">>,
                            <<"registerMonitor", "systemSample", "monitorReady">>,
                            <<"registerTick", "tempTick", "selfTest">>}
                    /\ tasks' = tasks \union {t}
                 \/ /\ <<main, t, main'>> \in
                           {<<"offTick", "tempTick", "offSampler">>,
                            <<"offSampler", "temperatureSample", "offMonitor">>,
                            <<"offMonitor", "systemSample", "stopServices">>}
                    /\ tasks' = tasks \ {t}
    \/ /\ UNCHANGED <<alive, tasks>>
       /\ main = "stopFan" /\ hadFan' \in BOOLEAN /\ (hadFan' <=> "fan" \in alive)
       /\ main' = IF "fan" \in alive THEN "fanStop" ELSE "clearDevices"
    \/ /\ UNCHANGED <<alive, tasks, hadFan>>
       /\ <<main, main'>> \in
             {<<"start", "powerOn">>, <<"findFan", "dropFan">>, <<"findSensor", "dropSensor">>,
              <<"wire", "tempDegraded">>, <<"up", "uiSelfTest">>, <<"up", "offTick">>,
              <<"stopService", "joinService">>, <<"joinService", "stopIo">>,
              <<"stopIo", "joinIo">>, <<"joinIo", "done">>}

LEMMA MainMoves ==
    ASSUME MainLocal
    PROVE  /\ Moves
           /\ UNCHANGED <<waiting, queue, batch, due, doing, answer, temp, duty, fanWrite,
                          stage, checks, verdict, systemState, componentStates>>
           /\ main \in LocalLabels
           /\ main # "start" => UNCHANGED phase
           /\ main = "start" => phase' = [w \in Workers |-> "loop"]
<1> USE DEF GoTo, mainVars, workerVars, deviceVars, testVars, lifeVars, LocalLabels, Moves
<1>1. CASE RuntimeStart
    BY <1>1 DEF RuntimeStart
<1>2. CASE DevicesStartup
    BY <1>2 DEF DevicesStartup, FindDevice, DropDevice, RegisterTask
<1>3. CASE NewMonitor \/ InitializeServices
    BY <1>3 DEF NewMonitor, InitializeServices
<1>4. CASE RegisterTask("registerTick", "tempTick", "selfTest") \/ UnregisterAll
    BY <1>4 DEF RegisterTask, UnregisterAll, UnregisterTask
<1>5. CASE StopFan
    <2>1. hadFan' = ("fan" \in alive)
        BY <1>5 DEF StopFan
    <2>2. hadFan' \in BOOLEAN /\ (hadFan' <=> "fan" \in alive)
        <3>1. CASE "fan" \in alive
            <4>1. hadFan' = TRUE
                BY <2>1, <3>1, Zenon
            <4> QED
                BY <3>1, <4>1
        <3>2. CASE "fan" \notin alive
            <4>1. ("fan" \in alive) = FALSE
                BY <3>2
            <4>2. hadFan' = FALSE
                BY <2>1, <4>1, Zenon
            <4> QED
                BY <3>2, <4>2
        <3> QED
            BY <3>1, <3>2
    <2> QED
        BY <1>5, <2>2 DEF StopFan
<1>6. CASE ClearDevices \/ RequestSelfTest \/ Quit
    BY <1>6 DEF ClearDevices, RequestSelfTest, Quit
<1>7. CASE RuntimeStop
    BY <1>7 DEF RuntimeStop
<1> QED
    BY <1>1, <1>2, <1>3, <1>4, <1>5, <1>6, <1>7 DEF MainLocal

LEMMA IoLineIsSeq ==
    ASSUME WorkerTypes, Phases
    PROVE  Line("io") \in Seq(Jobs)
<1>1. "io" \in Workers
    BY DEF Workers
<1> QED
    BY <1>1, BothWorkers, LineIsSeq DEF Phases, Line

\* While main does not wait, only duties are in line at io.
LEMMA OnlyDuties ==
    ASSUME TypeOK, Phases, ServiceLine, IoLine, Tests, ~waiting, NEW i \in 1..Len(Line("io"))
    PROVE  /\ Line("io")[i] \in DutyOps /\ "fan" \in alive /\ main \notin StartingUp
           /\ stage = "none"
<1>1. Line("io")[i] \in Jobs
    BY IoLineIsSeq, TypesOfWorkers, ElementOfSeq
<1>2. stage = "none"
    BY TypesOfWorkers, ServiceIdle DEF Unanswered, Tests
<1> QED
    BY <1>1, <1>2, Kinds DEF IoLine, Unanswered, Jobs

\* When the devices are cleared, nothing is left in line: either the fan was
\* stopped, and that was the last closure, or there was none to write to.
LEMMA NothingToClear ==
    ASSUME IInv, main = "clearDevices"
    PROVE  Line("io") = <<>>
<1>1. CASE hadFan
    BY <1>1 DEF IInv, IoRests
<1>2. CASE ~hadFan
    <2>1. "fan" \notin alive /\ ~waiting
        BY <1>2 DEF IInv, Present, Tests, CallOps, ServiceCalls, IoCalls, ReportOf
    <2>2. \A i \in 1..Len(Line("io")) : FALSE
        BY <2>1, OnlyDuties DEF IInv
    <2>3. Line("io") \in Seq(Jobs)
        BY IoLineIsSeq, TypesOfWorkers DEF IInv
    <2>4. Line("io") # <<>> => Len(Line("io")) \in Nat \ {0}
        BY <2>3, EmptySeq
    <2> QED
        BY <2>2, <2>4
<1> QED
    BY <1>1, <1>2

LEMMA LocalLabelsAreNoCalls == LocalLabels \intersect CallOps = {}
BY DEF LocalLabels, CallOps, ServiceCalls, IoCalls, ReportOf

LEMMA MainLocalTypes ==
    ASSUME TypeOK, MainLocal
    PROVE  TypeOK'
<1> USE DEF GoTo, mainVars, workerVars, deviceVars, testVars, lifeVars, TypeOK, LC!TypeOK,
            TaskNames, TaskWorker, Objects
<1> DEFINE Rest == UNCHANGED <<waiting, queue, batch, due, doing, answer, temp, duty, fanWrite,
                               stage, checks, verdict, systemState, componentStates>>
<1>1. Rest
    BY MainMoves
<1>2. main' \in LocalLabels \union CallOps
    BY MainMoves DEF Moves, LocalLabels, CallOps, ServiceCalls, IoCalls, ReportOf
<1>3. phase' \in [Workers -> {"off", "loop", "batch", "periodic", "exited"}]
    BY MainMoves
<1>4. /\ alive' \in SUBSET Objects /\ tasks' \in SUBSET TaskNames /\ hadFan' \in BOOLEAN
    <2>1. alive' \subseteq Objects
        BY MainMoves DEF Moves
    <2>2. tasks' \subseteq TaskNames
        BY MainMoves DEF Moves
    <2>3. hadFan' \in BOOLEAN
        <3>1. hadFan' = hadFan \/ hadFan' \in BOOLEAN
            BY MainMoves DEF Moves
        <3> QED
            BY <3>1
    <2> QED
        BY <2>1, <2>2, <2>3
<1>5. /\ sample' \in {"none", "good", "bad"}
      /\ stopRequested' \in [Workers -> BOOLEAN]
      /\ uiTests' \in 0..MaxUiTests
    <2>1. CASE RuntimeStart
        BY <2>1 DEF RuntimeStart
    <2>2. CASE DevicesStartup
        BY <2>2 DEF DevicesStartup, FindDevice, DropDevice, RegisterTask
    <2>3. CASE NewMonitor \/ InitializeServices
        BY <2>3 DEF NewMonitor, InitializeServices
    <2>4. CASE RegisterTask("registerTick", "tempTick", "selfTest") \/ UnregisterAll
        BY <2>4 DEF RegisterTask, UnregisterAll, UnregisterTask
    <2>5. CASE StopFan \/ ClearDevices \/ Quit
        BY <2>5 DEF StopFan, ClearDevices, Quit
    <2>6. CASE RequestSelfTest
        BY <2>6, BoundsAssumption DEF RequestSelfTest
    <2>7. CASE RuntimeStop
        BY <2>7 DEF RuntimeStop
    <2> QED
        BY <2>1, <2>2, <2>3, <2>4, <2>5, <2>6, <2>7 DEF MainLocal
<1> QED
    BY <1>1, <1>2, <1>3, <1>4, <1>5

LEMMA MainLocalKeeps ==
    ASSUME IInv, MainLocal
    PROVE  IInv'
<1>1. /\ UNCHANGED <<waiting, queue, batch, due, doing, answer, temp, duty, fanWrite,
                     stage, checks, verdict, systemState, componentStates>>
      /\ Moves
      /\ main # "start" => UNCHANGED phase
      /\ main = "start" => phase' = [w \in Workers |-> "loop"]
    BY MainMoves
<1>2. ~waiting
    BY MainMoves, LocalLabelsAreNoCalls DEF IInv, Tests
<1>3. /\ \A call, labels : Past(call, labels) <=> main \in labels
      /\ \A call, labels : Past(call, labels)' <=> main' \in labels
      /\ ~Unanswered /\ ~Unanswered'
    BY <1>1, <1>2 DEF Past, Unanswered
<1>4. doing["service"] \in {"none", "tempTick"} /\ stage = "none"
    BY <1>3, ServiceIdle, TypesOfWorkers DEF IInv, Tests
<1>5. \A w \in Workers : Line(w)' = Line(w)
    BY <1>1 DEF Line
<1>6. "service" \in Workers /\ "io" \in Workers
    BY DEF Workers
<1>7. TypeOK'
    BY MainLocalTypes DEF IInv
<1>8. Phases'
    BY <1>1 DEF IInv, Phases, Moves
<1>9. ServiceLine'
    BY <1>3, <1>5, <1>6 DEF IInv, ServiceLine
<1>10. IoLine'
    <2> SUFFICES ASSUME NEW i \in 1..Len(Line("io")), Line("io")[i] \in DutyOps, "fan" \in alive,
                        main \notin StartingUp
                 PROVE  "fan" \in alive' /\ main' \notin StartingUp
        BY <1>2, <1>5, <1>6, OnlyDuties, Kinds DEF IInv, IoLine
    <2>1. main # "clearDevices"
        BY NothingToClear
    <2> QED
        BY <1>1, <2>1 DEF Moves, StartingUp, Wiring, FindingMonitor, FindingSensor, FindingFan
<1>11. Tests'
    BY <1>1, <1>2, <1>4 DEF IInv, Tests
<1>12. Handlers'
    <2> USE DEF Ended, Closing, Leaving, Quiet, Off, FindingFan, FindingSensor, FindingMonitor,
                Wiring, StartingUp
    <2>1. \A t \in TaskNames : InHand(t)' => InHand(t) \/ t \in tasks'
        BY <1>1 DEF InHand
    <2>2. \A t \in TaskNames : t \in tasks => InHand(t)
        BY DEF InHand
    <2>3. TaskNames = {"tempTick", "temperatureSample", "systemSample"}
        BY DEF TaskNames, TaskWorker
    <2> HIDE DEF TaskNames
    <2>4. InHand("tempTick")' => /\ main' \notin StartingUp /\ ~Past("stopServices", Quiet)'
                                 /\ {"fan", "sampler", "temp"} \subseteq alive'
        BY <1>1, <1>3, <2>1, <2>2, <2>3 DEF IInv, Handlers, Present, Moves
    <2>5. InHand("temperatureSample")' =>
            main' \notin FindingSensor /\ (main' \in Ended \/ "sampler" \in alive')
        BY <1>1, <2>1, <2>2, <2>3 DEF IInv, Handlers, Present, Moves
    <2>6. InHand("systemSample")' =>
            main' \notin FindingMonitor /\ (main' \in Ended \/ "monitor" \in alive')
        BY <1>1, <2>1, <2>2, <2>3 DEF IInv, Handlers, Present, Moves
    <2>7. /\ main' \in {"offSampler", "offMonitor"} \union Off => "tempTick" \notin tasks'
          /\ main' \in {"offMonitor"} \union Off => "temperatureSample" \notin tasks'
          /\ main' \in Off => "systemSample" \notin tasks'
        BY <1>1 DEF IInv, Handlers, Moves
    <2> QED
        BY <2>4, <2>5, <2>6, <2>7 DEF Handlers
<1>13. Present'
    <2> USE DEF Ended, Closing, Leaving, FindingFan, FindingSensor, FindingMonitor, Wiring
    <2>1. /\ main' \in {"sensorRead", "firstSample", "registerSampler"} => "sampler" \in alive'
          /\ main' \in {"monitorSample", "registerMonitor"} => "monitor" \in alive'
          /\ main' \in {"addService", "registerTick"} => "temp" \in alive'
        BY <1>1 DEF IInv, Present, Moves
    <2>2. "temp" \in alive' => {"fan", "sampler"} \subseteq alive' /\ main' \notin Wiring
        BY <1>1 DEF IInv, Present, Moves
    <2>3. Past("clearServices", Leaving)' => "temp" \notin alive'
        BY <1>1, <1>3 DEF IInv, Present, Moves
    <2>4. /\ hadFan' => main' \in {"fanStop"} \union Closing
          /\ main' = "fanStop" => hadFan'
          /\ main' \in {"fanStop", "clearDevices"} => (hadFan' <=> "fan" \in alive')
        <3>1. CASE main = "stopFan"
            BY <1>1, <3>1 DEF Moves
        <3>2. CASE main # "stopFan"
            <4>1. hadFan' = hadFan /\ main' \notin {"fanStop", "clearDevices"}
                BY <1>1, <3>2 DEF Moves
            <4>2. main \in Closing => main' \in Closing
                BY <1>1 DEF Moves
            <4>3. hadFan => main \in Closing
                BY <1>1, <3>2 DEF IInv, Present, Moves
            <4> QED
                BY <4>1, <4>2, <4>3
        <3> QED
            BY <3>1, <3>2
    <2> QED
        BY <2>1, <2>2, <2>3, <2>4 DEF Present
<1>14. IoRests'
    <2> USE DEF Ended, Closing
    <2>1. main' \in Ended => main \in Ended \/ main = "clearDevices"
        BY <1>1 DEF Moves
    <2>2. main' \in Closing /\ hadFan' => main \in Closing /\ hadFan
        BY <1>1 DEF IInv, Present, Moves
    <2>3. main' = "clearDevices" => ~hadFan'
        BY <1>1 DEF IInv, Moves
    <2> QED
        BY <1>1, <1>3, <1>5, <1>6, <2>1, <2>2, <2>3, NothingToClear DEF IInv, IoRests
<1>15. Reports'
    BY <1>1, <1>3 DEF IInv, Reports, FaultShown, Moves, Leaving, Closing, Ended
<1>16. Faults'
    <2> SUFFICES ASSUME NEW c \in {"fan", "temperatureSensor"}, ObjectOf[c] \notin alive',
                        componentStates[c] # "fault", main' \notin Ended, main' \notin StartingUp
                 PROVE  main' = "selfTest"
        BY <1>1, <1>3, <1>4 DEF Faults
    <2> USE DEF Ended, FindingFan, FindingSensor, FindingMonitor, Wiring, StartingUp
    <2>1. ObjectOf[c] \in {"fan", "sampler"}
        BY DEF ObjectOf
    <2>2. CASE main \in StartingUp
        BY <1>1, <2>2 DEF Moves
    <2>3. CASE main \notin StartingUp
        <3>1. main # "clearDevices" /\ main \notin Ended /\ ObjectOf[c] \notin alive
            BY <1>1, <2>1, <2>3 DEF Moves
        <3>2. main = "selfTest"
            BY <3>1, <2>3 DEF IInv, Faults
        <3> QED
            BY <1>1, <3>2 DEF Moves
    <2> QED
        BY <2>2, <2>3
<1> QED
    BY <1>7, <1>8, <1>9, <1>10, <1>11, <1>12, <1>13, <1>14, <1>15, <1>16 DEF IInv

-----------------------------------------------------------------------------
(* A call and its return.                                                    *)

LEMMA PostMovesLine ==
    ASSUME WorkerTypes, Phases, NEW w \in Workers, NEW x \in Jobs,
           Post(w, x), UNCHANGED <<batch, doing>>
    PROVE  /\ Line(w)' = Append(Line(w), x)
           /\ \A v \in Workers : v # w => Line(v)' = Line(v)
           /\ \A v \in Workers : queue'[v] \in Seq(Jobs)
           /\ queue' \in [Workers -> Seq(WorkerOps)]
<1>1. /\ queue'[w] = Append(queue[w], x)
      /\ \A v \in Workers : v # w => queue'[v] = queue[v]
      /\ \A v \in Workers : queue[v] \in Seq(Jobs) /\ batch[v] \in Seq(Jobs)
    BY DEF Post, WorkerTypes, Phases
<1>2. Line(w)' = Append(Line(w), x)
    BY <1>1, BothWorkers, LineOfPost DEF Line
<1>3. \A v \in Workers : v # w => Line(v)' = Line(v)
    BY <1>1 DEF Line
<1>4. \A v \in Workers : queue'[v] \in Seq(Jobs)
    BY <1>1, AppendProperties
<1>5. Append(queue[w], x) \in Seq(WorkerOps)
    <2>1. queue[w] \in Seq(WorkerOps) /\ x \in WorkerOps
        BY DEF WorkerTypes, Jobs, WorkerOps
    <2> QED
        BY <2>1, AppendProperties
<1>6. queue' \in [Workers -> Seq(WorkerOps)]
    BY <1>5 DEF Post, WorkerTypes
<1> QED
    BY <1>2, <1>3, <1>4, <1>6

\* What a posted closure adds to what is in line at io.
LEMMA AppendedLine ==
    ASSUME NEW line \in Seq(Jobs), NEW x \in Jobs
    PROVE  LET longer == Append(line, x)
           IN  /\ Len(longer) = Len(line) + 1 /\ Len(line) \in Nat
               /\ \A i \in 1..Len(longer) :
                    IF i = Len(longer) THEN longer[i] = x
                    ELSE i \in 1..Len(line) /\ longer[i] = line[i]
BY AppendProperties

LEMMA CallKeeps ==
    ASSUME IInv, Call
    PROVE  IInv'
<1>1. main \in CallOps /\ ~waiting /\ waiting' = TRUE /\ main' = main
    BY DEF Call
<1>2. UNCHANGED <<uiTests, phase, stopRequested, batch, due, doing, alive, hadFan, tasks, temp,
                  sample, duty, fanWrite, stage, checks, verdict, systemState, componentStates>>
    BY DEF Call, deviceVars, testVars, lifeVars
<1>3. /\ answer'["main"] = "none" /\ answer'["service"] = answer["service"]
      /\ answer' \in [{"main", "service"} -> Outcomes \union {"none"}]
    BY DEF Call, Answer, IInv, TypeOK
<1>4. /\ \A call, labels : Past(call, labels)' <=> Past(call, labels)
      /\ ~Unanswered /\ Unanswered'
    BY <1>1, <1>3 DEF Past, Unanswered
<1>5. doing["service"] \in {"none", "tempTick"} /\ stage = "none"
    BY <1>4, ServiceIdle, TypesOfWorkers DEF IInv, Tests
<1>6. WorkerTypes /\ Phases /\ main \in Jobs
    BY <1>1, TypesOfWorkers DEF IInv, Jobs
<1>7. PICK w \in Workers : w = (IF main \in IoCalls THEN "io" ELSE "service") /\ Post(w, main)
    BY DEF Call, Workers
<1>8. /\ Line(w)' = Append(Line(w), main)
      /\ \A v \in Workers : v # w => Line(v)' = Line(v)
      /\ \A v \in Workers : queue'[v] \in Seq(Jobs)
      /\ queue' \in [Workers -> Seq(WorkerOps)]
    BY <1>2, <1>6, <1>7, PostMovesLine
<1>9. Line("service") = <<>> /\ "service" \in Workers /\ "io" \in Workers
    BY <1>4 DEF IInv, ServiceLine, Workers
<1>10. TypeOK'
    BY <1>1, <1>2, <1>3, <1>8 DEF IInv, TypeOK, LC!TypeOK
<1>11. Phases'
    BY <1>1, <1>2, <1>8 DEF IInv, Phases
<1>12. ServiceLine'
    <2>1. CASE main \in IoCalls
        BY <1>1, <1>4, <1>7, <1>8, <1>9, <2>1, Kinds DEF ServiceLine
    <2>2. CASE main \notin IoCalls
        <3>1. Line("service")' = Append(<<>>, main) /\ main \in ServiceCalls
            BY <1>1, <1>7, <1>8, <1>9, <2>2, Kinds
        <3>2. Append(<<>>, main) = <<main>>
            OBVIOUS
        <3> QED
            BY <1>1, <1>4, <3>1, <3>2 DEF ServiceLine
    <2> QED
        BY <2>1, <2>2
<1>13. IoLine'
    <2>1. \A i \in 1..Len(Line("io")) :
                Line("io")[i] \in DutyOps /\ "fan" \in alive /\ main \notin StartingUp
        BY <1>1, OnlyDuties DEF IInv
    <2>2. CASE main \in IoCalls
        <3>1. Line("io")' = Append(Line("io"), main) /\ Line("io") \in Seq(Jobs)
            BY <1>6, <1>7, <1>8, <2>2, IoLineIsSeq
        <3> QED
            BY <1>1, <1>2, <1>4, <1>6, <2>1, <2>2, <3>1, AppendedLine, Kinds DEF IoLine
    <2>3. CASE main \notin IoCalls
        <3>1. Line("io")' = Line("io")
            BY <1>7, <1>8, <1>9, <2>3
        <3> QED
            BY <1>1, <1>2, <2>1, <3>1, Kinds DEF IoLine
    <2> QED
        BY <2>2, <2>3
<1>14. Tests'
    BY <1>1, <1>2, <1>5 DEF Tests
<1>15. Handlers'
    BY <1>1, <1>2, <1>4 DEF IInv, Handlers, InHand
<1>16. Present'
    BY <1>1, <1>2, <1>4 DEF IInv, Present
<1>17. IoRests'
    <2>1. main \notin Closing
        BY <1>1, LocalLabelsAreNoCalls DEF LocalLabels, Closing, Ended
    <2> QED
        BY <1>1, <1>3, <2>1 DEF IoRests, Past, Closing
<1>18. Reports'
    BY <1>1, <1>2, <1>4 DEF IInv, Reports, FaultShown
<1>19. Faults'
    BY <1>1, <1>2, <1>4 DEF IInv, Faults
<1> QED
    BY <1>10, <1>11, <1>12, <1>13, <1>14, <1>15, <1>16, <1>17, <1>18, <1>19 DEF IInv

\* Where the calls lead.
CallSteps ==
    {<<"powerOn", "findFan">>, <<"fanInit", "fanReady">>, <<"fanInit", "dropFan">>,
     <<"fanReady", "findSensor">>, <<"fanDegraded", "findSensor">>,
     <<"sensorRead", "firstSample">>, <<"sensorRead", "dropSensor">>,
     <<"firstSample", "registerSampler">>, <<"firstSample", "dropSensor">>,
     <<"sensorReady", "newMonitor">>, <<"sensorDegraded", "newMonitor">>,
     <<"monitorSample", "registerMonitor">>, <<"monitorSample", "dropMonitor">>,
     <<"monitorReady", "wire">>, <<"monitorDegraded", "wire">>,
     <<"tempDegraded", "selfTest">>, <<"addService", "registerTick">>,
     <<"selfTest", "startServices">>, <<"startServices", "up">>, <<"uiSelfTest", "up">>,
     <<"stopServices", "clearServices">>, <<"clearServices", "enterStopped">>,
     <<"enterStopped", "stopFan">>, <<"fanStop", "clearDevices">>}

LEMMA AfterCall ==
    ASSUME NEW c \in CallOps, NEW o \in Outcomes
    PROVE  /\ After[c][o] \in LocalLabels \union CallOps
           /\ <<c, After[c][o]>> \in CallSteps
<1> USE DEF CallSteps
<1>1. c \in {"powerOn", "fanInit", "fanReady", "fanDegraded", "sensorRead", "firstSample",
             "sensorReady", "sensorDegraded", "monitorSample", "monitorReady",
             "monitorDegraded", "tempDegraded", "addService", "selfTest", "startServices",
             "uiSelfTest", "stopServices", "clearServices", "enterStopped", "fanStop"}
    BY DEF CallOps, ServiceCalls, IoCalls, ReportOf
<1>2. o = "ok" \/ o = "error"
    BY DEF Outcomes
<1>3. CASE c \in {"fanInit", "sensorRead", "firstSample", "monitorSample"}
    BY <1>2, <1>3 DEF After, LocalLabels, CallOps, ServiceCalls, IoCalls, ReportOf
<1>4. CASE c \notin {"fanInit", "sensorRead", "firstSample", "monitorSample"}
    BY <1>1, <1>2, <1>4
    DEF After, Always, LocalLabels, CallOps, ServiceCalls, IoCalls, ReportOf
<1> QED
    BY <1>3, <1>4

LEMMA ReturnKeeps ==
    ASSUME IInv, Return
    PROVE  IInv'
<1> USE DEF Ended, Closing, Leaving, Quiet, Off, FindingFan, FindingSensor, FindingMonitor,
            Wiring, StartingUp
<1>1. /\ waiting /\ answer["main"] # "none" /\ waiting' = FALSE /\ main \in CallOps
      /\ UNCHANGED <<uiTests, phase, stopRequested, queue, batch, due, doing, answer, alive,
                     hadFan, tasks, temp, sample, duty, fanWrite, stage, checks, verdict,
                     systemState, componentStates>>
    BY DEF Return, workerVars, deviceVars, testVars, lifeVars, IInv, Tests
<1>2. answer["main"] \in Outcomes
    BY <1>1 DEF IInv, TypeOK
<1>3. main' \in LocalLabels \union CallOps /\ <<main, main'>> \in CallSteps
    BY <1>1, <1>2, AfterCall DEF Return
<1>4. /\ \A call, labels : Past(call, labels) <=> main \in labels \/ main = call
      /\ \A call, labels : Past(call, labels)' <=> main' \in labels
      /\ ~Unanswered /\ ~Unanswered'
    BY <1>1 DEF Past, Unanswered
<1>5. doing["service"] \in {"none", "tempTick"} /\ stage = "none"
    BY <1>4, ServiceIdle, TypesOfWorkers DEF IInv, Tests
<1>6. \A w \in Workers : Line(w)' = Line(w)
    BY <1>1 DEF Line
<1>7. "service" \in Workers /\ "io" \in Workers
    BY DEF Workers
<1>8. TypeOK'
    BY <1>1, <1>3 DEF IInv, TypeOK, LC!TypeOK
<1>9. Phases'
    BY <1>1, <1>3 DEF IInv, Phases, CallSteps
<1>10. ServiceLine'
    BY <1>4, <1>6, <1>7 DEF IInv, ServiceLine
<1>11. main' \in StartingUp => main \in StartingUp
    BY <1>3 DEF CallSteps
<1>12. IoLine'
    BY <1>1, <1>4, <1>6, <1>7, <1>11 DEF IInv, IoLine
<1>13. Tests'
    BY <1>1, <1>5 DEF Tests
<1>14. Handlers'
    <2>1. /\ main' \in FindingSensor => main \in FindingSensor
          /\ main' \in FindingMonitor => main \in FindingMonitor
          /\ main' \in Quiet => main \in Quiet \union {"stopServices"}
          /\ main' \notin Ended /\ main \notin Ended
          /\ main' \notin {"offSampler", "offMonitor", "stopServices"}
        BY <1>3 DEF CallSteps
    <2>2. \A t : InHand(t)' <=> InHand(t)
        BY <1>1 DEF InHand
    <2> HIDE DEF Ended, Closing, Leaving, Quiet, FindingFan, FindingSensor, FindingMonitor,
                 Wiring, StartingUp
    <2> QED
        BY <1>1, <1>4, <1>11, <2>1, <2>2 DEF IInv, Handlers
<1>15. Present'
    <2>1. /\ main' \in {"sensorRead", "firstSample", "registerSampler"} =>
                main \in {"sensorRead", "firstSample"}
          /\ main' \in {"monitorSample", "registerMonitor"} => main = "monitorSample"
          /\ main' \in {"addService", "registerTick"} => main = "addService"
          /\ main' \in Wiring => main \in Wiring
          /\ main' \in Leaving => main \in Leaving \union {"clearServices"}
          /\ main = "fanStop" <=> main' = "clearDevices"
          /\ main \notin Closing /\ main' # "fanStop"
        BY <1>3 DEF CallSteps
    <2> HIDE DEF Ended, Leaving, Wiring
    <2> QED
        BY <1>1, <1>4, <2>1 DEF IInv, Present
<1>16. IoRests'
    <2>1. main' \in Closing => main = "fanStop" /\ main' = "clearDevices"
        BY <1>3 DEF CallSteps
    <2> QED
        BY <1>1, <1>4, <1>6, <1>7, <2>1 DEF IInv, IoRests
<1>17. Reports'
    <2>1. /\ main' \notin {"start", "powerOn"}
          /\ main' \in Leaving \ {"enterStopped"} <=> main \in Leaving
          /\ "enterStopped" \in Leaving
        BY <1>3 DEF CallSteps
    <2> HIDE DEF Leaving
    <2> QED
        BY <1>1, <1>4, <2>1 DEF IInv, Reports, FaultShown
<1>18. Faults'
    <2>1. /\ main' \in StartingUp \union {"selfTest"} <=> main \in StartingUp
          /\ main \notin Ended
        BY <1>3 DEF CallSteps
    <2> HIDE DEF StartingUp, Ended
    <2> QED
        BY <1>1, <1>4, <1>5, <2>1 DEF IInv, Faults
<1> QED
    BY <1>8, <1>9, <1>10, <1>12, <1>13, <1>14, <1>15, <1>16, <1>17, <1>18 DEF IInv

-----------------------------------------------------------------------------
(* The end of a closure or a handler.                                        *)

\* What a worker was inside of leaves its line, if it was in it.  The closure
\* may have posted to the other worker before it ended.
LEMMA EndsDoingFrame ==
    ASSUME WorkerTypes, Phases, NEW w \in Workers, doing[w] # "none", EndsDoing(w),
           UNCHANGED <<main, tasks>>,
           queue' \in [Workers -> Seq(WorkerOps)], \A v \in Workers : queue'[v] \in Seq(Jobs),
           queue'[w] = queue[w]
    PROVE  /\ WorkerTypes' /\ Phases'
           /\ doing'[w] = "none" /\ \A v \in Workers : v # w => doing'[v] = doing[v]
           /\ Line(w)' = LineOf("none", batch[w], queue[w])
           /\ doing[w] \in NoJob => Line(w)' = Line(w)
           /\ \A t \in TaskNames : InHand(t)' => InHand(t)
<1>1. /\ doing' = [doing EXCEPT ![w] = "none"]
      /\ phase' = [phase EXCEPT ![w] = IF phase[w] = "periodic" /\ due[w] = {} THEN "loop"
                                       ELSE phase[w]]
      /\ UNCHANGED <<batch, due>>
    BY DEF EndsDoing
<1>2. WorkerTypes'
    BY <1>1 DEF WorkerTypes
<1>3. phase[w] \in {"batch", "periodic"} /\ main # "start"
    BY BothWorkers DEF Phases
<1>4. Phases'
    <2> SUFFICES ASSUME NEW v \in Workers
                 PROVE  /\ phase'[v] \in {"off", "loop", "exited"} =>
                               batch[v] = <<>> /\ due[v] = {} /\ doing'[v] = "none"
                        /\ phase'[v] = "batch" => due[v] = {} /\ doing'[v] \notin TaskNames
                        /\ phase'[v] = "periodic" => batch[v] = <<>> /\ doing'[v] \in NoJob
                        /\ \A t \in due[v] \union {doing'[v]} :
                                t \in TaskNames => TaskWorker[t] = v
        BY <1>1, <1>3 DEF Phases
    <2>1. CASE v = w
        BY <1>1, <1>3, <2>1 DEF Phases, WorkerTypes, NoJob, TaskNames, TaskWorker
    <2>2. CASE v # w
        BY <1>1, <2>2 DEF Phases, WorkerTypes
    <2> QED
        BY <2>1, <2>2
<1>5. doing'[w] = "none" /\ \A v \in Workers : v # w => doing'[v] = doing[v]
    BY <1>1 DEF WorkerTypes
<1>6. Line(w)' = LineOf("none", batch[w], queue[w])
    BY <1>1, <1>5 DEF Line
<1>7. doing[w] \in NoJob => Line(w)' = Line(w)
    BY <1>6, LineOfNoJob DEF Line
<1>8. \A t \in TaskNames : InHand(t)' => InHand(t)
    BY <1>1, <1>5 DEF InHand, TaskNames, TaskWorker, Workers
<1> QED
    BY <1>2, <1>4, <1>5, <1>6, <1>7, <1>8

\* After the first of a line ended the others have moved up by one.
LEMMA TailOfLine ==
    ASSUME NEW line \in Seq(Jobs), line # <<>>
    PROVE  /\ Len(Tail(line)) = Len(line) - 1 /\ Len(line) \in Nat
           /\ \A i \in 1..Len(Tail(line)) : i + 1 \in 1..Len(line) /\ Tail(line)[i] = line[i + 1]
BY HeadTailProperties

\* A closure or handler of io ends with outcome o.
LEMMA IoEndKeeps ==
    ASSUME IInv, doing["io"] # "none", EndsDoing("io"), NEW o \in Outcomes,
           UNCHANGED <<queue, alive, hadFan, tasks, temp, mainVars, testVars, lifeVars>>,
           IF doing["io"] \in CallOps THEN Answer("main", o)
           ELSE IF doing["io"] \in CheckOps THEN Answer("service", o)
           ELSE UNCHANGED answer,
           sample' \in {"none", "good", "bad"}, duty' \in {"on", "off"}, fanWrite' \in Outcomes,
           doing["io"] = "fanStop" /\ fanWrite' = "ok" => duty' = "off"
    PROVE  IInv'
<1>1. UNCHANGED <<main, waiting, uiTests, stage, checks, verdict, systemState, componentStates,
                  stopRequested, batch, due>>
    BY DEF mainVars, testVars, lifeVars, EndsDoing
<1>2. WorkerTypes /\ Phases /\ IoLine /\ ServiceLine
    BY TypesOfWorkers DEF IInv
<1>3. "service" \in Workers /\ "io" \in Workers
    BY DEF Workers
<1>4. queue' \in [Workers -> Seq(WorkerOps)] /\ \A v \in Workers : queue'[v] \in Seq(Jobs)
    BY <1>2 DEF WorkerTypes, Phases
<1>5. /\ WorkerTypes' /\ Phases'
      /\ doing'["io"] = "none" /\ doing'["service"] = doing["service"]
      /\ Line("io")' = LineOf("none", batch["io"], queue["io"])
      /\ doing["io"] \in NoJob => Line("io")' = Line("io")
      /\ \A t \in TaskNames : InHand(t)' => InHand(t)
    BY <1>1, <1>2, <1>3, <1>4, EndsDoingFrame
<1>6. Line("service")' = Line("service")
    BY <1>1, <1>5 DEF Line
<1>7. /\ doing["io"] \in NoJob \/ doing["io"] \in IoCalls \union CheckOps \union DutyOps
      /\ doing["io"] \in IoCalls => Unanswered /\ main = doing["io"] /\ Line("io")' = <<>>
      /\ doing["io"] \in CheckOps => stage = "asking" /\ Line("io")' = <<>>
    <2>1. NoJob \intersect (IoCalls \union CheckOps) = {}
        BY Kinds DEF Jobs
    <2>2. CASE doing["io"] \notin NoJob
        BY <1>2, <1>5, <2>2, IoDoes
    <2> QED
        BY <2>1, <2>2
<1>8. /\ answer' \in [{"main", "service"} -> Outcomes \union {"none"}]
      /\ answer'["main"] = IF doing["io"] \in IoCalls THEN o ELSE answer["main"]
      /\ answer'["service"] = IF doing["io"] \in CheckOps THEN o ELSE answer["service"]
    BY <1>7, Kinds DEF Answer, IInv, TypeOK, NoJob, Jobs
<1>9. o # "none"
    BY DEF Outcomes
<1>10. /\ \A call \in ServiceCalls : \A labels : Past(call, labels)' <=> Past(call, labels)
       /\ Past("fanStop", Closing)' => Past("fanStop", Closing) \/ doing["io"] = "fanStop"
       /\ Past("fanStop", Ended)' => Past("fanStop", Ended) \/ doing["io"] = "fanStop"
       /\ doing["io"] \notin IoCalls => (Unanswered' <=> Unanswered)
    BY <1>1, <1>7, <1>8, <1>9, Kinds DEF Past, Unanswered
<1>11. {"powerOn", "selfTest", "stopServices", "clearServices", "enterStopped"}
            \subseteq ServiceCalls
    BY DEF ServiceCalls, ReportOf
<1>12. TypeOK'
    BY <1>1, <1>5, <1>8 DEF IInv, TypeOK, WorkerTypes, LC!TypeOK
<1>13. ServiceLine'
    <2>1. CASE doing["io"] \in IoCalls
        BY <1>1, <1>2, <1>6, <1>7, <2>1, Kinds DEF ServiceLine
    <2>2. CASE doing["io"] \notin IoCalls
        BY <1>1, <1>2, <1>6, <1>10, <2>2 DEF ServiceLine
    <2> QED
        BY <2>1, <2>2
<1>14. IoLine'
    <2>1. CASE doing["io"] \in IoCalls \union CheckOps
        <3>1. Line("io")' = <<>>
            BY <1>7, <2>1
        <3> QED
            BY <3>1 DEF IoLine
    <2>2. CASE doing["io"] \in NoJob
        <3>1. doing["io"] \notin IoCalls \union CheckOps
            BY <2>2, Kinds DEF Jobs
        <3> QED
            BY <1>1, <1>2, <1>5, <1>8, <1>10, <2>2, <3>1 DEF IoLine
    <2>3. CASE doing["io"] \in DutyOps
        <3>1. /\ doing["io"] \notin IoCalls \union CheckOps \union NoJob
              /\ Line("io") \in Seq(Jobs) /\ Line("io") # <<>> /\ Line("io")' = Tail(Line("io"))
            BY <1>2, <1>5, <2>3, IoDoes, Kinds DEF Jobs
        <3>2. /\ Len(Line("io"))' = Len(Line("io")) - 1 /\ Len(Line("io")) \in Nat
              /\ \A i \in 1..Len(Line("io"))' :
                    i + 1 \in 1..Len(Line("io")) /\ Line("io")'[i] = Line("io")[i + 1]
            BY <3>1, TailOfLine
        <3>3. \A i \in 1..Len(Line("io"))' : i + 1 = Len(Line("io")) => i = Len(Line("io"))'
            BY <3>2
        <3> QED
            BY <1>1, <1>2, <1>8, <1>10, <3>1, <3>2, <3>3 DEF IoLine
    <2> QED
        BY <1>7, <2>1, <2>2, <2>3
<1>15. Tests'
    BY <1>1, <1>5 DEF IInv, Tests, SelfTest
<1>16. Handlers'
    BY <1>1, <1>5, <1>10, <1>11 DEF IInv, Handlers, TaskNames, TaskWorker
<1>17. Present'
    BY <1>1, <1>10, <1>11 DEF IInv, Present
<1>18. IoRests'
    <2>1. CASE doing["io"] = "fanStop"
        <3>1. doing["io"] \in IoCalls /\ due["io"] = {}
            BY <1>2, <2>1, IoDoes DEF IoCalls, NoJob, TaskNames, TaskWorker
        <3> QED
            BY <1>1, <1>5, <1>7, <2>1, <3>1 DEF IoRests
    <2>2. CASE doing["io"] # "fanStop"
        <3>1. ~(Past("fanStop", Closing) /\ hadFan)
            BY DEF IInv, IoRests
        <3>2. Line("io") = <<>> => Line("io")' = <<>>
            BY <1>2, <1>5, IoDoes
        <3> QED
            BY <1>1, <1>10, <2>2, <3>1, <3>2 DEF IInv, IoRests
    <2> QED
        BY <2>1, <2>2
<1>19. Reports'
    BY <1>1, <1>5, <1>10, <1>11 DEF IInv, Reports, FaultShown
<1>20. Faults'
    BY <1>1, <1>10, <1>11 DEF IInv, Faults
<1> QED
    BY <1>5, <1>12, <1>13, <1>14, <1>15, <1>16, <1>17, <1>18, <1>19, <1>20 DEF IInv

LEMMA FinishIoKeeps ==
    ASSUME IInv, FinishIo \/ FinishDryRun
    PROVE  IInv'
<1>1. CASE FinishIo
    <2>1. PICK o \in Outcomes :
            /\ sample' = IF doing["io"] \in Samples
                         THEN (IF o = "ok" THEN "good" ELSE "bad") ELSE sample
            /\ IF doing["io"] \in WritesFan
               THEN duty' \in Written(doing["io"], o) /\ fanWrite' = o
               ELSE UNCHANGED <<duty, fanWrite>>
            /\ IF doing["io"] \in CallOps THEN Answer("main", o)
               ELSE IF doing["io"] \in CheckOps THEN Answer("service", o)
               ELSE UNCHANGED answer
        BY <1>1 DEF FinishIo
    <2>2. sample' \in {"none", "good", "bad"}
        BY <2>1 DEF IInv, TypeOK
    <2>3. duty' \in {"on", "off"} /\ fanWrite' \in Outcomes
        BY <2>1 DEF IInv, TypeOK, Written
    <2>4. doing["io"] = "fanStop" /\ fanWrite' = "ok" => duty' = "off"
        BY <2>1 DEF Written, WritesFan
    <2> QED
        BY <1>1, <2>1, <2>2, <2>3, <2>4, IoEndKeeps DEF FinishIo
<1>2. CASE FinishDryRun
    <2>1. "ok" \in Outcomes /\ "dryRun" \in CheckOps /\ "dryRun" \notin CallOps
          /\ doing["io"] = "dryRun" /\ doing["io"] # "fanStop" /\ doing["io"] # "none"
        BY <1>2, Kinds DEF Outcomes, CheckOps, CheckOf, FinishDryRun
    <2>2. UNCHANGED <<queue, alive, hadFan, tasks, temp, sample, duty, fanWrite, mainVars,
                      testVars, lifeVars>>
        BY <1>2 DEF FinishDryRun, deviceVars
    <2>3. sample' \in {"none", "good", "bad"} /\ duty' \in {"on", "off"} /\ fanWrite' \in Outcomes
        BY <2>2 DEF IInv, TypeOK
    <2> QED
        BY <1>2, <2>1, <2>2, <2>3, IoEndKeeps DEF FinishDryRun
<1> QED
    BY <1>1, <1>2

-----------------------------------------------------------------------------
(* The service worker.                                                       *)

\* While main waits for the service worker, nobody else is in line at io but
\* duties and the check of a self-test.
LEMMA ServiceLeavesIo ==
    ASSUME WorkerTypes, Phases, IoLine, main \in ServiceCalls,
           stage # "asking" \/ answer["service"] # "none",
           NEW i \in 1..Len(Line("io"))
    PROVE  Line("io")[i] \in DutyOps /\ "fan" \in alive /\ main \notin StartingUp
<1>1. Line("io")[i] \in Jobs
    BY IoLineIsSeq, ElementOfSeq
<1> QED
    BY <1>1, Kinds DEF IoLine, Jobs

\* The closure that main waits for ends with outcome o.
LEMMA ServiceEndKeeps ==
    ASSUME IInv, doing["service"] \notin NoJob, EndsDoing("service"),
           NEW o \in Outcomes, Answer("main", o),
           UNCHANGED <<mainVars, hadFan, tasks, sample, duty, fanWrite, checks, verdict>>,
           stage # "asking", stage' = "none", temp' \in {"stopped", "running", "degraded"},
           alive' = alive \/ (main = "clearServices" /\ alive' = alive \ {"temp"}),
           main = "clearServices" => "temp" \notin alive',
           \/ queue' = queue
           \/ Post("io", "dutyOff") /\ "fan" \in alive /\ main = "stopServices",
           LC!TypeOK', FaultShown',
           componentStates'["runtime"] = "stopped" <=> main = "enterStopped",
           main = "enterStopped" => systemState' = "stopped",
           \A c \in {"fan", "temperatureSensor"} :
                componentStates'[c] = componentStates[c] \/ main \in StartingUp,
           main = "selfTest" => stage # "none" /\ checks = <<>>
    PROVE  IInv'
<1>1. UNCHANGED <<main, waiting, uiTests, stopRequested, batch, due>>
    BY DEF mainVars, EndsDoing
<1>2. WorkerTypes /\ Phases /\ IoLine /\ ServiceLine
    BY TypesOfWorkers DEF IInv
<1>3. "service" \in Workers /\ "io" \in Workers
    BY DEF Workers
<1>4. /\ Unanswered /\ main \in ServiceCalls /\ due["service"] = {}
      /\ LineOf("none", batch["service"], queue["service"]) = <<>>
    BY <1>2, ServiceDoes
<1>5. \A i \in 1..Len(Line("io")) :
            Line("io")[i] \in DutyOps /\ "fan" \in alive /\ main \notin StartingUp
    BY <1>2, <1>4, ServiceLeavesIo
<1>6. /\ queue' \in [Workers -> Seq(WorkerOps)] /\ \A v \in Workers : queue'[v] \in Seq(Jobs)
      /\ queue'["service"] = queue["service"]
    <2>1. CASE queue' = queue
        BY <1>2, <2>1 DEF WorkerTypes, Phases
    <2>2. CASE Post("io", "dutyOff")
        <3>1. "dutyOff" \in Jobs /\ "dutyOff" \in WorkerOps
            BY DEF Jobs, WorkerOps, DutyOps
        <3>2. /\ queue'["io"] = Append(queue["io"], "dutyOff")
              /\ queue'["service"] = queue["service"]
              /\ queue["io"] \in Seq(Jobs) /\ queue["io"] \in Seq(WorkerOps)
            BY <1>2, <1>3, <2>2 DEF Post, WorkerTypes, Phases
        <3>3. queue'["io"] \in Seq(Jobs) /\ queue'["io"] \in Seq(WorkerOps)
            BY <3>1, <3>2, AppendProperties
        <3> QED
            BY <1>2, <2>2, <3>2, <3>3 DEF Post, WorkerTypes, Phases, Workers
    <2> QED
        BY <2>1, <2>2
<1>7. /\ WorkerTypes' /\ Phases'
      /\ doing'["service"] = "none" /\ doing'["io"] = doing["io"]
      /\ Line("service")' = <<>>
      /\ \A t \in TaskNames : InHand(t)' => InHand(t)
    <2>1. doing["service"] # "none"
        BY DEF NoJob
    <2> QED
        BY <1>1, <1>2, <1>3, <1>4, <1>6, <2>1, EndsDoingFrame
<1>8. /\ answer' \in [{"main", "service"} -> Outcomes \union {"none"}]
      /\ answer'["main"] = o /\ o # "none" /\ answer'["service"] = answer["service"]
    BY DEF Answer, IInv, TypeOK, Outcomes
<1>9. /\ \A call, labels : Past(call, labels)' <=> main \in labels \/ main = call
      /\ ~Unanswered' /\ waiting
    BY <1>1, <1>4, <1>8 DEF Past, Unanswered
<1>10. main \notin Closing \union {"fanStop", "start"} /\ main \notin Leaving \ {"enterStopped"}
    BY <1>4 DEF Leaving, Closing, Ended, ServiceCalls, ReportOf
<1>11. TypeOK'
    <2>1. alive' \in SUBSET Objects
        BY DEF IInv, TypeOK
    <2> QED
        BY <1>1, <1>7, <1>8, <2>1 DEF IInv, TypeOK, WorkerTypes, mainVars
<1>12. ServiceLine'
    BY <1>7, <1>9 DEF ServiceLine
<1>13. IoLine'
    <2>1. CASE queue' = queue
        <3>1. Line("io")' = Line("io")
            BY <1>1, <1>7, <2>1 DEF Line
        <3>2. "fan" \in alive => "fan" \in alive'
            OBVIOUS
        <3> QED
            BY <1>1, <1>5, <3>1, <3>2, Kinds DEF IoLine
    <2>2. CASE Post("io", "dutyOff") /\ "fan" \in alive /\ main = "stopServices"
        <3>1. Line("io") \in Seq(Jobs) /\ "dutyOff" \in Jobs /\ "dutyOff" \in DutyOps
            BY <1>2, IoLineIsSeq DEF Jobs, DutyOps
        <3>2. queue'["io"] = Append(queue["io"], "dutyOff")
            BY <1>2, <1>3, <2>2 DEF Post, WorkerTypes
        <3>3. /\ doing["io"] \in Ops /\ batch["io"] \in Seq(Jobs) /\ queue["io"] \in Seq(Jobs)
            BY <1>2, <1>3, BothWorkers DEF Phases
        <3>4. Line("io")' = Append(Line("io"), "dutyOff")
            <4>1. LineOf(doing["io"], batch["io"], Append(queue["io"], "dutyOff"))
                    = Append(LineOf(doing["io"], batch["io"], queue["io"]), "dutyOff")
                BY <3>1, <3>3, LineOfPost
            <4> QED
                BY <1>1, <1>7, <3>2, <4>1 DEF Line
        <3>5. main \notin StartingUp /\ alive' = alive
            BY <2>2 DEF StartingUp, Wiring, FindingMonitor, FindingSensor, FindingFan
        <3>6. \A i \in 1..Len(Line("io"))' : Line("io")'[i] \in DutyOps
            BY <1>5, <3>1, <3>4, AppendedLine
        <3> QED
            BY <1>1, <2>2, <3>5, <3>6, Kinds DEF IoLine
    <2> QED
        BY <2>1, <2>2
<1>14. Tests'
    BY <1>1 DEF IInv, Tests
<1>15. Handlers'
    <2>1. InHand("tempTick")' => "tempTick" \in tasks
        <3>1. InHand("tempTick")' => InHand("tempTick")
            BY <1>7 DEF TaskNames, TaskWorker
        <3>2. doing["service"] # "tempTick"
            BY DEF NoJob, TaskNames, TaskWorker
        <3> QED
            BY <1>4, <3>1, <3>2 DEF InHand, TaskWorker
    <2>2. InHand("tempTick")' => InHand("tempTick") /\ main \notin Off
        BY <2>1 DEF IInv, Handlers, InHand
    <2>3. /\ InHand("temperatureSample")' => InHand("temperatureSample")
          /\ InHand("systemSample")' => InHand("systemSample")
        BY <1>7 DEF TaskNames, TaskWorker
    <2>4. {"stopServices", "clearServices"} \union Quiet \subseteq Off
        BY DEF Off, Quiet
    <2>5. \A x \in Objects \ {"temp"} : x \in alive => x \in alive'
        OBVIOUS
    <2>6. main \notin Off => alive' = alive
        BY <2>4
    <2> QED
        BY <1>1, <1>9, <2>2, <2>3, <2>4, <2>5, <2>6 DEF IInv, Handlers, Objects
<1>16. Present'
    <2>1. \A x : x # "temp" => (x \in alive <=> x \in alive')
        OBVIOUS
    <2>2. "temp" \in alive' => "temp" \in alive
        OBVIOUS
    <2>3. main \in {"addService", "registerTick"} => alive' = alive
        OBVIOUS
    <2>4. main \in Leaving => "temp" \notin alive
        BY DEF IInv, Present, Past
    <2> QED
        BY <1>1, <1>9, <2>1, <2>2, <2>3, <2>4 DEF IInv, Present
<1>17. IoRests'
    BY <1>1, <1>9, <1>10 DEF IoRests, Closing, Ended
<1>18. Reports'
    BY <1>1, <1>9, <1>10 DEF Reports, FaultShown
<1>19. Faults'
    <2> SUFFICES ASSUME NEW c \in {"fan", "temperatureSensor"}, main \notin StartingUp
                 PROVE  ObjectOf[c] \in alive' \/ componentStates'[c] = "fault" \/ main \in Ended
        BY <1>1 DEF Faults
    <2>1. componentStates'[c] = componentStates[c]
        OBVIOUS
    <2>2. ObjectOf[c] \in alive => ObjectOf[c] \in alive'
        BY DEF ObjectOf
    <2>3. main = "selfTest" => ~\E i \in 1..Len(checks) : checks[i] = c
        OBVIOUS
    <2> QED
        BY <2>1, <2>2, <2>3 DEF IInv, Faults
<1> QED
    BY <1>7, <1>11, <1>12, <1>13, <1>14, <1>15, <1>16, <1>17, <1>18, <1>19 DEF IInv

\* What is known while the service worker is inside of a closure.
LEMMA WhileServing ==
    ASSUME IInv, doing["service"] \notin NoJob
    PROVE  /\ Unanswered /\ main \in ServiceCalls
           /\ IF doing["service"] = "poweredOn" THEN main = "powerOn"
              ELSE doing["service"] = main
           /\ LC!TypeOK /\ FaultShown /\ componentStates["runtime"] # "stopped"
           /\ SelfTest \/ stage = "none"
           /\ SelfTest <=> main \in {"selfTest", "uiSelfTest"}
<1>1. Unanswered /\ main \in ServiceCalls /\ Job(doing["service"]) = main
    BY TypesOfWorkers, ServiceDoes DEF IInv
<1>2. IF doing["service"] = "poweredOn" THEN main = "powerOn" ELSE doing["service"] = main
    BY <1>1 DEF Job
<1>3. main \notin Leaving \ {"enterStopped"}
    BY <1>1 DEF Leaving, Closing, Ended, ServiceCalls, ReportOf
<1>4. componentStates["runtime"] # "stopped" /\ FaultShown
    BY <1>1, <1>3 DEF IInv, Reports, Past, Unanswered
<1> QED
    BY <1>1, <1>2, <1>4 DEF IInv, TypeOK, Tests, SelfTest

\* The closures of the service worker but a self-test.
LEMMA ClosuresKeep ==
    ASSUME IInv,
           ReportJob \/ PoweredOn \/ AddService \/ StartServices \/ StopServices \/ ClearServices
    PROVE  IInv'
<1> USE DEF deviceVars, testVars, lifeVars
<1>1. /\ doing["service"] \in DOMAIN ReportOf \union
            {"poweredOn", "addService", "startServices", "stopServices", "clearServices"}
      /\ EndsDoing("service") /\ Answer("main", "ok") /\ "ok" \in Outcomes
      /\ UNCHANGED <<mainVars, hadFan, tasks, sample, duty, fanWrite, checks, verdict, stage>>
    BY DEF ReportJob, PoweredOn, AddService, StartServices, StopServices, ClearServices, Outcomes
<1>2. doing["service"] \notin NoJob
    BY <1>1 DEF NoJob, TaskNames, TaskWorker, ReportOf
<1>3. /\ Unanswered /\ main \in ServiceCalls
      /\ IF doing["service"] = "poweredOn" THEN main = "powerOn" ELSE doing["service"] = main
      /\ LC!TypeOK /\ FaultShown /\ componentStates["runtime"] # "stopped"
      /\ stage = "none" /\ main # "selfTest"
    BY <1>1, <1>2, WhileServing DEF SelfTest, ReportOf
<1>4. temp \in {"stopped", "running", "degraded"}
    BY DEF IInv, TypeOK
<1> DEFINE
        Reported == /\ LC!TypeOK' /\ FaultShown'
                    /\ componentStates'["runtime"] = "stopped" <=> main = "enterStopped"
                    /\ main = "enterStopped" => systemState' = "stopped"
                    /\ \A c \in {"fan", "temperatureSensor"} :
                         componentStates'[c] = componentStates[c] \/ main \in StartingUp
<1>5. /\ "tempService" \in LC!Components \ {"fan", "temperatureSensor", "runtime"}
      /\ {"fan", "temperatureSensor", "runtime"} \subseteq LC!Components
      /\ {"running", "stopped", "ready", "degraded"} \subseteq LC!ComponentStates
    BY DEF LC!Components, LC!ComponentStates
<1>6. ASSUME NEW c \in LC!Components \ {"fan", "temperatureSensor", "runtime"},
             NEW v \in LC!ComponentStates, Report(c, v), main # "enterStopped"
      PROVE  Reported
    <2>1. /\ LC!TypeOK' /\ FaultShown'
          /\ componentStates' = [componentStates EXCEPT ![c] = v]
        BY <1>3, <1>6, ReportShows
    <2>2. \A d \in LC!Components : d # c => componentStates'[d] = componentStates[d]
        BY <1>3, <2>1 DEF LC!TypeOK
    <2> QED
        BY <1>3, <1>5, <1>6, <2>1, <2>2
<1>7. ASSUME UNCHANGED lifeVars, main # "enterStopped"
      PROVE  Reported
    BY <1>3, <1>7 DEF LC!TypeOK, FaultShown
<1>8. CASE ReportJob
    <2>1. /\ doing["service"] \in DOMAIN ReportOf /\ doing["service"] = main
          /\ UNCHANGED <<queue, alive, temp>>
        BY <1>3, <1>8 DEF ReportJob, ReportOf
    <2>2. PICK c \in LC!Components, v \in LC!ComponentStates :
            /\ Report(c, v)
            /\ c = "runtime" <=> main = "enterStopped"
            /\ main = "enterStopped" => v = "stopped"
            /\ c \in {"fan", "temperatureSensor"} => main \in StartingUp
        <3>1. PICK c, v : Report(c, v) /\ <<c, v>> = ReportOf[main]
            BY <1>8, <2>1 DEF ReportJob, ReportOf
        <3>2. /\ c \in LC!Components /\ v \in LC!ComponentStates
              /\ c = "runtime" <=> main = "enterStopped"
              /\ main = "enterStopped" => v = "stopped"
              /\ c \in {"fan", "temperatureSensor"} => main \in StartingUp
            BY <2>1, <3>1 DEF ReportOf, LC!Components, LC!ComponentStates, StartingUp, Wiring,
               FindingMonitor, FindingSensor, FindingFan
        <3> QED
            BY <3>1, <3>2
    <2>3. Reported
        <3>1. /\ LC!TypeOK' /\ FaultShown'
              /\ componentStates' = [componentStates EXCEPT ![c] = v]
              /\ componentStates'["runtime"] = "stopped" => systemState' = "stopped"
            BY <1>3, <2>2, ReportShows
        <3>2. \A d \in LC!Components :
                componentStates'[d] = IF d = c THEN v ELSE componentStates[d]
            BY <1>3, <3>1 DEF LC!TypeOK
        <3> QED
            BY <1>3, <1>5, <2>2, <3>1, <3>2
    <2>4. main # "clearServices"
        BY <2>1 DEF ReportOf
    <2> QED
        BY <1>1, <1>2, <1>3, <1>4, <2>1, <2>3, <2>4, ServiceEndKeeps
<1>9. CASE PoweredOn
    <2>1. main = "powerOn" /\ Report("runtime", "running") /\ UNCHANGED <<queue, alive, temp>>
        BY <1>3, <1>9 DEF PoweredOn
    <2>2. Reported
        BY <1>3, <1>5, <2>1, ReportShows DEF LC!TypeOK
    <2> QED
        BY <1>1, <1>2, <1>3, <1>4, <2>1, <2>2, ServiceEndKeeps
<1>10. CASE AddService
    <2>1. main = "addService" /\ UNCHANGED <<queue, alive, temp, lifeVars>>
        BY <1>3, <1>10 DEF AddService
    <2>2. Reported
        BY <1>7, <2>1
    <2> QED
        BY <1>1, <1>2, <1>3, <1>4, <2>1, <2>2, ServiceEndKeeps
<1>11. CASE StartServices
    <2>1. main = "startServices" /\ UNCHANGED <<queue, alive>>
          /\ temp' \in {"stopped", "running", "degraded"}
        BY <1>3, <1>4, <1>11 DEF StartServices
    <2>2. Reported
        BY <1>5, <1>6, <1>7, <1>11, <2>1 DEF StartServices
    <2> QED
        BY <1>1, <1>2, <1>3, <2>1, <2>2, ServiceEndKeeps
<1>12. CASE StopServices
    <2>1. main = "stopServices" /\ UNCHANGED alive /\ temp' \in {"stopped", "running", "degraded"}
        BY <1>3, <1>4, <1>12 DEF StopServices
    <2>2. Reported
        BY <1>5, <1>6, <1>7, <1>12, <2>1 DEF StopServices
    <2>3. queue' = queue \/ (Post("io", "dutyOff") /\ "fan" \in alive)
        BY <1>12 DEF StopServices, IInv, Present
    <2> QED
        BY <1>1, <1>2, <1>3, <2>1, <2>2, <2>3, ServiceEndKeeps
<1>13. CASE ClearServices
    <2>1. main = "clearServices" /\ alive' = alive \ {"temp"} /\ "temp" \notin alive'
          /\ UNCHANGED <<queue, temp, lifeVars>>
        BY <1>3, <1>13 DEF ClearServices
    <2>2. Reported
        BY <1>7, <2>1
    <2> QED
        BY <1>1, <1>2, <1>3, <1>4, <2>1, <2>2, ServiceEndKeeps
<1> QED
    BY <1>8, <1>9, <1>10, <1>11, <1>12, <1>13

-----------------------------------------------------------------------------
(* The self-test.                                                            *)

Checked == DOMAIN CheckOf \union {"tempService"}

\* Every self-test checks the fan and the sensor, present or not.
LEMMA ConfiguredChecks ==
    /\ Configured \in Seq(Checked)
    /\ 1 \in 1..Len(Configured) /\ 2 \in 1..Len(Configured)
    /\ Configured[1] = "fan" /\ Configured[2] = "temperatureSensor"
<1>1. {"fan", "temperatureSensor", "tempService", "systemInfoReader"} \subseteq Checked
    BY DEF Checked, CheckOf
<1> DEFINE first == <<"fan", "temperatureSensor">>
           middle == IF "temp" \in alive THEN <<"tempService">> ELSE <<>>
           last == <<"systemInfoReader">>
<1>2. /\ first \in Seq(Checked) /\ 1 \in 1..Len(first) /\ 2 \in 1..Len(first)
      /\ first[1] = "fan" /\ first[2] = "temperatureSensor"
    BY <1>1
<1>3. middle \in Seq(Checked) /\ last \in Seq(Checked)
    BY <1>1, EmptySeq
<1>4. Configured = first \o (middle \o last)
    <2>1. Configured = (first \o middle) \o last
        BY DEF Configured
    <2> HIDE DEF first, middle, last
    <2>2. first \in Seq(Checked)
        BY <1>2
    <2> QED
        BY <1>3, <2>1, <2>2, ConcatAssociative
<1> HIDE DEF first, middle, last
<1>5. middle \o last \in Seq(Checked)
    BY <1>3, ConcatProperties
<1>6. \A i \in 1..Len(first) : i \in 1..Len(Configured) /\ Configured[i] = first[i]
    BY <1>2, <1>4, <1>5
<1>7. Configured \in Seq(Checked)
    BY <1>2, <1>4, <1>5, ConcatProperties
<1> QED
    BY <1>2, <1>6, <1>7

LEMMA WhileTesting ==
    ASSUME IInv, SelfTest
    PROVE  /\ doing["service"] \notin NoJob /\ Unanswered /\ main = doing["service"]
           /\ main \in {"selfTest", "uiSelfTest"} /\ main \in ServiceCalls
           /\ main \notin StartingUp \union Off \union {"start", "fanStop"}
           /\ LC!TypeOK /\ FaultShown /\ componentStates["runtime"] # "stopped"
<1>1. doing["service"] \notin NoJob /\ doing["service"] # "poweredOn"
    BY DEF SelfTest, NoJob, TaskNames, TaskWorker
<1>2. /\ main = doing["service"] /\ Unanswered /\ main \in ServiceCalls
      /\ main \in {"selfTest", "uiSelfTest"}
      /\ LC!TypeOK /\ FaultShown /\ componentStates["runtime"] # "stopped"
    BY <1>1, WhileServing
<1>3. main \notin StartingUp \union Off \union {"start", "fanStop"}
    BY <1>2 DEF StartingUp, Wiring, FindingMonitor, FindingSensor, FindingFan, Off, Quiet,
       Leaving, Closing, Ended
<1> QED
    BY <1>1, <1>2, <1>3

\* A step of the self-test that leaves the closure running.
LEMMA TestStepKeeps ==
    ASSUME IInv, SelfTest, UNCHANGED <<mainVars, workerVars, deviceVars>>,
           stage' = "checking", stage # "asking" \/ answer["service"] # "none",
           checks' \in Seq(Checked), verdict' \in {"ready", "degraded", "fault"},
           LC!TypeOK', FaultShown', componentStates'["runtime"] # "stopped", Faults'
    PROVE  IInv'
<1>1. UNCHANGED <<main, waiting, uiTests, phase, stopRequested, queue, batch, due, doing, answer,
                  alive, hadFan, tasks, temp, sample, duty, fanWrite>>
    BY DEF mainVars, workerVars, deviceVars
<1>2. /\ main \in {"selfTest", "uiSelfTest"} /\ main \in ServiceCalls /\ Unanswered
      /\ main \notin Off
    BY WhileTesting
<1>3. /\ \A call, labels : Past(call, labels)' <=> Past(call, labels)
      /\ Unanswered' <=> Unanswered
      /\ \A w \in Workers : Line(w)' = Line(w)
      /\ \A t : InHand(t)' <=> InHand(t)
    BY <1>1 DEF Past, Unanswered, Line, InHand
<1>4. "service" \in Workers /\ "io" \in Workers
    BY DEF Workers
<1>5. TypeOK'
    BY <1>1 DEF IInv, TypeOK, Checked
<1>6. Phases' /\ ServiceLine'
    BY <1>1, <1>3, <1>4 DEF IInv, Phases, ServiceLine
<1>7. IoLine'
    <2>1. \A i \in 1..Len(Line("io")) :
                Line("io")[i] \in DutyOps /\ "fan" \in alive /\ main \notin StartingUp
        BY <1>2, ServiceLeavesIo, TypesOfWorkers DEF IInv
    <2> QED
        BY <1>1, <1>3, <1>4, <2>1, Kinds DEF IoLine
<1>8. Tests'
    BY <1>1 DEF IInv, Tests, SelfTest
<1>9. Handlers'
    BY <1>1, <1>3 DEF IInv, Handlers
<1>10. Present' /\ IoRests'
    BY <1>1, <1>3, <1>4 DEF IInv, Present, IoRests
<1>11. Reports'
    <2>1. ~Past("enterStopped", Leaving \ {"enterStopped"})
        BY <1>2 DEF Past, Off, Quiet
    <2> QED
        BY <1>1, <1>2, <1>3, <2>1 DEF Reports, FaultShown
<1> QED
    BY <1>5, <1>6, <1>7, <1>8, <1>9, <1>10, <1>11 DEF IInv

\* A result is recorded: what is missing is faulty from now on.
LEMMA RecordKeeps ==
    ASSUME IInv, SelfTest, stage # "none", stage # "asking" \/ answer["service"] # "none",
           checks # <<>>,
           NEW passed \in BOOLEAN, passed => ObjectOf[Head(checks)] \in alive,
           Record(passed), UNCHANGED <<mainVars, workerVars, deviceVars>>
    PROVE  IInv'
<1>1. /\ LC!TypeOK /\ FaultShown /\ componentStates["runtime"] # "stopped"
      /\ main \notin StartingUp \union Off
    BY WhileTesting
<1>2. checks \in Seq(Checked) /\ Head(checks) \in Checked /\ Tail(checks) \in Seq(Checked)
    BY HeadTailProperties DEF IInv, TypeOK, Checked
<1>3. PICK c \in Checked, v \in LC!ComponentStates :
        /\ c = Head(checks) /\ Report(c, v)
        /\ ~passed /\ c # "systemInfoReader" => v = "fault"
        /\ v \in {"ready", "degraded", "fault"}
        /\ verdict' \in {verdict, v}
    BY <1>2 DEF Record, LC!ComponentStates
<1>4. Checked \subseteq LC!Components \ {"runtime"} /\ "runtime" \in LC!Components
    BY DEF Checked, CheckOf, LC!Components
<1>5. LC!TypeOK' /\ FaultShown' /\ componentStates' = [componentStates EXCEPT ![c] = v]
    BY <1>1, <1>3, <1>4, ReportShows
<1>6. \A d \in LC!Components : componentStates'[d] = IF d = c THEN v ELSE componentStates[d]
    BY <1>1, <1>5 DEF LC!TypeOK
<1>7. stage' = "checking" /\ checks' = Tail(checks)
    BY DEF Record
<1>8. verdict' \in {"ready", "degraded", "fault"}
    BY <1>3 DEF IInv, TypeOK
<1>9. Faults'
    <2>1. UNCHANGED <<main, alive, waiting, answer>>
        BY DEF mainVars, deviceVars, workerVars
    <2> SUFFICES ASSUME NEW d \in {"fan", "temperatureSensor"}, ObjectOf[d] \notin alive,
                        componentStates'[d] # "fault"
                 PROVE  /\ main = "selfTest" /\ ~Past("selfTest", {})
                        /\ \E i \in 1..Len(Tail(checks)) : Tail(checks)[i] = d
        BY <1>7, <2>1 DEF Faults, Past
    <2>2. d # c
        BY <1>3, <1>4, <1>6 DEF Checked, CheckOf
    <2>3. componentStates[d] # "fault"
        <3>1. d \in LC!Components
            BY DEF LC!Components
        <3> QED
            BY <1>6, <2>2, <3>1
    <2>4. /\ main = "selfTest" /\ ~Past("selfTest", {})
          /\ \E i \in 1..Len(checks) : checks[i] = d
        BY <1>1, <2>3 DEF IInv, Faults, Off, Quiet, Leaving, Closing
    <2>5. PICK i \in 1..Len(checks) : checks[i] = d
        BY <2>4
    <2>6. i # 1
        BY <1>2, <1>3, <2>2, <2>5
    <2>7. i - 1 \in 1..Len(Tail(checks)) /\ Tail(checks)[i - 1] = d
        BY <1>2, <2>5, <2>6, HeadTailProperties
    <2> QED
        BY <2>4, <2>7
<1> QED
    BY <1>2, <1>4, <1>5, <1>6, <1>7, <1>8, <1>9, <1>1, <1>3, TestStepKeeps

LEMMA BeginKeeps ==
    ASSUME IInv, BeginSelfTest
    PROVE  IInv'
<1>1. /\ doing["service"] \notin NoJob /\ Unanswered /\ main = doing["service"]
      /\ main \in {"selfTest", "uiSelfTest"}
      /\ LC!TypeOK /\ FaultShown /\ componentStates["runtime"] # "stopped"
      /\ main \notin StartingUp \union Off
      /\ SelfTest /\ stage = "none"
    BY WhileTesting DEF BeginSelfTest
<1>2. CASE Refused
    <2>1. /\ Answer("main", "error") /\ EndsDoing("service") /\ "error" \in Outcomes
          /\ UNCHANGED <<queue, mainVars, deviceVars, testVars, lifeVars>>
          /\ main = "uiSelfTest"
        BY <1>1, <1>2 DEF BeginSelfTest, Refused, Outcomes
    <2>2. UNCHANGED <<alive, hadFan, tasks, temp, sample, duty, fanWrite, stage, checks, verdict,
                      systemState, componentStates>>
        BY <2>1 DEF deviceVars, testVars, lifeVars
    <2>3. temp \in {"stopped", "running", "degraded"}
        BY DEF IInv, TypeOK
    <2>4. LC!TypeOK' /\ FaultShown'
        BY <1>1, <2>2 DEF LC!TypeOK, FaultShown
    <2> QED
        BY <1>1, <2>1, <2>2, <2>3, <2>4, ServiceEndKeeps
<1>3. CASE ~Refused
    <2>1. /\ stage' = "checking" /\ checks' = Configured /\ verdict' = "ready"
          /\ Report("selftest", "running")
          /\ UNCHANGED <<mainVars, workerVars, deviceVars>>
        BY <1>3 DEF BeginSelfTest, workerVars
    <2>2. /\ "selftest" \in LC!Components /\ "running" \in LC!ComponentStates
          /\ {"fan", "temperatureSensor", "runtime"} \subseteq LC!Components
        BY DEF LC!Components, LC!ComponentStates
    <2>3. /\ LC!TypeOK' /\ FaultShown'
          /\ componentStates' = [componentStates EXCEPT !["selftest"] = "running"]
        BY <1>1, <2>1, <2>2, ReportShows
    <2>4. \A d \in {"fan", "temperatureSensor", "runtime"} :
                componentStates'[d] = componentStates[d]
        BY <1>1, <2>2, <2>3 DEF LC!TypeOK
    <2>5. /\ checks' \in Seq(Checked)
          /\ \A d \in {"fan", "temperatureSensor"} : \E i \in 1..Len(checks') : checks'[i] = d
        BY <2>1, ConfiguredChecks
    <2>6. Faults'
        <3>1. UNCHANGED <<main, alive, waiting, answer>>
            BY <2>1 DEF mainVars, deviceVars, workerVars
        <3>2. ~Past("selfTest", {})
            BY <1>1 DEF Past, Unanswered
        <3> QED
            BY <1>1, <2>4, <2>5, <3>1, <3>2
            DEF IInv, Faults, Past, Off, Quiet, Leaving, Closing
    <2> QED
        BY <1>1, <2>1, <2>3, <2>4, <2>5, <2>6, TestStepKeeps
<1> QED
    BY <1>2, <1>3

LEMMA ChecksKeep ==
    ASSUME IInv, CheckHere \/ CheckReturns
    PROVE  IInv'
<1>1. CASE CheckHere
    <2>1. PICK passes \in BOOLEAN : /\ passes <=> ObjectOf[Head(checks)] \in alive
                                    /\ Record(passes)
        <3>1. CASE ObjectOf[Head(checks)] \in alive
            <4>1. (ObjectOf[Head(checks)] \in alive) = TRUE
                BY <3>1
            <4>2. Record(TRUE)
                BY <1>1, <4>1, Zenon DEF CheckHere
            <4> QED
                BY <3>1, <4>2
        <3>2. CASE ObjectOf[Head(checks)] \notin alive
            <4>1. (ObjectOf[Head(checks)] \in alive) = FALSE
                BY <3>2
            <4>2. Record(FALSE)
                BY <1>1, <4>1, Zenon DEF CheckHere
            <4> QED
                BY <3>2, <4>2
        <3> QED
            BY <3>1, <3>2
    <2> QED
        BY <1>1, <2>1, RecordKeeps DEF CheckHere
<1>2. CASE CheckReturns
    <2>1. SelfTest /\ checks # <<>> /\ ObjectOf[Head(checks)] \in alive
        BY <1>2 DEF CheckReturns, IInv, Tests
    <2>2. PICK passes \in BOOLEAN : Record(passes)
        <3>1. CASE answer["service"] = "ok"
            <4>1. (answer["service"] = "ok") = TRUE
                BY <3>1
            <4> QED
                BY <1>2, <4>1, Zenon DEF CheckReturns
        <3>2. CASE answer["service"] # "ok"
            <4>1. (answer["service"] = "ok") = FALSE
                BY <3>2
            <4> QED
                BY <1>2, <4>1, Zenon DEF CheckReturns
        <3> QED
            BY <3>1, <3>2
    <2> QED
        BY <1>2, <2>1, <2>2, RecordKeeps DEF CheckReturns
<1> QED
    BY <1>1, <1>2

LEMMA EndTestKeeps ==
    ASSUME IInv, EndSelfTest
    PROVE  IInv'
<1>1. /\ doing["service"] \notin NoJob /\ main \in {"selfTest", "uiSelfTest"}
      /\ LC!TypeOK /\ FaultShown /\ componentStates["runtime"] # "stopped"
    BY WhileTesting DEF EndSelfTest
<1>2. /\ stage = "checking" /\ checks = <<>> /\ stage' = "none"
      /\ Answer("main", "ok") /\ EndsDoing("service") /\ "ok" \in Outcomes
      /\ UNCHANGED <<checks, verdict, queue, mainVars, alive, hadFan, tasks, temp, sample, duty,
                     fanWrite>>
    BY DEF EndSelfTest, Outcomes, deviceVars
<1>3. /\ "selftest" \in LC!Components
      /\ {"fan", "temperatureSensor", "runtime"} \subseteq LC!Components
    BY DEF LC!Components
<1>4. PICK v \in LC!ComponentStates : Report("selftest", v)
    BY DEF EndSelfTest, IInv, TypeOK, LC!ComponentStates
<1>5. /\ LC!TypeOK' /\ FaultShown'
      /\ componentStates' = [componentStates EXCEPT !["selftest"] = v]
    BY <1>1, <1>3, <1>4, ReportShows
<1>6. \A d \in {"fan", "temperatureSensor", "runtime"} : componentStates'[d] = componentStates[d]
    BY <1>1, <1>3, <1>5 DEF LC!TypeOK
<1>7. temp \in {"stopped", "running", "degraded"}
    BY DEF IInv, TypeOK
<1> QED
    BY <1>1, <1>2, <1>5, <1>6, <1>7, ServiceEndKeeps

\* The check that needs io waits for it, behind everything that is in line.
LEMMA CheckAsksKeeps ==
    ASSUME IInv, CheckAsks
    PROVE  IInv'
<1>1. /\ Unanswered /\ main \in {"selfTest", "uiSelfTest"} /\ main \in ServiceCalls
      /\ main \notin StartingUp \union Off \union {"start", "fanStop"}
      /\ SelfTest /\ stage = "checking" /\ stage' = "asking" /\ checks # <<>>
      /\ Head(checks) # "tempService" /\ ObjectOf[Head(checks)] \in alive
    BY WhileTesting DEF CheckAsks
<1>2. UNCHANGED <<main, waiting, uiTests, phase, stopRequested, batch, due, doing, alive, hadFan,
                  tasks, temp, sample, duty, fanWrite, checks, verdict, systemState,
                  componentStates>>
    BY DEF CheckAsks, mainVars, deviceVars, lifeVars
<1>3. /\ answer' \in [{"main", "service"} -> Outcomes \union {"none"}]
      /\ answer'["main"] = answer["main"] /\ answer'["service"] = "none"
    BY DEF CheckAsks, Answer, IInv, TypeOK
<1>4. /\ \A call, labels : Past(call, labels)' <=> Past(call, labels)
      /\ Unanswered' <=> Unanswered
    BY <1>2, <1>3 DEF Past, Unanswered
<1>5. WorkerTypes /\ Phases /\ "io" \in Workers /\ "service" \in Workers
    BY TypesOfWorkers DEF IInv, Workers
<1>6. PICK x \in CheckOps : Post("io", x)
    <2>1. checks \in Seq(DOMAIN CheckOf \union {"tempService"})
        BY DEF IInv, TypeOK
    <2>2. Head(checks) \in DOMAIN CheckOf
        BY <1>1, <2>1, HeadTailProperties
    <2> QED
        BY <2>2 DEF CheckAsks, CheckOps
<1>7. x \in Jobs
    BY DEF Jobs
<1>8. /\ Line("io")' = Append(Line("io"), x) /\ Line("service")' = Line("service")
      /\ \A v \in Workers : queue'[v] \in Seq(Jobs)
      /\ queue' \in [Workers -> Seq(WorkerOps)]
    BY <1>2, <1>5, <1>6, <1>7, PostMovesLine
<1>9. TypeOK'
    BY <1>1, <1>2, <1>3, <1>8 DEF IInv, TypeOK, LC!TypeOK
<1>10. Phases'
    BY <1>2, <1>8 DEF IInv, Phases
<1>11. ServiceLine'
    BY <1>2, <1>4, <1>8 DEF IInv, ServiceLine
<1>12. IoLine'
    <2>1. \A i \in 1..Len(Line("io")) :
                Line("io")[i] \in DutyOps /\ "fan" \in alive /\ main \notin StartingUp
        BY <1>1, <1>5, ServiceLeavesIo DEF IInv
    <2>2. Line("io") \in Seq(Jobs)
        BY <1>5, IoLineIsSeq
    <2>3. \A i \in 1..Len(Line("io"))' :
            IF i = Len(Line("io"))' THEN Line("io")'[i] = x
            ELSE i \in 1..Len(Line("io")) /\ Line("io")'[i] = Line("io")[i]
        BY <1>7, <1>8, <2>2, AppendedLine
    <2>4. \A i \in 1..Len(Line("io"))' :
            \/ i = Len(Line("io"))' /\ Line("io")'[i] \in CheckOps
            \/ Line("io")'[i] \in DutyOps /\ "fan" \in alive' /\ main' \notin StartingUp
        BY <1>2, <2>1, <2>3
    <2> QED
        BY <1>1, <1>3, <2>4, Kinds DEF IoLine
<1>13. Tests'
    BY <1>1, <1>2 DEF IInv, Tests, SelfTest
<1>14. Handlers'
    BY <1>2, <1>4 DEF IInv, Handlers, InHand
<1>15. Present'
    BY <1>2, <1>4 DEF IInv, Present
<1>16. IoRests'
    BY <1>1, <1>2, <1>4 DEF IoRests, Past, Off, Quiet, Leaving, Closing
<1>17. Reports'
    BY <1>2, <1>4 DEF IInv, Reports, FaultShown
<1>18. Faults'
    BY <1>1, <1>2, <1>4 DEF IInv, Faults
<1> QED
    BY <1>9, <1>10, <1>11, <1>12, <1>13, <1>14, <1>15, <1>16, <1>17, <1>18 DEF IInv

\* The first half of powerOn: the closure goes on.
LEMMA PowerOnKeeps ==
    ASSUME IInv, PowerOn
    PROVE  IInv'
<1>1. doing["service"] = "powerOn" /\ doing' = [doing EXCEPT !["service"] = "poweredOn"]
      /\ LC!enterStartup
      /\ UNCHANGED <<main, waiting, uiTests, phase, stopRequested, queue, batch, due, answer,
                     alive, hadFan, tasks, temp, sample, duty, fanWrite, stage, checks, verdict>>
    BY DEF PowerOn, mainVars, deviceVars, testVars
<1>2. doing["service"] \notin NoJob
    BY <1>1 DEF NoJob, TaskNames, TaskWorker
<1>3. /\ Unanswered /\ main = "powerOn" /\ LC!TypeOK /\ componentStates["runtime"] # "stopped"
      /\ ~SelfTest /\ stage = "none"
    BY <1>1, <1>2, WhileServing
<1>4. WorkerTypes /\ Phases /\ "io" \in Workers /\ "service" \in Workers
    BY TypesOfWorkers DEF IInv, Workers
<1>5. doing'["service"] = "poweredOn" /\ doing'["io"] = doing["io"]
    BY <1>1, <1>4 DEF WorkerTypes
<1>6. /\ \A call, labels : Past(call, labels)' <=> Past(call, labels)
      /\ Unanswered' <=> Unanswered
    BY <1>1 DEF Past, Unanswered
<1>7. Line("service")' = Line("service") /\ Line("io")' = Line("io")
    <2>1. Current("poweredOn") = Current("powerOn")
        BY DEF Current, NoJob, TaskNames, TaskWorker
    <2> QED
        BY <1>1, <1>5, <2>1 DEF Line, LineOf
<1>8. \A t \in TaskNames : InHand(t)' => InHand(t)
    BY <1>1, <1>5 DEF InHand, TaskNames, TaskWorker
<1>9. componentStates' = componentStates
      /\ componentStates = [c \in LC!Components |-> "absent"]
    BY <1>1, <1>3 DEF LC!enterStartup, IInv, Reports, Past, Unanswered
<1>10. LC!TypeOK' /\ FaultShown'
    <2>1. systemState' \in LC!SystemStates
        BY <1>1, <1>3 DEF LC!enterStartup, LC!applyEvent, LC!resolveNextState, LC!SystemEvents,
           LC!SystemStates, LC!TypeOK
    <2>2. FaultShown'
        BY <1>9 DEF FaultShown, LC!hasComponentState
    <2> QED
        BY <1>3, <1>9, <2>1, <2>2 DEF LC!TypeOK
<1>11. TypeOK'
    BY <1>1, <1>10 DEF IInv, TypeOK, WorkerOps
<1>12. Phases'
    BY <1>1, <1>4, <1>2, <1>5 DEF Phases, Workers, TaskNames, TaskWorker, NoJob
<1>13. ServiceLine' /\ IoLine'
    BY <1>1, <1>6, <1>7 DEF IInv, ServiceLine, IoLine
<1>14. Tests'
    BY <1>1, <1>3 DEF IInv, Tests
<1>15. Handlers'
    BY <1>1, <1>6, <1>8 DEF IInv, Handlers, TaskNames, TaskWorker
<1>16. Present'
    BY <1>1, <1>6 DEF IInv, Present
<1>17. IoRests'
    BY <1>3, <1>1, <1>6 DEF IoRests, Past, Closing, Ended
<1>18. Reports'
    <2>1. ~Past("enterStopped", Leaving \ {"enterStopped"})
        BY <1>3 DEF Past, Leaving, Closing, Ended
    <2> QED
        BY <1>1, <1>3, <1>5, <1>6, <1>9, <1>10, <2>1 DEF Reports
<1>19. Faults'
    BY <1>1, <1>3 DEF Faults, StartingUp, Wiring, FindingMonitor, FindingSensor, FindingFan
<1> QED
    BY <1>11, <1>12, <1>13, <1>14, <1>15, <1>16, <1>17, <1>18, <1>19 DEF IInv

\* A tick ends: the closures in line at io, if any, are duties.
LEMMA TickKeeps ==
    ASSUME IInv, Tick
    PROVE  IInv'
<1>1. /\ doing["service"] = "tempTick" /\ EndsDoing("service")
      /\ UNCHANGED <<main, waiting, uiTests, stopRequested, batch, due, answer, alive, hadFan,
                     tasks, sample, duty, fanWrite, stage, checks, verdict>>
    BY DEF Tick, EndsDoing, mainVars, testVars
<1>2. /\ main \notin StartingUp /\ ~Past("stopServices", Quiet)
      /\ {"fan", "sampler", "temp"} \subseteq alive
    BY <1>1 DEF IInv, Handlers, InHand, TaskWorker
<1>3. WorkerTypes /\ Phases /\ "io" \in Workers /\ "service" \in Workers
    BY TypesOfWorkers DEF IInv, Workers
<1>4. ~SelfTest /\ stage = "none"
    BY <1>1 DEF IInv, Tests, SelfTest
<1>5. /\ LC!TypeOK /\ FaultShown /\ componentStates["runtime"] # "stopped"
      /\ main \notin Leaving /\ main \notin {"start", "powerOn"}
    BY <1>2 DEF IInv, TypeOK, Reports, Past, Quiet, Leaving, StartingUp, Wiring,
       FindingMonitor, FindingSensor, FindingFan
<1>6. \/ UNCHANGED queue
      \/ \E op \in DutyOps : Post("io", op)
    BY DEF Tick
<1>7. /\ LC!TypeOK' /\ FaultShown' /\ componentStates'["runtime"] # "stopped"
    <2>1. "tempService" \in LC!Components /\ "runtime" \in LC!Components
          /\ {"running", "degraded"} \subseteq LC!ComponentStates
        BY DEF LC!Components, LC!ComponentStates
    <2>2. CASE UNCHANGED lifeVars
        BY <1>5, <2>2 DEF lifeVars, LC!TypeOK, FaultShown
    <2>3. CASE \E v \in {"running", "degraded"} : Report("tempService", v)
        <3>1. PICK v \in LC!ComponentStates : Report("tempService", v)
            BY <2>1, <2>3
        <3>2. /\ LC!TypeOK' /\ FaultShown'
              /\ componentStates' = [componentStates EXCEPT !["tempService"] = v]
            BY <1>5, <2>1, <3>1, ReportShows
        <3>3. componentStates'["runtime"] = componentStates["runtime"]
            BY <1>5, <2>1, <3>2 DEF LC!TypeOK
        <3> QED
            BY <1>5, <3>2, <3>3
    <2> QED
        BY <2>2, <2>3 DEF Tick
<1>8. temp' \in {"stopped", "running", "degraded"}
    BY DEF Tick, IInv, TypeOK
<1>9. /\ queue' \in [Workers -> Seq(WorkerOps)] /\ \A v \in Workers : queue'[v] \in Seq(Jobs)
      /\ queue'["service"] = queue["service"]
      /\ \/ queue'["io"] = queue["io"]
         \/ \E op \in DutyOps : queue'["io"] = Append(queue["io"], op)
    <2>1. CASE UNCHANGED queue
        BY <1>3, <2>1 DEF WorkerTypes, Phases
    <2>2. CASE \E op \in DutyOps : Post("io", op)
        <3>1. PICK op \in DutyOps : Post("io", op)
            BY <2>2
        <3>2. op \in Jobs /\ op \in WorkerOps
            BY DEF Jobs, WorkerOps
        <3>3. /\ queue'["io"] = Append(queue["io"], op)
              /\ queue'["service"] = queue["service"]
              /\ queue["io"] \in Seq(Jobs) /\ queue["io"] \in Seq(WorkerOps)
            BY <1>3, <3>1 DEF Post, WorkerTypes, Phases
        <3>4. queue'["io"] \in Seq(Jobs) /\ queue'["io"] \in Seq(WorkerOps)
            BY <3>2, <3>3, AppendProperties
        <3> QED
            BY <1>3, <3>1, <3>3, <3>4 DEF Post, WorkerTypes, Phases, Workers
    <2> QED
        BY <1>6, <2>1, <2>2
<1>10. /\ WorkerTypes' /\ Phases'
       /\ doing'["service"] = "none" /\ doing'["io"] = doing["io"]
       /\ Line("service")' = Line("service")
       /\ \A t \in TaskNames : InHand(t)' => InHand(t)
    <2>1. doing["service"] \in NoJob /\ doing["service"] # "none"
        BY <1>1 DEF NoJob, TaskNames, TaskWorker
    <2> QED
        BY <1>1, <1>3, <1>9, <2>1, EndsDoingFrame
<1>11. /\ \A call, labels : Past(call, labels)' <=> Past(call, labels)
       /\ Unanswered' <=> Unanswered
    BY <1>1 DEF Past, Unanswered
<1>12. TypeOK'
    BY <1>1, <1>7, <1>8, <1>10 DEF IInv, TypeOK, WorkerTypes
<1>13. ServiceLine'
    BY <1>1, <1>10, <1>11 DEF IInv, ServiceLine
<1>14. IoLine'
    <2>1. main \notin IoCalls
        BY <1>2, <1>5 DEF IoCalls, StartingUp, Wiring, FindingMonitor, FindingSensor, FindingFan,
           Leaving
    <2>2. \A i \in 1..Len(Line("io")) : Line("io")[i] \in DutyOps
        <3> SUFFICES ASSUME NEW i \in 1..Len(Line("io"))
                     PROVE  Line("io")[i] \in DutyOps
            OBVIOUS
        <3>1. Line("io")[i] \in Jobs
            BY <1>3, IoLineIsSeq, ElementOfSeq
        <3> QED
            BY <1>4, <2>1, <3>1, Kinds DEF IInv, IoLine, Jobs
    <2>3. \A i \in 1..Len(Line("io"))' : Line("io")'[i] \in DutyOps
        <3>1. CASE queue'["io"] = queue["io"]
            <4>1. Line("io")' = Line("io")
                BY <1>1, <1>10, <3>1 DEF Line
            <4> QED
                BY <2>2, <4>1
        <3>2. CASE \E op \in DutyOps : queue'["io"] = Append(queue["io"], op)
            <4>1. PICK op \in DutyOps : queue'["io"] = Append(queue["io"], op)
                BY <3>2
            <4>2. /\ doing["io"] \in Ops /\ batch["io"] \in Seq(Jobs) /\ queue["io"] \in Seq(Jobs)
                  /\ op \in Jobs /\ Line("io") \in Seq(Jobs)
                BY <1>3, BothWorkers, IoLineIsSeq DEF Phases, Jobs
            <4>3. LineOf(doing["io"], batch["io"], Append(queue["io"], op))
                    = Append(LineOf(doing["io"], batch["io"], queue["io"]), op)
                BY <4>2, LineOfPost
            <4>4. Line("io")' = Append(Line("io"), op)
                BY <1>1, <1>10, <4>1, <4>3 DEF Line
            <4> QED
                BY <2>2, <4>2, <4>4, AppendedLine
        <3> QED
            BY <1>9, <3>1, <3>2
    <2> QED
        BY <1>1, <1>2, <2>3, Kinds DEF IoLine
<1>15. Tests'
    BY <1>1, <1>4 DEF IInv, Tests
<1>16. Handlers'
    BY <1>1, <1>10, <1>11 DEF IInv, Handlers, TaskNames, TaskWorker
<1>17. Present'
    BY <1>1, <1>11 DEF IInv, Present
<1>18. IoRests'
    BY <1>1, <1>5 DEF IoRests, Past, Leaving, Closing
<1>19. Reports'
    <2>1. ~Past("enterStopped", Leaving \ {"enterStopped"})
        BY <1>5 DEF Past, Leaving
    <2> QED
        BY <1>1, <1>5, <1>7, <1>11, <2>1 DEF Reports, FaultShown
<1>20. Faults'
    BY <1>1, <1>2 DEF Faults, ObjectOf
<1> QED
    BY <1>10, <1>12, <1>13, <1>14, <1>15, <1>16, <1>17, <1>18, <1>19, <1>20 DEF IInv

-----------------------------------------------------------------------------
(* The theorems about Spec.                                                  *)

LEMMA InitInv == Init => IInv
<1> SUFFICES ASSUME Init PROVE IInv
    OBVIOUS
<1>1. TypeOK
    <2>1. LC!TypeOK
        BY DEF Init, LC!Init, LC!TypeOK, LC!SystemStates
    <2>2. /\ main \in LocalLabels /\ fanWrite \in Outcomes
          /\ answer \in [{"main", "service"} -> Outcomes \union {"none"}]
        BY DEF Init, LocalLabels, Outcomes
    <2>3. /\ queue \in [Workers -> Seq(WorkerOps)] /\ batch \in [Workers -> Seq(WorkerOps)]
          /\ checks \in Seq(DOMAIN CheckOf \union {"tempService"})
        BY EmptySeq DEF Init
    <2>4. /\ phase \in [Workers -> {"off", "loop", "batch", "periodic", "exited"}]
          /\ stopRequested \in [Workers -> BOOLEAN]
          /\ due \in [Workers -> SUBSET TaskNames]
          /\ doing \in [Workers -> WorkerOps \union {"none"}]
        BY DEF Init
    <2>5. waiting \in BOOLEAN /\ hadFan \in BOOLEAN
        BY DEF Init
    <2>6. uiTests \in 0..MaxUiTests
        BY BoundsAssumption DEF Init
    <2> QED
        BY <2>1, <2>2, <2>3, <2>4, <2>5, <2>6 DEF Init, TypeOK
<1>2. Phases
    BY EmptySeq DEF Init, Phases, TaskNames, TaskWorker
<1>3. Line("service") = <<>> /\ Line("io") = <<>>
    <2>1. doing["service"] = "none" /\ doing["io"] = "none" /\ batch["service"] = <<>>
          /\ batch["io"] = <<>> /\ queue["service"] = <<>> /\ queue["io"] = <<>>
        BY DEF Init, Workers
    <2>2. LineOf("none", <<>>, <<>>) = <<>>
        BY EmptySeq, ConcatEmptySeq DEF LineOf, Current, NoJob
    <2> QED
        BY <2>1, <2>2 DEF Line
<1>4. ServiceLine /\ IoLine
    BY <1>3 DEF Init, ServiceLine, IoLine, Unanswered
<1>5. Tests
    BY DEF Init, Tests
<1>6. \A call, labels : Past(call, labels) <=> "start" \in labels
    BY DEF Init, Past
<1>7. Handlers
    BY DEF Init, Handlers, InHand, Workers, TaskWorker, Off, Quiet, Leaving, Closing, Ended
<1>8. Present
    BY <1>6 DEF Init, Present, Leaving, Closing, Ended
<1>9. IoRests
    BY <1>6 DEF Init, IoRests, Closing, Ended
<1>10. Reports
    BY <1>6 DEF Init, LC!Init, Reports, FaultShown, LC!hasComponentState, LC!Components, Leaving,
       Closing, Ended
<1>11. Faults
    BY DEF Init, Faults, StartingUp, Wiring, FindingMonitor, FindingSensor, FindingFan
<1> QED
    BY <1>1, <1>2, <1>4, <1>5, <1>7, <1>8, <1>9, <1>10, <1>11 DEF IInv

LEMMA NextKeeps == IInv /\ [Next]_vars => IInv'
<1> SUFFICES ASSUME IInv, [Next]_vars PROVE IInv'
    OBVIOUS
<1>1. CASE MainStep \/ RequestSelfTest \/ Quit
    BY <1>1, CallKeeps, ReturnKeeps, MainLocalKeeps DEF MainStep, MainLocal
<1>2. CASE IoStep
    <2>1. "io" \in Workers
        BY DEF Workers
    <2> QED
        BY <1>2, <2>1, WorkerLoopKeeps, FinishIoKeeps DEF IoStep
<1>3. CASE ServiceStep
    <2>1. "service" \in Workers
        BY DEF Workers
    <2> QED
        BY <1>3, <2>1, WorkerLoopKeeps, ClosuresKeep, PowerOnKeeps, TickKeeps, BeginKeeps,
           ChecksKeep, CheckAsksKeeps, EndTestKeeps DEF ServiceStep
<1>4. CASE UNCHANGED vars
    <2>1. UNCHANGED <<mainVars, workerVars, deviceVars, testVars, lifeVars>>
        BY <1>4 DEF vars
    <2>2. UNCHANGED <<main, waiting, uiTests, phase, stopRequested, queue, batch, due, doing,
                      answer, alive, hadFan, tasks, temp, sample, duty, fanWrite, stage, checks,
                      verdict, systemState, componentStates>>
        BY <2>1 DEF mainVars, workerVars, deviceVars, testVars, lifeVars
    <2>3. /\ \A call, labels : Past(call, labels)' <=> Past(call, labels)
          /\ Unanswered' <=> Unanswered
          /\ \A w : Line(w)' = Line(w)
          /\ \A t : InHand(t)' <=> InHand(t)
        BY <2>2 DEF Past, Unanswered, Line, InHand
    <2>4. TypeOK' /\ Phases' /\ ServiceLine' /\ IoLine' /\ Tests'
        BY <2>2, <2>3 DEF IInv, TypeOK, LC!TypeOK, Phases, ServiceLine, IoLine, Tests, SelfTest
    <2>5. Handlers' /\ Present' /\ IoRests'
        BY <2>2, <2>3 DEF IInv, Handlers, Present, IoRests
    <2>6. Reports' /\ Faults'
        BY <2>2, <2>3 DEF IInv, Reports, Faults, FaultShown
    <2> QED
        BY <2>4, <2>5, <2>6 DEF IInv
<1> QED
    BY <1>1, <1>2, <1>3, <1>4 DEF Next, Done

\* The inductive invariant: who is in which line, who waits, what is in hand and
\* what of it exists, and what was reported, at every label of main.
THEOREM AppInvariant == Spec => []IInv
BY InitInv, NextKeeps, PTL DEF Spec

\* Every variable of startup and shutdown keeps its type.
THEOREM TypeCorrect == Spec => []TypeOK
<1>1. IInv => TypeOK
    BY DEF IInv
<1> QED
    BY <1>1, AppInvariant, PTL

\* If shutdown found a fan then no worker is inside of a closure or a handler
\* whose object DeviceRegistry::clear() has destroyed: stopFan() waits behind
\* everything, and its tasks were unregistered before.
THEOREM NoUseAfterDestroyWithFanHolds == Spec => []NoUseAfterDestroyWithFan
<1>1. IInv => NoUseAfterDestroyWithFan
    <2> SUFFICES ASSUME IInv, hadFan
                 PROVE  Uses(doing["service"]) \subseteq alive /\ Uses(doing["io"]) \subseteq alive
        BY DEF NoUseAfterDestroyWithFan, Workers
    <2>1. WorkerTypes /\ Phases /\ ServiceLine /\ IoLine /\ "io" \in Workers
        BY TypesOfWorkers DEF IInv, Workers
    <2>2. main \in {"fanStop"} \union Closing /\ main \notin ServiceCalls /\ main \in Quiet
        BY DEF IInv, Present, Closing, Ended, ServiceCalls, ReportOf, Quiet, Leaving
    <2>3. Uses("none") = {}
        BY DEF Uses, DutyOps
    <2>4. doing["service"] = "none" /\ stage = "none"
        <3>1. doing["service"] \in {"none", "tempTick"} /\ ~SelfTest
            BY <2>1, <2>2, ServiceIdle
        <3>2. doing["service"] # "tempTick"
            BY <2>2 DEF IInv, Handlers, InHand, Past, TaskWorker
        <3> QED
            BY <3>1, <3>2 DEF IInv, Tests
    <2>5. CASE Past("fanStop", Closing)
        BY <2>3, <2>4, <2>5 DEF IInv, IoRests
    <2>6. CASE ~Past("fanStop", Closing)
        <3>1. main = "fanStop" /\ "fan" \in alive
            BY <2>2, <2>6 DEF Past, IInv, Present
        <3>2. CASE doing["io"] \in NoJob
            <4>1. doing["io"] \in {"none", "temperatureSample", "systemSample"}
                BY <2>1, <3>2 DEF Phases, NoJob, TaskNames, TaskWorker
            <4>2. /\ doing["io"] = "temperatureSample" => "sampler" \in alive
                  /\ doing["io"] = "systemSample" => "monitor" \in alive
                BY <3>1 DEF IInv, Handlers, InHand, TaskWorker, Ended
            <4>3. Uses("temperatureSample") = {"sampler"} /\ Uses("systemSample") = {"monitor"}
                BY DEF Uses, DutyOps
            <4> QED
                BY <2>3, <2>4, <4>1, <4>2, <4>3
        <3>3. CASE doing["io"] \notin NoJob
            <4>1. doing["io"] = "fanStop" \/ doing["io"] \in DutyOps
                BY <2>1, <2>4, <3>1, <3>3, IoDoes
            <4>2. Uses(doing["io"]) = {"fan"}
                BY <4>1 DEF Uses, DutyOps
            <4> QED
                BY <2>3, <2>4, <3>1, <4>2
        <3> QED
            BY <3>2, <3>3
    <2> QED
        BY <2>5, <2>6
<1> QED
    BY <1>1, AppInvariant, PTL

\* Whatever ticks, TempService::stop() and stopFan() posted, and in whatever
\* order the workers ran it: the program leaves the fan off, if the write worked.
THEOREM FanOffAtExitHolds == Spec => []FanOffAtExit
<1>1. IInv => FanOffAtExit
    BY DEF IInv, IoRests, FanOffAtExit, Past, Closing, Ended
<1> QED
    BY <1>1, AppInvariant, PTL

\* No posted closure is left behind in a queue or a batch when main() returns.
THEOREM NothingLeftUnrunHolds == Spec => []NothingLeftUnrun
<1>1. IInv => NothingLeftUnrun
    <2> SUFFICES ASSUME IInv, main = "done"
                 PROVE  /\ queue["service"] = <<>> /\ batch["service"] = <<>>
                        /\ queue["io"] = <<>> /\ batch["io"] = <<>>
        BY DEF NothingLeftUnrun, Workers
    <2>1. WorkerTypes /\ Phases /\ ServiceLine /\ "io" \in Workers
        BY TypesOfWorkers DEF IInv, Workers
    <2>2. main \notin ServiceCalls
        BY DEF ServiceCalls, ReportOf
    <2>3. Line("io") = <<>>
        BY DEF IInv, IoRests, Past, Ended
    <2>4. queue["io"] = <<>> /\ batch["io"] = <<>>
        BY <2>1, <2>3, BothWorkers, LineOfNothing DEF Line, Phases
    <2> QED
        BY <2>1, <2>2, <2>4, ServiceIdle
<1> QED
    BY <1>1, AppInvariant, PTL

\* After enterStopped() nothing reports any more: the last tick is over.
THEOREM StoppedForGoodHolds == Spec => []StoppedForGood
<1>1. IInv => StoppedForGood
    BY DEF IInv, Reports, StoppedForGood, Past, Leaving, Closing, Ended
<1> QED
    BY <1>1, AppInvariant, PTL

\* A fan or a sensor that is missing is found out by the first self-test, and
\* no later report of another component hides it.
THEOREM MissingDeviceMeansAlarmHolds == Spec => []MissingDeviceMeansAlarm
<1>1. IInv => MissingDeviceMeansAlarm
    <2> SUFFICES ASSUME IInv, ~({"fan", "sampler"} \subseteq alive),
                        main \in {"startServices", "up", "uiSelfTest", "offTick", "offSampler",
                                  "offMonitor", "stopServices", "clearServices"}
                 PROVE  systemState = "alarm"
        BY DEF MissingDeviceMeansAlarm
    <2>1. PICK c \in {"fan", "temperatureSensor"} : ObjectOf[c] \notin alive
        BY DEF ObjectOf
    <2>2. main \notin StartingUp \union Ended \union {"selfTest"}
        BY DEF StartingUp, Wiring, FindingMonitor, FindingSensor, FindingFan, Ended
    <2>3. componentStates[c] = "fault"
        BY <2>1, <2>2 DEF IInv, Faults
    <2>4. componentStates["runtime"] # "stopped" /\ FaultShown
        BY DEF IInv, Reports, Past, Leaving, Closing, Ended
    <2> QED
        BY <2>3, <2>4 DEF FaultShown, LC!hasComponentState, LC!Components
<1> QED
    BY <1>1, AppInvariant, PTL

-----------------------------------------------------------------------------
(* Nobody waits in vain.                                                     *)

\* Whoever waits for io is at the end of its line.
Awaited ==
    /\ Unanswered /\ main \in IoCalls =>
         Line("io") # <<>> /\ Line("io")[Len(Line("io"))] = main
    /\ stage = "asking" /\ answer["service"] = "none" =>
         Line("io") # <<>> /\ Line("io")[Len(Line("io"))] \in CheckOps

\* The workers are up from the first call until Runtime::stop.
Working ==
    \A w \in Workers :
        /\ phase[w] = "off" => main = "start"
        /\ phase[w] = "exited" => stopRequested[w]
        /\ stopRequested[w] => main \in Ended \ {"stopService"}

\* A worker that takes what is in its line, and was not told to leave it.
Serves(w) == phase[w] \in {"loop", "batch", "periodic"} /\ ~stopRequested[w]

\* The closure that main waits for, and the check that a self-test waits for, is
\* in the line of a worker that serves; and the io worker waits for nobody.
NobodyWaitsInVain ==
    /\ Unanswered =>
         \E w \in Workers : /\ Serves(w)
                            /\ \E i \in 1..Len(Line(w)) : Line(w)[i] = main
    /\ stage = "asking" /\ answer["service"] = "none" =>
         Serves("io") /\ \E i \in 1..Len(Line("io")) : Line("io")[i] \in CheckOps

\* Whoever is last stays last, also when the first leaves and is another.
LEMMA LastOfAppend ==
    ASSUME NEW line \in Seq(Jobs), NEW x \in Jobs
    PROVE  Append(line, x) # <<>> /\ Append(line, x)[Len(Append(line, x))] = x
BY AppendProperties

LEMMA LastOfTail ==
    ASSUME NEW line \in Seq(Jobs), line # <<>>, line[Len(line)] # Head(line)
    PROVE  Tail(line) # <<>> /\ Tail(line)[Len(Tail(line))] = line[Len(line)]
<1> DEFINE n == Len(line)
<1>1. /\ Len(Tail(line)) = n - 1 /\ n \in Nat
      /\ \A i \in 1..(n - 1) : Tail(line)[i] = line[i + 1]
    BY TailOfLine
<1>2. n # 0 /\ Head(line) = line[1] /\ Len(<<>>) = 0
    BY EmptySeq, HeadTailProperties
<1> HIDE DEF n
<1>3. n # 1
    BY <1>2 DEF n
<1>4. n - 1 \in 1..(n - 1) /\ (n - 1) + 1 = n /\ n - 1 # 0
    BY <1>1, <1>2, <1>3
<1>5. Tail(line) # <<>>
    BY <1>1, <1>2, <1>4, Zenon
<1>6. Tail(line)[n - 1] = line[n]
    BY <1>1, <1>4
<1> QED
    BY <1>1, <1>5, <1>6 DEF n

\* While main does not wait for the service worker no self-test waits for io.
LEMMA OneWaitsForIo ==
    ASSUME IInv, ~Unanswered \/ main \notin ServiceCalls
    PROVE  stage = "none"
BY TypesOfWorkers, ServiceIdle DEF IInv, Tests

LEMMA CallAwaits ==
    ASSUME IInv, Call
    PROVE  Awaited'
<1>1. /\ main \in CallOps /\ ~waiting /\ main \in Jobs /\ main' = main /\ stage' = stage
      /\ UNCHANGED <<batch, doing>>
    BY DEF Call, testVars, Jobs
<1>2. stage = "none"
    BY <1>1, OneWaitsForIo DEF Unanswered
<1>3. ASSUME main \in IoCalls
      PROVE  Line("io")' # <<>> /\ Line("io")'[Len(Line("io")')] = main
    <2>1. Post("io", main) /\ "io" \in Workers /\ WorkerTypes /\ Phases
        BY <1>3, TypesOfWorkers DEF Call, IInv, Workers
    <2>2. Line("io")' = Append(Line("io"), main) /\ Line("io") \in Seq(Jobs)
        BY <1>1, <2>1, PostMovesLine, IoLineIsSeq
    <2> QED
        BY <1>1, <2>2, LastOfAppend
<1> QED
    BY <1>1, <1>2, <1>3 DEF Awaited

LEMMA AskAwaits ==
    ASSUME IInv, CheckAsks
    PROVE  Awaited'
<1>1. /\ main \in ServiceCalls /\ checks # <<>> /\ Head(checks) # "tempService"
      /\ UNCHANGED <<main, batch, doing>> /\ Post("io", CheckOf[Head(checks)])
    BY WhileTesting DEF CheckAsks, mainVars
<1>2. CheckOf[Head(checks)] \in CheckOps
    <2>1. checks \in Seq(DOMAIN CheckOf \union {"tempService"})
        BY DEF IInv, TypeOK
    <2>2. Head(checks) \in DOMAIN CheckOf
        BY <1>1, <2>1, HeadTailProperties
    <2> QED
        BY <2>2 DEF CheckOps
<1>3. PICK x \in CheckOps : Post("io", x)
    BY <1>1, <1>2
<1>4. x \in Jobs /\ "io" \in Workers /\ WorkerTypes /\ Phases
    BY TypesOfWorkers DEF IInv, Jobs, Workers
<1>5. Line("io")' = Append(Line("io"), x) /\ Line("io") \in Seq(Jobs)
    BY <1>1, <1>3, <1>4, PostMovesLine, IoLineIsSeq
<1>6. Line("io")' # <<>> /\ Line("io")'[Len(Line("io")')] = x
    BY <1>4, <1>5, LastOfAppend
<1> QED
    BY <1>1, <1>6, Kinds DEF Awaited

\* A closure of io ends: who waited for it is answered, who waits for another
\* is still behind it.
LEMMA IoEndAwaits ==
    ASSUME IInv, Awaited, FinishIo \/ FinishDryRun
    PROVE  Awaited'
<1>1. /\ UNCHANGED <<main, waiting, stage, queue, tasks>>
      /\ doing["io"] # "none" /\ EndsDoing("io")
      /\ "io" \in Workers /\ WorkerTypes /\ Phases /\ IoLine
    BY TypesOfWorkers DEF FinishIo, FinishDryRun, mainVars, testVars, deviceVars, Workers, IInv
<1>2. /\ Line("io")' = LineOf("none", batch["io"], queue["io"])
      /\ doing["io"] \in NoJob => Line("io")' = Line("io")
    <2>1. /\ queue' \in [Workers -> Seq(WorkerOps)] /\ \A v \in Workers : queue'[v] \in Seq(Jobs)
          /\ queue'["io"] = queue["io"]
        BY <1>1 DEF WorkerTypes, Phases
    <2> QED
        BY <1>1, <2>1, EndsDoingFrame
<1>3. PICK o \in Outcomes :
        IF doing["io"] \in CallOps THEN Answer("main", o)
        ELSE IF doing["io"] \in CheckOps THEN Answer("service", o)
        ELSE UNCHANGED answer
    <2>1. CASE FinishIo
        BY <2>1 DEF FinishIo
    <2>2. CASE FinishDryRun
        <3>1. /\ "ok" \in Outcomes /\ doing["io"] \in CheckOps /\ doing["io"] \notin CallOps
              /\ Answer("service", "ok")
            BY <2>2, Kinds DEF FinishDryRun, CheckOps, CheckOf, Outcomes
        <3> QED
            BY <3>1
    <2> QED
        BY <2>1, <2>2
<1>4. /\ doing["io"] \in CallOps => answer'["main"] # "none"
      /\ doing["io"] \in CheckOps => answer'["service"] # "none"
      /\ doing["io"] \notin CallOps => answer'["main"] = answer["main"]
      /\ doing["io"] \notin CheckOps => answer'["service"] = answer["service"]
    BY <1>3, Kinds DEF Answer, IInv, TypeOK, Outcomes
<1>5. CASE doing["io"] \in NoJob
    <2>1. doing["io"] \notin CallOps \union CheckOps /\ Line("io")' = Line("io")
        BY <1>2, <1>5, Kinds DEF Jobs
    <2> QED
        BY <1>1, <1>4, <2>1 DEF Awaited, Unanswered
<1>6. CASE doing["io"] \notin NoJob
    <2>1. /\ doing["io"] \in IoCalls \union CheckOps \union DutyOps
          /\ Line("io") \in Seq(Jobs) /\ Line("io") # <<>> /\ Line("io")[1] = doing["io"]
          /\ Line("io")' = Tail(Line("io"))
          /\ doing["io"] \in IoCalls => Unanswered /\ main = doing["io"]
          /\ doing["io"] \in CheckOps => stage = "asking"
        BY <1>1, <1>2, <1>6, IoDoes
    <2>2. CASE doing["io"] \in IoCalls
        <3>1. stage = "none" /\ ~Unanswered'
            BY <1>4, <2>1, <2>2, OneWaitsForIo, Kinds DEF Unanswered
        <3> QED
            BY <1>1, <3>1 DEF Awaited
    <2>3. CASE doing["io"] \in CheckOps
        <3>1. main \notin IoCalls
            BY <2>1, <2>3, OneWaitsForIo, Kinds
        <3> QED
            BY <1>1, <1>4, <2>3, <3>1 DEF Awaited
    <2>4. CASE doing["io"] \in DutyOps
        <3>1. doing["io"] \notin CallOps \union CheckOps
            BY <2>4, Kinds
        <3>2. PICK line \in Seq(Jobs) : line = Line("io")
            BY <2>1
        <3>3. PICK rest : rest = Line("io")'
            OBVIOUS
        <3>4. line # <<>> /\ Head(line) = doing["io"] /\ rest = Tail(line)
            BY <2>1, <3>2, <3>3
        <3>5. line[Len(line)] # Head(line) => rest # <<>> /\ rest[Len(rest)] = line[Len(line)]
            BY <3>4, LastOfTail
        <3>6. main \in IoCalls => main \notin DutyOps
            BY Kinds
        <3> QED
            BY <1>1, <1>4, <2>4, <3>1, <3>2, <3>3, <3>4, <3>5, <3>6, Kinds DEF Awaited, Unanswered
    <2> QED
        BY <2>1, <2>2, <2>3, <2>4
<1> QED
    BY <1>5, <1>6

\* The other steps of the service worker leave nobody waiting who did not wait.
LEMMA ServiceAwaits ==
    ASSUME IInv, Awaited, ServiceStep, ~WorkerLoop("service"), ~CheckAsks
    PROVE  Awaited'
<1>1. main' = main
    BY DEF ServiceStep, ReportJob, PowerOn, PoweredOn, AddService, StartServices, StopServices,
       ClearServices, Tick, BeginSelfTest, CheckHere, CheckReturns, EndSelfTest, mainVars
<1>2. stage' = "asking" => stage = "asking"
    BY DEF ServiceStep, ReportJob, PowerOn, PoweredOn, AddService, StartServices, StopServices,
       ClearServices, Tick, BeginSelfTest, CheckHere, CheckReturns, EndSelfTest, testVars, Record
<1>3. CASE Tick
    <2>1. /\ main \notin IoCalls
          /\ stage = "none"
        <3>1. doing["service"] = "tempTick"
            BY <1>3 DEF Tick
        <3>2. main \notin StartingUp /\ main \notin Quiet
            BY <3>1 DEF IInv, Handlers, InHand, TaskWorker, Past
        <3>3. main \notin IoCalls
            BY <3>2 DEF IoCalls, StartingUp, Wiring, FindingMonitor, FindingSensor, FindingFan,
               Quiet, Leaving
        <3> QED
            BY <3>1, <3>3 DEF IInv, Tests, SelfTest
    <2> QED
        BY <1>1, <1>2, <2>1 DEF Awaited
<1>4. CASE ~Tick
    <2>1. doing["service"] \notin NoJob
        <3>1. CASE CheckReturns
            BY <3>1, WhileTesting DEF CheckReturns, IInv, Tests
        <3>2. CASE ~CheckReturns
            BY <1>4, <3>2 DEF ServiceStep, ReportJob, PowerOn, PoweredOn, AddService,
               StartServices, StopServices, ClearServices, BeginSelfTest, CheckHere, EndSelfTest,
               SelfTest, NoJob, TaskNames, TaskWorker, ReportOf
        <3> QED
            BY <3>1, <3>2
    <2>2. main \in ServiceCalls /\ main \notin IoCalls
        BY <2>1, WhileServing, Kinds
    <2>3. stage' # "asking"
        <3>1. CASE BeginSelfTest \/ CheckHere \/ CheckReturns \/ EndSelfTest
            BY <3>1 DEF BeginSelfTest, CheckHere, CheckReturns, EndSelfTest, Record, testVars
        <3>2. CASE ReportJob \/ PowerOn \/ PoweredOn \/ AddService \/ StartServices
                    \/ StopServices \/ ClearServices
            <4>1. ~SelfTest /\ stage' = stage
                BY <3>2 DEF ReportJob, PowerOn, PoweredOn, AddService, StartServices,
                   StopServices, ClearServices, SelfTest, ReportOf, testVars
            <4> QED
                BY <4>1 DEF IInv, Tests
        <3> QED
            BY <1>4, <3>1, <3>2 DEF ServiceStep
    <2> QED
        BY <1>1, <2>2, <2>3 DEF Awaited
<1> QED
    BY <1>3, <1>4

LEMMA AwaitedKeeps ==
    ASSUME IInv, Awaited, [Next]_vars
    PROVE  Awaited'
<1>1. CASE Call
    BY <1>1, CallAwaits
<1>2. CASE Return
    <2>1. ~Unanswered /\ ~waiting' /\ stage' = stage
        BY <1>2 DEF Return, Unanswered, testVars
    <2> QED
        BY <2>1, OneWaitsForIo DEF Awaited, Unanswered
<1>3. CASE MainLocal
    <2>1. main \in LocalLabels /\ waiting' = waiting /\ stage' = stage
        BY <1>3, MainMoves
    <2>2. ~waiting
        BY <2>1, LocalLabelsAreNoCalls DEF IInv, Tests
    <2> QED
        BY <2>1, <2>2, OneWaitsForIo DEF Awaited, Unanswered
<1>4. ASSUME NEW w \in Workers, WorkerLoop(w) PROVE Awaited'
    <2>1. WorkerTypes /\ Phases /\ tasks \subseteq TaskNames /\ "io" \in Workers
        BY TypesOfWorkers DEF IInv, TypeOK, Workers
    <2>2. UNCHANGED <<answer, main, waiting, stage>> /\ Line("io")' = Line("io")
        BY <1>4, <2>1, WorkerLoopFrame DEF mainVars, testVars
    <2> QED
        BY <2>2 DEF Awaited, Unanswered
<1>5. CASE FinishIo \/ FinishDryRun
    BY <1>5, IoEndAwaits
<1>6. CASE ServiceStep /\ ~WorkerLoop("service")
    BY <1>6, AskAwaits, ServiceAwaits
<1>7. CASE UNCHANGED vars
    <2>1. UNCHANGED <<main, waiting, answer, doing, batch, queue, stage>>
        BY <1>7 DEF vars, mainVars, workerVars, testVars
    <2> QED
        BY <2>1 DEF Awaited, Unanswered, Line
<1>8. "service" \in Workers /\ "io" \in Workers
    BY DEF Workers
<1> QED
    BY <1>1, <1>2, <1>3, <1>4, <1>5, <1>6, <1>7, <1>8
    DEF Next, MainStep, MainLocal, IoStep, Done

\* A worker leaves its loop only when it was told to.
LEMMA WorkersStay ==
    ASSUME TypeOK, IoStep \/ ServiceStep
    PROVE  /\ main' = main /\ stopRequested' = stopRequested
           /\ \A w \in Workers :
                /\ phase'[w] = "off" => phase[w] = "off"
                /\ phase'[w] = "exited" => phase[w] = "exited" \/ stopRequested[w]
<1> DEFINE Stay == /\ main' = main /\ stopRequested' = stopRequested
                   /\ \A w \in Workers :
                        /\ phase'[w] = "off" => phase[w] = "off"
                        /\ phase'[w] = "exited" => phase[w] = "exited" \/ stopRequested[w]
<1>1. phase \in [Workers -> {"off", "loop", "batch", "periodic", "exited"}]
    BY DEF TypeOK
<1>2. ASSUME NEW w \in Workers, WorkerLoop(w) PROVE Stay
    <2>1. main' = main /\ stopRequested' = stopRequested
        BY <1>2 DEF WorkerLoop, CheckStop, Drain, BeginJob, Scan, BeginHandler, mainVars
    <2>2. \/ phase' = phase
          \/ phase' = [phase EXCEPT ![w] = "exited"] /\ stopRequested[w]
          \/ \E p \in {"loop", "batch", "periodic"} : phase' = [phase EXCEPT ![w] = p]
        BY <1>2 DEF WorkerLoop, CheckStop, Drain, BeginJob, Scan, BeginHandler
    <2> QED
        BY <1>1, <2>1, <2>2
<1>3. ASSUME NEW w \in Workers, EndsDoing(w), main' = main PROVE Stay
    BY <1>1, <1>3 DEF EndsDoing
<1>4. CASE FinishIo \/ FinishDryRun
    BY <1>3, <1>4 DEF FinishIo, FinishDryRun, mainVars, Workers
<1>5. CASE ReportJob \/ PoweredOn \/ AddService \/ StartServices \/ StopServices
           \/ ClearServices \/ Tick \/ EndSelfTest
    BY <1>3, <1>5 DEF ReportJob, PoweredOn, AddService, StartServices, StopServices,
       ClearServices, Tick, EndSelfTest, mainVars, Workers
<1>6. CASE PowerOn \/ CheckHere \/ CheckAsks \/ CheckReturns
    BY <1>6 DEF PowerOn, CheckHere, CheckAsks, CheckReturns, mainVars, workerVars
<1>7. CASE BeginSelfTest
    <2>1. main' = main /\ (EndsDoing("service") \/ UNCHANGED <<phase, stopRequested>>)
        BY <1>7 DEF BeginSelfTest, mainVars
    <2> QED
        BY <1>3, <2>1 DEF Workers
<1>8. "service" \in Workers /\ "io" \in Workers
    BY DEF Workers
<1> QED
    BY <1>2, <1>4, <1>5, <1>6, <1>7, <1>8 DEF IoStep, ServiceStep

LEMMA WorkingKeeps ==
    ASSUME IInv, Working, [Next]_vars
    PROVE  Working'
<1> USE DEF Working, Ended
<1>1. CASE Call
    BY <1>1 DEF Call
<1>2. CASE Return
    <2>1. main \in CallOps /\ UNCHANGED <<phase, stopRequested>>
        BY <1>2 DEF Return, IInv, Tests, workerVars
    <2>2. main \notin Ended \union {"start"}
        BY <2>1 DEF CallOps, ServiceCalls, IoCalls, ReportOf
    <2> QED
        BY <2>1, <2>2
<1>3. CASE MainLocal
    <2>1. /\ Moves
          /\ main # "start" => UNCHANGED phase
          /\ main = "start" => phase' = [w \in Workers |-> "loop"]
        BY <1>3, MainMoves
    <2>2. CASE RuntimeStop
        <3>1. PICK w \in Workers :
                \/ /\ stopRequested' = [stopRequested EXCEPT ![w] = TRUE]
                   /\ main' \in {"joinService", "joinIo"}
                \/ /\ UNCHANGED stopRequested
                   /\ main' \in {"stopIo", "done"}
            BY <2>2 DEF RuntimeStop, GoTo
        <3>2. main # "start" /\ stopRequested \in [Workers -> BOOLEAN] /\ phase' = phase
            BY <2>2 DEF RuntimeStop, IInv, TypeOK
        <3> QED
            BY <3>1, <3>2
    <2>3. CASE ~RuntimeStop
        <3>1. stopRequested' = stopRequested
            BY <1>3, <2>3 DEF MainLocal, RuntimeStart, DevicesStartup, FindDevice, DropDevice,
               RegisterTask, UnregisterAll, UnregisterTask, NewMonitor, InitializeServices,
               StopFan, ClearDevices, RequestSelfTest, Quit, workerVars
        <3>2. /\ main \in {"joinService", "stopIo", "joinIo", "done"} =>
                    main' \in {"joinService", "stopIo", "joinIo", "done"}
              /\ main # "start" => main' # "start"
            BY <2>1 DEF Moves
        <3>3. CASE main = "start"
            BY <2>1, <3>1, <3>3
        <3>4. CASE main # "start"
            BY <2>1, <3>1, <3>2, <3>4
        <3> QED
            BY <3>3, <3>4
    <2> QED
        BY <2>2, <2>3
<1>4. CASE IoStep \/ ServiceStep
    BY <1>4, WorkersStay DEF IInv
<1>5. CASE UNCHANGED vars
    BY <1>5 DEF vars, mainVars, workerVars
<1> QED
    BY <1>1, <1>2, <1>3, <1>4, <1>5 DEF Next, MainStep, MainLocal, Done

\* What a thread waits for is never left aside, whatever the order of posts and
\* whenever shutdown begins: with the lines first in, first out, and io waiting
\* for nobody, no two threads can wait for each other (runServiceTaskAndWait,
\* runIoTaskAndWait).
THEOREM NobodyWaitsInVainHolds == Spec => []NobodyWaitsInVain
<1>1. Init => Awaited /\ Working
    BY DEF Init, Awaited, Working, Unanswered
<1>2. IInv /\ Awaited /\ Working /\ [Next]_vars => Awaited' /\ Working'
    BY AwaitedKeeps, WorkingKeeps
<1>3. IInv /\ Awaited /\ Working => NobodyWaitsInVain
    <2> SUFFICES ASSUME IInv, Awaited, Working PROVE NobodyWaitsInVain
        OBVIOUS
    <2>1. ASSUME main \in CallOps, NEW w \in Workers PROVE Serves(w)
        <3>1. main \notin Ended \union {"start"}
            BY <2>1 DEF CallOps, ServiceCalls, IoCalls, ReportOf, Ended
        <3>2. phase[w] \in {"off", "loop", "batch", "periodic", "exited"}
            BY DEF IInv, TypeOK
        <3> QED
            BY <3>1, <3>2 DEF Working, Serves
    <2>2. "io" \in Workers /\ "service" \in Workers /\ Line("io") \in Seq(Jobs)
        BY IoLineIsSeq, TypesOfWorkers DEF IInv, Workers
    <2>3. \A line \in Seq(Jobs) : line # <<>> => Len(line) \in 1..Len(line)
        BY EmptySeq
    <2>4. ASSUME Unanswered
          PROVE  \E w \in Workers : /\ Serves(w)
                                    /\ \E i \in 1..Len(Line(w)) : Line(w)[i] = main
        <3>1. main \in CallOps
            BY <2>4 DEF Unanswered, IInv, Tests
        <3>2. CASE main \in ServiceCalls
            <4>1. Line("service") = <<main>>
                BY <2>4, <3>2 DEF IInv, ServiceLine
            <4>2. 1 \in 1..Len(<<main>>) /\ <<main>>[1] = main
                OBVIOUS
            <4> QED
                BY <2>1, <2>2, <3>1, <4>1, <4>2
        <3>3. CASE main \in IoCalls
            <4>1. Line("io") # <<>> /\ Line("io")[Len(Line("io"))] = main
                BY <2>4, <3>3 DEF Awaited
            <4>2. Len(Line("io")) \in 1..Len(Line("io"))
                BY <2>2, <2>3, <4>1
            <4> QED
                BY <2>1, <2>2, <3>1, <4>1, <4>2
        <3> QED
            BY <3>1, <3>2, <3>3, Kinds
    <2>5. ASSUME stage = "asking", answer["service"] = "none"
          PROVE  Serves("io") /\ \E i \in 1..Len(Line("io")) : Line("io")[i] \in CheckOps
        <3>1. doing["service"] \notin NoJob
            BY <2>5 DEF IInv, Tests, SelfTest, NoJob, TaskNames, TaskWorker
        <3>2. main \in CallOps
            BY <3>1, WhileServing, Kinds
        <3>3. Line("io") # <<>> /\ Line("io")[Len(Line("io"))] \in CheckOps
            BY <2>5 DEF Awaited
        <3>4. Len(Line("io")) \in 1..Len(Line("io"))
            BY <2>2, <2>3, <3>3
        <3> QED
            BY <2>1, <2>2, <3>2, <3>3, <3>4
    <2> QED
        BY <2>4, <2>5 DEF NobodyWaitsInVain
<1> QED
    BY <1>1, <1>2, <1>3, AppInvariant, PTL DEF Spec
=============================================================================
