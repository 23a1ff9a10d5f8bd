----------------------------- MODULE Lifecycle ------------------------------
(***************************************************************************)
(* service/lifecycle: the component states reported so far and the system  *)
(* state derived from them.  Every operation holds the one mutex from its   *)
(* first to its last access, so each is one action.  enterSelftest(),       *)
(* enterRunning(), enterAlarm(), enterDegraded() and enterStopped() are     *)
(* single reports, enterStandby() is two: all of them are Report.           *)
(***************************************************************************)
EXTENDS SystemStateMachine

CONSTANT Devices    \* the components without a rule of their own: fan, alarm, ...

Components == {"runtime", "selftest", "operation"} \union Devices

ASSUME DevicesAssumption == Devices \intersect {"runtime", "selftest", "operation"} = {}

ComponentStates ==
    {"unknown", "starting", "ready", "running", "degraded", "fault", "stopped"}

VARIABLES systemState,      \* stateMachine_.state()
          componentStates   \* the map; "absent" when it has no such key

vars == <<systemState, componentStates>>

TypeOK ==
    /\ systemState \in SystemStates
    /\ componentStates \in [Components -> ComponentStates \union {"absent"}]

Init ==
    /\ systemState = "booting"
    /\ componentStates = [c \in Components |-> "absent"]

-----------------------------------------------------------------------------
hasComponentState(cs, v) == \E c \in Components : cs[c] = v

isRuntimeStopped(cs) == cs["runtime"] = "stopped"
selftestReady(cs)    == cs["selftest"] = "ready"
selftestActive(cs)   == cs["selftest"] \in {"starting", "running"}
operationActive(cs)  == cs["operation"] = "running"

NoEvent == "noEvent"

\* The runtime stopping wins over a fault, a fault over a degraded component.
resolveStopOrFaultEvent(cs) ==
    IF isRuntimeStopped(cs)                    THEN "stopRequested"
    ELSE IF hasComponentState(cs, "fault")     THEN "alarmRaised"
    ELSE IF hasComponentState(cs, "degraded")  THEN "degradeRequested"
    ELSE NoEvent

\* What is asked for when nothing stops the system and nothing is faulty.
resolveProgressEvent(s, cs) ==
    CASE s = "selftest" /\ selftestReady(cs)       -> "selftestPassed"
      [] s = "standby"  /\ selftestActive(cs)      -> "selftestStart"
      [] s = "standby"  /\ ~selftestActive(cs) /\ operationActive(cs) -> "startRequested"
      [] s = "running"  /\ ~operationActive(cs)    -> "faultRecovered"
      [] s \in FaultStates /\ operationActive(cs)  -> "startRequested"
      [] s \in FaultStates /\ ~operationActive(cs) /\ selftestReady(cs) -> "faultRecovered"
      [] OTHER                                     -> NoEvent

wakesUp(cs) ==
    \/ resolveStopOrFaultEvent(cs) # NoEvent
    \/ selftestActive(cs) \/ selftestReady(cs) \/ operationActive(cs)

resolveSystemEvent(s, cs) ==
    CASE s = "stopped" /\ ~isRuntimeStopped(cs) -> "powerOn"
      [] s = "stopped" /\ isRuntimeStopped(cs)  -> NoEvent
      [] s = "booting" /\ isRuntimeStopped(cs)  -> "stopRequested"
      [] s = "booting" /\ ~isRuntimeStopped(cs) ->
            IF wakesUp(cs) THEN "selftestStart" ELSE NoEvent
      [] OTHER -> IF resolveStopOrFaultEvent(cs) # NoEvent
                  THEN resolveStopOrFaultEvent(cs)
                  ELSE resolveProgressEvent(s, cs)

evaluateOnceKeepsRunning(s, cs) ==     \* mutant: running is left only for a fault
    LET e == resolveSystemEvent(s, cs)
    IN  IF e = NoEvent \/ (e = "faultRecovered" /\ s = "running") THEN s
        ELSE applyEvent(s, e)

evaluateOnceUntested(s, cs) ==         \* mutant: a fault recovers without a self-test
    LET e == resolveSystemEvent(s, cs)
    IN  IF e # NoEvent THEN applyEvent(s, e)
        ELSE IF s \in FaultStates THEN "standby" ELSE s

\* One turn of the loop: leaving the loop early is a turn that changes nothing.
evaluateOnce(s, cs) ==
    LET e == resolveSystemEvent(s, cs)
    IN  IF e = NoEvent THEN s ELSE applyEvent(s, e)

evaluateTwice(s, cs) == evaluateOnce(evaluateOnce(s, cs), cs)      \* mutant

evaluateSystemState(s, cs) ==      \* kMaxEvaluateCount = 3
    LET turn == [t \in SystemStates |-> evaluateOnce(t, cs)]
    IN  turn[turn[turn[s]]]

-----------------------------------------------------------------------------
enterStartup ==      \* the event alone: the reported states are kept
    /\ systemState' = applyEvent(systemState, "powerOn")
    /\ UNCHANGED componentStates

reportComponentState(c, v) ==      \* the same state again is not evaluated
    /\ componentStates[c] # v
    /\ componentStates' = [componentStates EXCEPT ![c] = v]
    /\ systemState' = evaluateSystemState(systemState, componentStates')

Next ==
    \/ enterStartup
    \/ \E c \in Components, v \in ComponentStates : reportComponentState(c, v)

Spec == Init /\ [][Next]_vars

-----------------------------------------------------------------------------
\* The two tables agree: whatever the reports are, the state machine never
\* rejects the event that the lifecycle derived from them.
EventsAreAccepted ==
    LET e == resolveSystemEvent(systemState, componentStates)
    IN  e # NoEvent => Accepts(systemState, e)

\* While the runtime is up, a component in fault puts the system in alarm and
\* a degraded one (without a fault) in degraded; and the system is stopped if
\* its runtime is.  Only a power-on that nothing was reported after is exempt.
FaultsAreShown ==
    systemState # "booting" =>
        /\ systemState = "stopped" <=> isRuntimeStopped(componentStates)
        /\ systemState # "stopped" =>
            /\ hasComponentState(componentStates, "fault") => systemState = "alarm"
            /\ /\ ~hasComponentState(componentStates, "fault")
               /\ hasComponentState(componentStates, "degraded")
               => systemState = "degraded"

\* Without faults the shown mode is the one the reports explain: "running" only
\* while the operation runs, "standby" never over a self-test in progress.
ModeIsExplained ==
    /\ systemState = "running" => operationActive(componentStates)
    /\ systemState = "standby" => ~selftestActive(componentStates)

\* The three turns are enough: a report leaves nothing to derive, except that a
\* system which was stopped while its operation ran comes back in standby and
\* stays there until the next report.
ReportSettles ==
    [][componentStates' # componentStates =>
        \/ evaluateOnce(systemState', componentStates') = systemState'
        \/ systemState = "stopped" /\ systemState' = "standby"]_vars

\* A report enters standby only with a self-test that is ready, or from running.
StandbyNeedsSelftest ==
    [][systemState # "standby" /\ systemState' = "standby" =>
        systemState = "running" \/ selftestReady(componentStates')]_vars
=============================================================================
