-------------------------- MODULE LifecycleProofs ---------------------------
(***************************************************************************)
(* The safety of the lifecycle for any set of devices.  One table lemma    *)
(* says what one turn of the evaluation does in each state; everything     *)
(* else is three applications of it.                                       *)
(***************************************************************************)
EXTENDS Lifecycle, TLAPS

\* A component in fault, or without one a degraded component, while the runtime
\* is up; nothing of the kind.
Faulty(cs)   == ~isRuntimeStopped(cs) /\ hasComponentState(cs, "fault")
Degraded(cs) == /\ ~isRuntimeStopped(cs)
                /\ ~hasComponentState(cs, "fault") /\ hasComponentState(cs, "degraded")
Healthy(cs)  == /\ ~isRuntimeStopped(cs)
                /\ ~hasComponentState(cs, "fault") /\ ~hasComponentState(cs, "degraded")

\* The states past booting, in which faults are looked at.
Awake == SystemStates \ {"booting", "stopped"}

LEMMA StopOrFaultEvent ==
  ASSUME NEW cs
  PROVE  /\ isRuntimeStopped(cs) => resolveStopOrFaultEvent(cs) = "stopRequested"
         /\ Faulty(cs)   => resolveStopOrFaultEvent(cs) = "alarmRaised"
         /\ Degraded(cs) => resolveStopOrFaultEvent(cs) = "degradeRequested"
         /\ Healthy(cs)  => resolveStopOrFaultEvent(cs) = NoEvent
         /\ isRuntimeStopped(cs) \/ Faulty(cs) \/ Degraded(cs) \/ Healthy(cs)
BY DEF resolveStopOrFaultEvent, Faulty, Degraded, Healthy

\* The event table and the transition table fit: what is derived is accepted.
LEMMA DerivedIsAccepted ==
  ASSUME NEW cs, NEW s \in SystemStates, resolveSystemEvent(s, cs) # NoEvent
  PROVE  Accepts(s, resolveSystemEvent(s, cs))
<1> USE DEF SystemStates, SystemEvents, FaultStates, Accepts, canTransit, resolveNextState,
            NoEvent
<1>1. CASE s \in {"stopped", "booting"}
  BY <1>1 DEF resolveSystemEvent
<1>2. CASE s \in Awake /\ resolveStopOrFaultEvent(cs) # NoEvent
  BY <1>2, StopOrFaultEvent DEF resolveSystemEvent, Awake
<1>3. CASE s \in Awake /\ resolveStopOrFaultEvent(cs) = NoEvent
  <2>1. resolveSystemEvent(s, cs) = resolveProgressEvent(s, cs)
    BY <1>3 DEF resolveSystemEvent, Awake
  <2> QED BY <1>3, <2>1 DEF resolveProgressEvent, Awake
<1> QED BY <1>1, <1>2, <1>3 DEF Awake

-----------------------------------------------------------------------------
(* The table of the state machine, row by row.                               *)

LEMMA NextStates ==
  /\ resolveNextState["powerOn"] = "booting"
  /\ resolveNextState["selftestStart"] = "selftest"
  /\ resolveNextState["selftestPassed"] = "standby"
  /\ resolveNextState["faultRecovered"] = "standby"
  /\ resolveNextState["startRequested"] = "running"
  /\ resolveNextState["alarmRaised"] = "alarm"
  /\ resolveNextState["degradeRequested"] = "degraded"
  /\ resolveNextState["stopRequested"] = "stopped"
BY DEF resolveNextState, SystemEvents

LEMMA AppliedEvents ==
  /\ applyEvent("stopped", "powerOn") = "booting"
  /\ applyEvent("booting", "powerOn") = "booting"
  /\ applyEvent("booting", "selftestStart") = "selftest"
  /\ applyEvent("standby", "selftestStart") = "selftest"
  /\ applyEvent("selftest", "selftestPassed") = "standby"
  /\ \A s \in {"standby", "alarm", "degraded"} :
        applyEvent(s, "startRequested") = "running"
  /\ \A s \in {"running", "alarm", "degraded"} :
        applyEvent(s, "faultRecovered") = "standby"
  /\ \A s \in Awake : applyEvent(s, "alarmRaised") = "alarm"
  /\ \A s \in Awake : applyEvent(s, "degradeRequested") = "degraded"
  /\ \A s \in SystemStates : applyEvent(s, "stopRequested") = "stopped"
  /\ \A s \in Awake : applyEvent(s, "powerOn") = s
BY NextStates DEF applyEvent, Accepts, canTransit, FaultStates, Awake, SystemStates

-----------------------------------------------------------------------------
(* One turn of the evaluation, by the kind of the reports.                   *)

LEMMA OnceStopped ==
  ASSUME NEW cs, NEW s \in SystemStates, isRuntimeStopped(cs)
  PROVE  evaluateOnce(s, cs) = "stopped"
<1>1. resolveSystemEvent(s, cs) = IF s = "stopped" THEN NoEvent ELSE "stopRequested"
  BY StopOrFaultEvent DEF resolveSystemEvent, NoEvent
<1> QED BY <1>1, AppliedEvents DEF evaluateOnce, NoEvent

LEMMA OnceAsleep ==
  ASSUME NEW cs, ~isRuntimeStopped(cs)
  PROVE  /\ evaluateOnce("stopped", cs) = "booting"
         /\ evaluateOnce("booting", cs) = IF wakesUp(cs) THEN "selftest" ELSE "booting"
BY AppliedEvents DEF evaluateOnce, resolveSystemEvent, NoEvent

LEMMA OnceUnhealthy ==
  ASSUME NEW cs, NEW s \in Awake
  PROVE  /\ Faulty(cs)   => evaluateOnce(s, cs) = "alarm"
         /\ Degraded(cs) => evaluateOnce(s, cs) = "degraded"
<1>1. Faulty(cs) \/ Degraded(cs) =>
        resolveSystemEvent(s, cs) = resolveStopOrFaultEvent(cs)
  BY StopOrFaultEvent DEF resolveSystemEvent, NoEvent, Awake
<1> QED BY <1>1, StopOrFaultEvent, AppliedEvents DEF evaluateOnce, NoEvent

LEMMA OnceHealthy ==
  ASSUME NEW cs, Healthy(cs)
  PROVE  /\ evaluateOnce("selftest", cs) =
               IF selftestReady(cs) THEN "standby" ELSE "selftest"
         /\ evaluateOnce("standby", cs) =
               IF selftestActive(cs) THEN "selftest"
               ELSE IF operationActive(cs) THEN "running" ELSE "standby"
         /\ evaluateOnce("running", cs) =
               IF operationActive(cs) THEN "running" ELSE "standby"
         /\ \A s \in FaultStates :
               evaluateOnce(s, cs) =
                 IF operationActive(cs) THEN "running"
                 ELSE IF selftestReady(cs) THEN "standby" ELSE s
<1>1. \A s \in Awake : resolveSystemEvent(s, cs) = resolveProgressEvent(s, cs)
  BY StopOrFaultEvent DEF resolveSystemEvent, Awake
<1>2. {"selftest", "standby", "running"} \union FaultStates \subseteq Awake
  BY DEF Awake, SystemStates, FaultStates
<1>3. resolveSystemEvent("selftest", cs) =
        IF selftestReady(cs) THEN "selftestPassed" ELSE NoEvent
  BY <1>1, <1>2 DEF resolveProgressEvent, FaultStates
<1>4. resolveSystemEvent("standby", cs) =
        IF selftestActive(cs) THEN "selftestStart"
        ELSE IF operationActive(cs) THEN "startRequested" ELSE NoEvent
  BY <1>1, <1>2 DEF resolveProgressEvent, FaultStates
<1>5. resolveSystemEvent("running", cs) =
        IF operationActive(cs) THEN NoEvent ELSE "faultRecovered"
  BY <1>1, <1>2 DEF resolveProgressEvent, FaultStates
<1>6. \A s \in FaultStates :
        resolveSystemEvent(s, cs) =
          IF operationActive(cs) THEN "startRequested"
          ELSE IF selftestReady(cs) THEN "faultRecovered" ELSE NoEvent
  BY <1>1, <1>2 DEF resolveProgressEvent, FaultStates
<1> QED
  BY <1>3, <1>4, <1>5, <1>6, AppliedEvents DEF evaluateOnce, NoEvent, FaultStates

-----------------------------------------------------------------------------
(* The whole evaluation: where it can end, from s with the reports cs.       *)

\* The end of an evaluation shows the faults, explains the mode and enters
\* standby only with reason.
GoodEnd(s, cs, end) ==
    /\ end \in SystemStates
    /\ end = "stopped" <=> isRuntimeStopped(cs)
    /\ end \in Awake /\ Faulty(cs) => end = "alarm"
    /\ end \in Awake /\ Degraded(cs) => end = "degraded"
    /\ end = "running" => operationActive(cs)
    /\ end = "standby" => ~selftestActive(cs)
    /\ end = "standby" => s \in {"running", "standby"} \/ selftestReady(cs)
    /\ \/ evaluateOnce(end, cs) = end
       \/ s = "stopped" /\ end = "standby"

\* A turn stays within the system states, so the loop is three turns.
LEMMA ThreeTurns ==
  ASSUME NEW cs, NEW s \in SystemStates
  PROVE  evaluateSystemState(s, cs) =
           evaluateOnce(evaluateOnce(evaluateOnce(s, cs), cs), cs)
<1>1. \A t \in SystemStates : resolveSystemEvent(t, cs) \in SystemEvents \union {NoEvent}
  BY DEF resolveSystemEvent, resolveStopOrFaultEvent, resolveProgressEvent, SystemEvents
<1>2. \A t \in SystemStates, e \in SystemEvents : applyEvent(t, e) \in SystemStates
  BY NextStates DEF applyEvent, SystemEvents, SystemStates
<1>3. \A t \in SystemStates : evaluateOnce(t, cs) \in SystemStates
  BY <1>1, <1>2 DEF evaluateOnce
<1> QED BY <1>3 DEF evaluateSystemState

LEMMA EvaluationEndsWell ==
  ASSUME NEW cs, NEW s \in SystemStates
  PROVE  GoodEnd(s, cs, evaluateSystemState(s, cs))
<1> DEFINE end == evaluateSystemState(s, cs)
<1>1. CASE isRuntimeStopped(cs)
  <2>1. end = "stopped" /\ evaluateOnce(end, cs) = end
    BY <1>1, OnceStopped, ThreeTurns DEF SystemStates
  <2> QED BY <1>1, <2>1 DEF GoodEnd, Awake, SystemStates
<1>2. CASE Faulty(cs) \/ Degraded(cs)
  <2> DEFINE shown == IF Faulty(cs) THEN "alarm" ELSE "degraded"
  <2>1. \A t \in Awake : evaluateOnce(t, cs) = shown
    BY <1>2, OnceUnhealthy
  <2>2. evaluateOnce("stopped", cs) = "booting" /\ evaluateOnce("booting", cs) = "selftest"
    BY <1>2, OnceAsleep, StopOrFaultEvent DEF Faulty, Degraded, wakesUp, NoEvent
  <2>3. shown \in Awake /\ "selftest" \in Awake
    BY DEF Awake, SystemStates
  <2>4. s \in Awake \/ s \in {"stopped", "booting"}
    BY DEF Awake
  <2>5. end = shown /\ evaluateOnce(end, cs) = end
    BY <2>1, <2>2, <2>3, <2>4, ThreeTurns
  <2> QED BY <1>2, <2>5 DEF GoodEnd, Faulty, Degraded, SystemStates
<1>3. CASE Healthy(cs)
  <2>1. /\ evaluateOnce("stopped", cs) = "booting"
        /\ evaluateOnce("booting", cs) = IF wakesUp(cs) THEN "selftest" ELSE "booting"
    BY <1>3, OnceAsleep DEF Healthy
  <2>2. selftestReady(cs) => ~selftestActive(cs)
    BY DEF selftestReady, selftestActive
  <2>3. ~wakesUp(cs) => ~selftestReady(cs)
    BY DEF wakesUp
  <2>4. s \in {"stopped", "booting", "selftest", "standby", "running", "alarm", "degraded"}
    BY DEF SystemStates
  <2> QED
    BY <1>3, <2>1, <2>2, <2>3, <2>4, OnceHealthy, ThreeTurns
    DEF GoodEnd, Healthy, Faulty, Degraded, FaultStates, Awake,
        SystemStates
<1> QED BY <1>1, <1>2, <1>3, StopOrFaultEvent

\* What whoever composes the lifecycle relies on: a system state, and the
\* worst of the reports wins from every state, booting and stopped included.
LEMMA EvaluationShows ==
  ASSUME NEW cs, NEW s \in SystemStates
  PROVE  /\ evaluateSystemState(s, cs) \in SystemStates
         /\ isRuntimeStopped(cs) => evaluateSystemState(s, cs) = "stopped"
         /\ Faulty(cs) => evaluateSystemState(s, cs) = "alarm"
<1> DEFINE end == evaluateSystemState(s, cs)
<1>1. end \in SystemStates /\ (isRuntimeStopped(cs) => end = "stopped")
  BY EvaluationEndsWell DEF GoodEnd
<1>2. ASSUME Faulty(cs) PROVE end = "alarm"
  <2>1. \A t \in Awake : evaluateOnce(t, cs) = "alarm"
    BY <1>2, OnceUnhealthy
  <2>2. evaluateOnce("stopped", cs) = "booting" /\ evaluateOnce("booting", cs) = "selftest"
    BY <1>2, OnceAsleep, StopOrFaultEvent DEF Faulty, wakesUp, NoEvent
  <2>3. "alarm" \in Awake /\ "selftest" \in Awake
    BY DEF Awake, SystemStates
  <2>4. s \in Awake \/ s \in {"stopped", "booting"}
    BY DEF Awake
  <2> QED BY <2>1, <2>2, <2>3, <2>4, ThreeTurns
<1> QED BY <1>1, <1>2

-----------------------------------------------------------------------------
(* The theorems about Spec.                                                  *)

\* What a step does to the system state, in the terms of GoodEnd.
LEMMA StepEndsWell ==
  ASSUME TypeOK, Next
  PROVE  \/ /\ UNCHANGED componentStates
            /\ systemState' = systemState \/ systemState' = "booting"
         \/ /\ componentStates' \in [Components -> ComponentStates \union {"absent"}]
            /\ GoodEnd(systemState, componentStates', systemState')
<1>1. CASE enterStartup
  <2>1. systemState \in Awake \/ systemState \in {"stopped", "booting"}
    BY DEF TypeOK, Awake
  <2> QED BY <1>1, <2>1, AppliedEvents DEF enterStartup
<1>2. ASSUME NEW c \in Components, NEW v \in ComponentStates, reportComponentState(c, v)
      PROVE  /\ componentStates' \in [Components -> ComponentStates \union {"absent"}]
             /\ GoodEnd(systemState, componentStates', systemState')
  BY <1>2, EvaluationEndsWell DEF reportComponentState, TypeOK
<1> QED BY <1>1, <1>2 DEF Next

\* The lifecycle's type invariant holds in every reachable state.
THEOREM TypeCorrect == Spec => []TypeOK
<1>1. Init => TypeOK
  BY DEF Init, TypeOK, SystemStates
<1>2. TypeOK /\ [Next]_vars => TypeOK'
  <2>1. CASE Next
    BY <2>1, StepEndsWell DEF TypeOK, GoodEnd, SystemStates
  <2>2. CASE UNCHANGED vars
    BY <2>2 DEF TypeOK, vars
  <2> QED BY <2>1, <2>2
<1> QED BY <1>1, <1>2, PTL DEF Spec

\* The two tables agree: no event the lifecycle derives is ever rejected.
THEOREM EventsAreAcceptedHolds == Spec => []EventsAreAccepted
<1>1. TypeOK => EventsAreAccepted
  BY DerivedIsAccepted DEF TypeOK, EventsAreAccepted
<1> QED BY <1>1, TypeCorrect, PTL

\* Whatever is reported in whatever order, the system state shows the worst of
\* the reports: three turns of the evaluation are enough for that.
THEOREM FaultsAreShownHolds == Spec => []FaultsAreShown
<1>1. Init => FaultsAreShown
  BY DEF Init, FaultsAreShown
<1>2. TypeOK /\ FaultsAreShown /\ [Next]_vars => FaultsAreShown'
  <2> SUFFICES ASSUME TypeOK, FaultsAreShown, [Next]_vars PROVE FaultsAreShown'
    OBVIOUS
  <2>1. CASE UNCHANGED vars
    BY <2>1 DEF FaultsAreShown, vars
  <2>2. CASE UNCHANGED componentStates
             /\ (systemState' = systemState \/ systemState' = "booting")
    BY <2>2 DEF FaultsAreShown
  <2>3. CASE GoodEnd(systemState, componentStates', systemState')
    BY <2>3 DEF GoodEnd, FaultsAreShown, Faulty, Degraded, Awake
  <2> QED BY <2>1, <2>2, <2>3, StepEndsWell
<1> QED BY <1>1, <1>2, TypeCorrect, PTL DEF Spec

\* "running" and "standby" are only shown when the reports explain them.
THEOREM ModeIsExplainedHolds == Spec => []ModeIsExplained
<1>1. Init => ModeIsExplained
  BY DEF Init, ModeIsExplained
<1>2. TypeOK /\ ModeIsExplained /\ [Next]_vars => ModeIsExplained'
  <2> SUFFICES ASSUME TypeOK, ModeIsExplained, [Next]_vars PROVE ModeIsExplained'
    OBVIOUS
  <2>1. CASE UNCHANGED vars
    BY <2>1 DEF ModeIsExplained, vars
  <2>2. CASE UNCHANGED componentStates
             /\ (systemState' = systemState \/ systemState' = "booting")
    BY <2>2 DEF ModeIsExplained
  <2>3. CASE GoodEnd(systemState, componentStates', systemState')
    BY <2>3 DEF GoodEnd, ModeIsExplained
  <2> QED BY <2>1, <2>2, <2>3, StepEndsWell
<1> QED BY <1>1, <1>2, TypeCorrect, PTL DEF Spec

\* A report leaves nothing to derive, but for one start out of "stopped".
THEOREM ReportSettlesHolds == Spec => ReportSettles
<1>1. TypeOK /\ [Next]_vars =>
        [componentStates' # componentStates =>
            \/ evaluateOnce(systemState', componentStates') = systemState'
            \/ systemState = "stopped" /\ systemState' = "standby"]_vars
  BY StepEndsWell DEF GoodEnd, vars
<1> QED BY <1>1, TypeCorrect, PTL DEF Spec, ReportSettles

\* Standby is entered with a ready self-test, or from running.
THEOREM StandbyNeedsSelftestHolds == Spec => StandbyNeedsSelftest
<1>1. TypeOK /\ [Next]_vars =>
        [systemState # "standby" /\ systemState' = "standby" =>
            systemState = "running" \/ selftestReady(componentStates')]_vars
  BY StepEndsWell DEF GoodEnd, vars
<1> QED BY <1>1, TypeCorrect, PTL DEF Spec, StandbyNeedsSelftest
=============================================================================
