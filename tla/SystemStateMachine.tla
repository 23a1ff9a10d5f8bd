------------------------- MODULE SystemStateMachine -------------------------
(***************************************************************************)
(* The table of core/state_machine/system_state: which system states there *)
(* are, where an event leads, and which transitions are allowed.           *)
(***************************************************************************)

SystemStates ==
    {"booting", "selftest", "standby", "running", "alarm", "degraded", "stopped"}

SystemEvents ==
    {"powerOn", "selftestStart", "selftestPassed", "startRequested", "alarmRaised",
     "degradeRequested", "faultRecovered", "stopRequested"}

FaultStates == {"alarm", "degraded"}

resolveNextState ==
    [e \in SystemEvents |->
        CASE e = "powerOn"                               -> "booting"
          [] e = "selftestStart"                         -> "selftest"
          [] e \in {"selftestPassed", "faultRecovered"}  -> "standby"
          [] e = "startRequested"                        -> "running"
          [] e = "alarmRaised"                           -> "alarm"
          [] e = "degradeRequested"                      -> "degraded"
          [] e = "stopRequested"                         -> "stopped"]

canTransitWithoutRetest(from, to) ==    \* mutant: no self-test from standby
    \/ to = "stopped"
    \/ from = "booting"     /\ to = "selftest"
    \/ from = "selftest"    /\ to \in FaultStates \union {"standby"}
    \/ from = "standby"     /\ to \in FaultStates \union {"running"}
    \/ from = "running"     /\ to \in FaultStates \union {"standby"}
    \/ from \in FaultStates /\ to \in FaultStates \union {"standby", "running"}
    \/ from = "stopped"     /\ to = "booting"

canTransit(from, to) ==
    \/ to = "stopped"
    \/ from = "booting"     /\ to = "selftest"
    \/ from = "selftest"    /\ to \in FaultStates \union {"standby"}
    \/ from = "standby"     /\ to \in FaultStates \union {"running", "selftest"}
    \/ from = "running"     /\ to \in FaultStates \union {"standby"}
    \/ from \in FaultStates /\ to \in FaultStates \union {"standby", "running"}
    \/ from = "stopped"     /\ to = "booting"

\* The machine takes the event (it may already be where the event leads).
Accepts(from, e) ==
    resolveNextState[e] = from \/ canTransit(from, resolveNextState[e])

\* mutant: the rejected event is taken for the state
applyEventUnchecked(from, e) == IF Accepts(from, e) THEN resolveNextState[e] ELSE e

\* The state after the event: a rejected event changes nothing.
applyEvent(from, e) == IF Accepts(from, e) THEN resolveNextState[e] ELSE from
=============================================================================
