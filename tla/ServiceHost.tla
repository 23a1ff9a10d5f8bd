---------------------------- MODULE ServiceHost -----------------------------
(***************************************************************************)
(* ServiceHost: starts the registered services in the order of their        *)
(* registration, stops them in the reverse order, and keeps a record of     *)
(* each for the snapshot.                                                   *)
(*                                                                          *)
(* startAll() and stopAll() are called from one thread, the service worker. *)
(* They walk a copy of the list and hold the mutex only to write a record,  *)
(* never while a service starts or stops, so that add(), remove() and       *)
(* clear() of any thread fall between any two of their steps.               *)
(***************************************************************************)
EXTENDS Naturals, Sequences

CONSTANTS Services,
          MaxCalls     \* bound on the calls of startAll() and stopAll()

ASSUME BoundAssumption == MaxCalls \in Nat

VARIABLES
    services,     \* services_, which services and in which order
    record,       \* their snapshots; Fresh for a service that is not in the list
    startCount,   \* startCount_
    stopCount,    \* stopCount_
    lastError,    \* lastError_, as <<service, operation>>, or <<>>
    op,           \* the last call of the worker: "start" or "stop"
    walk,         \* where it is: "idle", "begin", "call", "end"
    copy,         \* its vector of services, kept after it returned
    at,           \* its position in it
    thrown,       \* an exception of the service is being handled
    up,           \* the services themselves: is it working
    threw,        \* history: the services that threw in the last call
    calls         \* history: calls so far

listVars  == <<services, record>>
tallyVars == <<startCount, stopCount, lastError>>
callVars  == <<op, copy, calls>>
vars == <<services, record, startCount, stopCount, lastError, op, walk, copy, at,
          thrown, up, threw, calls>>

States == {"registered", "starting", "running", "stopping", "stopped", "failed"}

Snapshots ==
    [state : States, startCount : Nat, stopCount : Nat, lastError : {"", "start", "stop"}]

TypeOK ==
    /\ services \in Seq(Services)
    /\ record \in [Services -> Snapshots]
    /\ startCount \in Nat /\ stopCount \in Nat
    /\ lastError \in {<<>>} \union (Services \X {"start", "stop"})
    /\ op \in {"start", "stop"}
    /\ walk \in {"idle", "begin", "call", "end"}
    /\ copy \in Seq(Services)
    /\ at \in Nat
    /\ walk # "idle" => at \in DOMAIN copy
    /\ thrown \in BOOLEAN
    /\ up \in [Services -> BOOLEAN]
    /\ threw \in SUBSET Services
    /\ calls \in 0..MaxCalls

Fresh == [state |-> "registered", startCount |-> 0, stopCount |-> 0, lastError |-> ""]

Init ==
    /\ services = <<>> /\ record = [s \in Services |-> Fresh]
    /\ startCount = 0 /\ stopCount = 0 /\ lastError = <<>>
    /\ op = "stop" /\ walk = "idle" /\ copy = <<>> /\ at = 0
    /\ thrown = FALSE /\ up = [s \in Services |-> FALSE] /\ threw = {}
    /\ calls = 0

Has(s) == \E i \in DOMAIN services : services[i] = s     \* findRecordLocked

-----------------------------------------------------------------------------
(* Any thread *)

Add(s) ==
    /\ ~Has(s)             \* otherwise add() changes nothing
    /\ services' = Append(services, s)
    /\ UNCHANGED <<record, tallyVars, callVars, walk, at, thrown, up, threw>>

\* The list without s, which is in it once.
Without(s) ==
    LET at_s == CHOOSE i \in DOMAIN services : services[i] = s
    IN  [i \in 1..(Len(services) - 1) |-> services[IF i < at_s THEN i ELSE i + 1]]

Remove(s) ==
    /\ Has(s)
    /\ services' = Without(s)
    /\ record' = [record EXCEPT ![s] = Fresh]
    /\ UNCHANGED <<tallyVars, callVars, walk, at, thrown, up, threw>>

Clear ==
    /\ services # <<>>
    /\ services' = <<>>
    /\ record' = [s \in Services |-> Fresh]
    /\ UNCHANGED <<tallyVars, callVars, walk, at, thrown, up, threw>>

-----------------------------------------------------------------------------
(* The service worker in startAll() and stopAll() *)

\* The copy is made under the mutex; stopAll() begins at its end.
Enter(o) ==
    /\ walk = "idle" /\ calls < MaxCalls
    /\ op' = o /\ calls' = calls + 1
    /\ copy' = services
    /\ threw' = {}
    /\ at' = IF o = "start" THEN 1 ELSE Len(services)
    /\ walk' = IF services = <<>> THEN "idle" ELSE "begin"
    /\ UNCHANGED <<listVars, tallyVars, thrown, up>>

Current == copy[at]

Begin ==
    /\ walk = "begin"
    /\ record' = IF Has(Current)
                 THEN [record EXCEPT ![Current].state =
                         IF op = "start" THEN "starting" ELSE "stopping"]
                 ELSE record
    /\ walk' = "call"
    /\ UNCHANGED <<services, tallyVars, callVars, at, thrown, up, threw>>

\* The service's own start() or stop(); one that throws may have come to do
\* what was asked, or not.
CallService ==
    /\ walk = "call"
    /\ \/ /\ thrown' = FALSE
          /\ up' = [up EXCEPT ![Current] = (op = "start")]
          /\ UNCHANGED threw
       \/ /\ thrown' = TRUE
          /\ \E b \in BOOLEAN : up' = [up EXCEPT ![Current] = b]
          /\ threw' = threw \union {Current}
    /\ walk' = "end"
    /\ UNCHANGED <<listVars, tallyVars, callVars, at>>

AdvanceUnlessThrown ==    \* mutant: one exception ends the whole call
    LET next == IF op = "start" THEN at + 1 ELSE at - 1 IN
    /\ at' = next
    /\ walk' = IF thrown \/ next \notin DOMAIN copy THEN "idle" ELSE "begin"

AdvanceToZero ==          \* mutant: the reverse walk takes one step too many
    LET next == IF op = "start" THEN at + 1 ELSE at - 1 IN
    /\ at' = next
    /\ walk' = IF next \in 0..Len(copy) THEN "begin" ELSE "idle"

Advance ==
    LET next == IF op = "start" THEN at + 1 ELSE at - 1 IN
    /\ at' = next
    /\ walk' = IF next \in DOMAIN copy THEN "begin" ELSE "idle"

EndWell ==
    /\ walk = "end" /\ ~thrown
    /\ startCount' = IF op = "start" THEN startCount + 1 ELSE startCount
    /\ stopCount' = IF op = "stop" THEN stopCount + 1 ELSE stopCount
    /\ record' =
         IF Has(Current)
         THEN [record EXCEPT ![Current] =
                 [state      |-> IF op = "start" THEN "running" ELSE "stopped",
                  startCount |-> IF op = "start" THEN @.startCount + 1 ELSE @.startCount,
                  stopCount  |-> IF op = "stop" THEN @.stopCount + 1 ELSE @.stopCount,
                  lastError  |-> ""]]
         ELSE record
    /\ Advance
    /\ UNCHANGED <<services, lastError, callVars, thrown, up, threw>>

EndFailedUnmarked ==      \* mutant: the error is recorded, the state is not
    /\ walk = "end" /\ thrown
    /\ lastError' = <<Current, op>>
    /\ thrown' = FALSE
    /\ Advance
    /\ UNCHANGED <<listVars, startCount, stopCount, callVars, up, threw>>

\* recordModuleErrorLocked: the host remembers the error even if the service
\* is not registered any more.
EndFailed ==
    /\ walk = "end" /\ thrown
    /\ lastError' = <<Current, op>>
    /\ record' =
         IF Has(Current)
         THEN [record EXCEPT ![Current].state = "failed", ![Current].lastError = op]
         ELSE record
    /\ thrown' = FALSE
    /\ Advance
    /\ UNCHANGED <<services, startCount, stopCount, callVars, up, threw>>

Worker == (\E o \in {"start", "stop"} : Enter(o)) \/ Begin \/ CallService \/ EndWell \/ EndFailed

Next == (\E s \in Services : Add(s) \/ Remove(s)) \/ Clear \/ Worker

Spec == Init /\ [][Next]_vars

-----------------------------------------------------------------------------
\* snapshot(): what a diagnostic page is given.
snapshot ==
    [serviceCount |-> Len(services), startCount |-> startCount, stopCount |-> stopCount,
     lastError |-> lastError, modules |-> [i \in DOMAIN services |-> record[services[i]]]]

InHand(s) == walk \in {"call", "end"} /\ Current = s

\* What one record of the snapshot says of its service.
Truthful(s) ==
    LET r == record[s] IN
    /\ r.state = "running" => up[s] /\ r.startCount > 0 /\ r.lastError = ""
    /\ r.state = "stopped" => ~up[s] /\ r.stopCount > 0 /\ r.lastError = ""
    /\ r.state = "starting" => InHand(s) /\ op = "start"
    /\ r.state = "stopping" => InHand(s) /\ op = "stop"
    /\ r.state = "failed" => r.lastError # "" /\ snapshot.lastError # <<>>
    /\ r.startCount <= snapshot.startCount /\ r.stopCount <= snapshot.stopCount

\* A service is listed once, and a record never says of a service what is not
\* so: "running" and "stopped" are true of the service itself, "starting" and
\* "stopping" never outlive the call, a failure is named, although services are
\* removed and added again between the steps of startAll() and stopAll().
RecordsTellTheTruth ==
    /\ \A i, j \in DOMAIN services : services[i] = services[j] => i = j
    /\ \A s \in Services : Has(s) => Truthful(s)

\* The positions of the copy the current or the last call is done with.
Passed == {i \in DOMAIN copy : \/ walk = "idle"
                               \/ op = "start" /\ i < at
                               \/ op = "stop" /\ i > at}

\* A service is started after all that were registered before it, and stopped
\* after all that were registered behind it; one that throws keeps no other
\* from its turn, and none is left out when startAll() or stopAll() returns.
EachInItsTurn ==
    \A i \in Passed : copy[i] \in threw \/ (up[copy[i]] <=> op = "start")
=============================================================================
