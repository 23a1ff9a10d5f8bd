---------------------------- MODULE MCFanControl ----------------------------
(***************************************************************************)
(* Both channels of the fan; a cold, a warm and a hot sensor.  IntMax is    *)
(* scaled down so that the hot sensor overflows it with the strong gain.    *)
(***************************************************************************)
EXTENDS FanControl

Auto ==
    [temperatureAutoControl |-> TRUE, targetCelsius |-> 370, toleranceCelsius |-> 5,
     proportionalGain |-> 32, manualFanDuty |-> 60, minFanDuty |-> 60, maxFanDuty |-> 200]
Manual == [Auto EXCEPT !.temperatureAutoControl = FALSE, !.manualFanDuty = 100]
Strong == [Auto EXCEPT !.proportionalGain = 320, !.targetCelsius = 300]
\* The manual duty is out of the new limits: refused.
Narrowed == [Manual EXCEPT !.maxFanDuty = 90]

TestConfigs == {Manual, Strong, Narrowed}
TestTemperatures == {300, 406, 500}
TwoChannels == <<0, 1>>
=============================================================================
