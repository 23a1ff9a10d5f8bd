--------------------------- MODULE MCFanSettings ----------------------------
(***************************************************************************)
(* An operator who enters a target with more digits than the file keeps, one *)
(* that is rounded up to the limit, one that is too hot, and a manual duty   *)
(* above the limit; a machine with no file, with an old one, and with one    *)
(* that was edited into nonsense.                                            *)
(***************************************************************************)
EXTENDS FanSettings

Factory ==
    [temperatureAutoControl |-> TRUE, targetCelsius |-> 37 * Degree,
     toleranceCelsius |-> Degree \div 2, manualFanDuty |-> 0, maxFanDuty |-> 255]

Old == [Factory EXCEPT !.targetCelsius = 3850000, !.toleranceCelsius = 80000]
Edited == [Old EXCEPT !.targetCelsius = 90 * Degree]

TestFiles == {NoFile, Old, Edited}

Entered(auto, target, manual, max) ==
    [temperatureAutoControl |-> auto, targetCelsius |-> target, manualFanDuty |-> manual,
     maxFanDuty |-> max]

TestCommands ==
    {Entered(FALSE, 3712345, 90, 210), Entered(TRUE, 5999999, 0, 255),
     Entered(TRUE, 61 * Degree, 0, 255), Entered(FALSE, 37 * Degree, 100, 90)}
=============================================================================
