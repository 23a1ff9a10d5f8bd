----------------------------- MODULE FanSettings ----------------------------
(***************************************************************************)
(* The settings of the fan, from the screen to the file and back:           *)
(* FanSettingsViewModel on the main thread, AppControl's closures on the    *)
(* service worker, TempService's configuration, TempServiceConfigStore, and *)
(* crashes of the process or of the machine between any two steps.          *)
(*                                                                          *)
(* The main thread waits for each closure, so one variable says where the   *)
(* two are.  Of the configuration there are the fields the screen sets, and *)
(* toleranceCelsius for those it must leave alone; minFanDuty is 0.         *)
(* Temperatures have five decimals, of which the file does not keep all.    *)
(* The file is a value per key, in the order of Keys.                       *)
(***************************************************************************)
EXTENDS Integers, Sequences

CONSTANTS
    Commands,      \* what the operator enters
    DefaultConfig, \* TempServiceConfig {}
    OldFiles,      \* what the file may hold when the story begins
    NoFile,        \* there is no file
    Missing,       \* there is no line for this key
    Garbled,       \* its line or its value cannot be parsed
    MaxApplies, MaxFaults, MaxCrashes   \* bounds of the story

Keys == <<"temperatureAutoControl", "targetCelsius", "toleranceCelsius", "manualFanDuty",
          "maxFanDuty">>
KeySet == {Keys[i] : i \in DOMAIN Keys}

Degree == 100000

Errors == {"invalidTempTarget", "invalidFanDuty", "invalidConfig", "backendFailure"}

InRange(t) == 15 * Degree <= t /\ t <= 60 * Degree

\* validateConfig, and the code toFanSettingsUiError gives to its exception.
Objection(c) ==
    CASE ~InRange(c.targetCelsius) -> "invalidTempTarget"
      [] InRange(c.targetCelsius) /\ c.toleranceCelsius < Degree \div 10 -> "invalidConfig"
      [] OTHER -> IF 0 <= c.manualFanDuty /\ c.manualFanDuty <= c.maxFanDuty
                     /\ c.maxFanDuty <= 255
                  THEN "" ELSE "invalidFanDuty"

Valid(c) == Objection(c) = ""

Config ==
    [temperatureAutoControl : BOOLEAN, targetCelsius : Int, toleranceCelsius : Int,
     manualFanDuty : Int, maxFanDuty : Int]

Command == [temperatureAutoControl : BOOLEAN, targetCelsius : Int, manualFanDuty : Int,
            maxFanDuty : Int]

Field(k) == IF k = "temperatureAutoControl" THEN BOOLEAN ELSE Int

IsFile(f) ==
    /\ DOMAIN f = KeySet
    /\ \A k \in KeySet : f[k] \in {Missing, Garbled} \/ f[k] \in Field(k)

ASSUME ConfigAssumption ==
    DefaultConfig \in Config /\ Valid(DefaultConfig) /\ Commands \subseteq Command
ASSUME MarkAssumption ==
    /\ Missing # Garbled
    /\ Missing \notin Int /\ Garbled \notin Int
    /\ Missing \notin BOOLEAN /\ Garbled \notin BOOLEAN
    /\ NoFile \notin [KeySet -> BOOLEAN \union Int \union {Missing, Garbled}]
ASSUME FileAssumption == \A f \in OldFiles : f = NoFile \/ IsFile(f)
ASSUME BoundsAssumption == MaxApplies \in Nat /\ MaxFaults \in Nat /\ MaxCrashes \in Nat

VARIABLES
    pc,        \* off, idle, set, open, write, rename, answer, refresh
    up,        \* there is a TempService and a worker to ask it
    config,    \* its config_
    pending,   \* the configuration on its way in applySettings()
    shown,     \* state_ of the view model: the settings,
    data,      \* dataStatusText,
    operation, \* and operationStatusText, or the code of the error it shows
    tmp, file, \* the temporary file and the file, as programs see them
    disk,      \* the file as a power failure leaves it
    acked,     \* history: what was loaded first or reported "Saved" last
    damaged,   \* history: a lost write or a power failure changed the file since
    applies, faults, crashes

screenVars == <<shown, data, operation>>
fileVars   == <<tmp, file, disk>>
history    == <<acked, damaged>>
bounds     == <<applies, faults, crashes>>
vars == <<pc, up, config, pending, screenVars, fileVars, history, bounds>>

TypeOK ==
    /\ pc \in {"off", "idle", "set", "open", "write", "rename", "answer", "refresh"}
    /\ up \in BOOLEAN
    /\ config \in Config
    /\ pending \in Config /\ shown \in Config
    /\ pc \in {"open", "write", "rename", "answer"} => pending = config
    /\ data \in {"Not loaded", "Loaded", "Load failed"}
    /\ operation \in {"", "Saved"} \union Errors
    /\ \A f \in {tmp, file, disk} : f = NoFile \/ IsFile(f)
    /\ acked \in Config /\ damaged \in BOOLEAN
    /\ applies \in 0..MaxApplies /\ faults \in 0..MaxFaults /\ crashes \in 0..MaxCrashes

-----------------------------------------------------------------------------
(* TempServiceConfigStore: what the files hold and what load() makes of it *)

\* A double is printed with six significant digits (up to 10000 degrees here).
LastDigit(v) ==
    CASE v < 10 * Degree -> 1
      [] 10 * Degree <= v /\ v < 100 * Degree -> 10
      [] 100 * Degree <= v /\ v < 1000 * Degree -> 100
      [] OTHER -> 1000

\* The nearest such decimal; a double meant to lie in the middle of two of them
\* lies on either side of it.
Printed(v) ==
    LET u == LastDigit(v)
        below == u * (v \div u)
    IN  {w \in {below, below + u} : 2 * (v - w) <= u /\ 2 * (w - v) <= u}

WithTemperatures(c, t, d) == [c EXCEPT !.targetCelsius = t, !.toleranceCelsius = d]

\* save(): a line per key.
AsFiles(c) ==
    {WithTemperatures(c, t, d) :
        t \in Printed(c.targetCelsius), d \in Printed(c.toleranceCelsius)}

NoLines == [k \in KeySet |-> Missing]

\* What the beginning of a number says: "25" or "2" of "255"; "38." or "3" of
\* "38.5".  The beginning of "true" is no bool.
Beginnings(k, v) ==
    IF v = Garbled \/ k = "temperatureAutoControl" THEN {}
    ELSE IF k \in {"manualFanDuty", "maxFanDuty"}
         THEN {v \div n : n \in {m \in {10, 100} : m <= v}}
         ELSE {n * (v \div n) :
                 n \in {10, 100, 1000, 10000, Degree}}
              \union {Degree * (v \div (n * Degree)) : n \in {m \in {10, 100} : m * Degree <= v}}

\* The file cut off in the line of the i-th key.
CutAt(f, i, v) ==
    [k \in KeySet |-> IF k = Keys[i] THEN v
                      ELSE IF \E j \in 1..(i - 1) : k = Keys[j] THEN f[k] ELSE Missing]

Cuts(f) ==
    UNION {{CutAt(f, i, v) : v \in Beginnings(Keys[i], f[Keys[i]]) \union {Missing, Garbled}} :
           i \in {j \in DOMAIN Keys : f[Keys[j]] # Missing}}

\* readKeyValues and the reads by key: a missing key keeps its default.
Merge(f) == [k \in KeySet |-> IF f[k] = Missing THEN DefaultConfig[k] ELSE f[k]]

LoadUnchecked(f) ==     \* mutant: the loaded configuration is not validated
    IF f = NoFile THEN DefaultConfig
    ELSE IF \E k \in KeySet : f[k] = Garbled THEN DefaultConfig ELSE Merge(f)

\* load() at startup: setConfig() refuses what is not valid, and the service
\* stays with its default.
Load(f) ==
    IF f = NoFile THEN DefaultConfig
    ELSE IF \E k \in KeySet : f[k] = Garbled THEN DefaultConfig
    ELSE IF Valid(Merge(f)) THEN Merge(f) ELSE DefaultConfig

Init ==
    /\ pc = "off" /\ up = FALSE
    /\ file \in OldFiles /\ disk = file /\ tmp = NoFile
    /\ config = DefaultConfig /\ pending = DefaultConfig /\ shown = DefaultConfig
    /\ data = "Not loaded" /\ operation = ""
    /\ acked = Load(file) /\ damaged = FALSE
    /\ applies = 0 /\ faults = 0 /\ crashes = 0

Fault == faults < MaxFaults /\ faults' = faults + 1

-----------------------------------------------------------------------------
(* The view model *)

\* startup() loads the settings; the constructor of the view model refreshes.
Boot ==
    /\ pc = "off"
    /\ up' \in BOOLEAN
    /\ config' = Load(file)
    /\ pending' = DefaultConfig
    /\ shown' = DefaultConfig /\ data' = "Not loaded" /\ operation' = ""
    /\ pc' = "refresh"
    /\ UNCHANGED <<fileVars, history, bounds>>

\* toFanSettingsUiState takes the settings of the snapshot; the last operation
\* and its error stay as they are.
Loaded ==
    /\ up
    /\ shown' = config /\ data' = "Loaded"
    /\ UNCHANGED operation

LoadFails ==            \* applyRefreshFailure
    /\ ~up
    /\ data' = "Load failed" /\ operation' = "backendFailure"
    /\ UNCHANGED shown

Refresh ==
    /\ pc \in {"idle", "refresh"}
    /\ Loaded \/ LoadFails
    /\ pc' = "idle"
    /\ UNCHANGED <<up, config, pending, fileVars, history, bounds>>

\* An exception of the backend: setOperationResult, and no refresh.
Fails(error) ==
    /\ operation' = error
    /\ pc' = "idle"
    /\ UNCHANGED <<shown, data>>

\* configForCommand: what the command does not set is read from the backend.
ApplySettings(command) ==
    /\ pc = "idle"
    /\ applies < MaxApplies /\ applies' = applies + 1
    /\ \/ /\ up
          /\ pending' = [config EXCEPT
               !.temperatureAutoControl = command.temperatureAutoControl,
               !.targetCelsius = command.targetCelsius,
               !.manualFanDuty = command.manualFanDuty,
               !.maxFanDuty = command.maxFanDuty]
          /\ pc' = "set"
          /\ UNCHANGED screenVars
       \/ /\ ~up
          /\ Fails("backendFailure")
          /\ UNCHANGED pending
    /\ UNCHANGED <<up, config, fileVars, history, faults, crashes>>

SavedUnrefreshed ==     \* mutant: the screen is not refreshed after "Saved"
    /\ pc = "answer"
    /\ operation' = "Saved" /\ acked' = pending
    /\ pc' = "idle"
    /\ UNCHANGED <<up, config, pending, shown, data, fileVars, damaged, bounds>>

\* The closure has returned.
Saved ==
    /\ pc = "answer"
    /\ operation' = "Saved" /\ acked' = pending
    /\ pc' = "refresh"
    /\ UNCHANGED <<up, config, pending, shown, data, fileVars, damaged, bounds>>

-----------------------------------------------------------------------------
(* applyTempServiceConfig() on the service worker *)

SetConfig ==
    /\ pc = "set"
    /\ \/ /\ up /\ Valid(pending)
          /\ config' = pending
          /\ pc' = "open"
          /\ UNCHANGED screenVars
       \/ /\ up /\ ~Valid(pending)
          /\ Fails(Objection(pending))
          /\ UNCHANGED config
       \/ /\ ~up
          /\ Fails("backendFailure")
          /\ UNCHANGED config
    /\ UNCHANGED <<up, pending, fileVars, history, bounds>>

OpenInPlace ==          \* mutant: save() truncates the file itself
    /\ pc = "open"
    /\ tmp' = NoLines /\ file' = NoLines
    /\ pc' = "write"
    /\ UNCHANGED <<up, config, pending, screenVars, disk, history, bounds>>

\* save(): the directory is made and the temporary file opened, and emptied.
Open ==
    /\ pc = "open"
    /\ tmp' = NoLines
    /\ pc' = "write"
    /\ UNCHANGED <<up, config, pending, screenVars, file, disk, history, bounds>>

\* The lines fit the stream's buffer: they are written by its destructor,
\* after the last look at the state of the stream.
Flush ==
    /\ pc = "write"
    /\ \E f \in AsFiles(pending) : \/ tmp' = f /\ UNCHANGED faults
                                   \/ Fault /\ tmp' \in Cuts(f)
    /\ pc' = "rename"
    /\ UNCHANGED <<up, config, pending, screenVars, file, disk, history, applies, crashes>>

Rename ==
    /\ pc = "rename"
    /\ file' = tmp /\ tmp' = NoFile
    /\ damaged' = (file' \notin AsFiles(pending))
    /\ pc' = "answer"
    /\ UNCHANGED <<up, config, pending, screenVars, disk, acked, bounds>>

\* create_directories, the open or the rename throws: the configuration stays
\* set, the file stays what it was.
SaveThrows ==
    /\ pc \in {"open", "rename"}
    /\ Fault
    /\ Fails("backendFailure")
    /\ UNCHANGED <<up, config, pending, fileVars, history, applies, crashes>>

-----------------------------------------------------------------------------
(* The rest of the world *)

\* The service worker fails: what is asked of it throws from then on.
BackendFails ==
    /\ up /\ pc \in {"idle", "set", "refresh"}
    /\ up' = FALSE
    /\ UNCHANGED <<pc, config, pending, screenVars, fileVars, history, bounds>>

WriteBack ==            \* the kernel writes the file to the disk
    /\ disk # file
    /\ disk' = file
    /\ UNCHANGED <<pc, up, config, pending, screenVars, tmp, file, history, bounds>>

Off ==
    /\ pc # "off" /\ crashes < MaxCrashes
    /\ crashes' = crashes + 1
    /\ pc' = "off" /\ up' = FALSE
    /\ tmp' = NoFile       \* nobody reads it, and the next save empties it
    \* what was renamed but not yet reported is as good as saved
    /\ acked' = IF pc = "answer" THEN pending ELSE acked
    /\ UNCHANGED <<config, pending, screenVars, applies, faults>>

Killed == Off /\ UNCHANGED <<file, disk, damaged>>

\* A file that was not synchronised comes back as it was, cut off, or new.
PowerFails ==
    /\ Off
    /\ file' \in IF disk = file THEN {file}
                 ELSE {disk, file} \union Cuts(file)
    /\ disk' = file'
    /\ damaged' = (damaged \/ file' # file)

Next ==
    \/ Boot \/ Refresh \/ \E c \in Commands : ApplySettings(c)
    \/ Saved
    \/ SetConfig \/ Open \/ Flush \/ Rename \/ SaveThrows
    \/ BackendFails \/ WriteBack \/ Killed \/ PowerFails

Spec == Init /\ [][Next]_vars

-----------------------------------------------------------------------------
\* Whatever is left of the file by failed flushes, kills and power failures, and
\* whatever the operator enters, a valid configuration is in force (load at
\* startup, setConfig).
ValidConfigRuns == Valid(config)

\* Whenever the process is killed, the next start loads what was last reported
\* as saved, with the fields no command sets, or, in the middle of an apply,
\* that or the new settings.  A failed apply never touches what is stored.
\* The temperatures come back to six significant digits: 37.12345 is reported
\* as saved and loaded as 37.1235 or 37.1234.  Excepted are a flush the store
\* did not see fail and a power failure.
Near(v, w) == v - w <= v \div 200000 /\ w - v <= v \div 200000

SameToSixDigits(c, d) ==
    /\ Near(c.targetCelsius, d.targetCelsius)
    /\ Near(c.toleranceCelsius, d.toleranceCelsius)
    /\ d = WithTemperatures(c, d.targetCelsius, d.toleranceCelsius)

SettingsSurviveRestart ==
    ~damaged => \/ SameToSixDigits(acked, Load(file))
                \/ pc = "answer" /\ SameToSixDigits(pending, Load(file))

\* A screen without an error shows the settings that run (refresh, apply).
ScreenShowsWhatRuns ==
    pc = "idle" /\ data = "Loaded" /\ operation \notin Errors => shown = config

\* "After applySettings has failed, the current configuration is not
\* overwritten": when the screen shows the error of an apply, the service still
\* runs the settings it shows.
FailedApplyKeepsSettings ==
    pc = "idle" /\ data = "Loaded" /\ operation \in Errors => shown = config
=============================================================================
