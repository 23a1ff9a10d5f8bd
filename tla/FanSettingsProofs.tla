------------------------- MODULE FanSettingsProofs --------------------------
(***************************************************************************)
(* Proofs about FanSettings, for any commands, any old files and any number *)
(* of applies, faults and crashes.  The survival of the settings rests on    *)
(* one fact about the store: what save() writes, load() reads back to six    *)
(* significant digits, and rounding makes no valid configuration invalid.    *)
(***************************************************************************)
EXTENDS FanSettings, TLAPS

\* What the kernel has is never less than what the disk has, and the temporary
\* file is there as long as save() works on it.
FilesExist ==
    /\ file = NoFile => disk = NoFile
    /\ pc \in {"write", "rename"} => tmp # NoFile

\* What the next start would load.
StoredIsKnown ==
    ~damaged => SameToSixDigits(IF pc = "answer" THEN pending ELSE acked, Load(file))

IInv == TypeOK /\ ValidConfigRuns /\ FilesExist /\ StoredIsKnown

-----------------------------------------------------------------------------
(* Files *)

LEMMA KeysAre ==
    /\ DOMAIN Keys = 1..5 /\ \A i \in 1..5 : Keys[i] \in KeySet
    /\ KeySet = {"temperatureAutoControl", "targetCelsius", "toleranceCelsius",
                 "manualFanDuty", "maxFanDuty"}
<1>1. /\ DOMAIN Keys = 1..5
      /\ Keys[1] = "temperatureAutoControl" /\ Keys[2] = "targetCelsius"
      /\ Keys[3] = "toleranceCelsius" /\ Keys[4] = "manualFanDuty" /\ Keys[5] = "maxFanDuty"
    BY DEF Keys
<1>2. 1..5 = {1, 2, 3, 4, 5}
    BY SMT
<1> QED
    BY <1>1, <1>2 DEF KeySet

LEMMA FieldsOfConfig ==
    ASSUME NEW c \in Config
    PROVE  /\ c = [k \in KeySet |-> c[k]]
           /\ \A k \in KeySet : c[k] \in Field(k)
    BY KeysAre DEF Config, Field

LEMMA ConfigOfFields ==
    ASSUME NEW c, c = [k \in KeySet |-> c[k]], \A k \in KeySet : c[k] \in Field(k)
    PROVE  c \in Config
    BY KeysAre DEF Config, Field

\* A function over the keys that holds what a file may hold is a file.
LEMMA IsAFile ==
    ASSUME NEW f, f = [k \in KeySet |-> f[k]],
           \A k \in KeySet : f[k] \in {Missing, Garbled} \/ f[k] \in Field(k)
    PROVE  IsFile(f) /\ f # NoFile
<1>1. DOMAIN f = KeySet
    OBVIOUS
<1>2. \A k \in KeySet : f[k] \in BOOLEAN \union Int \union {Missing, Garbled}
    BY DEF Field
<1>3. f \in [KeySet -> BOOLEAN \union Int \union {Missing, Garbled}]
    BY <1>2
<1> QED
    BY <1>1, <1>3, MarkAssumption DEF IsFile

LEMMA FieldsAreNoMarks ==
    ASSUME NEW k, NEW v \in Field(k)
    PROVE  v # Missing /\ v # Garbled
    BY MarkAssumption DEF Field

\* What validateConfig asks of a configuration.
LEMMA ValidMeans ==
    ASSUME NEW c
    PROVE  Valid(c) <=> /\ InRange(c.targetCelsius)
                        /\ ~(c.toleranceCelsius < Degree \div 10)
                        /\ 0 <= c.manualFanDuty
                        /\ c.manualFanDuty <= c.maxFanDuty
                        /\ c.maxFanDuty <= 255
    BY DEF Valid, Objection

\* A printed temperature is the temperature to six significant digits, and is
\* not rounded across a limit.
LEMMA PrintedIsNear ==
    ASSUME NEW v \in Int, 0 <= v, NEW w \in Printed(v)
    PROVE  /\ w \in Int
           /\ Near(v, w)
           /\ InRange(v) => InRange(w)
           /\ v >= Degree \div 10 => w >= Degree \div 10
<1>0. Degree = 100000
    BY DEF Degree
<1> DEFINE u == LastDigit(v)
<1>1. /\ w \in {u * (v \div u), u * (v \div u) + u}
      /\ 2 * (v - w) <= u
      /\ 2 * (w - v) <= u
    BY DEF Printed
<1> HIDE DEF u
<1>2. CASE v < 1000000
    <2>1. u = 1
        BY <1>0, <1>2 DEF u, LastDigit
    <2>2. w = v
        BY <1>1, <2>1
    <2>3. 0 <= v \div 200000
        OBVIOUS
    <2> QED
        BY <2>2, <2>3 DEF Near
<1>3. CASE 1000000 <= v /\ v < 10000000
    <2>1. u = 10
        BY <1>0, <1>3 DEF u, LastDigit
    <2>2. PICK q \in Int : w = 10 * q
        <3>1. PICK n \in Int : n = v \div 10
            OBVIOUS
        <3>2. w = 10 * n \/ w = 10 * n + 10
            BY <1>1, <2>1, <3>1
        <3>3. 10 * n + 10 = 10 * (n + 1) /\ n + 1 \in Int
            OBVIOUS
        <3> QED
            BY <3>2, <3>3
    <2>3. v - w <= 5 /\ w - v <= 5
        <3>1. 2 * (v - 10 * q) <= 10 /\ 2 * (10 * q - v) <= 10
            BY <1>1, <2>1, <2>2
        <3> QED
            BY <2>2, <3>1
    <2>4. 5 <= v \div 200000
        BY <1>3
    <2>5. v \div 200000 \in Int
        OBVIOUS
    <2>6. Near(v, w)
        BY <2>2, <2>3, <2>4, <2>5 DEF Near
    <2>7. InRange(v) => InRange(w)
        BY <1>0, <2>2, <2>3 DEF InRange
    <2>8. w >= Degree \div 10
        BY <1>0, <1>3, <2>2, <2>3
    <2> QED
        BY <2>2, <2>6, <2>7, <2>8
<1>4. CASE 10000000 <= v
    <2>1. u = IF v < 100000000 THEN 100 ELSE 1000
        BY <1>0, <1>4 DEF u, LastDigit
    <2>2. u \in Int /\ w \in Int
        <3>1. v \div 100 \in Int /\ v \div 1000 \in Int
            OBVIOUS
        <3> QED
            BY <1>1, <2>1, <3>1
    <2>3. v - w <= v \div 200000 /\ w - v <= v \div 200000
        <3>1. CASE v < 100000000
            <4>1. u = 100
                BY <2>1, <3>1
            <4>2. 50 <= v \div 200000 /\ v \div 200000 \in Int
                BY <1>4
            <4> QED
                BY <1>1, <2>2, <4>1, <4>2
        <3>2. CASE ~(v < 100000000)
            <4>1. u = 1000
                BY <2>1, <3>2
            <4>2. 500 <= v \div 200000 /\ v \div 200000 \in Int
                BY <3>2
            <4> QED
                BY <1>1, <2>2, <4>1, <4>2
        <3> QED
            BY <3>1, <3>2
    <2>4. ~InRange(v)
        BY <1>0, <1>4 DEF InRange
    <2>5. w >= Degree \div 10
        <3>1. u <= 1000
            BY <2>1
        <3> QED
            BY <1>0, <1>1, <1>4, <2>2, <3>1
    <2> QED
        BY <2>2, <2>3, <2>4, <2>5 DEF Near
<1> QED
    BY <1>2, <1>3, <1>4

\* A valid configuration agrees with itself.
LEMMA SameAsItself ==
    ASSUME NEW c \in Config, Valid(c)
    PROVE  SameToSixDigits(c, c)
<1>1. /\ c.targetCelsius \in Int /\ c.toleranceCelsius \in Int
      /\ 0 <= c.targetCelsius /\ 0 <= c.toleranceCelsius
    BY ValidMeans DEF Config, InRange, Degree
<1>2. \A v \in Int : 0 <= v => Near(v, v)
    BY DEF Near
<1>3. c = WithTemperatures(c, c.targetCelsius, c.toleranceCelsius)
    BY DEF Config, WithTemperatures
<1> QED
    BY <1>1, <1>2, <1>3 DEF SameToSixDigits

\* What save() writes of a valid configuration is a file, and load() reads a
\* valid configuration back that is the same to six digits.
LEMMA LoadOfSaved ==
    ASSUME NEW c \in Config, Valid(c), NEW f \in AsFiles(c)
    PROVE  /\ IsFile(f)
           /\ f # NoFile
           /\ SameToSixDigits(c, Load(f))
<1>1. PICK t \in Printed(c.targetCelsius), d \in Printed(c.toleranceCelsius) :
        f = WithTemperatures(c, t, d)
    BY DEF AsFiles
<1>2. /\ c.targetCelsius \in Int /\ c.toleranceCelsius \in Int
      /\ 0 <= c.targetCelsius /\ 0 <= c.toleranceCelsius
    BY ValidMeans DEF Config, InRange, Degree
<1>3. t \in Int /\ Near(c.targetCelsius, t) /\ InRange(t)
    BY <1>2, PrintedIsNear, ValidMeans
<1>4. d \in Int /\ Near(c.toleranceCelsius, d) /\ d >= Degree \div 10
    <2>1. c.toleranceCelsius >= Degree \div 10
        BY <1>2, ValidMeans DEF Degree
    <2> QED
        BY <1>2, <2>1, PrintedIsNear
<1>5. f \in Config
    BY <1>1, <1>3, <1>4 DEF Config, WithTemperatures
<1>6. /\ f.targetCelsius = t /\ f.toleranceCelsius = d
      /\ f.manualFanDuty = c.manualFanDuty /\ f.maxFanDuty = c.maxFanDuty
    BY <1>1 DEF Config, WithTemperatures
<1>7. Valid(f)
    <2>1. ~(d < Degree \div 10)
        BY <1>4 DEF Degree
    <2> QED
        BY <1>3, <1>6, <2>1, ValidMeans
<1>8. SameToSixDigits(c, f)
    BY <1>1, <1>3, <1>4, <1>6 DEF SameToSixDigits
<1>9. f = [k \in KeySet |-> f[k]] /\ \A k \in KeySet : f[k] \in Field(k)
    BY <1>5, FieldsOfConfig
<1>10. IsFile(f) /\ f # NoFile
    BY <1>9, IsAFile
<1>11. \A k \in KeySet : f[k] # Missing /\ f[k] # Garbled
    BY <1>9, FieldsAreNoMarks
<1>12. Merge(f) = [k \in KeySet |-> f[k]]
    BY <1>11 DEF Merge
<1>13. Load(f) = f
    BY <1>7, <1>9, <1>10, <1>11, <1>12 DEF Load
<1> QED
    BY <1>8, <1>10, <1>13

LEMMA LoadType ==
    ASSUME NEW f, f = NoFile \/ IsFile(f)
    PROVE  Load(f) \in Config /\ Valid(Load(f))
<1>1. CASE f = NoFile \/ \E k \in KeySet : f[k] = Garbled
    BY <1>1, ConfigAssumption DEF Load
<1>2. CASE IsFile(f) /\ \A k \in KeySet : f[k] # Garbled
    <2>1. \A k \in KeySet : DefaultConfig[k] \in Field(k)
        BY ConfigAssumption, FieldsOfConfig
    <2>2. \A k \in KeySet : Merge(f)[k] \in Field(k)
        BY <1>2, <2>1 DEF Merge, IsFile
    <2>3. Merge(f) = [k \in KeySet |-> Merge(f)[k]]
        BY DEF Merge
    <2>4. Merge(f) \in Config
        BY <2>2, <2>3, ConfigOfFields
    <2> QED
        BY <2>4, ConfigAssumption DEF Load
<1> QED
    BY <1>1, <1>2

LEMMA BeginningsType ==
    ASSUME NEW k \in KeySet, NEW v \in Field(k) \union {Garbled}, NEW w \in Beginnings(k, v)
    PROVE  w \in Field(k)
<1>1. v # Garbled /\ k # "temperatureAutoControl"
    BY DEF Beginnings
<1>2. v \in Int /\ Field(k) = Int
    BY <1>1 DEF Field
<1>3. \A n \in Nat \ {0} : v \div n \in Int
    BY <1>2
<1>4. \A n \in Nat \ {0} : n * (v \div n) \in Int
    BY <1>3
<1>5. Degree = 100000 /\ 10 * Degree \in Nat \ {0} /\ 100 * Degree \in Nat \ {0}
    BY DEF Degree
<1>6. \/ \E n \in {10, 100} : w = v \div n
      \/ \E n \in {10, 100, 1000, 10000, Degree} : w = n * (v \div n)
      \/ \E n \in {10, 100} : w = Degree * (v \div (n * Degree))
    BY <1>1 DEF Beginnings
<1>7. Degree * (v \div (10 * Degree)) \in Int /\ Degree * (v \div (100 * Degree)) \in Int
    <2>1. v \div (10 * Degree) \in Int /\ v \div (100 * Degree) \in Int
        BY <1>3, <1>5
    <2> QED
        BY <1>5, <2>1
<1>8. \A n \in {10, 100, 1000, 10000, Degree} : n \in Nat \ {0}
    BY <1>5
<1>9. w \in Int
    BY <1>3, <1>4, <1>6, <1>7, <1>8
<1> QED
    BY <1>2, <1>9

\* Whatever is left of a file is a file.
LEMMA CutsType ==
    ASSUME NEW f, IsFile(f), NEW g \in Cuts(f)
    PROVE  IsFile(g) /\ g # NoFile
<1>0. PICK i \in 1..5 :
        /\ f[Keys[i]] # Missing
        /\ \E v \in Beginnings(Keys[i], f[Keys[i]]) \union {Missing, Garbled} :
             g = CutAt(f, i, v)
    BY KeysAre DEF Cuts
<1>1. PICK v \in Beginnings(Keys[i], f[Keys[i]]) \union {Missing, Garbled} : g = CutAt(f, i, v)
    BY <1>0
<1>2. f[Keys[i]] \in Field(Keys[i]) \union {Garbled} /\ Keys[i] \in KeySet
    BY <1>0, KeysAre DEF IsFile
<1>3. v \in {Missing, Garbled} \/ v \in Field(Keys[i])
    BY <1>1, <1>2, BeginningsType
<1>4. g = [k \in KeySet |-> g[k]]
    BY <1>1 DEF CutAt
<1>5. \A k \in KeySet : g[k] \in {Missing, Garbled} \/ g[k] \in Field(k)
    BY <1>1, <1>3 DEF CutAt, IsFile
<1> QED
    BY <1>4, <1>5, IsAFile

LEMMA NoLinesType == IsFile(NoLines) /\ NoLines # NoFile
<1>1. NoLines = [k \in KeySet |-> NoLines[k]] /\ \A k \in KeySet : NoLines[k] = Missing
    BY DEF NoLines
<1> QED
    BY <1>1, IsAFile

-----------------------------------------------------------------------------
(* The steps *)

LEMMA ObjectionIsAnError ==
    ASSUME NEW c, ~Valid(c)
    PROVE  Objection(c) \in Errors
<1>1. Objection(c) \in {"", "invalidTempTarget", "invalidConfig", "invalidFanDuty"}
    BY DEF Objection
<1> QED
    BY <1>1 DEF Valid, Errors

LEMMA InitInv == Init => IInv
<1> SUFFICES ASSUME Init PROVE IInv
    OBVIOUS
<1>1. file = NoFile \/ IsFile(file)
    BY FileAssumption DEF Init
<1>2. Load(file) \in Config /\ Valid(Load(file))
    BY <1>1, LoadType
<1>3. TypeOK
    <2>1. \A f \in {tmp, file, disk} : f = NoFile \/ IsFile(f)
        BY <1>1 DEF Init
    <2>2. applies \in 0..MaxApplies /\ faults \in 0..MaxFaults /\ crashes \in 0..MaxCrashes
        <3>1. applies = 0 /\ faults = 0 /\ crashes = 0
            BY DEF Init
        <3> QED
            BY <3>1, BoundsAssumption
    <2>3. config \in Config /\ pending \in Config /\ shown \in Config
          /\ acked \in Config
        BY <1>2, ConfigAssumption DEF Init
    <2> QED
        BY <2>1, <2>2, <2>3 DEF Init, TypeOK
<1>4. FilesExist /\ ValidConfigRuns
    BY ConfigAssumption DEF Init, FilesExist, ValidConfigRuns
<1>5. StoredIsKnown
    BY <1>2, SameAsItself DEF Init, StoredIsKnown
<1> QED
    BY <1>3, <1>4, <1>5 DEF IInv

LEMMA BootInv == IInv /\ Boot => IInv'
<1> SUFFICES ASSUME IInv, Boot PROVE IInv'
    OBVIOUS
<1>1. Load(file) \in Config /\ Valid(Load(file))
    BY LoadType DEF IInv, TypeOK
<1>2. UNCHANGED <<tmp, file, disk, acked, damaged, applies, faults, crashes>>
    BY DEF Boot, fileVars, history, bounds
<1>3. /\ pc = "off" /\ pc' = "refresh" /\ up' \in BOOLEAN /\ config' = Load(file)
      /\ pending' = DefaultConfig /\ shown' = DefaultConfig
      /\ data' = "Not loaded" /\ operation' = ""
    BY DEF Boot
<1>4. TypeOK'
    BY <1>1, <1>2, <1>3, ConfigAssumption DEF IInv, TypeOK
<1>5. FilesExist' /\ ValidConfigRuns'
    BY <1>1, <1>2, <1>3 DEF IInv, ValidConfigRuns, FilesExist
<1>6. StoredIsKnown'
    BY <1>2, <1>3 DEF IInv, StoredIsKnown
<1> QED
    BY <1>4, <1>5, <1>6 DEF IInv

LEMMA RefreshInv == IInv /\ Refresh => IInv'
<1> SUFFICES ASSUME IInv, Refresh PROVE IInv'
    OBVIOUS
<1>1. UNCHANGED <<up, config, pending, tmp, file, disk, acked, damaged, applies, faults, crashes>>
    BY DEF Refresh, fileVars, history, bounds
<1>2. /\ pc \in {"idle", "refresh"} /\ pc' = "idle"
      /\ shown' \in {shown, config} /\ data' \in {"Loaded", "Load failed"}
      /\ operation' \in {operation, "backendFailure"}
    BY DEF Refresh, Loaded, LoadFails
<1>3. TypeOK'
    BY <1>1, <1>2 DEF IInv, TypeOK, Errors
<1>4. FilesExist' /\ ValidConfigRuns'
    BY <1>1, <1>2 DEF IInv, ValidConfigRuns, FilesExist
<1>5. StoredIsKnown'
    BY <1>1, <1>2 DEF IInv, StoredIsKnown
<1> QED
    BY <1>3, <1>4, <1>5 DEF IInv

LEMMA ApplyInv == ASSUME NEW c \in Commands PROVE IInv /\ ApplySettings(c) => IInv'
<1> SUFFICES ASSUME IInv, ApplySettings(c) PROVE IInv'
    OBVIOUS
<1>1. UNCHANGED <<up, config, tmp, file, disk, acked, damaged, faults, crashes>>
    BY DEF ApplySettings, fileVars, history
<1>2. /\ pc = "idle" /\ pc' \in {"set", "idle"}
      /\ UNCHANGED <<shown, data>> /\ operation' \in {operation, "backendFailure"}
    BY DEF ApplySettings, screenVars, Fails
<1>3. applies' \in 0..MaxApplies
    <2>1. applies \in 0..MaxApplies /\ applies < MaxApplies /\ applies' = applies + 1
        BY DEF ApplySettings, IInv, TypeOK
    <2> QED
        BY <2>1, BoundsAssumption
<1>4. pending' \in Config
    <2>1. config \in Config /\ pending \in Config /\ c \in Command
        BY ConfigAssumption DEF IInv, TypeOK
    <2> QED
        BY <2>1 DEF ApplySettings, Config, Command
<1>5. TypeOK'
    BY <1>1, <1>2, <1>3, <1>4 DEF IInv, TypeOK, Errors
<1>6. FilesExist' /\ ValidConfigRuns'
    BY <1>1, <1>2 DEF IInv, ValidConfigRuns, FilesExist
<1>7. StoredIsKnown'
    BY <1>1, <1>2 DEF IInv, StoredIsKnown
<1> QED
    BY <1>5, <1>6, <1>7 DEF IInv

LEMMA SavedInv == IInv /\ Saved => IInv'
<1> SUFFICES ASSUME IInv, Saved PROVE IInv'
    OBVIOUS
<1>1. /\ pc = "answer" /\ pc' = "refresh" /\ operation' = "Saved" /\ acked' = pending
      /\ UNCHANGED <<up, config, pending, shown, data, tmp, file, disk, damaged,
                     applies, faults, crashes>>
    BY DEF Saved, fileVars, bounds
<1>2. TypeOK'
    BY <1>1 DEF IInv, TypeOK
<1>3. FilesExist' /\ ValidConfigRuns'
    BY <1>1 DEF IInv, ValidConfigRuns, FilesExist
<1>4. StoredIsKnown'
    BY <1>1 DEF IInv, StoredIsKnown
<1> QED
    BY <1>2, <1>3, <1>4 DEF IInv

LEMMA SetConfigInv == IInv /\ SetConfig => IInv'
<1> SUFFICES ASSUME IInv, SetConfig PROVE IInv'
    OBVIOUS
<1>1. UNCHANGED <<up, pending, tmp, file, disk, acked, damaged, applies, faults, crashes>>
    BY DEF SetConfig, fileVars, history, bounds
<1>2. /\ pc = "set" /\ UNCHANGED <<shown, data>>
      /\ \/ pc' = "open" /\ config' = pending /\ Valid(pending) /\ UNCHANGED operation
         \/ pc' = "idle" /\ config' = config /\ operation' \in Errors
    BY ObjectionIsAnError DEF SetConfig, screenVars, Fails, Errors
<1>3. TypeOK'
    BY <1>1, <1>2 DEF IInv, TypeOK
<1>4. FilesExist' /\ ValidConfigRuns'
    BY <1>1, <1>2 DEF IInv, ValidConfigRuns, FilesExist
<1>5. StoredIsKnown'
    BY <1>1, <1>2 DEF IInv, StoredIsKnown
<1> QED
    BY <1>3, <1>4, <1>5 DEF IInv

LEMMA FaultType ==
    ASSUME TypeOK
    PROVE  (Fault \/ UNCHANGED faults) => faults' \in 0..MaxFaults
<1>1. faults \in 0..MaxFaults
    BY DEF TypeOK
<1> QED
    BY <1>1, BoundsAssumption DEF Fault

LEMMA OpenInv == IInv /\ Open => IInv'
<1> SUFFICES ASSUME IInv, Open PROVE IInv'
    OBVIOUS
<1>1. /\ pc = "open" /\ pc' = "write" /\ tmp' = NoLines
      /\ UNCHANGED <<up, config, pending, shown, data, operation, file, disk, acked, damaged,
                     applies, faults, crashes>>
    BY DEF Open, screenVars, history, bounds
<1>2. \A f \in {tmp', file', disk'} : f = NoFile \/ IsFile(f)
    BY <1>1, NoLinesType DEF IInv, TypeOK
<1>3. TypeOK'
    BY <1>1, <1>2 DEF IInv, TypeOK
<1>4. FilesExist' /\ ValidConfigRuns' /\ StoredIsKnown'
    BY <1>1, NoLinesType DEF IInv, ValidConfigRuns, FilesExist, StoredIsKnown
<1> QED
    BY <1>3, <1>4 DEF IInv

\* In the middle of save() the configuration on its way is in force.
LEMMA PendingIsValid ==
    ASSUME TypeOK, ValidConfigRuns, pc \in {"open", "write", "rename", "answer"}
    PROVE  pending \in Config /\ Valid(pending)
    BY DEF TypeOK, ValidConfigRuns

LEMMA FlushInv == IInv /\ Flush => IInv'
<1> SUFFICES ASSUME IInv, Flush PROVE IInv'
    OBVIOUS
<1>1. /\ pc = "write" /\ pc' = "rename"
      /\ UNCHANGED <<up, config, pending, shown, data, operation, file, disk, acked, damaged,
                     applies, crashes>>
    BY DEF Flush, screenVars, history
<1>2. PICK g \in AsFiles(pending) : \/ tmp' = g /\ UNCHANGED faults
                                    \/ Fault /\ tmp' \in Cuts(g)
    BY DEF Flush
<1>3. IsFile(tmp') /\ tmp' # NoFile
    <2>1. IsFile(g) /\ g # NoFile
        <3>1. pending \in Config /\ Valid(pending)
            BY <1>1, PendingIsValid DEF IInv
        <3> QED
            BY <3>1, LoadOfSaved
    <2> QED
        BY <1>2, <2>1, CutsType
<1>4. faults' \in 0..MaxFaults
    BY FaultType DEF Flush, IInv
<1>5. \A f \in {tmp', file', disk'} : f = NoFile \/ IsFile(f)
    BY <1>1, <1>3 DEF IInv, TypeOK
<1>6. TypeOK'
    BY <1>1, <1>4, <1>5 DEF IInv, TypeOK
<1>7. FilesExist' /\ ValidConfigRuns' /\ StoredIsKnown'
    BY <1>1, <1>3 DEF IInv, ValidConfigRuns, FilesExist, StoredIsKnown
<1> QED
    BY <1>6, <1>7 DEF IInv

LEMMA RenameInv == IInv /\ Rename => IInv'
<1> SUFFICES ASSUME IInv, Rename PROVE IInv'
    OBVIOUS
<1>1. /\ pc = "rename" /\ pc' = "answer" /\ file' = tmp /\ tmp' = NoFile
      /\ damaged' = (file' \notin AsFiles(pending))
      /\ UNCHANGED <<up, config, pending, shown, data, operation, disk, acked,
                     applies, faults, crashes>>
    BY DEF Rename, screenVars, bounds
<1>2. \A f \in {tmp', file', disk'} : f = NoFile \/ IsFile(f)
    BY <1>1 DEF IInv, TypeOK
<1>3. damaged' \in BOOLEAN
    BY <1>1
<1>4. TypeOK'
    BY <1>1, <1>2, <1>3 DEF IInv, TypeOK
<1>5. FilesExist' /\ ValidConfigRuns'
    BY <1>1 DEF IInv, ValidConfigRuns, FilesExist
<1>6. StoredIsKnown'
    <2>1. pending \in Config /\ Valid(pending)
        BY <1>1, PendingIsValid DEF IInv
    <2>2. file' \in AsFiles(pending) => SameToSixDigits(pending, Load(file'))
        BY <2>1, LoadOfSaved
    <2> QED
        BY <1>1, <2>2 DEF StoredIsKnown
<1> QED
    BY <1>4, <1>5, <1>6 DEF IInv

LEMMA SaveThrowsInv == IInv /\ SaveThrows => IInv'
<1> SUFFICES ASSUME IInv, SaveThrows PROVE IInv'
    OBVIOUS
<1>1. /\ pc \in {"open", "rename"} /\ pc' = "idle" /\ operation' = "backendFailure"
      /\ UNCHANGED <<up, config, pending, shown, data, tmp, file, disk, acked, damaged,
                     applies, crashes>>
    BY DEF SaveThrows, Fails, fileVars, history
<1>2. faults' \in 0..MaxFaults
    BY FaultType DEF SaveThrows, IInv
<1>3. TypeOK'
    BY <1>1, <1>2 DEF IInv, TypeOK, Errors
<1>4. FilesExist' /\ ValidConfigRuns' /\ StoredIsKnown'
    BY <1>1 DEF IInv, ValidConfigRuns, FilesExist, StoredIsKnown
<1> QED
    BY <1>3, <1>4 DEF IInv

LEMMA BackendInv == IInv /\ (BackendFails \/ WriteBack) => IInv'
<1> SUFFICES ASSUME IInv, BackendFails \/ WriteBack PROVE IInv'
    OBVIOUS
<1>1. /\ up' \in BOOLEAN /\ disk' \in {disk, file}
      /\ UNCHANGED <<pc, config, pending, shown, data, operation, tmp, file, acked, damaged,
                     applies, faults, crashes>>
    BY DEF BackendFails, WriteBack, screenVars, fileVars, history, bounds, IInv, TypeOK
<1>2. \A f \in {tmp', file', disk'} : f = NoFile \/ IsFile(f)
    BY <1>1 DEF IInv, TypeOK
<1>3. TypeOK'
    BY <1>1, <1>2 DEF IInv, TypeOK
<1>4. FilesExist' /\ ValidConfigRuns' /\ StoredIsKnown'
    BY <1>1 DEF IInv, ValidConfigRuns, FilesExist, StoredIsKnown
<1> QED
    BY <1>3, <1>4 DEF IInv

\* A crash in the last step of an apply makes the new settings the known ones.
LEMMA CrashInv == IInv /\ (Killed \/ PowerFails) => IInv'
<1> SUFFICES ASSUME IInv, Killed \/ PowerFails PROVE IInv'
    OBVIOUS
<1>1. /\ pc' = "off" /\ up' = FALSE /\ tmp' = NoFile
      /\ acked' = (IF pc = "answer" THEN pending ELSE acked)
      /\ UNCHANGED <<config, pending, shown, data, operation, applies, faults>>
    BY DEF Killed, PowerFails, Off, screenVars
<1>2. crashes' \in 0..MaxCrashes
    <2>1. crashes \in 0..MaxCrashes /\ crashes < MaxCrashes /\ crashes' = crashes + 1
        BY DEF Killed, PowerFails, Off, IInv, TypeOK
    <2> QED
        BY <2>1, BoundsAssumption
<1>3. /\ file = NoFile \/ IsFile(file)
      /\ disk = NoFile \/ IsFile(disk)
    BY DEF IInv, TypeOK
<1>4. /\ file' = NoFile \/ IsFile(file')
      /\ disk' = NoFile \/ IsFile(disk')
      /\ file' = NoFile => disk' = NoFile
      /\ damaged' \in BOOLEAN
      /\ ~damaged' => ~damaged /\ file' = file
    <2>1. CASE Killed
        BY <2>1, <1>3 DEF Killed, IInv, TypeOK, FilesExist
    <2>2. CASE PowerFails
        <3>1. disk' = file' /\ damaged' = (damaged \/ file' # file)
            BY <2>2 DEF PowerFails
        <3>2. file' \in {disk, file} \/ (IsFile(file) /\ file' \in Cuts(file))
            BY <2>2, <1>3 DEF PowerFails, IInv, FilesExist
        <3>3. file' = NoFile \/ IsFile(file')
            BY <3>2, <1>3, CutsType
        <3> QED
            BY <3>1, <3>3 DEF IInv, TypeOK
    <2> QED
        BY <2>1, <2>2
<1>5. TypeOK'
    <2>1. \A f \in {tmp', file', disk'} : f = NoFile \/ IsFile(f)
        BY <1>1, <1>4
    <2>2. acked' \in Config
        BY <1>1 DEF IInv, TypeOK
    <2> QED
        BY <1>1, <1>2, <1>4, <2>1, <2>2 DEF IInv, TypeOK
<1>6. FilesExist' /\ ValidConfigRuns'
    BY <1>1, <1>4 DEF IInv, ValidConfigRuns, FilesExist
<1>7. StoredIsKnown'
    BY <1>1, <1>4 DEF IInv, StoredIsKnown
<1> QED
    BY <1>5, <1>6, <1>7 DEF IInv

LEMMA StepInv == IInv /\ [Next]_vars => IInv'
<1> SUFFICES ASSUME IInv, [Next]_vars PROVE IInv'
    OBVIOUS
<1>1. CASE UNCHANGED vars
    BY <1>1 DEF vars, screenVars, fileVars, history, bounds, IInv, TypeOK, ValidConfigRuns,
       FilesExist, StoredIsKnown
<1>2. CASE Boot \/ Refresh \/ \E c \in Commands : ApplySettings(c)
    BY <1>2, BootInv, RefreshInv, ApplyInv
<1>3. CASE Saved \/ SetConfig \/ Open \/ Flush \/ Rename \/ SaveThrows
    BY <1>3, SavedInv, SetConfigInv, OpenInv, FlushInv, RenameInv, SaveThrowsInv
<1>4. CASE BackendFails \/ WriteBack \/ Killed \/ PowerFails
    BY <1>4, BackendInv, CrashInv
<1> QED
    BY <1>1, <1>2, <1>3, <1>4 DEF Next

-----------------------------------------------------------------------------
\* The strengthening: what the next start would load is known at every step.
THEOREM SettingsInvariant == Spec => []IInv
    BY InitInv, StepInv, PTL DEF Spec

\* The variables keep their types; what save() leaves, whole or cut off, is a
\* file load() can be given.
THEOREM TypeCorrect == Spec => []TypeOK
<1>1. IInv => TypeOK
    BY DEF IInv
<1> QED
    BY <1>1, SettingsInvariant, PTL

\* Whatever is left of the file and whatever the operator enters, a valid
\* configuration is in force (load, setConfig).
THEOREM ValidConfigRunsHolds == Spec => []ValidConfigRuns
<1>1. IInv => ValidConfigRuns
    BY DEF IInv
<1> QED
    BY <1>1, SettingsInvariant, PTL

\* Settings reported as saved are loaded by the next start to six significant
\* digits, whenever the process is killed (save, load).
THEOREM SettingsSurviveRestartHolds == Spec => []SettingsSurviveRestart
<1>1. IInv => SettingsSurviveRestart
    BY DEF IInv, StoredIsKnown, SettingsSurviveRestart
<1> QED
    BY <1>1, SettingsInvariant, PTL

\* A screen without an error shows the settings that run (refresh, apply).
THEOREM ScreenShowsWhatRunsHolds == Spec => []ScreenShowsWhatRuns
<1>1. Init => ScreenShowsWhatRuns
    BY DEF Init, ScreenShowsWhatRuns
<1>2. ScreenShowsWhatRuns /\ [Next]_vars => ScreenShowsWhatRuns'
    <2> SUFFICES ASSUME ScreenShowsWhatRuns, [Next]_vars PROVE ScreenShowsWhatRuns'
        OBVIOUS
    <2>1. CASE UNCHANGED vars
        BY <2>1 DEF vars, screenVars, ScreenShowsWhatRuns
    <2>2. CASE Refresh
        BY <2>2 DEF Refresh, Loaded, LoadFails, ScreenShowsWhatRuns
    <2>3. ASSUME NEW c \in Commands, ApplySettings(c) PROVE ScreenShowsWhatRuns'
        BY <2>3 DEF ApplySettings, Fails, Errors, ScreenShowsWhatRuns
    <2>4. CASE SetConfig
        BY <2>4, ObjectionIsAnError DEF SetConfig, Fails, Errors, ScreenShowsWhatRuns
    <2>5. CASE SaveThrows
        BY <2>5 DEF SaveThrows, Fails, Errors, ScreenShowsWhatRuns
    <2>6. CASE BackendFails \/ WriteBack
        BY <2>6 DEF BackendFails, WriteBack, screenVars, ScreenShowsWhatRuns
    <2>7. CASE Boot \/ Saved \/ Open \/ Flush \/ Rename \/ Killed \/ PowerFails
        BY <2>7 DEF Boot, Saved, Open, Flush, Rename, Killed, PowerFails, Off,
           ScreenShowsWhatRuns
    <2> QED
        BY <2>1, <2>2, <2>3, <2>4, <2>5, <2>6, <2>7 DEF Next
<1> QED
    BY <1>1, <1>2, PTL DEF Spec
=============================================================================
