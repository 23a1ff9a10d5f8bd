----------------------------- MODULE FanControl -----------------------------
(***************************************************************************)
(* The control loop of the fan: TempService on the service worker, the      *)
(* TemperatureSampler and the FanController on the io worker, the duties    *)
(* posted from one to the other, and the files of the fan driver.           *)
(*                                                                          *)
(* Every call of TempService comes from the service worker, so each of its  *)
(* calls is one step.  On the io worker a duty becomes two file writes per  *)
(* channel, and each of them is a step: the file cannot be opened and the   *)
(* rest of the duty is skipped, or the driver refuses the value when the    *)
(* stream is flushed by its destructor, which nobody notices.               *)
(*                                                                          *)
(* Temperatures and tolerances are in tenths of a degree, the gain is duty  *)
(* per degree; rounding errors of double are left out.                      *)
(***************************************************************************)
EXTENDS Integers, Sequences

CONSTANTS
    Channels,     \* the channels of the controller, in order
    Configs,      \* the configurations it is asked to take
    DefaultConfig,
    Temperatures, \* what the sensor may measure
    IntMax,       \* the largest int
    None,         \* std::nullopt
    MaxQueue,     \* bound on the posted duties (the code has none)
    MaxFaults,    \* bound on failing reads and writes
    MaxChanges    \* bound on starts, stops, settings and changes of temperature

DutyMax == 255    \* kPwmMax, and the largest maxFanDuty

Valid(c) ==       \* validateConfig; the least tolerance is a tenth of a degree
    /\ c.targetCelsius \in 150..600
    /\ c.toleranceCelsius >= 1
    /\ c.proportionalGain > 0
    /\ 0 <= c.minFanDuty /\ c.minFanDuty <= c.maxFanDuty /\ c.maxFanDuty <= DutyMax
    /\ c.manualFanDuty \in c.minFanDuty..c.maxFanDuty

ConfigType ==
    [temperatureAutoControl : BOOLEAN, targetCelsius : Int, toleranceCelsius : Int,
     proportionalGain : Int, manualFanDuty : Int, minFanDuty : Int, maxFanDuty : Int]

ASSUME ChannelsAssumption == Channels \in Seq({0, 1}) /\ Channels # <<>>
ASSUME ConfigAssumption ==
    Configs \subseteq ConfigType /\ DefaultConfig \in ConfigType /\ Valid(DefaultConfig)
ASSUME NumberAssumption ==
    Temperatures \subseteq Int /\ None \notin Int /\ IntMax \in Nat /\ IntMax >= DutyMax
ASSUME BoundsAssumption == MaxQueue \in Nat /\ MaxFaults \in Nat /\ MaxChanges \in Nat

VARIABLES
    state,          \* state_ of TempService
    config,         \* config_
    due,            \* the time nextControlAt_ has come
    latestTemperatureCelsius, latestFanDuty,
    sampled,        \* latestTemperatureCelsius_ of the sampler
    sampleFailed,   \* its lastError_ is not empty
    posted,         \* duties posted to the io worker
    writes,         \* the file writes left of the duty in work
    enable, pwm,    \* the driver's files, per channel
    fanFailed,      \* history: the last duty met a file that cannot be opened
    lost,           \* history: channels whose last duty lost a write
    temperature,    \* what the sensor measures
    faults, changes

serviceVars == <<state, config, due, latestTemperatureCelsius, latestFanDuty>>
samplerVars == <<sampled, sampleFailed>>
fanVars     == <<writes, enable, pwm, fanFailed, lost>>
vars == <<serviceVars, samplerVars, posted, fanVars, temperature, faults, changes>>

Chans  == {Channels[i] : i \in DOMAIN Channels}
Duties == 0..DutyMax
Writes == [file : {"enable", "pwm"}, channel : {0, 1}, value : Duties]

TypeOK ==
    /\ state \in {"stopped", "running", "degraded"}
    /\ config \in ConfigType /\ Valid(config)
    /\ due \in BOOLEAN
    /\ latestTemperatureCelsius \in Temperatures \union {None}
    /\ latestFanDuty \in Duties
    /\ sampled \in Temperatures \union {None} /\ sampleFailed \in BOOLEAN
    /\ posted \in Seq(Duties)
    /\ writes \in Seq(Writes)
    /\ enable \in [Chans -> {0, 1}] /\ pwm \in [Chans -> Duties]
    /\ fanFailed \in BOOLEAN /\ lost \in SUBSET Chans
    /\ temperature \in Temperatures
    /\ faults \in 0..MaxFaults /\ changes \in 0..MaxChanges

Init ==
    /\ state = "stopped" /\ config = DefaultConfig /\ due = TRUE
    /\ latestTemperatureCelsius = None /\ latestFanDuty = 0
    /\ sampled = None /\ sampleFailed = FALSE
    /\ posted = <<>> /\ writes = <<>>
    /\ enable = [c \in Chans |-> 0] /\ pwm = [c \in Chans |-> 0]
    /\ fanFailed = FALSE /\ lost = {}
    /\ temperature \in Temperatures
    /\ faults = 0 /\ changes = 0

-----------------------------------------------------------------------------
(* TempService, on the service worker *)

Change == changes < MaxChanges /\ changes' = changes + 1

Post(d) == Len(posted) < MaxQueue /\ posted' = Append(posted, d)

Start ==
    /\ Change
    /\ state' = "running" /\ due' = TRUE
    /\ UNCHANGED <<config, latestTemperatureCelsius, latestFanDuty, samplerVars, posted,
                   fanVars, temperature, faults>>

Stop ==
    /\ Change
    /\ state' = "stopped" /\ latestFanDuty' = 0
    /\ Post(0)
    /\ UNCHANGED <<config, due, latestTemperatureCelsius, samplerVars, fanVars, temperature,
                   faults>>

SetConfigFirst(c) ==          \* mutant: validated after it is in force
    /\ Change
    /\ config' = c
    /\ UNCHANGED <<state, due, latestTemperatureCelsius, latestFanDuty, samplerVars, posted,
                   fanVars, temperature, faults>>

\* An invalid configuration is refused by an exception.
SetConfig(c) ==
    /\ Change
    /\ config' = IF Valid(c) THEN c ELSE config
    /\ UNCHANGED <<state, due, latestTemperatureCelsius, latestFanDuty, samplerVars, posted,
                   fanVars, temperature, faults>>

SetTargetCelsius(t) == SetConfig([config EXCEPT !.targetCelsius = t])

Clamp(x, low, high) == IF x < low THEN low ELSE IF x > high THEN high ELSE x

\* ceil(tenths * gain / 10)
Requested(tenths, gain) == (tenths * gain + 9) \div 10

\* Converting a double that does not fit is undefined: what the hardware
\* makes of it is the least int (x86) or the largest (ARM).
ToInt(x) == IF x <= IntMax THEN {x} ELSE {-IntMax - 1, IntMax}

ControlledTruncated(t, c) ==  \* mutant: rounded down
    LET over == t - c.targetCelsius - c.toleranceCelsius IN
    IF over <= 0 THEN {0}
    ELSE {Clamp(n, c.minFanDuty, c.maxFanDuty) : n \in ToInt((over * c.proportionalGain) \div 10)}

Controlled(t, c) ==
    LET over == t - c.targetCelsius - c.toleranceCelsius IN
    IF over <= 0 THEN {0}
    ELSE {Clamp(n, c.minFanDuty, c.maxFanDuty) : n \in ToInt(Requested(over, c.proportionalGain))}

calculateFanDuty(t, c) ==
    IF c.temperatureAutoControl THEN Controlled(t, c)
    ELSE {Clamp(c.manualFanDuty, c.minFanDuty, c.maxFanDuty)}

Tick == state # "stopped" /\ due

ControlOnChange ==            \* mutant: a duty is posted only when it is new
    /\ Tick /\ ~sampleFailed /\ sampled # None
    /\ \E d \in calculateFanDuty(sampled, config) :
         /\ IF d # latestFanDuty THEN Post(d) ELSE UNCHANGED posted
         /\ latestFanDuty' = d
    /\ latestTemperatureCelsius' = sampled
    /\ state' = "running" /\ due' = FALSE
    /\ UNCHANGED <<config, samplerVars, fanVars, temperature, faults, changes>>

\* tick(): latestTemperatureCelsiusOrThrow() has a temperature.
Control ==
    /\ Tick /\ ~sampleFailed /\ sampled # None
    /\ \E d \in calculateFanDuty(sampled, config) : Post(d) /\ latestFanDuty' = d
    /\ latestTemperatureCelsius' = sampled
    /\ state' = "running" /\ due' = FALSE
    /\ UNCHANGED <<config, samplerVars, fanVars, temperature, faults, changes>>

\* tick(): it throws; the fan keeps its duty.
ControlFails ==
    /\ Tick /\ (sampleFailed \/ sampled = None)
    /\ state' = "degraded" /\ due' = FALSE
    /\ UNCHANGED <<config, latestTemperatureCelsius, latestFanDuty, samplerVars, posted,
                   fanVars, temperature, faults, changes>>

\* controlInterval has passed.
BecomesDue ==
    /\ ~due /\ due' = TRUE
    /\ UNCHANGED <<state, config, latestTemperatureCelsius, latestFanDuty, samplerVars, posted,
                   fanVars, temperature, faults, changes>>

-----------------------------------------------------------------------------
(* The io worker: samples between two duties, duties in the order posted *)

Fault == faults < MaxFaults /\ faults' = faults + 1

Sample ==
    /\ writes = <<>>
    /\ \/ sampled' = temperature /\ sampleFailed' = FALSE /\ UNCHANGED faults
       \/ Fault /\ sampleFailed' = TRUE /\ UNCHANGED sampled
    /\ UNCHANGED <<serviceVars, posted, fanVars, temperature, changes>>

Write(file, channel, value) == [file |-> file, channel |-> channel, value |-> value]

ChannelWritesEnableFirst(d, c) ==   \* mutant: the enable file is always written first
    <<Write("enable", c, IF d > 0 THEN 1 ELSE 0), Write("pwm", c, d)>>

ChannelWrites(d, c) ==
    IF d > 0 THEN <<Write("enable", c, 1), Write("pwm", c, d)>>
    ELSE <<Write("pwm", c, 0), Write("enable", c, 0)>>

\* writeDuty: two writes for each channel, one channel after the other.
DutyWrites(d) ==
    [i \in 1..(2 * Len(Channels)) |->
        ChannelWrites(d, Channels[(i + 1) \div 2])[IF i % 2 = 1 THEN 1 ELSE 2]]

BeginDuty ==
    /\ writes = <<>> /\ posted # <<>>
    /\ writes' = DutyWrites(Clamp(Head(posted), 0, DutyMax))
    /\ posted' = Tail(posted)
    /\ fanFailed' = FALSE
    /\ UNCHANGED <<serviceVars, samplerVars, enable, pwm, lost, temperature, faults, changes>>

\* The first write of a channel that is not lost forgets an earlier loss.
IsFirst == Len(writes) % 2 = 0

WriteFile ==
    /\ writes # <<>>
    /\ LET w == Head(writes) IN
         /\ IF w.file = "enable"
            THEN enable' = [enable EXCEPT ![w.channel] = w.value] /\ UNCHANGED pwm
            ELSE pwm' = [pwm EXCEPT ![w.channel] = w.value] /\ UNCHANGED enable
         /\ lost' = IF IsFirst THEN lost \ {w.channel} ELSE lost
    /\ writes' = Tail(writes)
    /\ UNCHANGED <<serviceVars, samplerVars, posted, fanFailed, temperature, faults, changes>>

\* The file cannot be opened: drainPostedTasks() logs it and drops the rest.
WriteThrows ==
    /\ writes # <<>>
    /\ Fault
    /\ writes' = <<>> /\ fanFailed' = TRUE
    /\ UNCHANGED <<serviceVars, samplerVars, posted, enable, pwm, lost, temperature, changes>>

\* writeTextFile() returns before the value reaches the driver.
WriteLost ==
    /\ writes # <<>>
    /\ Fault
    /\ lost' = lost \union {Head(writes).channel}
    /\ writes' = Tail(writes)
    /\ UNCHANGED <<serviceVars, samplerVars, posted, enable, pwm, fanFailed, temperature, changes>>

TemperatureChanges ==
    /\ Change
    /\ temperature' \in Temperatures \ {temperature}
    /\ UNCHANGED <<serviceVars, samplerVars, posted, fanVars, faults>>

-----------------------------------------------------------------------------
IoStep == Sample \/ BeginDuty \/ WriteFile \/ WriteThrows \/ WriteLost

Next ==
    \/ Start \/ Stop
    \/ \E c \in Configs : SetConfig(c)
    \/ \E c \in Configs : SetTargetCelsius(c.targetCelsius)
    \/ Control \/ ControlFails \/ BecomesDue
    \/ IoStep
    \/ TemperatureChanges

Spec == Init /\ [][Next]_vars

\* The tick is a periodic task of the service worker and time passes.  In every
\* loop the io worker works off what was posted and then takes a due sample, so
\* that neither keeps the other from its turn.
Fairness ==
    /\ WF_vars(Control) /\ WF_vars(ControlFails) /\ WF_vars(BecomesDue)
    /\ SF_vars(Sample) /\ WF_vars(BeginDuty) /\ WF_vars(WriteFile)

FairSpec == Spec /\ Fairness

-----------------------------------------------------------------------------
\* A channel that is not enabled has no duty left from before, so that
\* enabling it never spins the fan before its new duty is written; unless the
\* driver refused a write and nobody noticed.  The order of the two writes and
\* the skipping of the rest after a failure keep this (writeDuty).
StaleDutyNeverSpins == \A c \in Chans \ lost : enable[c] = 0 => pwm[c] = 0

\* The duty the settings ask for: none up to the tolerance, else the least
\* duty within the limits that covers the excess, else the limit.
Justified(d, t, c) ==
    LET excess == (t - c.targetCelsius - c.toleranceCelsius) * c.proportionalGain
        Enough == {n \in c.minFanDuty..c.maxFanDuty : 10 * n >= excess}
    IN  CASE ~c.temperatureAutoControl -> d = c.manualFanDuty
          [] c.temperatureAutoControl /\ excess <= 0 -> d = 0
          [] OTHER ->
               /\ d \in c.minFanDuty..c.maxFanDuty
               /\ excess <= 10 * IntMax =>
                    IF Enough = {} THEN d = c.maxFanDuty
                    ELSE d \in Enough /\ \A n \in Enough : d <= n

\* Every duty the control loop posts is the one its settings and its sample
\* call for, whatever is set in between; out of the range of int it is still
\* within the limits (tick, calculateFanDuty, setConfig).
DutyIsJustified ==
    [][ \A i \in DOMAIN posted' :
          (i > Len(posted) /\ state' # "stopped")
            => Justified(posted'[i], latestTemperatureCelsius', config') ]_vars

RunsAt(c, d) == pwm[c] = d /\ enable[c] = (IF d > 0 THEN 1 ELSE 0)

FanRunsAsAsked ==
    \A c \in Chans : \E d \in calculateFanDuty(temperature, config) : RunsAt(c, d)

\* Failing reads, failing writes and lost writes are made good: when they end
\* and temperature and settings stay, every channel comes to run at the duty
\* the settings ask for at the true temperature, and stays there, unless the
\* service is stopped (tick repeats the duty in every interval).
FanConverges ==
    <>[](state = "stopped" \/ FanRunsAsAsked)

\* "Device faults must be turned into a definite error or alarm" (arch.md):
\* a control turn after a failed fan write does not report "running".
FanFaultIsReported ==
    [][ fanFailed /\ fanFailed' /\ Tick /\ ~due' => state' = "degraded" ]_vars
=============================================================================
