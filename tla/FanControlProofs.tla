-------------------------- MODULE FanControlProofs --------------------------
(***************************************************************************)
(* Proofs about FanControl, for any channels, configurations, temperatures, *)
(* lengths of the queue and numbers of faults.  That no stale duty spins    *)
(* the fan becomes inductive with what is left to be written: the writes    *)
(* come in pairs of one channel, and between the two of a pair the file     *)
(* already written is the one that keeps the promise.                       *)
(***************************************************************************)
EXTENDS FanControl, SequenceTheorems, TLAPS

\* Counted from the end, the writes left are pairs of ChannelWrites.
WritesInPairs ==
    \A i \in DOMAIN writes : (Len(writes) - i) % 2 = 1 =>
        /\ i + 1 \in DOMAIN writes
        /\ \E d \in Duties, c \in Chans :
             writes[i] = ChannelWrites(d, c)[1] /\ writes[i + 1] = ChannelWrites(d, c)[2]

\* In the middle of a pair.
HalfWritten ==
    (writes # <<>> /\ ~IsFirst) =>
        LET w == Head(writes) IN
        /\ w.channel \in Chans
        /\ w.file = "enable" => w.value = 0
        /\ w.channel \notin lost => \/ w.file = "pwm" /\ enable[w.channel] = 1
                                    \/ w.file = "enable" /\ pwm[w.channel] = 0

IInv == TypeOK /\ WritesInPairs /\ HalfWritten /\ StaleDutyNeverSpins

-----------------------------------------------------------------------------
(* The duties *)

LEMMA ClampStaysWithin ==
    ASSUME NEW x \in Int, NEW low \in Int, NEW high \in Int, low <= high
    PROVE  /\ Clamp(x, low, high) \in Int
           /\ low <= Clamp(x, low, high) /\ Clamp(x, low, high) <= high
           /\ (low <= x /\ x <= high) => Clamp(x, low, high) = x
           /\ x < low => Clamp(x, low, high) = low
           /\ x > high => Clamp(x, low, high) = high
    BY DEF Clamp

LEMMA ConfigFields ==
    ASSUME NEW c \in ConfigType, Valid(c)
    PROVE  /\ c.targetCelsius \in Int /\ c.toleranceCelsius \in Int
           /\ c.proportionalGain \in Int /\ c.proportionalGain > 0
           /\ c.minFanDuty \in Int /\ c.maxFanDuty \in Int /\ c.manualFanDuty \in Int
           /\ 0 <= c.minFanDuty /\ c.minFanDuty <= c.maxFanDuty /\ c.maxFanDuty <= 255
           /\ c.minFanDuty <= c.manualFanDuty /\ c.manualFanDuty <= c.maxFanDuty
    BY DEF ConfigType, Valid, DutyMax

\* A product with a positive factor has the sign of the other one.
LEMMA SignOfProduct ==
    ASSUME NEW x \in Int, NEW y \in Int, y > 0
    PROVE  x * y \in Int /\ (x <= 0 <=> x * y <= 0)
    OBVIOUS

\* The duty requested is the least that covers the excess.
LEMMA RequestedIsLeast ==
    ASSUME NEW p \in Int
    PROVE  LET q == (p + 9) \div 10 IN
           q \in Int /\ \A n \in Int : 10 * n >= p <=> n >= q
    OBVIOUS

\* Every duty the service computes is the one that is asked for.
LEMMA DutiesAreJustified ==
    ASSUME NEW t \in Int, NEW c \in ConfigType, Valid(c), NEW d \in calculateFanDuty(t, c)
    PROVE  d \in Duties /\ Justified(d, t, c)
<1> DEFINE over == t - c.targetCelsius - c.toleranceCelsius
           p == over * c.proportionalGain
           q == (p + 9) \div 10
           low == c.minFanDuty
           high == c.maxFanDuty
<1>1. /\ c.targetCelsius \in Int /\ c.toleranceCelsius \in Int
      /\ c.proportionalGain \in Int /\ c.proportionalGain > 0
      /\ low \in Int /\ high \in Int /\ c.manualFanDuty \in Int
      /\ 0 <= low /\ low <= high /\ high <= 255
      /\ low <= c.manualFanDuty /\ c.manualFanDuty <= high
    BY ConfigFields
<1>2. over \in Int /\ p \in Int /\ (over <= 0 <=> p <= 0)
    BY <1>1, SignOfProduct
<1>3. CASE ~c.temperatureAutoControl
    <2>1. d = c.manualFanDuty
        <3>1. calculateFanDuty(t, c) = {Clamp(c.manualFanDuty, low, high)}
            BY <1>3 DEF calculateFanDuty
        <3>2. d = Clamp(c.manualFanDuty, low, high)
            BY <3>1
        <3>3. Clamp(c.manualFanDuty, low, high) = c.manualFanDuty
            BY <1>1 DEF Clamp
        <3> QED
            BY <3>2, <3>3
    <2>2. d \in Duties
        BY <1>1, <2>1 DEF Duties, DutyMax
    <2> QED
        BY <1>3, <2>1, <2>2 DEF Justified
<1>4. CASE c.temperatureAutoControl /\ p <= 0
    <2>1. d = 0
        BY <1>2, <1>4 DEF calculateFanDuty, Controlled
    <2> QED
        BY <1>4, <2>1 DEF Justified, Duties, DutyMax
<1>5. CASE c.temperatureAutoControl /\ ~(p <= 0)
    <2>1. PICK n \in ToInt(q) : d = Clamp(n, low, high)
        BY <1>2, <1>5 DEF calculateFanDuty, Controlled, Requested
    <2> HIDE DEF p
    <2>2. q \in Int /\ \A m \in Int : 10 * m >= p <=> m >= q
        BY <1>2, RequestedIsLeast
    <2> HIDE DEF q
    <2>3. n \in Int /\ (q <= IntMax => n = q) /\ IntMax \in Int
        BY <2>2, NumberAssumption DEF ToInt
    <2> HIDE DEF low, high
    <2>4. d \in low..high
        BY <1>1, <2>1, <2>3, ClampStaysWithin
    <2>5. ASSUME p <= 10 * IntMax
          PROVE  /\ \A m \in low..high : 10 * m >= p => d <= m
                 /\ 10 * d >= p \/ (d = high /\ \A m \in low..high : ~(10 * m >= p))
        <3>1. n = q
            BY <2>2, <2>3, <2>5
        <3>2. CASE q < low
            <4>1. d = low
                BY <1>1, <2>1, <2>3, <3>1, <3>2, ClampStaysWithin
            <4> QED
                BY <1>1, <2>2, <3>2, <4>1
        <3>3. CASE q > high
            <4>1. d = high
                BY <1>1, <2>1, <2>3, <3>1, <3>3, ClampStaysWithin
            <4> QED
                BY <1>1, <2>2, <3>3, <4>1
        <3>4. CASE low <= q /\ q <= high
            <4>1. d = q
                BY <1>1, <2>1, <2>3, <3>1, <3>4, ClampStaysWithin
            <4> QED
                BY <1>1, <2>2, <3>4, <4>1
        <3> QED
            BY <1>1, <2>2, <3>2, <3>3, <3>4
    <2> DEFINE Enough == {m \in low..high : 10 * m >= p}
    <2>6. p <= 10 * IntMax =>
            IF Enough = {} THEN d = high ELSE d \in Enough /\ \A m \in Enough : d <= m
        BY <2>4, <2>5
    <2>7. d \in Duties
        BY <1>1, <2>4 DEF Duties, DutyMax
    <2> QED
        BY <1>5, <2>4, <2>6, <2>7 DEF Justified, low, high, p
<1> QED
    BY <1>3, <1>4, <1>5
-----------------------------------------------------------------------------
(* The writes of one duty *)

LEMMA ChansAreNumbers ==
    /\ \A i \in DOMAIN Channels : Channels[i] \in Chans
    /\ Chans \subseteq {0, 1} /\ Len(Channels) \in Nat
    /\ DOMAIN Channels = 1..Len(Channels)
    BY ChannelsAssumption DEF Chans

LEMMA ChannelWritesShape ==
    ASSUME NEW d \in Duties, NEW c \in Chans
    PROVE  LET a == ChannelWrites(d, c)[1]
               b == ChannelWrites(d, c)[2]
           IN  /\ a \in Writes /\ b \in Writes /\ a.channel = c /\ b.channel = c
               /\ \/ a.file = "enable" /\ a.value = 1 /\ b.file = "pwm"
                  \/ a.file = "pwm" /\ a.value = 0 /\ b.file = "enable" /\ b.value = 0
               /\ a.file = "enable" => a.value \in {0, 1}
               /\ b.file = "enable" => b.value \in {0, 1}
<1>1. d \in 0..255 /\ c \in {0, 1}
    BY ChansAreNumbers DEF Duties, DutyMax
<1>2. CASE d > 0
    BY <1>1, <1>2 DEF ChannelWrites, Write, Writes, Duties, DutyMax
<1>3. CASE ~(d > 0)
    BY <1>1, <1>3 DEF ChannelWrites, Write, Writes, Duties, DutyMax
<1> QED
    BY <1>2, <1>3

LEMMA DutyWritesInPairs ==
    ASSUME NEW d \in Duties
    PROVE  LET w == DutyWrites(d) IN
           /\ w \in Seq(Writes) /\ Len(w) % 2 = 0
           /\ \A i \in DOMAIN w : (Len(w) - i) % 2 = 1 =>
                /\ i + 1 \in DOMAIN w
                /\ \E c \in Chans : /\ w[i] = ChannelWrites(d, c)[1]
                                    /\ w[i + 1] = ChannelWrites(d, c)[2]
<1> DEFINE n == Len(Channels)
           w == DutyWrites(d)
           half(i) == ChannelWrites(d, Channels[(i + 1) \div 2])[IF i % 2 = 1 THEN 1 ELSE 2]
<1>1. n \in Nat /\ 2 * n \in Nat
    BY ChansAreNumbers
<1>2. w = [i \in 1..(2 * n) |-> half(i)]
    BY DEF DutyWrites
<1>3. \A i \in 1..(2 * n) : (i + 1) \div 2 \in 1..n
    BY <1>1
<1>4. \A i \in 1..(2 * n) : Channels[(i + 1) \div 2] \in Chans
    BY <1>3, ChansAreNumbers
<1>5. \A i \in 1..(2 * n) : half(i) \in Writes
    BY <1>4, ChannelWritesShape
<1> HIDE DEF half, n, w
<1>6. w \in Seq(Writes) /\ Len(w) = 2 * n /\ DOMAIN w = 1..(2 * n)
    BY <1>1, <1>2, <1>5
<1>7. ASSUME NEW i \in DOMAIN w, (Len(w) - i) % 2 = 1
      PROVE  /\ i + 1 \in DOMAIN w
             /\ \E c \in Chans : /\ w[i] = ChannelWrites(d, c)[1]
                                 /\ w[i + 1] = ChannelWrites(d, c)[2]
    <2>1. /\ i \in 1..(2 * n) /\ i + 1 \in 1..(2 * n)
          /\ i % 2 = 1 /\ (i + 1) % 2 = 0 /\ (i + 2) \div 2 = (i + 1) \div 2
        BY <1>1, <1>6, <1>7
    <2>2. w[i] = half(i) /\ w[i + 1] = half(i + 1)
        BY <1>2, <2>1
    <2> DEFINE c == Channels[(i + 1) \div 2]
    <2>3. c \in Chans
        BY <1>4, <2>1
    <2>4. half(i) = ChannelWrites(d, c)[1]
        BY <2>1 DEF half
    <2>5. half(i + 1) = ChannelWrites(d, c)[2]
        <3>1. (i + 1) + 1 = i + 2
            BY <2>1
        <3> QED
            BY <2>1, <3>1 DEF half
    <2> QED
        BY <1>6, <2>1, <2>2, <2>3, <2>4, <2>5
<1>8. (2 * n) % 2 = 0
    BY <1>1
<1> QED
    BY <1>6, <1>7, <1>8 DEF w
-----------------------------------------------------------------------------
(* The invariant *)

LEMMA InitInv == Init => IInv
<1> SUFFICES ASSUME Init PROVE IInv
    OBVIOUS
<1>1. posted \in Seq(Duties) /\ writes \in Seq(Writes)
    BY DEF Init
<1>2. enable \in [Chans -> {0, 1}] /\ pwm \in [Chans -> Duties]
    BY DEF Init, Duties, DutyMax
<1>3. latestFanDuty \in Duties /\ config \in ConfigType /\ Valid(config)
    BY ConfigAssumption DEF Init, Duties, DutyMax
<1>4. faults \in 0..MaxFaults /\ changes \in 0..MaxChanges
    BY BoundsAssumption DEF Init
<1>5. TypeOK
    BY <1>1, <1>2, <1>3, <1>4 DEF Init, TypeOK
<1>6. WritesInPairs /\ HalfWritten
    BY DEF Init, WritesInPairs, HalfWritten
<1>7. StaleDutyNeverSpins
    BY DEF Init, StaleDutyNeverSpins
<1> QED
    BY <1>5, <1>6, <1>7 DEF IInv

\* The service, the sensor and what waits in the queue do not touch the fan.
LEMMA FanUntouched ==
    ASSUME IInv, TypeOK', UNCHANGED <<writes, enable, pwm, lost>> PROVE IInv'
<1>1. WritesInPairs'
    BY DEF IInv, WritesInPairs
<1>2. HalfWritten' /\ StaleDutyNeverSpins'
    BY DEF IInv, HalfWritten, StaleDutyNeverSpins, IsFirst
<1> QED
    BY <1>1, <1>2 DEF IInv

LEMMA ChangeTypes == TypeOK /\ Change => changes' \in 0..MaxChanges
    BY BoundsAssumption DEF TypeOK, Change

LEMMA FaultTypes == TypeOK /\ Fault => faults' \in 0..MaxFaults
    BY BoundsAssumption DEF TypeOK, Fault

LEMMA PostTypes ==
    ASSUME TypeOK, NEW d \in Duties, Post(d) PROVE posted' \in Seq(Duties)
    BY DEF TypeOK, Post

LEMMA StartKeeps == IInv /\ Start => IInv'
<1> SUFFICES ASSUME IInv, Start PROVE IInv'
    OBVIOUS
<1>1. TypeOK'
    BY ChangeTypes DEF IInv, TypeOK, Start, samplerVars, fanVars
<1> QED
    BY <1>1, FanUntouched DEF Start, fanVars

LEMMA StopKeeps == IInv /\ Stop => IInv'
<1> SUFFICES ASSUME IInv, Stop PROVE IInv'
    OBVIOUS
<1>1. 0 \in Duties
    BY DEF Duties, DutyMax
<1>2. posted' \in Seq(Duties) /\ changes' \in 0..MaxChanges
    BY <1>1, PostTypes, ChangeTypes DEF IInv, Stop
<1>3. TypeOK'
    BY <1>1, <1>2 DEF IInv, TypeOK, Stop, samplerVars, fanVars
<1> QED
    BY <1>3, FanUntouched DEF Stop, fanVars

LEMMA SetConfigKeeps ==
    ASSUME NEW c \in ConfigType PROVE IInv /\ SetConfig(c) => IInv'
<1> SUFFICES ASSUME IInv, SetConfig(c) PROVE IInv'
    OBVIOUS
<1>1. config' \in ConfigType /\ Valid(config')
    BY DEF IInv, TypeOK, SetConfig
<1>2. changes' \in 0..MaxChanges
    BY ChangeTypes DEF IInv, SetConfig
<1>3. TypeOK'
    BY <1>1, <1>2 DEF IInv, TypeOK, SetConfig, samplerVars, fanVars
<1> QED
    BY <1>3, FanUntouched DEF SetConfig, fanVars

LEMMA SetTargetKeeps ==
    ASSUME NEW c \in Configs PROVE IInv /\ SetTargetCelsius(c.targetCelsius) => IInv'
<1> SUFFICES ASSUME IInv, SetTargetCelsius(c.targetCelsius) PROVE IInv'
    OBVIOUS
<1>1. c \in ConfigType /\ config \in ConfigType
    BY ConfigAssumption DEF IInv, TypeOK
<1>2. [config EXCEPT !.targetCelsius = c.targetCelsius] \in ConfigType
    BY <1>1 DEF ConfigType
<1> QED
    BY <1>2, SetConfigKeeps DEF SetTargetCelsius

LEMMA ControlDuty ==
    ASSUME TypeOK, Control
    PROVE  \E d \in Duties : /\ Justified(d, sampled, config)
                             /\ Post(d) /\ latestFanDuty' = d
<1>1. PICK d \in calculateFanDuty(sampled, config) : Post(d) /\ latestFanDuty' = d
    BY DEF Control
<1>2. sampled \in Int /\ config \in ConfigType /\ Valid(config)
    BY NumberAssumption DEF TypeOK, Control
<1> QED
    BY <1>1, <1>2, DutiesAreJustified

LEMMA ControlKeeps == IInv /\ Control => IInv'
<1> SUFFICES ASSUME IInv, Control PROVE IInv'
    OBVIOUS
<1>1. posted' \in Seq(Duties) /\ latestFanDuty' \in Duties
    BY ControlDuty, PostTypes DEF IInv
<1>2. TypeOK'
    BY <1>1 DEF IInv, TypeOK, Control, samplerVars, fanVars
<1> QED
    BY <1>2, FanUntouched DEF Control, fanVars

LEMMA ServiceTurnKeeps == IInv /\ (ControlFails \/ BecomesDue) => IInv'
<1> SUFFICES ASSUME IInv, ControlFails \/ BecomesDue PROVE IInv'
    OBVIOUS
<1>1. TypeOK'
    BY DEF IInv, TypeOK, ControlFails, BecomesDue, samplerVars, fanVars
<1> QED
    BY <1>1, FanUntouched DEF ControlFails, BecomesDue, fanVars

LEMMA SensorKeeps == IInv /\ (Sample \/ TemperatureChanges) => IInv'
<1> SUFFICES ASSUME IInv, Sample \/ TemperatureChanges PROVE IInv'
    OBVIOUS
<1>1. CASE Sample
    <2>1. faults' \in 0..MaxFaults
        BY <1>1, FaultTypes DEF IInv, TypeOK, Sample
    <2>2. TypeOK'
        BY <1>1, <2>1 DEF IInv, TypeOK, Sample, serviceVars, fanVars
    <2> QED
        BY <1>1, <2>2, FanUntouched DEF Sample, fanVars
<1>2. CASE TemperatureChanges
    <2>1. changes' \in 0..MaxChanges
        BY <1>2, ChangeTypes DEF IInv, TemperatureChanges
    <2>2. TypeOK'
        BY <1>2, <2>1 DEF IInv, TypeOK, TemperatureChanges, serviceVars, samplerVars, fanVars
    <2> QED
        BY <1>2, <2>2, FanUntouched DEF TemperatureChanges, fanVars
<1> QED
    BY <1>1, <1>2
-----------------------------------------------------------------------------
(* The io worker at the files *)

LEMMA BeginDutyKeeps == IInv /\ BeginDuty => IInv'
<1> SUFFICES ASSUME IInv, BeginDuty PROVE IInv'
    OBVIOUS
<1>1. Head(posted) \in Duties /\ posted' \in Seq(Duties)
    BY DEF IInv, TypeOK, BeginDuty
<1> DEFINE d == Clamp(Head(posted), 0, DutyMax)
<1>2. d \in Duties
    BY <1>1 DEF Clamp, Duties, DutyMax
<1>3. writes' = DutyWrites(d)
    BY DEF BeginDuty
<1> HIDE DEF d
<1>4. writes' \in Seq(Writes) /\ Len(writes') % 2 = 0
    BY <1>2, <1>3, DutyWritesInPairs
<1>5. WritesInPairs'
    BY <1>2, <1>3, DutyWritesInPairs DEF WritesInPairs
<1>6. TypeOK'
    BY <1>1, <1>4 DEF IInv, TypeOK, BeginDuty, serviceVars, samplerVars
<1>7. HalfWritten' /\ StaleDutyNeverSpins'
    BY <1>4 DEF IInv, HalfWritten, StaleDutyNeverSpins, IsFirst, BeginDuty
<1> QED
    BY <1>5, <1>6, <1>7 DEF IInv

\* The writes left after the next one.
LEMMA OneWriteLess ==
    ASSUME IInv, writes # <<>>, writes' = Tail(writes)
    PROVE  /\ Head(writes) \in Writes /\ writes' \in Seq(Writes)
           /\ WritesInPairs'
           /\ Head(writes).channel \in Chans
           /\ IsFirst <=> ~IsFirst'
           /\ IsFirst => /\ writes' # <<>>
                         /\ \E d \in Duties, c \in Chans :
                              /\ Head(writes) = ChannelWrites(d, c)[1]
                              /\ Head(writes') = ChannelWrites(d, c)[2]
<1> DEFINE n == Len(writes)
<1>1. writes \in Seq(Writes) /\ n \in Nat \ {0} /\ DOMAIN writes = 1..n
    BY EmptySeq, LenProperties DEF IInv, TypeOK
<1>2. /\ writes' \in Seq(Writes) /\ Len(writes') = n - 1 /\ DOMAIN writes' = 1..(n - 1)
      /\ \A i \in 1..(n - 1) : writes'[i] = writes[i + 1]
      /\ Head(writes) = writes[1] /\ Head(writes) \in Writes
    BY <1>1, HeadTailProperties
<1>3. \A i \in 1..n : (n - i) % 2 = 1 =>
        /\ i + 1 \in 1..n
        /\ \E d \in Duties, c \in Chans :
             writes[i] = ChannelWrites(d, c)[1] /\ writes[i + 1] = ChannelWrites(d, c)[2]
    BY <1>1 DEF IInv, WritesInPairs
<1> HIDE DEF n
<1>4. IsFirst <=> ~IsFirst'
    <2>1. n % 2 = 0 <=> ~((n - 1) % 2 = 0)
        BY <1>1
    <2> QED
        BY <1>2, <2>1 DEF IsFirst, n
<1>5. WritesInPairs'
    <2> SUFFICES ASSUME NEW i \in 1..(n - 1), ((n - 1) - i) % 2 = 1
                 PROVE  /\ i + 1 \in 1..(n - 1)
                        /\ \E d \in Duties, c \in Chans :
                             /\ writes'[i] = ChannelWrites(d, c)[1]
                             /\ writes'[i + 1] = ChannelWrites(d, c)[2]
        BY <1>2 DEF WritesInPairs
    <2>1. i + 1 \in 1..n /\ (n - (i + 1)) % 2 = 1
        BY <1>1
    <2>2. (i + 1) + 1 \in 1..n
        BY <1>3, <2>1
    <2>3. i + 1 \in 1..(n - 1)
        BY <1>1, <2>2
    <2> QED
        BY <1>2, <1>3, <2>1, <2>3
<1>6. ASSUME IsFirst
      PROVE  /\ writes' # <<>>
             /\ \E d \in Duties, c \in Chans :
                  /\ Head(writes) = ChannelWrites(d, c)[1]
                  /\ Head(writes') = ChannelWrites(d, c)[2]
    <2>1. 1 \in 1..n /\ (n - 1) % 2 = 1
        BY <1>1, <1>6 DEF IsFirst, n
    <2>2. 1 + 1 \in 1..n
        BY <1>3, <2>1
    <2>3. 1 \in 1..(n - 1) /\ n - 1 # 0
        BY <1>1, <2>2
    <2>4. writes' # <<>> /\ Head(writes') = writes[1 + 1]
        BY <1>2, <2>3, EmptySeq
    <2> QED
        BY <1>2, <1>3, <2>1, <2>4
<1>7. Head(writes).channel \in Chans
    <2>1. CASE IsFirst
        BY <1>6, <2>1, ChannelWritesShape
    <2>2. CASE ~IsFirst
        BY <2>2 DEF IInv, HalfWritten
    <2> QED
        BY <2>1, <2>2
<1> QED
    BY <1>2, <1>4, <1>5, <1>6, <1>7

LEMMA WriteFileKeeps == IInv /\ WriteFile => IInv'
<1> SUFFICES ASSUME IInv, WriteFile PROVE IInv'
    OBVIOUS
<1> DEFINE w == Head(writes)
           ch == w.channel
<1>1. /\ writes # <<>> /\ writes' = Tail(writes)
      /\ IF w.file = "enable"
         THEN enable' = [enable EXCEPT ![ch] = w.value] /\ UNCHANGED pwm
         ELSE pwm' = [pwm EXCEPT ![ch] = w.value] /\ UNCHANGED enable
      /\ lost' = IF IsFirst THEN lost \ {ch} ELSE lost
    BY DEF WriteFile
<1>2. /\ w \in Writes /\ writes' \in Seq(Writes) /\ WritesInPairs' /\ ch \in Chans
      /\ IsFirst <=> ~IsFirst'
    BY <1>1, OneWriteLess
<1>3. /\ enable \in [Chans -> {0, 1}] /\ pwm \in [Chans -> Duties] /\ lost \subseteq Chans
      /\ w.value \in Duties /\ w.file \in {"enable", "pwm"}
    BY <1>2 DEF IInv, TypeOK, Writes
<1>4. ASSUME IsFirst
      PROVE  /\ writes' # <<>> /\ Head(writes').channel = ch
             /\ \/ w.file = "enable" /\ w.value = 1 /\ Head(writes').file = "pwm"
                \/ /\ w.file = "pwm" /\ w.value = 0
                   /\ Head(writes').file = "enable" /\ Head(writes').value = 0
    <2>1. PICK d \in Duties, c \in Chans : /\ w = ChannelWrites(d, c)[1]
                                           /\ Head(writes') = ChannelWrites(d, c)[2]
        BY <1>1, <1>4, OneWriteLess
    <2> QED
        BY <1>1, <1>4, <2>1, OneWriteLess, ChannelWritesShape
<1>5. ASSUME ~IsFirst
      PROVE  /\ w.file = "enable" => w.value = 0
             /\ ch \notin lost => \/ w.file = "pwm" /\ enable[ch] = 1
                                  \/ w.file = "enable" /\ pwm[ch] = 0
    BY <1>1, <1>5 DEF IInv, HalfWritten
<1> HIDE DEF w, ch
<1>6. /\ enable' \in [Chans -> {0, 1}] /\ pwm' \in [Chans -> Duties] /\ lost' \subseteq Chans
    BY <1>1, <1>2, <1>3, <1>4, <1>5
<1>7. TypeOK'
    BY <1>2, <1>6 DEF IInv, TypeOK, WriteFile, serviceVars, samplerVars
<1>8. \A c \in Chans : c # ch => enable'[c] = enable[c] /\ pwm'[c] = pwm[c]
    BY <1>1, <1>2, <1>3
<1>9. /\ w.file = "enable" => enable'[ch] = w.value /\ pwm' = pwm
      /\ w.file = "pwm" => pwm'[ch] = w.value /\ enable' = enable
    BY <1>1, <1>2, <1>3
<1>10. HalfWritten'
    <2> SUFFICES ASSUME ~IsFirst'
                 PROVE  HalfWritten'
        BY DEF HalfWritten
    <2>1. IsFirst
        BY <1>2
    <2> QED
        BY <1>2, <1>3, <1>4, <1>9, <2>1 DEF HalfWritten
<1>11. StaleDutyNeverSpins'
    <2> SUFFICES ASSUME NEW c \in Chans, c \notin lost', enable'[c] = 0
                 PROVE  pwm'[c] = 0
        BY DEF StaleDutyNeverSpins
    <2>1. CASE c # ch
        <3>1. c \notin lost
            BY <1>1, <2>1
        <3> QED
            BY <1>8, <2>1, <3>1 DEF IInv, StaleDutyNeverSpins
    <2>2. CASE c = ch /\ IsFirst
        BY <1>3, <1>4, <1>9, <2>2
    <2>3. CASE c = ch /\ ~IsFirst
        <3>1. ch \notin lost
            BY <1>1, <2>3
        <3> QED
            BY <1>3, <1>5, <1>9, <2>3, <3>1
    <2> QED
        BY <2>1, <2>2, <2>3
<1> QED
    BY <1>2, <1>7, <1>10, <1>11 DEF IInv

LEMMA WriteThrowsKeeps == IInv /\ WriteThrows => IInv'
<1> SUFFICES ASSUME IInv, WriteThrows PROVE IInv'
    OBVIOUS
<1>1. writes' \in Seq(Writes) /\ faults' \in 0..MaxFaults
    BY FaultTypes DEF IInv, WriteThrows
<1>2. TypeOK'
    BY <1>1 DEF IInv, TypeOK, WriteThrows, serviceVars, samplerVars
<1>3. WritesInPairs' /\ HalfWritten' /\ StaleDutyNeverSpins'
    BY DEF IInv, WritesInPairs, HalfWritten, StaleDutyNeverSpins, WriteThrows
<1> QED
    BY <1>2, <1>3 DEF IInv

LEMMA WriteLostKeeps == IInv /\ WriteLost => IInv'
<1> SUFFICES ASSUME IInv, WriteLost PROVE IInv'
    OBVIOUS
<1> DEFINE ch == Head(writes).channel
<1>1. /\ writes # <<>> /\ writes' = Tail(writes) /\ lost' = lost \union {ch}
      /\ enable' = enable /\ pwm' = pwm
    BY DEF WriteLost
<1>2. /\ writes' \in Seq(Writes) /\ WritesInPairs' /\ ch \in Chans
      /\ IsFirst <=> ~IsFirst'
    BY <1>1, OneWriteLess
<1>3. IsFirst => /\ Head(writes').channel = ch
                 /\ Head(writes').file = "enable" => Head(writes').value = 0
    <2> SUFFICES ASSUME IsFirst
                 PROVE  /\ Head(writes').channel = ch
                        /\ Head(writes').file = "enable" => Head(writes').value = 0
        OBVIOUS
    <2>1. PICK d \in Duties, c \in Chans : /\ Head(writes) = ChannelWrites(d, c)[1]
                                           /\ Head(writes') = ChannelWrites(d, c)[2]
        BY <1>1, OneWriteLess
    <2> QED
        BY <2>1, ChannelWritesShape
<1> HIDE DEF ch
<1>4. lost' \subseteq Chans /\ faults' \in 0..MaxFaults
    BY <1>1, <1>2, FaultTypes DEF IInv, TypeOK, WriteLost
<1>5. TypeOK'
    BY <1>1, <1>2, <1>4 DEF IInv, TypeOK, WriteLost, serviceVars, samplerVars
<1>6. HalfWritten'
    BY <1>1, <1>2, <1>3 DEF HalfWritten
<1>7. StaleDutyNeverSpins'
    BY <1>1 DEF IInv, StaleDutyNeverSpins
<1> QED
    BY <1>2, <1>5, <1>6, <1>7 DEF IInv

-----------------------------------------------------------------------------
(* The theorems *)

LEMMA NextKeeps == IInv /\ [Next]_vars => IInv'
<1> SUFFICES ASSUME IInv, [Next]_vars PROVE IInv'
    OBVIOUS
<1>1. CASE Start
    BY <1>1, StartKeeps
<1>2. CASE Stop
    BY <1>2, StopKeeps
<1>3. ASSUME NEW c \in Configs, SetConfig(c) PROVE IInv'
    BY <1>3, SetConfigKeeps, ConfigAssumption
<1>4. ASSUME NEW c \in Configs, SetTargetCelsius(c.targetCelsius) PROVE IInv'
    BY <1>4, SetTargetKeeps
<1>5. CASE Control
    BY <1>5, ControlKeeps
<1>6. CASE ControlFails \/ BecomesDue
    BY <1>6, ServiceTurnKeeps
<1>7. CASE Sample \/ TemperatureChanges
    BY <1>7, SensorKeeps
<1>8. CASE BeginDuty
    BY <1>8, BeginDutyKeeps
<1>9. CASE WriteFile
    BY <1>9, WriteFileKeeps
<1>10. CASE WriteThrows
    BY <1>10, WriteThrowsKeeps
<1>11. CASE WriteLost
    BY <1>11, WriteLostKeeps
<1>12. CASE UNCHANGED vars
    <2>1. TypeOK'
        BY <1>12 DEF vars, serviceVars, samplerVars, fanVars, IInv, TypeOK
    <2> QED
        BY <1>12, <2>1, FanUntouched DEF vars, fanVars
<1> QED
    BY <1>1, <1>2, <1>3, <1>4, <1>5, <1>6, <1>7, <1>8, <1>9, <1>10, <1>11, <1>12
    DEF Next, IoStep

\* In every state the files of the fan and the writes left fit together.
THEOREM FanInvariant == Spec => []IInv
<1> QED
    BY InitInv, NextKeeps, PTL DEF Spec

\* The types hold: the configuration in force is a valid one and every duty is
\* within the range of the driver, whatever is set, measured and lost.
THEOREM TypeCorrect == Spec => []TypeOK
<1>1. IInv => TypeOK
    BY DEF IInv
<1> QED
    BY <1>1, FanInvariant, PTL

\* No channel is ever enabled with a duty left from before, for any channels
\* and any number of failing and lost writes (writeDuty).
THEOREM StaleDutyNeverSpinsHolds == Spec => []StaleDutyNeverSpins
<1>1. IInv => StaleDutyNeverSpins
    BY DEF IInv
<1> QED
    BY <1>1, FanInvariant, PTL

\* Every duty posted by the control loop is the one asked for, for any
\* configurations and temperatures (tick, calculateFanDuty).
THEOREM DutyIsJustifiedHolds == Spec => DutyIsJustified
<1> DEFINE A == \A i \in DOMAIN posted' :
                  (i > Len(posted) /\ state' # "stopped")
                    => Justified(posted'[i], latestTemperatureCelsius', config')
<1>1. ASSUME TypeOK, [Next]_vars PROVE [A]_vars
    <2>1. CASE Control
        <3>1. PICK d \in Duties : Justified(d, sampled, config) /\ posted' = Append(posted, d)
            BY <1>1, <2>1, ControlDuty DEF Post
        <3>2. latestTemperatureCelsius' = sampled /\ config' = config
            BY <2>1 DEF Control
        <3>3. \A i \in DOMAIN posted' : i > Len(posted) => posted'[i] = d
            <4>1. posted \in Seq(Duties)
                BY <1>1 DEF TypeOK
            <4> QED
                BY <3>1, <4>1
        <3> QED
            BY <3>1, <3>2, <3>3
    <2>2. CASE Stop
        BY <2>2 DEF Stop
    <2>3. CASE UNCHANGED posted
        <3>1. \A i \in DOMAIN posted : ~(i > Len(posted))
            BY <1>1 DEF TypeOK
        <3> QED
            BY <2>3, <3>1
    <2>4. CASE BeginDuty
        <3>1. /\ posted \in Seq(Duties) /\ posted # <<>> /\ posted' = Tail(posted)
            BY <1>1, <2>4 DEF TypeOK, BeginDuty
        <3>2. \A i \in DOMAIN posted' : ~(i > Len(posted))
            BY <3>1, HeadTailProperties
        <3> QED
            BY <3>2
    <2> QED
        BY <1>1, <2>1, <2>2, <2>3, <2>4
        DEF Next, Start, SetConfig, SetTargetCelsius, ControlFails, BecomesDue, IoStep, Sample,
            WriteFile, WriteThrows, WriteLost, TemperatureChanges, vars
<1> QED
    BY <1>1, TypeCorrect, PTL DEF Spec, DutyIsJustified
=============================================================================
