----------------------------- MODULE SystemInfo -----------------------------
(***************************************************************************)
(* SystemInfoMonitor and SystemInfoReader: a sample reads the memory and    *)
(* then the CPU counters of the kernel, and computes the CPU usage since    *)
(* the counters were read last.                                             *)
(*                                                                          *)
(* Of the eight counters there are two: idle stands for idle and iowait,    *)
(* busy for the others.  The kernel may take some of what it counted back,  *)
(* as it does with iowait and steal.  64 bits of ticks never run over.  A   *)
(* percentage is kept as part and whole.                                    *)
(***************************************************************************)
EXTENDS Integers

CONSTANTS
    MemTotal,    \* totalKb; 0 when the line is missing
    None,        \* std::nullopt
    MaxTicks,    \* bound on each counter
    Steps        \* by how much a counter may move at once

ASSUME NumberAssumption == MemTotal \in Nat /\ MaxTicks \in Nat /\ Steps \subseteq Int

VARIABLES
    ticks,       \* the kernel: its counters
    available,   \* and availableKb, 0 when the line is missing
    previous,    \* previousCpuTimes_
    latest,      \* latestSystemInfo_
    lastError,   \* lastError_ is not empty
    since,       \* history: ticks since the counters were read last
    spent        \* history: ticks between the last two reads

vars == <<ticks, available, previous, latest, lastError, since, spent>>

Counters == [busy : Nat, idle : Nat]
Ticks    == [busy : Int, idle : Int]
Percents == {p \in [part : Nat, whole : Nat \ {0}] : p.part <= p.whole}

TypeOK ==
    /\ ticks \in Counters /\ available \in Nat
    /\ previous = None \/ previous \in Counters
    /\ latest = None \/ (latest.cpu \in Percents /\ latest.memory \in Percents)
    /\ lastError \in BOOLEAN
    /\ since \in Ticks
    /\ spent = None \/ spent \in Ticks

Zero == [part |-> 0, whole |-> 1]

totalTicks(c) == c.busy + c.idle

usageOfTotal(before, after) ==   \* mutant: only the total is checked
    LET total == totalTicks(after) - totalTicks(before)
        idle  == after.idle - before.idle
    IN  IF total <= 0 THEN Zero ELSE [part |-> total - idle, whole |-> total]

calculateCpuUsagePercent(before, after) ==
    LET total == totalTicks(after) - totalTicks(before)
        idle  == after.idle - before.idle
    IN  IF total <= 0 \/ idle < 0 \/ idle > total THEN Zero
        ELSE [part |-> total - idle, whole |-> total]

\* parseMemoryInfo refuses a missing total and an impossible rest.
memoryReadable == MemTotal # 0 /\ available <= MemTotal

memoryUsage == [part |-> MemTotal - available, whole |-> MemTotal]

Nothing == [busy |-> 0, idle |-> 0]

Init ==
    /\ ticks = Nothing /\ available = 0
    /\ previous = None /\ latest = None /\ lastError = FALSE
    /\ since = Nothing /\ spent = None

-----------------------------------------------------------------------------
(* The kernel *)

Plus(c, d) == [busy |-> c.busy + d.busy, idle |-> c.idle + d.idle]

Run ==
    /\ \E d \in [busy : Steps, idle : Steps] :
         /\ ticks' = Plus(ticks, d) /\ since' = Plus(since, d)
         /\ ticks'.busy \in 0..MaxTicks /\ ticks'.idle \in 0..MaxTicks
    /\ UNCHANGED <<available, previous, latest, lastError, spent>>

MemoryChanges ==
    /\ available' \in 0..(MemTotal + 1)
    /\ UNCHANGED <<ticks, previous, latest, lastError, since, spent>>

-----------------------------------------------------------------------------
(* sample(), on the io worker *)

SampleFromStart ==      \* mutant: the counters of the first sample are kept
    /\ memoryReadable
    /\ latest' = [memory |-> memoryUsage,
                  cpu |-> IF previous = None THEN Zero
                          ELSE calculateCpuUsagePercent(previous, ticks)]
    /\ previous' = IF previous = None THEN ticks ELSE previous
    /\ spent' = (IF previous = None THEN None ELSE since) /\ since' = Nothing
    /\ lastError' = FALSE
    /\ UNCHANGED <<ticks, available>>

Sample ==
    /\ memoryReadable
    /\ latest' = [memory |-> memoryUsage,
                  cpu |-> IF previous = None THEN Zero
                          ELSE calculateCpuUsagePercent(previous, ticks)]
    /\ previous' = ticks
    /\ spent' = (IF previous = None THEN None ELSE since) /\ since' = Nothing
    /\ lastError' = FALSE
    /\ UNCHANGED <<ticks, available>>

\* Either file cannot be opened or parsed: neither the counters nor the last
\* good sample are touched.
SampleFails ==
    /\ lastError' = TRUE
    /\ UNCHANGED <<ticks, available, previous, latest, since, spent>>

Next == Run \/ MemoryChanges \/ Sample \/ SampleFails

Spec == Init /\ [][Next]_vars

-----------------------------------------------------------------------------
\* The usage shown is the busy share of the time between the last two reads of
\* the counters, whatever samples failed in between; where the kernel took back
\* more than it counted it is zero, never a number out of nothing
\* (readCpuUsagePercentSinceLastSample).
UsageIsOfLastInterval ==
    spent # None =>
        IF spent.busy >= 0 /\ spent.idle >= 0 /\ totalTicks(spent) > 0
        THEN latest.cpu = [part |-> spent.busy, whole |-> totalTicks(spent)]
        ELSE latest.cpu.part = 0
=============================================================================
