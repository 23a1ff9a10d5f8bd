--------------------------- MODULE PeriodicTasks ----------------------------
(***************************************************************************)
(* The table of periodic tasks of one RuntimeWorker, and the part of its    *)
(* loop that serves it.  The handlers run outside the lock, from copies;    *)
(* afterwards the record is looked up again, by name.  Meanwhile other      *)
(* threads may unregister the task or register another under its name, so   *)
(* every registration carries a number (gen), which the code does not have. *)
(*                                                                          *)
(* Time is `left`, the units until nextRunAt, negative when it is past.     *)
(* The table outlives the thread, which ends when it is told to stop or an  *)
(* exception leaves the loop; only a call of start() brings it back.        *)
(***************************************************************************)
EXTENDS Integers, Sequences, FiniteSets

CONSTANTS Names,      \* task names
          Interval,   \* the interval of each task, in units of time
          MaxGen,     \* bound on the number of registrations
          MaxOverdue, \* how long a task is overdue is exact up to here
          MaxCount,   \* the run counts are exact up to here
          MaxFailures \* bound on the exceptions that leave the loop

ASSUME IntervalAssumption == Interval \in [Names -> Nat \ {0}]
ASSUME BoundsAssumption   ==
    MaxGen \in Nat /\ MaxCount \in Nat /\ MaxFailures \in Nat /\ MaxOverdue \in Nat

VARIABLES
    periodicTasks,  \* the records, in order of first registration
    dueTasks,       \* the local copies of runPeriodicTasks
    tpc,            \* the worker: off, sleep, scan, run, mark
    outcome,        \* how the handler that just ran ended
    failures,       \* exceptions that left the loop
    gen,            \* history: registrations so far
    retired,        \* history: registrations that were removed or replaced
    runs,           \* history: successful runs of each registration
    lateRuns        \* history: runs of each registration after it was retired

tableVars == <<periodicTasks, gen, retired>>
loopVars  == <<dueTasks, tpc, outcome, failures, runs, lateRuns>>
vars == <<tableVars, loopVars>>

Gens == 1..MaxGen

\* since is history: the units since the record was last due, or its interval.
TaskRecords ==
    [name : Names, gen : Gens, left : Int, since : Nat,
     runCount : 0..MaxCount, lastError : BOOLEAN]

TypeOK ==
    /\ periodicTasks \in Seq(TaskRecords)
    /\ dueTasks \in Seq([name : Names, gen : Gens])
    /\ tpc \in {"off", "sleep", "scan", "run", "mark"}
    /\ outcome \in {"ok", "error"}
    /\ failures \in 0..MaxFailures
    /\ gen \in 0..MaxGen
    /\ retired \in SUBSET Gens
    /\ runs \in [Gens -> 0..MaxCount]
    /\ lateRuns \in [Gens -> Nat]

Init ==
    /\ periodicTasks = <<>>
    /\ dueTasks = <<>>
    /\ tpc = "off"
    /\ outcome = "ok"
    /\ failures = 0
    /\ gen = 0
    /\ retired = {}
    /\ runs = [g \in Gens |-> 0]
    /\ lateRuns = [g \in Gens |-> 0]

Bump(n) == IF n < MaxCount THEN n + 1 ELSE n

\* findPeriodicTaskLocked: where the records of that name are.
Find(n) == {i \in DOMAIN periodicTasks : periodicTasks[i].name = n}

\* The positions S of a sequence, in order (there is one such list).
InOrder(S) ==
    {f \in [1..Cardinality(S) -> S] : \A a, b \in 1..Cardinality(S) : a < b => f[a] < f[b]}

NewRecord(n) ==
    [name |-> n, gen |-> gen + 1, left |-> 0, since |-> Interval[n],
     runCount |-> 0, lastError |-> FALSE]

-----------------------------------------------------------------------------
(* registerPeriodicTask() and unregisterPeriodicTask(), by any thread *)

RegisterAppends(n) ==       \* mutant: no look-up of the name
    /\ gen < MaxGen
    /\ gen' = gen + 1
    /\ periodicTasks' = Append(periodicTasks, NewRecord(n))
    /\ UNCHANGED <<retired, loopVars>>

Register(n) ==
    /\ gen < MaxGen
    /\ gen' = gen + 1
    /\ retired' = retired \union {periodicTasks[i].gen : i \in Find(n)}
    /\ periodicTasks' =
         IF Find(n) = {}
         THEN Append(periodicTasks, NewRecord(n))
         ELSE [i \in DOMAIN periodicTasks |->
                 IF i \in Find(n) THEN NewRecord(n) ELSE periodicTasks[i]]
    /\ UNCHANGED loopVars

Unregister(n) ==
    /\ Find(n) # {}
    /\ retired' = retired \union {periodicTasks[i].gen : i \in Find(n)}
    /\ \E kept \in InOrder(DOMAIN periodicTasks \ Find(n)) :
         periodicTasks' = [a \in DOMAIN kept |-> periodicTasks[kept[a]]]
    /\ UNCHANGED <<gen, loopVars>>

-----------------------------------------------------------------------------
(* runPeriodicTasks(), on the worker thread *)

IsDue(r) == r.left <= 0

RestartedOnSchedule(r) ==   \* mutant: the runs that were missed are made up for
    [r EXCEPT !.left = @ + Interval[r.name], !.since = 0]

Restarted(r) == [r EXCEPT !.left = Interval[r.name], !.since = 0]

\* The names and handlers of the due records, in their order.
CopyDue ==
    \E due \in InOrder({i \in DOMAIN periodicTasks : IsDue(periodicTasks[i])}) :
        dueTasks' = [a \in DOMAIN due |-> [name |-> periodicTasks[due[a]].name,
                                           gen  |-> periodicTasks[due[a]].gen]]

ScanRestartsAll ==          \* mutant: every interval begins again
    /\ tpc = "scan"
    /\ CopyDue
    /\ periodicTasks' = [i \in DOMAIN periodicTasks |-> Restarted(periodicTasks[i])]
    /\ tpc' = "run"
    /\ UNCHANGED <<gen, retired, outcome, failures, runs, lateRuns>>

Scan ==
    /\ tpc = "scan"
    /\ CopyDue
    /\ periodicTasks' =
         [i \in DOMAIN periodicTasks |->
            IF IsDue(periodicTasks[i]) THEN Restarted(periodicTasks[i])
                                       ELSE periodicTasks[i]]
    /\ tpc' = "run"
    /\ UNCHANGED <<gen, retired, outcome, failures, runs, lateRuns>>

\* Copying the handler of record k throws: the records before it have been
\* put off, and their runs of this loop are lost with dueTasks.  The exception
\* leaves the loop and the thread ends as failed.
ScanThrows ==
    /\ tpc = "scan"
    /\ failures < MaxFailures
    /\ failures' = failures + 1
    /\ \E k \in DOMAIN periodicTasks :
         /\ IsDue(periodicTasks[k])
         /\ periodicTasks' =
              [i \in DOMAIN periodicTasks |->
                 IF i < k /\ IsDue(periodicTasks[i]) THEN Restarted(periodicTasks[i])
                                                     ELSE periodicTasks[i]]
    /\ tpc' = "off"
    /\ UNCHANGED <<gen, retired, dueTasks, outcome, runs, lateRuns>>

RunHandler ==
    /\ tpc = "run" /\ dueTasks # <<>>
    /\ outcome' \in {"ok", "error"}
    /\ LET g == Head(dueTasks).gen IN
         /\ runs' = IF outcome' = "ok" THEN [runs EXCEPT ![g] = Bump(@)] ELSE runs
         /\ lateRuns' = IF g \in retired THEN [lateRuns EXCEPT ![g] = @ + 1] ELSE lateRuns
    /\ tpc' = "mark"
    /\ UNCHANGED <<tableVars, dueTasks, failures>>

MarkedAlways(r) ==          \* mutant: a failed run is counted too
    [r EXCEPT !.runCount = Bump(@), !.lastError = (outcome = "error")]

Marked(r) ==
    IF outcome = "ok" THEN [r EXCEPT !.runCount = Bump(@), !.lastError = FALSE]
                      ELSE [r EXCEPT !.lastError = TRUE]

MarkAndRetry ==             \* mutant: a handler that failed is run again at once
    /\ tpc = "mark"
    /\ periodicTasks' =
         [i \in DOMAIN periodicTasks |->
            IF i \in Find(Head(dueTasks).name) THEN Marked(periodicTasks[i])
                                               ELSE periodicTasks[i]]
    /\ dueTasks' = IF outcome = "ok" THEN Tail(dueTasks) ELSE dueTasks
    /\ tpc' = "run"
    /\ UNCHANGED <<gen, retired, outcome, failures, runs, lateRuns>>

MarkPeriodicTask ==     \* markPeriodicTaskRun or markPeriodicTaskError
    /\ tpc = "mark"
    /\ periodicTasks' =
         [i \in DOMAIN periodicTasks |->
            IF i \in Find(Head(dueTasks).name) THEN Marked(periodicTasks[i])
                                               ELSE periodicTasks[i]]
    /\ dueTasks' = Tail(dueTasks)
    /\ tpc' = "run"
    /\ UNCHANGED <<gen, retired, outcome, failures, runs, lateRuns>>

\* The error text cannot be stored: the exception leaves the loop as well.
MarkThrows ==
    /\ tpc = "mark" /\ outcome = "error"
    /\ failures < MaxFailures
    /\ failures' = failures + 1
    /\ dueTasks' = <<>>
    /\ tpc' = "off"
    /\ UNCHANGED <<tableVars, outcome, runs, lateRuns>>

Rest ==
    /\ tpc = "run" /\ dueTasks = <<>>
    /\ tpc' = "sleep"
    /\ UNCHANGED <<tableVars, dueTasks, outcome, failures, runs, lateRuns>>

Wake ==
    /\ tpc = "sleep"
    /\ tpc' = "scan"
    /\ UNCHANGED <<tableVars, dueTasks, outcome, failures, runs, lateRuns>>

Start ==                \* start(), by any thread: the table is kept
    /\ tpc = "off"
    /\ tpc' = "scan"
    /\ UNCHANGED <<tableVars, dueTasks, outcome, failures, runs, lateRuns>>

Stop ==                 \* the loop finds stopRequested
    /\ tpc = "sleep"
    /\ tpc' = "off"
    /\ UNCHANGED <<tableVars, dueTasks, outcome, failures, runs, lateRuns>>

Later(r) ==
    [r EXCEPT !.left  = IF @ > -MaxOverdue THEN @ - 1 ELSE @,
              !.since = IF @ < Interval[r.name] THEN @ + 1 ELSE @]

Elapse ==               \* steady_clock moves on by one unit
    /\ periodicTasks' = [i \in DOMAIN periodicTasks |-> Later(periodicTasks[i])]
    /\ UNCHANGED <<gen, retired, loopVars>>

-----------------------------------------------------------------------------
Loop ==
    \/ Scan \/ ScanThrows \/ RunHandler \/ MarkPeriodicTask \/ MarkThrows
    \/ Rest \/ Wake

Next ==
    \/ Loop
    \/ Start \/ Stop
    \/ Elapse
    \/ \E n \in Names : Register(n) \/ Unregister(n)

Spec == Init /\ [][Next]_vars

\* A thread that is there is scheduled, handlers end, and time passes.  Nobody
\* has to start the worker, the first time or after it failed.
FairSpec == Spec /\ WF_vars(Loop) /\ WF_vars(Elapse)

-----------------------------------------------------------------------------
\* A name has one record, so that the lookups by name find the right one, and
\* the records are the registrations that were not retired.
OneRecordPerName ==
    /\ \A i, j \in DOMAIN periodicTasks :
         periodicTasks[i].name = periodicTasks[j].name => i = j
    /\ {periodicTasks[i].gen : i \in DOMAIN periodicTasks} = (1..gen) \ retired

\* A handler that was unregistered or replaced runs at most once more, from the
\* copy that was due already; what it captured has to live that long.
RetiredRunsAtMostOnce == \A g \in Gens : lateRuns[g] <= 1

\* The run count a snapshot shows for a task is that of its own handler, but for
\* one: the last run of a replaced handler is counted for its successor, and
\* the run that just ended may not be counted yet.
RunCountIsOwn ==
    \A i \in DOMAIN periodicTasks :
        LET r == periodicTasks[i] IN
        /\ r.runCount <= runs[r.gen] + 1
        /\ r.runCount < runs[r.gen] => tpc = "mark" /\ Head(dueTasks).gen = r.gen

\* Two scans find the same registration due only with its whole interval
\* between them: not sooner after a handler that failed, and not several times in
\* a row to make up for runs missed while handlers took long, the worker was
\* stopped or its thread had failed (runPeriodicTasks).
RunsAreSpaced ==
    \A i \in DOMAIN periodicTasks :
        LET r == periodicTasks[i] IN IsDue(r) => r.since >= Interval[r.name]

\* Every task that stays registered keeps running as long as the worker stays up,
\* whatever its interval, the other tasks' intervals and the errors of handlers.
\* (After a scan that threw no task runs: the thread has ended as failed, and
\* nothing in the program starts it again.)
Registered(n) == Find(n) # {}

TasksKeepRunning ==
    \A n \in Names :
        <>[](Registered(n) /\ tpc # "off") =>
            []<>(tpc = "mark" /\ Head(dueTasks).name = n)
=============================================================================
