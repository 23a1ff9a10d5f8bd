--------------------------- MODULE RuntimeWorker ----------------------------
(***************************************************************************)
(* One RuntimeWorker of system/runtime: a thread, the two mutexes that      *)
(* guard its life cycle and its data, and the queue of posted tasks.        *)
(*                                                                          *)
(* Steps are cut at the locks: code that runs under `mutex` without         *)
(* releasing it is one action.  `holder` is the owner of lifecycleMutex,    *)
(* which start() and stop() keep across the join.  tpc is where the worker  *)
(* thread is ("off": the std::thread is not joinable), pc[c] where client c *)
(* is in start(), stop() or runXTaskAndWait().  Heartbeats, names and error *)
(* texts are left out.  The handlers of the periodic tasks are one step     *)
(* here (RunPeriodicTasks): their table shares nothing with the queue.      *)
(***************************************************************************)
EXTENDS Naturals, Sequences

CONSTANTS Clients,      \* threads that use the worker, other than its own
          Tasks,        \* the closures that are posted, each at most once
          NoClient,     \* lifecycleMutex is free
          NoTask,       \* the client waits for no future
          MaxFailures   \* bound on the exceptions that escape the loop

ASSUME ClientsAssumption == NoClient \notin Clients
ASSUME TasksAssumption   == NoTask \notin Tasks
ASSUME BoundAssumption   == MaxFailures \in Nat

VARIABLES
    state,           \* RuntimeThreadState
    stopRequested,   \* std::atomic<bool>
    tpc,             \* the worker thread
    posted,          \* postedTasks
    pending,         \* the local pendingTasks of drainPostedTasks
    holder,          \* owner of lifecycleMutex
    pc,              \* the clients
    waitsFor,        \* the task whose future a client is blocked on
    failures,        \* exceptions that escaped the loop so far
    accepted,        \* history: tasks accepted, in order
    executed,        \* history: tasks run, in order
    drainsAfterStop  \* history: drains begun since the last stop request

threadVars  == <<tpc, pending, failures, executed>>
clientVars  == <<holder, pc, waitsFor>>
vars == <<state, stopRequested, posted, accepted, drainsAfterStop,
          threadVars, clientVars>>

States   == {"stopped", "starting", "running", "stopping", "failed"}
LoopPCs  == {"loop", "drain", "exec", "sleep"}
ThreadPCs == LoopPCs \union {"off", "entry", "leave", "fail", "exited"}
BusyPCs  == {"startJoin", "startReset", "launch", "stopJoin", "stopFinish"}
ClientPCs == BusyPCs \union {"idle", "waiting"}

InSeq(t, s) == \E i \in DOMAIN s : s[i] = t

TypeOK ==
    /\ state \in States
    /\ stopRequested \in BOOLEAN
    /\ tpc \in ThreadPCs
    /\ posted \in Seq(Tasks)
    /\ pending \in Seq(Tasks)
    /\ holder \in Clients \union {NoClient}
    /\ pc \in [Clients -> ClientPCs]
    /\ waitsFor \in [Clients -> Tasks \union {NoTask}]
    /\ failures \in 0..MaxFailures
    /\ accepted \in Seq(Tasks)
    /\ executed \in Seq(Tasks)
    /\ drainsAfterStop \in Nat

Init ==
    /\ state = "stopped"
    /\ stopRequested = FALSE
    /\ tpc = "off"
    /\ posted = <<>>
    /\ pending = <<>>
    /\ holder = NoClient
    /\ pc = [c \in Clients |-> "idle"]
    /\ waitsFor = [c \in Clients |-> NoTask]
    /\ failures = 0
    /\ accepted = <<>>
    /\ executed = <<>>
    /\ drainsAfterStop = 0

joinable  == tpc # "off"
isRunning == state \in {"running", "starting"}

Goto(c, label) == pc' = [pc EXCEPT ![c] = label]

-----------------------------------------------------------------------------
(* start() *)

StartEnter(c) ==     \* a worker that isRunning makes start() return at once
    /\ pc[c] = "idle" /\ holder = NoClient
    /\ ~isRunning
    /\ holder' = c
    /\ Goto(c, "startJoin")
    /\ UNCHANGED <<state, stopRequested, posted, accepted, drainsAfterStop,
                   threadVars, waitsFor>>

StartJoinSkipped(c) ==      \* mutant: no join
    /\ pc[c] = "startJoin"
    /\ Goto(c, "startReset")
    /\ UNCHANGED <<state, stopRequested, posted, accepted, drainsAfterStop,
                   threadVars, holder, waitsFor>>

StartJoin(c) ==
    /\ pc[c] = "startJoin"
    /\ tpc \in {"off", "exited"}
    /\ tpc' = "off"
    /\ Goto(c, "startReset")
    /\ UNCHANGED <<state, stopRequested, posted, accepted, drainsAfterStop,
                   pending, failures, executed, holder, waitsFor>>

StartResetClears(c) ==      \* mutant: the tasks posted before a restart are dropped
    /\ pc[c] = "startReset"
    /\ stopRequested' = FALSE /\ state' = "starting" /\ posted' = <<>>
    /\ drainsAfterStop' = 0
    /\ Goto(c, "launch")
    /\ UNCHANGED <<accepted, threadVars, holder, waitsFor>>

StartReset(c) ==     \* postedTasks is not cleared
    /\ pc[c] = "startReset"
    /\ stopRequested' = FALSE
    /\ state' = "starting"
    /\ drainsAfterStop' = 0
    /\ Goto(c, "launch")
    /\ UNCHANGED <<posted, accepted, threadVars, holder, waitsFor>>

Launch(c) ==         \* or the constructor of std::thread throws
    /\ pc[c] = "launch"
    /\ tpc' \in {"entry", tpc}
    /\ holder' = NoClient
    /\ Goto(c, "idle")
    /\ UNCHANGED <<state, stopRequested, posted, accepted, drainsAfterStop,
                   pending, failures, executed, waitsFor>>

(* stop() *)

StopEnter(c) ==
    /\ pc[c] = "idle" /\ holder = NoClient
    /\ state # "stopped" \/ joinable
    /\ state' = IF state = "failed" THEN "failed" ELSE "stopping"
    /\ stopRequested' = TRUE
    /\ drainsAfterStop' = 0
    /\ holder' = c
    /\ Goto(c, "stopJoin")
    /\ UNCHANGED <<posted, accepted, threadVars, waitsFor>>

StopJoinSkipped(c) ==       \* mutant: stop() returns without the join
    /\ pc[c] = "stopJoin"
    /\ Goto(c, "stopFinish")
    /\ UNCHANGED <<state, stopRequested, posted, accepted, drainsAfterStop,
                   threadVars, holder, waitsFor>>

StopJoin(c) ==
    /\ pc[c] = "stopJoin"
    /\ tpc \in {"off", "exited"}
    /\ tpc' = "off"
    /\ Goto(c, "stopFinish")
    /\ UNCHANGED <<state, stopRequested, posted, accepted, drainsAfterStop,
                   pending, failures, executed, holder, waitsFor>>

StopFinishForgets(c) ==     \* mutant: joined is stopped, however the thread ended
    /\ pc[c] = "stopFinish"
    /\ state' = "stopped"
    /\ holder' = NoClient
    /\ Goto(c, "idle")
    /\ UNCHANGED <<stopRequested, posted, accepted, drainsAfterStop,
                   threadVars, waitsFor>>

StopFinish(c) ==
    /\ pc[c] = "stopFinish"
    /\ state' = IF state = "failed" THEN "failed" ELSE "stopped"
    /\ holder' = NoClient
    /\ Goto(c, "idle")
    /\ UNCHANGED <<stopRequested, posted, accepted, drainsAfterStop,
                   threadVars, waitsFor>>

-----------------------------------------------------------------------------
(* postTask(), postXTask() and runXTaskAndWait() *)

Accept(t) ==
    /\ ~InSeq(t, accepted)
    /\ isRunning
    /\ posted' = Append(posted, t)
    /\ accepted' = Append(accepted, t)

PostTask(t) ==       \* by any thread, the worker's own included
    /\ Accept(t)
    /\ UNCHANGED <<state, stopRequested, drainsAfterStop, threadVars, clientVars>>

RunTaskAndWait(c, t) ==
    /\ pc[c] = "idle"
    /\ Accept(t)
    /\ waitsFor' = [waitsFor EXCEPT ![c] = t]
    /\ Goto(c, "waiting")
    /\ UNCHANGED <<state, stopRequested, drainsAfterStop, threadVars, holder>>

WaitReturns(c) ==    \* the closure set the promise, with a value or an exception
    /\ pc[c] = "waiting"
    /\ InSeq(waitsFor[c], executed)
    /\ waitsFor' = [waitsFor EXCEPT ![c] = NoTask]
    /\ Goto(c, "idle")
    /\ UNCHANGED <<state, stopRequested, posted, accepted, drainsAfterStop,
                   threadVars, holder>>

-----------------------------------------------------------------------------
(* run() and runLoop(), on the worker thread *)

MarkRunning ==       \* overwrites "stopping" when stop() came first
    /\ tpc = "entry"
    /\ tpc' = "loop"
    /\ state' = "running"
    /\ UNCHANGED <<stopRequested, posted, accepted, drainsAfterStop, pending,
                   failures, executed, clientVars>>

CheckState ==               \* mutant: asks the state, which markRunning overwrites
    /\ tpc = "loop"
    /\ tpc' = IF state = "stopping" THEN "leave" ELSE "drain"
    /\ UNCHANGED <<state, stopRequested, posted, accepted, drainsAfterStop,
                   pending, failures, executed, clientVars>>

CheckStop ==
    /\ tpc = "loop"
    /\ tpc' = IF stopRequested THEN "leave" ELSE "drain"
    /\ UNCHANGED <<state, stopRequested, posted, accepted, drainsAfterStop,
                   pending, failures, executed, clientVars>>

DrainReversed ==            \* mutant: last in, first out
    /\ tpc = "drain"
    /\ tpc' = "exec"
    /\ pending' = [i \in DOMAIN posted |-> posted[Len(posted) + 1 - i]]
    /\ posted' = <<>>
    /\ drainsAfterStop' = drainsAfterStop + (IF stopRequested THEN 1 ELSE 0)
    /\ UNCHANGED <<state, stopRequested, accepted, failures, executed, clientVars>>

DrainPostedTasks ==
    /\ tpc = "drain"
    /\ tpc' = "exec"
    /\ pending' = posted
    /\ posted' = <<>>
    /\ drainsAfterStop' = drainsAfterStop + (IF stopRequested THEN 1 ELSE 0)
    /\ UNCHANGED <<state, stopRequested, accepted, failures, executed, clientVars>>

RunPostedTaskOrGiveUp ==    \* mutant: a task that throws ends the whole batch
    /\ tpc = "exec" /\ pending # <<>>
    /\ executed' = Append(executed, Head(pending))
    /\ pending' \in {Tail(pending), <<>>}
    /\ UNCHANGED <<state, stopRequested, posted, accepted, drainsAfterStop, tpc,
                   failures, clientVars>>

RunPostedTask ==     \* an exception of the task is caught: it counts as run
    /\ tpc = "exec" /\ pending # <<>>
    /\ executed' = Append(executed, Head(pending))
    /\ pending' = Tail(pending)
    /\ UNCHANGED <<state, stopRequested, posted, accepted, drainsAfterStop, tpc,
                   failures, clientVars>>

RunPeriodicTasks ==
    /\ tpc = "exec" /\ pending = <<>>
    /\ tpc' = "sleep"
    /\ UNCHANGED <<state, stopRequested, posted, accepted, drainsAfterStop,
                   pending, failures, executed, clientVars>>

WakeForTasks ==             \* mutant: the predicate is only about the queue
    /\ tpc = "sleep" /\ posted # <<>>
    /\ tpc' = "loop"
    /\ UNCHANGED <<state, stopRequested, posted, accepted, drainsAfterStop,
                   pending, failures, executed, clientVars>>

Wake ==              \* the predicate holds or the time of wait_until is over
    /\ tpc = "sleep"
    /\ tpc' = "loop"
    /\ UNCHANGED <<state, stopRequested, posted, accepted, drainsAfterStop,
                   pending, failures, executed, clientVars>>

LoopThrows ==        \* std::bad_alloc, before the swap or copying due handlers
    /\ tpc = "drain" \/ (tpc = "exec" /\ pending = <<>>)
    /\ failures < MaxFailures
    /\ failures' = failures + 1
    /\ tpc' = "fail"
    /\ UNCHANGED <<state, stopRequested, posted, accepted, drainsAfterStop,
                   pending, executed, clientVars>>

MarkStoppedSilently ==      \* mutant: the state is left to stop()
    /\ tpc = "leave"
    /\ tpc' = "exited"
    /\ UNCHANGED <<state, stopRequested, posted, accepted, drainsAfterStop, pending,
                   failures, executed, clientVars>>

MarkStopped ==
    /\ tpc = "leave"
    /\ tpc' = "exited"
    /\ state' = "stopped"
    /\ UNCHANGED <<stopRequested, posted, accepted, drainsAfterStop, pending,
                   failures, executed, clientVars>>

MarkFailed ==
    /\ tpc = "fail"
    /\ tpc' = "exited"
    /\ state' = "failed"
    /\ UNCHANGED <<stopRequested, posted, accepted, drainsAfterStop, pending,
                   failures, executed, clientVars>>

-----------------------------------------------------------------------------
LifecycleStep(c) ==
    \/ StartJoin(c) \/ StartReset(c) \/ Launch(c)
    \/ StopJoin(c) \/ StopFinish(c)

ClientStep(c) ==
    \/ StartEnter(c) \/ StopEnter(c) \/ LifecycleStep(c)
    \/ WaitReturns(c)
    \/ \E t \in Tasks : RunTaskAndWait(c, t)

ThreadStep ==
    \/ MarkRunning \/ CheckStop \/ DrainPostedTasks \/ RunPostedTask
    \/ RunPeriodicTasks \/ Wake \/ LoopThrows \/ MarkStopped \/ MarkFailed

Next ==
    \/ ThreadStep
    \/ \E c \in Clients : ClientStep(c)
    \/ \E t \in Tasks : PostTask(t)

Spec == Init /\ [][Next]_vars

\* A thread that can run does run, and posted tasks end.  Nobody has to call
\* start(), stop() or postTask().
Fairness ==
    /\ WF_vars(ThreadStep)
    /\ \A c \in Clients : WF_vars(LifecycleStep(c)) /\ WF_vars(WaitReturns(c))

FairSpec == Spec /\ Fairness

-----------------------------------------------------------------------------
\* No task is lost, run twice or overtaken: at every moment the accepted tasks
\* are the ones that ran, the drained ones and the posted ones, in this order.
\* It covers the swap under the lock and the queue that survives a restart.
QueueConserved == accepted = executed \o pending \o posted

\* start() never assigns a new std::thread over a joinable one (which would
\* terminate the process), however many clients start and stop the worker.
OneThread == \A c \in Clients : pc[c] \in {"startReset", "launch"} => ~joinable

\* A worker that says it runs has a thread inside the loop, or on its way out
\* of it; an exited thread has always published how it ended.
RunningIsAlive ==
    /\ state = "running" => tpc \in LoopPCs \union {"leave", "fail"}
    /\ tpc = "exited" => state \in {"stopped", "failed"}

\* When stop() has returned and until the next start(), the thread is joined
\* and isRunning() is false: the unconditional write of markRunning() cannot
\* outlive the stop() it raced with.
StopIsFinal ==
    stopRequested /\ holder = NoClient => ~joinable /\ state \in {"stopped", "failed"}

\* A failure of the loop stays visible until the worker is started again, even
\* when the loop fails while a stop() waits for it, or somebody stops the worker
\* afterwards: neither stop() nor the thread writes another state over "failed".
FailureStaysVisible ==
    [][state = "failed" => state' \in {"failed", "starting"}]_vars

\* After a stop request the loop drains the queue at most once more.
StopIsPrompt == drainsAfterStop <= 1

\* The worker implements the queue its callers rely on.
Executor == INSTANCE FifoExecutor WITH queue <- pending \o posted, done <- executed
ImplementsExecutor == Executor!Spec

\* Every start() and stop() returns: the join always meets a thread that ends,
\* whatever tasks were accepted and even if the loop fails meanwhile.
LifecycleCallsReturn == \A c \in Clients : pc[c] \in BusyPCs ~> pc[c] \notin BusyPCs

\* As long as the worker keeps draining its queue, over restarts or not, or just
\* stays up, every accepted task runs and every waiting client gets its answer.
\* (Without the premise it is false: a task posted after the last drain before a
\* stop stays in the queue, and its waiter blocks, until somebody starts the
\* worker again.)
Up == state = "running" /\ ~stopRequested

ServedWhileDraining ==
    []<>(tpc = "exec") \/ <>[]Up =>
        /\ \A t \in Tasks : InSeq(t, accepted) ~> InSeq(t, executed)
        /\ \A c \in Clients : pc[c] = "waiting" ~> pc[c] = "idle"
=============================================================================
