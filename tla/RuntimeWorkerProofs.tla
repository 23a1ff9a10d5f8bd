------------------------ MODULE RuntimeWorkerProofs -------------------------
(***************************************************************************)
(* The safety of one runtime worker, for any set of clients and tasks and  *)
(* any bound on the failures: its type invariant, the life-cycle invariant *)
(* behind StopIsFinal, OneThread and RunningIsAlive, the conservation of    *)
(* the queue, and the refinement of FifoExecutor.                           *)
(***************************************************************************)
EXTENDS RuntimeWorker, SequenceTheorems, TLAPS

-----------------------------------------------------------------------------
(* The life-cycle invariant: lifecycleMutex has one owner, and what the      *)
(* worker's thread and state can be while nobody, or somebody at a given      *)
(* place of start() or stop(), owns it.                                      *)

LockOwned == \A c \in Clients : pc[c] \in BusyPCs <=> holder = c

QuietWhenFree ==
    holder = NoClient =>
        /\ tpc = "off" => state \in {"stopped", "failed", "starting"}
        /\ tpc = "entry" => state = "starting"
        /\ tpc \in LoopPCs \union {"fail"} => state = "running"
        /\ tpc # "leave"
        /\ tpc = "exited" => state = "failed"
        /\ stopRequested => tpc = "off" /\ state \in {"stopped", "failed"}

StartHolds(c) ==
    /\ pc[c] = "startJoin" =>
         /\ state \in {"stopped", "failed"}
         /\ tpc = "off" \/ (tpc = "exited" /\ state = "failed")
    /\ pc[c] = "startReset" => tpc = "off" /\ state \in {"stopped", "failed"}
    /\ pc[c] = "launch" => tpc = "off" /\ state = "starting" /\ ~stopRequested

StopHolds(c) ==
    /\ pc[c] = "stopJoin" =>
         /\ stopRequested
         /\ tpc = "off" => state \in {"stopping", "failed"}
         /\ tpc = "entry" => state = "stopping"
         /\ tpc \in LoopPCs \union {"leave", "fail"} => state \in {"stopping", "running"}
         /\ tpc = "exited" => state \in {"stopped", "failed"}
    /\ pc[c] = "stopFinish" =>
         stopRequested /\ tpc = "off" /\ state \in {"stopped", "stopping", "failed"}

LifecycleInv ==
    LockOwned /\ QuietWhenFree /\ \A c \in Clients : StartHolds(c) /\ StopHolds(c)

\* At most one drain after a stop request: a second would have to pass the test
\* of the flag first.
DrainInv ==
    /\ ~stopRequested => drainsAfterStop = 0
    /\ tpc = "drain" => drainsAfterStop = 0
    /\ StopIsPrompt

-----------------------------------------------------------------------------
\* The worker's type invariant holds in every reachable state.
THEOREM TypeCorrect == Spec => []TypeOK
<1>1. Init => TypeOK
  <2> SUFFICES ASSUME Init PROVE TypeOK
    OBVIOUS
  <2>1. <<>> \in Seq(Tasks)
    OBVIOUS
  <2>2. pc \in [Clients -> ClientPCs]
    BY DEF Init, ClientPCs, BusyPCs
  <2>3. waitsFor \in [Clients -> Tasks \union {NoTask}]
    BY DEF Init
  <2>4. failures \in 0..MaxFailures /\ drainsAfterStop \in Nat
    BY BoundAssumption DEF Init
  <2>5. state \in States /\ stopRequested \in BOOLEAN /\ tpc \in ThreadPCs
    BY DEF Init, States, ThreadPCs, LoopPCs
  <2> QED BY <2>1, <2>2, <2>3, <2>4, <2>5 DEF Init, TypeOK
<1>2. TypeOK /\ [Next]_vars => TypeOK'
  <2> SUFFICES ASSUME TypeOK, [Next]_vars PROVE TypeOK'
    OBVIOUS
  <2> USE DEF TypeOK, States, ThreadPCs, LoopPCs, ClientPCs, BusyPCs, Goto
  <2>1. ASSUME NEW c \in Clients, StartEnter(c) PROVE TypeOK'
    BY <2>1 DEF StartEnter, threadVars
  <2>2. ASSUME NEW c \in Clients, StartJoin(c) PROVE TypeOK'
    BY <2>2 DEF StartJoin
  <2>3. ASSUME NEW c \in Clients, StartReset(c) PROVE TypeOK'
    BY <2>3 DEF StartReset, threadVars
  <2>4. ASSUME NEW c \in Clients, Launch(c) PROVE TypeOK'
    BY <2>4 DEF Launch
  <2>5. ASSUME NEW c \in Clients, StopEnter(c) PROVE TypeOK'
    BY <2>5 DEF StopEnter, threadVars
  <2>6. ASSUME NEW c \in Clients, StopJoin(c) PROVE TypeOK'
    BY <2>6 DEF StopJoin
  <2>7. ASSUME NEW c \in Clients, StopFinish(c) PROVE TypeOK'
    BY <2>7 DEF StopFinish, threadVars
  <2>8. ASSUME NEW c \in Clients, WaitReturns(c) PROVE TypeOK'
    BY <2>8 DEF WaitReturns, threadVars
  <2>9. ASSUME NEW c \in Clients, NEW t \in Tasks, RunTaskAndWait(c, t) PROVE TypeOK'
    BY <2>9 DEF RunTaskAndWait, Accept, threadVars
  <2>10. ASSUME NEW t \in Tasks, PostTask(t) PROVE TypeOK'
    BY <2>10 DEF PostTask, Accept, threadVars, clientVars
  <2>11. CASE MarkRunning
    BY <2>11 DEF MarkRunning, clientVars
  <2>12. CASE CheckStop
    BY <2>12 DEF CheckStop, clientVars
  <2>13. CASE DrainPostedTasks
    BY <2>13 DEF DrainPostedTasks, clientVars
  <2>14. CASE RunPostedTask
    <3>1. Head(pending) \in Tasks /\ Tail(pending) \in Seq(Tasks)
      BY <2>14 DEF RunPostedTask
    <3> QED BY <2>14, <3>1 DEF RunPostedTask, clientVars
  <2>15. CASE RunPeriodicTasks
    BY <2>15 DEF RunPeriodicTasks, clientVars
  <2>16. CASE Wake
    BY <2>16 DEF Wake, clientVars
  <2>17. CASE LoopThrows
    BY <2>17, BoundAssumption DEF LoopThrows, clientVars
  <2>18. CASE MarkStopped
    BY <2>18 DEF MarkStopped, clientVars
  <2>19. CASE MarkFailed
    BY <2>19 DEF MarkFailed, clientVars
  <2>20. CASE UNCHANGED vars
    BY <2>20 DEF vars, threadVars, clientVars
  <2> QED
    BY <2>1, <2>2, <2>3, <2>4, <2>5, <2>6, <2>7, <2>8, <2>9, <2>10, <2>11, <2>12,
       <2>13, <2>14, <2>15, <2>16, <2>17, <2>18, <2>19, <2>20
       DEF Next, ThreadStep, ClientStep, LifecycleStep
<1> QED BY <1>1, <1>2, PTL DEF Spec

-----------------------------------------------------------------------------
\* The life-cycle invariant holds in every reachable state, whatever the
\* clients do and wherever the thread is when they do it.
THEOREM LifecycleInvariant == Spec => []LifecycleInv
<1>1. Init => LifecycleInv
  BY ClientsAssumption
  DEF Init, LifecycleInv, LockOwned, QuietWhenFree, StartHolds, StopHolds, BusyPCs, LoopPCs
<1>2. TypeOK /\ LifecycleInv /\ [Next]_vars => LifecycleInv'
  <2> SUFFICES ASSUME TypeOK, LifecycleInv, [Next]_vars PROVE LifecycleInv'
    OBVIOUS
  <2> USE ClientsAssumption
      DEF TypeOK, LifecycleInv, LockOwned, QuietWhenFree, StartHolds, StopHolds,
          States, ThreadPCs, LoopPCs, ClientPCs, BusyPCs, Goto
  <2>1. ASSUME NEW c \in Clients, StartEnter(c) PROVE LifecycleInv'
    BY <2>1 DEF StartEnter, threadVars, isRunning
  <2>2. ASSUME NEW c \in Clients, StartJoin(c) PROVE LifecycleInv'
    BY <2>2 DEF StartJoin
  <2>3. ASSUME NEW c \in Clients, StartReset(c) PROVE LifecycleInv'
    BY <2>3 DEF StartReset, threadVars
  <2>4. ASSUME NEW c \in Clients, Launch(c) PROVE LifecycleInv'
    BY <2>4 DEF Launch
  <2>5. ASSUME NEW c \in Clients, StopEnter(c) PROVE LifecycleInv'
    BY <2>5 DEF StopEnter, threadVars, joinable
  <2>6. ASSUME NEW c \in Clients, StopJoin(c) PROVE LifecycleInv'
    BY <2>6 DEF StopJoin
  <2>7. ASSUME NEW c \in Clients, StopFinish(c) PROVE LifecycleInv'
    BY <2>7 DEF StopFinish, threadVars
  <2>8. ASSUME NEW c \in Clients, WaitReturns(c) PROVE LifecycleInv'
    BY <2>8 DEF WaitReturns, threadVars
  <2>9. ASSUME NEW c \in Clients, NEW t \in Tasks, RunTaskAndWait(c, t)
        PROVE LifecycleInv'
    BY <2>9 DEF RunTaskAndWait, Accept, threadVars
  <2>10. ASSUME NEW t \in Tasks, PostTask(t) PROVE LifecycleInv'
    BY <2>10 DEF PostTask, Accept, threadVars, clientVars
  <2>11. CASE MarkRunning
    BY <2>11 DEF MarkRunning, clientVars
  <2>12. CASE CheckStop
    BY <2>12 DEF CheckStop, clientVars
  <2>13. CASE DrainPostedTasks
    BY <2>13 DEF DrainPostedTasks, clientVars
  <2>14. CASE RunPostedTask
    BY <2>14 DEF RunPostedTask, clientVars
  <2>15. CASE RunPeriodicTasks
    BY <2>15 DEF RunPeriodicTasks, clientVars
  <2>16. CASE Wake
    BY <2>16 DEF Wake, clientVars
  <2>17. CASE LoopThrows
    BY <2>17 DEF LoopThrows, clientVars
  <2>18. CASE MarkStopped
    BY <2>18 DEF MarkStopped, clientVars
  <2>19. CASE MarkFailed
    BY <2>19 DEF MarkFailed, clientVars
  <2>20. CASE UNCHANGED vars
    BY <2>20 DEF vars, threadVars, clientVars
  <2> QED
    BY <2>1, <2>2, <2>3, <2>4, <2>5, <2>6, <2>7, <2>8, <2>9, <2>10, <2>11, <2>12,
       <2>13, <2>14, <2>15, <2>16, <2>17, <2>18, <2>19, <2>20
       DEF Next, ThreadStep, ClientStep, LifecycleStep
<1> QED BY <1>1, <1>2, TypeCorrect, PTL DEF Spec

\* After stop() has returned and until the next start() there is no thread and
\* isRunning() is false, although markRunning() never looks at the stop request.
THEOREM StopIsFinalHolds == Spec => []StopIsFinal
<1>1. LifecycleInv => StopIsFinal
  BY DEF LifecycleInv, QuietWhenFree, StopIsFinal, joinable
<1> QED BY <1>1, LifecycleInvariant, PTL

\* start() never overwrites a joinable std::thread.
THEOREM OneThreadHolds == Spec => []OneThread
<1>1. LifecycleInv => OneThread
  BY DEF LifecycleInv, StartHolds, OneThread, joinable
<1> QED BY <1>1, LifecycleInvariant, PTL

\* "running" is only ever the state of a thread that is in its loop.
THEOREM RunningIsAliveHolds == Spec => []RunningIsAlive
<1>1. TypeOK /\ LifecycleInv => RunningIsAlive
  BY DEF TypeOK, LifecycleInv, LockOwned, QuietWhenFree, StartHolds, StopHolds,
         RunningIsAlive, ClientPCs, BusyPCs, ThreadPCs, LoopPCs
<1> QED BY <1>1, LifecycleInvariant, TypeCorrect, PTL

\* A failure stays visible until the next start(): whoever else writes the state
\* holds the lock or is the thread, and then it is not "failed".
THEOREM FailureStaysVisibleHolds == Spec => FailureStaysVisible
<1>1. TypeOK /\ LifecycleInv /\ [Next]_vars
        => [state = "failed" => state' \in {"failed", "starting"}]_vars
  <2> SUFFICES ASSUME TypeOK, LifecycleInv, Next, state = "failed"
               PROVE  state' \in {"failed", "starting"}
    OBVIOUS
  <2>1. \/ tpc \in {"off", "exited"} /\ holder = NoClient
        \/ \E c \in Clients : holder = c /\ pc[c] \in BusyPCs
    BY DEF TypeOK, LifecycleInv, LockOwned, QuietWhenFree, ThreadPCs, LoopPCs
  <2>2. tpc \in {"off", "exited"}
    BY <2>1 DEF TypeOK, LifecycleInv, StartHolds, StopHolds, ThreadPCs, LoopPCs, BusyPCs
  <2>3. ASSUME NEW c \in Clients, LifecycleStep(c) \/ StartEnter(c) \/ StopEnter(c)
        PROVE  state' \in {"failed", "starting"}
    BY <2>3 DEF LifecycleStep, StartEnter, StopEnter, StartJoin, StartReset, Launch,
                StopJoin, StopFinish, LifecycleInv, StartHolds
  <2>4. ASSUME NEW c \in Clients, WaitReturns(c) \/ \E t \in Tasks : RunTaskAndWait(c, t)
        PROVE  state' = state
    BY <2>4 DEF WaitReturns, RunTaskAndWait
  <2>5. ASSUME NEW t \in Tasks, PostTask(t) PROVE state' = state
    BY <2>5 DEF PostTask
  <2>6. ~ThreadStep
    BY <2>2 DEF ThreadStep, MarkRunning, CheckStop, DrainPostedTasks, RunPostedTask,
                RunPeriodicTasks, Wake, LoopThrows, MarkStopped, MarkFailed
  <2> QED BY <2>3, <2>4, <2>5, <2>6 DEF Next, ClientStep
<1> QED BY <1>1, TypeCorrect, LifecycleInvariant, PTL DEF Spec, FailureStaysVisible

-----------------------------------------------------------------------------
\* The invariant behind StopIsPrompt: while no stop is requested nothing is
\* counted, and a thread about to drain has seen the flag down.
LEMMA DrainInvariant == Spec => []DrainInv
<1>1. Init => DrainInv
  BY DEF Init, DrainInv, StopIsPrompt
<1>2. TypeOK /\ DrainInv /\ [Next]_vars => DrainInv'
  <2> SUFFICES ASSUME TypeOK, DrainInv, [Next]_vars PROVE DrainInv'
    OBVIOUS
  <2> USE DEF TypeOK, DrainInv, StopIsPrompt
  <2>1. ASSUME NEW c \in Clients, ClientStep(c) PROVE DrainInv'
    BY <2>1 DEF ClientStep, LifecycleStep, StartEnter, StartJoin, StartReset, Launch,
                StopEnter, StopJoin, StopFinish, WaitReturns, RunTaskAndWait, Accept,
                threadVars
  <2>2. ASSUME NEW t \in Tasks, PostTask(t) PROVE DrainInv'
    BY <2>2 DEF PostTask, Accept, threadVars
  <2>3. CASE MarkRunning
    BY <2>3 DEF MarkRunning
  <2>4. CASE CheckStop
    BY <2>4 DEF CheckStop
  <2>5. CASE DrainPostedTasks
    BY <2>5 DEF DrainPostedTasks
  <2>6. CASE RunPostedTask
    BY <2>6 DEF RunPostedTask
  <2>7. CASE RunPeriodicTasks \/ Wake \/ LoopThrows \/ MarkStopped \/ MarkFailed
    BY <2>7 DEF RunPeriodicTasks, Wake, LoopThrows, MarkStopped, MarkFailed
  <2>8. CASE UNCHANGED vars
    BY <2>8 DEF vars, threadVars
  <2> QED
    BY <2>1, <2>2, <2>3, <2>4, <2>5, <2>6, <2>7, <2>8 DEF Next, ThreadStep
<1> QED BY <1>1, <1>2, TypeCorrect, PTL DEF Spec

\* After a stop request the loop drains the queue at most once more.
THEOREM StopIsPromptHolds == Spec => []StopIsPrompt
<1>1. DrainInv => StopIsPrompt
  BY DEF DrainInv
<1> QED BY <1>1, DrainInvariant, PTL

-----------------------------------------------------------------------------
(* Facts about sequences that the queue needs.                               *)

LEMMA ConcatAppend ==
  ASSUME NEW S, NEW s \in Seq(S), NEW t \in Seq(S), NEW e \in S
  PROVE  s \o Append(t, e) = Append(s \o t, e)
<1>1. Append(t, e) = t \o <<e>> /\ Append(s \o t, e) = (s \o t) \o <<e>>
  BY AppendIsConcat, ConcatProperties
<1>2. <<e>> \in Seq(S)
  OBVIOUS
<1> QED BY <1>1, <1>2, ConcatAssociative

LEMMA HeadTailIsConcat ==
  ASSUME NEW S, NEW s \in Seq(S), s # <<>>
  PROVE  s = <<Head(s)>> \o Tail(s)
OBVIOUS

LEMMA MoveHead ==
  ASSUME NEW S, NEW s \in Seq(S), NEW t \in Seq(S), t # <<>>
  PROVE  Append(s, Head(t)) \o Tail(t) = s \o t
<1>1. Head(t) \in S /\ Tail(t) \in Seq(S) /\ <<Head(t)>> \in Seq(S)
  OBVIOUS
<1>2. Append(s, Head(t)) \o Tail(t) = (s \o <<Head(t)>>) \o Tail(t)
  BY <1>1, AppendIsConcat
<1>3. @ = s \o (<<Head(t)>> \o Tail(t))
  BY <1>1, ConcatAssociative
<1> QED BY <1>2, <1>3, HeadTailIsConcat

LEMMA HeadTailOfConcat ==
  ASSUME NEW S, NEW s \in Seq(S), NEW t \in Seq(S), s # <<>>
  PROVE  /\ s \o t # <<>>
         /\ Head(s \o t) = Head(s)
         /\ Tail(s \o t) = Tail(s) \o t
OBVIOUS

LEMMA InConcat ==
  ASSUME NEW S, NEW s \in Seq(S), NEW t \in Seq(S), NEW x
  PROVE  InSeq(x, s \o t) <=> InSeq(x, s) \/ InSeq(x, t)
<1>1. DOMAIN s = 1..Len(s) /\ DOMAIN t = 1..Len(t)
      /\ DOMAIN (s \o t) = 1..(Len(s) + Len(t)) /\ Len(s) \in Nat /\ Len(t) \in Nat
  BY ConcatProperties
<1>2. ASSUME NEW i \in DOMAIN (s \o t), (s \o t)[i] = x
      PROVE  InSeq(x, s) \/ InSeq(x, t)
  <2>1. CASE i <= Len(s)
    BY <1>1, <1>2, <2>1, ConcatProperties DEF InSeq
  <2>2. CASE ~(i <= Len(s))
    <3>1. i - Len(s) \in DOMAIN t /\ t[i - Len(s)] = x
      BY <1>1, <1>2, <2>2, ConcatProperties
    <3> QED BY <3>1 DEF InSeq
  <2> QED BY <2>1, <2>2
<1>3. ASSUME NEW i \in DOMAIN s, s[i] = x
      PROVE  InSeq(x, s \o t)
  BY <1>1, <1>3, ConcatProperties DEF InSeq
<1>4. ASSUME NEW i \in DOMAIN t, t[i] = x
      PROVE  InSeq(x, s \o t)
  <2>1. i + Len(s) \in DOMAIN (s \o t) /\ (s \o t)[i + Len(s)] = x
    BY <1>1, <1>4, ConcatProperties
  <2> QED BY <2>1 DEF InSeq
<1> QED BY <1>2, <1>3, <1>4 DEF InSeq

-----------------------------------------------------------------------------
\* The drained tasks are all run before the queue is drained again, so that the
\* swap never overwrites any.
PendingInv == pending # <<>> => tpc = "exec"

QueueInv == QueueConserved /\ PendingInv

LEMMA QueueInvariant == Spec => []QueueInv
<1>1. Init => QueueInv
  <2>1. <<>> \in Seq(Tasks)
    OBVIOUS
  <2> QED BY <2>1, ConcatEmptySeq DEF Init, QueueInv, QueueConserved, PendingInv
<1>2. TypeOK /\ LifecycleInv /\ QueueInv /\ [Next]_vars => QueueInv'
  <2> SUFFICES ASSUME TypeOK, LifecycleInv, QueueInv, [Next]_vars PROVE QueueInv'
    OBVIOUS
  <2>0. posted \in Seq(Tasks) /\ pending \in Seq(Tasks) /\ executed \in Seq(Tasks)
        /\ executed \o pending \in Seq(Tasks)
    BY ConcatProperties DEF TypeOK
  <2> USE DEF QueueInv, QueueConserved, PendingInv
  <2>1. ASSUME NEW t \in Tasks, Accept(t), UNCHANGED threadVars PROVE QueueInv'
    <3>1. (executed \o pending) \o Append(posted, t) = Append(accepted, t)
      BY <2>0, ConcatAppend
    <3> QED BY <2>1, <3>1 DEF Accept, threadVars
  <2>2. ASSUME NEW c \in Clients, NEW t \in Tasks, RunTaskAndWait(c, t) PROVE QueueInv'
    BY <2>1, <2>2 DEF RunTaskAndWait
  <2>3. ASSUME NEW t \in Tasks, PostTask(t) PROVE QueueInv'
    BY <2>1, <2>3 DEF PostTask
  <2>4. ASSUME NEW c \in Clients,
               StartJoin(c) \/ Launch(c) \/ StopJoin(c)
        PROVE  QueueInv'
    <3>1. tpc \in {"off", "exited"}
      BY <2>4 DEF StartJoin, Launch, StopJoin, LifecycleInv, StartHolds
    <3>2. pending = <<>> /\ UNCHANGED <<posted, pending, executed, accepted>>
      BY <2>4, <3>1 DEF StartJoin, Launch, StopJoin
    <3> QED BY <3>2
  <2>5. ASSUME NEW c \in Clients,
               \/ StartEnter(c) \/ StartReset(c) \/ StopEnter(c) \/ StopFinish(c)
               \/ WaitReturns(c)
        PROVE  QueueInv'
    BY <2>5 DEF StartEnter, StartReset, StopEnter, StopFinish, WaitReturns, threadVars
  <2>6. CASE DrainPostedTasks
    <3>1. pending = <<>>
      BY <2>6 DEF DrainPostedTasks
    <3>2. (executed \o posted) \o <<>> = (executed \o <<>>) \o posted
      BY <2>0, ConcatEmptySeq, ConcatProperties
    <3> QED BY <2>6, <3>1, <3>2 DEF DrainPostedTasks
  <2>7. CASE RunPostedTask
    <3>1. Append(executed, Head(pending)) \o Tail(pending) = executed \o pending
      BY <2>0, <2>7, MoveHead DEF RunPostedTask
    <3> QED BY <2>7, <3>1 DEF RunPostedTask
  <2>8. CASE MarkRunning \/ CheckStop \/ RunPeriodicTasks \/ Wake \/ LoopThrows
              \/ MarkStopped \/ MarkFailed
    BY <2>8 DEF MarkRunning, CheckStop, RunPeriodicTasks, Wake, LoopThrows, MarkStopped,
                MarkFailed
  <2>9. CASE UNCHANGED vars
    BY <2>9 DEF vars, threadVars
  <2> QED
    BY <2>2, <2>3, <2>4, <2>5, <2>6, <2>7, <2>8, <2>9
       DEF Next, ThreadStep, ClientStep, LifecycleStep
<1> QED BY <1>1, <1>2, TypeCorrect, LifecycleInvariant, PTL DEF Spec

\* Every accepted task has run, is drained or is posted, once and in order,
\* across stops, restarts and failures of the loop.
THEOREM QueueConservedHolds == Spec => []QueueConserved
<1>1. QueueInv => QueueConserved
  BY DEF QueueInv
<1> QED BY <1>1, QueueInvariant, PTL

-----------------------------------------------------------------------------
\* The worker implements FifoExecutor: its queue is the drained tasks followed
\* by the posted ones, and every step appends a new task, runs the first one, or
\* changes neither.
THEOREM ImplementsExecutorHolds == Spec => ImplementsExecutor
<1>1. Init => Executor!Init
  <2>1. <<>> \in Seq(Tasks)
    OBVIOUS
  <2> QED BY <2>1, ConcatEmptySeq DEF Init, Executor!Init
<1>2. TypeOK /\ LifecycleInv /\ QueueInv /\ [Next]_vars => [Executor!Next]_(Executor!vars)
  <2> SUFFICES ASSUME TypeOK, LifecycleInv, QueueInv, [Next]_vars
               PROVE  [Executor!Next]_(Executor!vars)
    OBVIOUS
  <2>0. posted \in Seq(Tasks) /\ pending \in Seq(Tasks) /\ executed \in Seq(Tasks)
        /\ pending \o posted \in Seq(Tasks)
    BY ConcatProperties DEF TypeOK
  <2>1. ASSUME NEW t \in Tasks, Accept(t), UNCHANGED threadVars PROVE Executor!Next
    <3>1. accepted = executed \o (pending \o posted)
      BY <2>0, ConcatAssociative DEF QueueInv, QueueConserved
    <3>2. ~InSeq(t, pending \o posted) /\ ~InSeq(t, executed)
      BY <2>0, <2>1, <3>1, InConcat DEF Accept
    <3>3. pending' \o posted' = Append(pending \o posted, t)
      BY <2>0, <2>1, ConcatAppend DEF Accept, threadVars
    <3>4. Executor!Accept(t)
      BY <2>1, <3>2, <3>3 DEF Executor!Accept, Executor!InSeq, InSeq, threadVars
    <3> QED BY <3>4 DEF Executor!Next
  <2>2. ASSUME NEW c \in Clients, NEW t \in Tasks, RunTaskAndWait(c, t)
        PROVE  Executor!Next
    BY <2>1, <2>2 DEF RunTaskAndWait
  <2>3. ASSUME NEW t \in Tasks, PostTask(t) PROVE Executor!Next
    BY <2>1, <2>3 DEF PostTask
  <2>4. ASSUME NEW c \in Clients, LifecycleStep(c) \/ StartEnter(c) \/ StopEnter(c)
                                  \/ WaitReturns(c)
        PROVE  UNCHANGED Executor!vars
    BY <2>4 DEF LifecycleStep, StartEnter, StartJoin, StartReset, Launch, StopEnter,
                StopJoin, StopFinish, WaitReturns, threadVars, Executor!vars
  <2>5. CASE DrainPostedTasks
    <3>1. pending = <<>> /\ pending' = posted /\ posted' = <<>> /\ executed' = executed
      BY <2>5 DEF DrainPostedTasks, QueueInv, PendingInv
    <3>2. pending' \o posted' = pending \o posted
      BY <2>0, <3>1, ConcatEmptySeq
    <3> QED BY <3>1, <3>2 DEF Executor!vars
  <2>6. CASE RunPostedTask
    <3>1. pending # <<>> /\ pending' = Tail(pending) /\ posted' = posted
          /\ executed' = Append(executed, Head(pending))
      BY <2>6 DEF RunPostedTask
    <3>2. Executor!RunFirst
      BY <2>0, <3>1, HeadTailOfConcat DEF Executor!RunFirst
    <3> QED BY <3>2 DEF Executor!Next
  <2>7. CASE MarkRunning \/ CheckStop \/ RunPeriodicTasks \/ Wake \/ LoopThrows
              \/ MarkStopped \/ MarkFailed
    BY <2>7 DEF MarkRunning, CheckStop, RunPeriodicTasks, Wake, LoopThrows, MarkStopped,
                MarkFailed, Executor!vars
  <2>8. CASE UNCHANGED vars
    BY <2>8 DEF vars, threadVars, Executor!vars
  <2> QED
    BY <2>2, <2>3, <2>4, <2>5, <2>6, <2>7, <2>8 DEF Next, ThreadStep, ClientStep
<1> QED
  BY <1>1, <1>2, TypeCorrect, LifecycleInvariant, QueueInvariant, PTL
  DEF Spec, ImplementsExecutor, Executor!Spec
=============================================================================
