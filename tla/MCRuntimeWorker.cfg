SPECIFICATION FairSpec
CHECK_DEADLOCK FALSE
CONSTANTS
    Clients = {c1, c2}
    Tasks = {t1, t2, t3}
    NoClient = NoClient
    NoTask = NoTask
    MaxFailures = 1
INVARIANTS
    QueueConserved
    OneThread
    RunningIsAlive
    StopIsFinal
    StopIsPrompt
PROPERTIES
    FailureStaysVisible
    ImplementsExecutor
    LifecycleCallsReturn
    ServedWhileDraining
