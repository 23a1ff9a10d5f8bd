SPECIFICATION Spec
CONSTANTS
    MaxQueue = 1
    MaxUiTests = 1
INVARIANTS
    TypeOK
    NoUseAfterDestroyWithFan
    FanOffAtExit
    NothingLeftUnrun
    StoppedForGood
    MissingDeviceMeansAlarm
PROPERTIES
    StartupAndShutdownEnd
