SPECIFICATION Spec
CONSTANTS
    Commands <- TestCommands
    DefaultConfig <- Factory
    OldFiles <- TestFiles
    NoFile = NoFile
    Missing = Missing
    Garbled = Garbled
    MaxApplies = 2
    MaxFaults = 1
    MaxCrashes = 2
INVARIANTS
    FailedApplyKeepsSettings
