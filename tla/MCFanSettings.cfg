SPECIFICATION Spec
CONSTANTS
    Commands <- TestCommands
    DefaultConfig <- Factory
    OldFiles <- TestFiles
    NoFile = NoFile
    Missing = Missing
    Garbled = Garbled
    MaxApplies = 3
    MaxFaults = 1
    MaxCrashes = 2
INVARIANTS
    ValidConfigRuns
    SettingsSurviveRestart
    ScreenShowsWhatRuns
