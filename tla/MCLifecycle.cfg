SPECIFICATION Spec
CONSTANTS
    Devices = {fan, sensor}
INVARIANTS
    TypeOK
    EventsAreAccepted
    FaultsAreShown
    ModeIsExplained
PROPERTIES
    ReportSettles
    StandbyNeedsSelftest
