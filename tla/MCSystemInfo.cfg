SPECIFICATION Spec
CONSTANTS
    MemTotal = 2
    None = None
    MaxTicks = 4
    Steps <- TestSteps
INVARIANTS
    TypeOK
    UsageIsOfLastInterval
