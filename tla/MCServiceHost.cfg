SPECIFICATION Spec
CONSTANTS
    first = first
    second = second
    third = third
    Services = {first, second, third}
    MaxCalls = 2
SYMMETRY Symmetry
INVARIANTS
    TypeOK
    RecordsTellTheTruth
    EachInItsTurn
