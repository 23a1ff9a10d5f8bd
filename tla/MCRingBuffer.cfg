SPECIFICATION RingSpec
CONSTANTS
    Values = {a, b, c}
    Capacity = 3
    Nullopt = Nullopt
PROPERTY ImplementsQueue
