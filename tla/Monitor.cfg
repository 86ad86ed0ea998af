SPECIFICATION Spec
CONSTANTS
    MaxLoads = 3
    MaxEnqueues = 1
    Cpus = 2
    None = None
INVARIANTS
    TypeOK
    PartsWithinTotal
PROPERTIES
    NumbersNeverGoBack
    PinsSettle
