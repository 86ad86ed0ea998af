SPECIFICATION FairSpec
CONSTANTS
    c1 = c1
    c2 = c2
    t1 = t1
    t2 = t2
    t3 = t3
    NoTask = NoTask
    Kinds <- Policies
    Cpus <- TwoCpus
    Tasks <- ThreeTasks
    Allowed <- Pinned
    Weight <- Weights
    SLICE = 1
    NiceZero = 2
    U32 = 1000
    U64 = 100
    MaxVtime = 2
INVARIANTS
    TypeOK
    OnePlace
PROPERTIES
    HeaviestFirst
    LeastChargedFirst
    LastNeverDrawn
    ImplementsLifecycle
    ArrivalsServed
