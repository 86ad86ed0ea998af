SPECIFICATION FairOrderSpec
CONSTANTS
    c1 = c1
    c2 = c2
    t1 = t1
    t2 = t2
    t3 = t3
    none = none
    Cpus <- TwoCpus
    Tasks <- ThreeTasks
    Tgid <- OneProc
    Pids <- OnePid
    Profile <- ThreeLevels
    Allowed <- Pinned
    Decisions <- JustNpu
    EnergyChoices <- Balanced
    SliceChoices <- NoSlices
    FailingCreates <- OneFailure
    RingCap = 0
    U64 = 1
    MaxEnqueues = 1
    NoTask = none
    NoDecision = none
INVARIANTS
    TypeOK
    OnePlace
    LocalAtMostOne
    NothingPassed
    EjectedOnlyByFailedCreate
PROPERTIES
    StrictPriority
    WorkConserving
    ImplementsLifecycle
    ServedWhenHigherEmpty
    EveryQueueServed
CHECK_DEADLOCK FALSE
