SPECIFICATION Spec
CONSTANTS
    c1 = c1
    c2 = c2
    t1 = t1
    t2 = t2
    t3 = t3
    none = none
    Cpus <- TwoCpus
    Tasks <- TwoTasks
    Tgid <- OneProc
    Pids <- OnePid
    Profile <- PlainAndBatch
    Allowed <- Pinned
    Decisions <- NoDecisions
    EnergyChoices <- EnergyFlips
    SliceChoices <- OneSlice
    FailingCreates <- OneFailure
    RingCap = 1
    U64 = 16
    MaxEnqueues = 2
    NoTask = none
    NoDecision = none
INVARIANTS
    RoutedWithinEnqueued
CHECK_DEADLOCK FALSE
