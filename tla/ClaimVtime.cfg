SPECIFICATION Spec
CONSTANTS
    c1 = c1
    c2 = c2
    t1 = t1
    t2 = t2
    t3 = t3
    NoTask = NoTask
    Kinds <- JustVtime
    Cpus <- OneCpu
    Tasks <- TwoTasks
    Allowed <- Anywhere
    Weight <- Weights
    SLICE = 2
    NiceZero = 2
    U32 = 1000
    U64 = 100
    MaxVtime = 4
PROPERTIES
    NewTasksGetMaxVtime
