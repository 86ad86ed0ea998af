SPECIFICATION FairSpec
CONSTANTS
    p = p
    q = q
    s = s
    None = None
    Threads <- ThreeThreads
    Tgid <- TwoProcesses
    First = p
    Elems = {1, 2, 3}
    Slots = 2
    RingCap = 2
    MaxCalls = 1
INVARIANTS
    TypeOK
    OwnCallsCounted
    NoLeak
PROPERTIES
    RingFlows
