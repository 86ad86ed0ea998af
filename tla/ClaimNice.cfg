SPECIFICATION Spec
CONSTANTS
    p1 = p1
    p2 = p2
    NoDecision = NoDecision
    NotRouted = NotRouted
    Procs <- OneProc
    Inputs <- Boundary
    Onnx = FALSE
    Present <- Both
    EnergyChoices <- OneEnergy
    U32 = 256
INVARIANTS
    RealtimeIsHighPriority
