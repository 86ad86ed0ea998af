SPECIFICATION Spec
CONSTANTS
    p1 = p1
    p2 = p2
    NoDecision = NoDecision
    NotRouted = NotRouted
    Procs <- OneProc
    Inputs <- FourKinds
    Onnx = FALSE
    Present <- Both
    EnergyChoices <- OneEnergy
    U32 = 256
INVARIANTS
    NpuWhenAvailable
