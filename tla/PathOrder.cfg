SPECIFICATION Spec
CONSTANTS
    p1 = p1
    p2 = p2
    NoDecision = NoDecision
    NotRouted = NotRouted
    Procs <- TwoProcs
    Inputs <- FourKinds
    Onnx = TRUE
    Present <- Both
    EnergyChoices <- AnyEnergy
    U32 = 256
INVARIANTS
    TypeOK
    UrgentFirst
PROPERTIES
    EnergyMovesOnlyBatch
