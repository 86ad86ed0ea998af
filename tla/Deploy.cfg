SPECIFICATION FairSpec
CONSTANTS
    m1 = m1
    m2 = m2
    Names <- TwoNames
    DefaultName = m1
    Unset = Unset
INVARIANTS
    TypeOK
PROPERTIES
    LoadSettled
    SelectedIsWhole
    EnabledModelUsed
