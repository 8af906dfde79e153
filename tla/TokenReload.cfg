SPECIFICATION FairSpec
CONSTANTS
    MaxVersion = 3
    NLines = 3
    Bad = {2}
    PipeCap = 3
    Batch = 2
INVARIANT TypeOK
INVARIANT NoLostReload
PROPERTY UpdateTakesEffect
