SPECIFICATION Spec
CONSTANT Cases <- AllCases
INVARIANTS
    TypeOK
    BufferSafe
    PermuteLikeGNU
    FormsUnderstood
    AcceptedIsUsable
    ListDecides
CHECK_DEADLOCK FALSE
