SPECIFICATION FairSpec
CONSTANTS
    Quads = 2
    Ops = {"data", "once", "prepended", "readable", "end", "remove", "read", "destroy"}
    MaxOps = 5
INVARIANT
    TypeOK
PROPERTIES
    EndLosesNothing
    NoDataAfterEnd
    DataDrains
    EndIsTold
CHECK_DEADLOCK FALSE
