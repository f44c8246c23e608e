SPECIFICATION Spec
CONSTANTS
    x = x
    y = y
    Task = {x}
    Quad = {1, 2, 3}
    Parts <- SomeParts
    Scope = {1, 2}
    Patch <- EveryPatch
    Reindexer = {x}
    Mode = {"incremental", "deferred", "disabled"}
    Vectors = TRUE
    LookupSize = 1
    InsertSize = 1
    Threshold = 4
    PageSize = 1
    Fault = {"statement", "embed", "crash"}
INVARIANTS
    TypeOK
    NoOrphans
    IndexIsExact
PROPERTIES
    FailureUndoesInsertions
    CallsAreAtomic
