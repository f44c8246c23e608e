SPECIFICATION FairSpec
CONSTANTS
    x = x
    y = y
    Task = {x, y}
    Quad = {1, 2}
    Parts <- OneChunkEach
    Scope = {1, 2}
    Patch <- SingleRows
    Reindexer = {x}
    Mode = {"incremental"}
    Vectors = TRUE
    LookupSize = 1
    InsertSize = 1
    Threshold = 4
    PageSize = 1
    Fault = {"embed"}
INVARIANTS
    NoOrphans
    IndexIsExact
PROPERTIES
    CallsAreAtomic
    CallsEnd
CONSTRAINT
    NoStrayVectors
