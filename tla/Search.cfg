SPECIFICATION SearchSpec
CONSTANTS
    x = x
    Task = {x}
    Quad = {1, 2}
    Parts <- OneChunkEach
    Scope = {1, 2}
    Patch <- SingleQuads
    Reindexer = {x}
    Mode = {"incremental"}
    Vectors = TRUE
    LookupSize = 2
    InsertSize = 2
    Threshold = 10
    PageSize = 2
    Fault = {"statement", "embed"}
    Stopword = {"the"}
    Words <- Texts
    Terms <- SomeTerms
    Request <- SomeRequests
    FusionK = 60
INVARIANTS
    SearchTypeOK
    FoundWasStored
    SteadyIsFound
    FusionJoinsOneChunk
    TwinsWereRefreshed
