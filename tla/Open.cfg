SPECIFICATION FairSpec
CONSTANTS
    sdk1 = sdk1
    sdk2 = sdk2
    store = store
    none = none
    Opener = {sdk1, sdk2, store}
    Layer <- Layers
    Chunk = {1}
    None = none
INVARIANTS
    TypeOK
    OpenIsComplete
    FtsFollowsChunks
    StoreOpenWaits
PROPERTY
    OpeningEnds
