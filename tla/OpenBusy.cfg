SPECIFICATION Spec
CONSTANTS
    sdk1 = sdk1
    sdk2 = sdk2
    store = store
    none = none
    Opener = {sdk1, sdk2}
    Layer <- Layers
    Chunk = {1}
    None = none
INVARIANT
    OpenWaits
