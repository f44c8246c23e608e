SPECIFICATION Spec
CONSTANTS
    Task = {a, b, c}
    Kind <- AnyCall
INVARIANTS
    TypeOK
    NothingLeftOpen
    BatchesAreAtomic
    CallsKeepTheirWord
