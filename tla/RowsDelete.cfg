SPECIFICATION Spec
CONSTANTS
    Mark <- Marks
    TripleText <- TripleTextOf
    TripleRecord <- TripleRecordOf
    FromTriple <- TripleFrom
    Quads <- Few
    Terms <- FewTerms
    MaxCalls = 2
INVARIANT
    DeleteIsBuffered
