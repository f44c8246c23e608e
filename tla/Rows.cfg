SPECIFICATION Spec
CONSTANTS
    Mark <- Marks
    TripleText <- TripleTextOf
    TripleRecord <- TripleRecordOf
    FromTriple <- TripleFrom
    Quads <- Confusable
    Terms <- ConfusableTerms
    MaxCalls = 3
INVARIANTS
    RowPerQuad
    MatchFindsTheQuads
