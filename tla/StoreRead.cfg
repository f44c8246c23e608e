SPECIFICATION FairSpec
CONSTANTS
    p1 = p1
    p2 = p2
    t1 = t1
    t2 = t2
    Proc = {p1, p2}
    Tx = {t1}
    NoProc = NoProc
    NoTx = NoTx
    Key = {1, 2}
    Host <- OtherOwnsAll
    ReadBack <- DropsDirection
    Pattern <- ReaderOfAll
    PageSize = 1
INVARIANTS
    PagesLoseNothing
    CountsOnce
    AnchorIsLast
PROPERTY
    CallReturns
