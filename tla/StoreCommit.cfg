SPECIFICATION FairSpec
CONSTANTS
    p1 = p1
    p2 = p2
    t1 = t1
    t2 = t2
    Proc = {p1, p2}
    Tx = {t1, t2}
    NoProc = NoProc
    NoTx = NoTx
    Key = {1, 2, 3}
    Host <- EachOwnsOne
    ReadBack <- Faithful
    Pattern <- NoReads
    PageSize = 1
INVARIANTS
    TypeOK
    WritersExcluded
    BuffersSettled
    WorkIsPartialPatch
PROPERTIES
    Implements
    CallReturns
