SPECIFICATION Spec
CONSTANTS
    w1 = w1
    w2 = w2
    c1 = c1
    c2 = c2
    c3 = c3
    c4 = c4
    Workers = {w1, w2}
    Master = Master
    Checks = {c1, c2, c3, c4}
    Valid = {c1, c2, c3}
    BatchSize = 2
INVARIANTS
    TypeOK
    ConstructorAssertHolds
    NothingOutlivesControl
    VerdictRight
PROPERTY WaitReturns
