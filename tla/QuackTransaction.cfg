SPECIFICATION Spec
CONSTANTS
    Txns = {t1, t2, t3}
    NoTxn = NoTxn
    Tables = {a}
    MaxStatements = 2
SYMMETRY Symmetry
CHECK_DEADLOCK FALSE
INVARIANTS
    LeftOpenOnlyIfUnsent
    RollbackUndoesUnlessMixed
    CacheAgreesUnlessUndone
PROPERTY
    CommitIsAtomicUnlessMixed
