CONSTANTS
    Writers = {w1, w2}
    Verifiers = {v1}
    Payloads = {p}
    Corrupt = Corrupt
    MaxEvents = 3
    MaxTx = 2
    MaxAlterations = 1
    ReadReplica = TRUE
    ArchiveEnabled = TRUE
    None = None
SPECIFICATION ChainSpec
SYMMETRY MCChainSymmetry
INVARIANTS
    CommitsInIdOrder
    ChainIsLinear
    ArchivedWereVerified
    NoFalseAlarm
    HeadsAreHistory
PROPERTIES
    AlteredRowsAreRejected
CHECK_DEADLOCK FALSE
