CONSTANTS
    Governors = {"finance", "insurance", "cybersecurity"}
    Writers = {w1}
    Verifiers = {v1, v2}
    Payloads = {p}
    Corrupt = Corrupt
    MaxEvents = 2
    MaxTx = 2
    MaxAlterations = 1
    ReadReplica = FALSE
    ArchiveEnabled = TRUE
    None = None
SPECIFICATION SiblingSpec
SYMMETRY MCSiblingSymmetry
INVARIANTS
    NoFalseAlarm
    AnchorsAreHistory
    CheckpointsAreExact
CHECK_DEADLOCK FALSE
