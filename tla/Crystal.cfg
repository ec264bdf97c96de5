SPECIFICATION FairSpec
CONSTANTS
    desk = desk
    book = book
    wire = wire
    frozen = frozen
    clear = clear
    risky = risky
    None = None
    NumOps = 2
    Governors <- MCGovernors
    Platforms = {desk, wire}
    Accounts = {book}
    Tiers <- MCTiers
    Facets = {frozen, clear}
    Policies = {risky}
    Policy <- MCPolicy
    DefaultPolicy <- MCDefaultPolicy
    MeshRules <- MCMeshRules
    InitialBalance <- MCInitialBalance
    Reservations = {0, 2}
    Commitments = {1, 4}
    DriftAbsolute = 1
    DriftRatio <- MCDriftRatio
    BatchSize = 2
INVARIANTS
    TypeOK
    ExposureConserved
    UnchargedDriftIsTolerated
    AuditReportsOnlyMisclassified
PROPERTIES
    ImplementsHolds
    HorizonsAreResolved
CHECK_DEADLOCK FALSE
