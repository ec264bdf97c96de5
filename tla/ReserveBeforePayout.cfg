SPECIFICATION PlatformSpec
CONSTANTS
    None = None
    carrier = carrier
    k1 = k1
    NumOps = 2
    NumCalls = 2
    Keys = {k1}
    Versions = {1, 2}
    RailThreshold = 1
    Attempts = 2
    Scenarios <- MCClaims
    Governors <- MCInsurance
    Platforms <- MCPlatforms
    Accounts = {carrier}
    Tiers <- MCTiers
    Facets <- MCFacets
    Policies = {}
    Policy <- MCPolicy
    DefaultPolicy <- MCDefaultPolicy
    MeshRules <- MCMeshRules
    InitialBalance <- MCInitialBalance
    Reservations = {0, 50, 100}
    Commitments = {0, 50, 100}
    DriftAbsolute = 50
    DriftRatio <- MCDriftRatio
    BatchSize = 2
INVARIANTS
    ReserveBeforePayout
CHECK_DEADLOCK FALSE
