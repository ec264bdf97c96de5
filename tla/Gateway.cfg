SPECIFICATION GatewayFairSpec
CONSTANTS
    u1 = u1
    t1 = t1
    tenant = tenant
    c1 = c1
    c2 = c2
    c3 = c3
    None = None
    NumOps = 2
    Users = {u1}
    Traces = {t1}
    Scopes = {tenant}
    ScopeChoices = {{tenant}}
    AttemptKeys = {}
    Calls = {c1, c2, c3}
    ProviderIds = {c1, c2, c3}
    LoopScopes = {}
    InitialBalance <- MCInitialBalance
    EstimatedCosts = {1, 3}
    ActualCosts = {1, 2, 3}
    ProviderCosts = {1, 3}
    TraceCaps = {3}
    ScopeCaps = {4}
    DefaultTraceCap = 3
    DefaultScopeCaps <- MCDefaultScopeCaps
    DefaultScopes = {tenant}
    ApprovalThreshold = 2
    MaxLoopRepeats = 1
    DriftAbsolute = 1
    DriftRatio <- MCDriftRatio
    BatchSize = 2
    MaxUpdates = 0
INVARIANTS
    AnswersArePaid
    ChargedOnlyIfServed
PROPERTIES
    HoldsAreResolved
CHECK_DEADLOCK FALSE
