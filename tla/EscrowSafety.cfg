SPECIFICATION FairSpec
CONSTANTS
    u1 = u1
    t1 = t1
    run = run
    tenant = tenant
    k1 = k1
    k2 = k2
    p1 = p1
    p2 = p2
    loop = loop
    None = None
    NumOps = 2
    Users <- MCUsers
    Traces = {t1}
    Scopes = {tenant}
    ScopeChoices = {{tenant}}
    AttemptKeys = {k1}
    ProviderIds = {p1}
    LoopScopes = {loop}
    InitialBalance <- MCInitialBalance
    EstimatedCosts = {1, 2}
    ActualCosts = {1, 3}
    TraceCaps = {2}
    ScopeCaps = {4}
    ApprovalThreshold = 1
    MaxLoopRepeats = 1
    DriftAbsolute = 1
    DriftRatio <- MCDriftRatio
    BatchSize = 2
    MaxUpdates = 1
INVARIANTS
    TypeOK
    AuditTrailMatchesRow
    FundsConserved
    TraceTotalsExact
    ScopeConsumptionExact
    BackstopsNeverBlock
    RefundOnlyIfNeverDispatched
    FinanceAuditClean
    WalletLockMatchesDrift
PROPERTIES
    ImplementsHolds
    LapsedRowsAreSwept
CHECK_DEADLOCK FALSE
