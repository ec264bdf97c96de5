SPECIFICATION DaemonFairSpec
CONSTANTS
    r1 = r1
    r2 = r2
    b1 = b1
    b2 = b2
    b3 = b3
    None = None
    Governors = {"ledger", "finance", "insurance", "cybersecurity"}
    Replicas = {r1, r2}
    Backends = {b1, b2, b3}
    Deployments <- MCDeployments
    MaxFaults = 3
    MaxHolds = 4
INVARIANTS
    OneSweeper
    AtMostOneStaleSweep
PROPERTIES
    SweepsContinue
