SPECIFICATION RecoverySpec
CONSTANTS
    Plan = {p1, p2}
    Version = {v1, v2}
    ProviderDeploy = {d1, d2}
    Operation = {o1, o2}
    None = None
    Older = p1
    Newer = p2
    OlderVersion = v1
    NewerVersion = v2
    OlderDeploy = d1
    NewerDeploy = d2
    PageOf <- OnePage
    RollbackSlot = {s1}
    RollbackScan = RollbackScan
    RollbackAttempts = 1
    RollbackStalls = 0
    MaxFaults = 1
    Run = {r1, r2}
    VerifySlot = {w1}
    VerificationAttempts = 2
    VerificationStalls = 0
SYMMETRY Symmetry
CHECK_DEADLOCK FALSE
INVARIANTS
    RolledBackTogether
    RestoreIsIntended
    ReleasedOnce
PROPERTIES
    RollbackOwnsRelease
