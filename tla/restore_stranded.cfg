SPECIFICATION RecoverySpec
CONSTANTS
    Plan = {p1, p2}
    Version = {v1, v2}
    ProviderDeploy = {d1, d2, d3}
    Operation = {o1, o2}
    None = None
    Older = p1
    Newer = p2
    OlderVersion = v1
    NewerVersion = v2
    OlderDeploy = d1
    NewerDeploy = d2
    PageOf <- OnePage
    RollbackSlot = {s1}
    RollbackScan = RollbackScan
    RollbackAttempts = 2
    RollbackStalls = 1
    MaxFaults = 0
    Run = {}
    VerifySlot = {}
    VerificationAttempts = 1
    VerificationStalls = 0
CHECK_DEADLOCK FALSE
INVARIANT NoStrandedRestore
