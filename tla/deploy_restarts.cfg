SPECIFICATION FairSpec
CONSTANTS
    Plan = {p1}
    Version = {v1}
    ProviderDeploy = {d1, d2}
    Operation = {}
    None = None
    Slot = {s1, s2}
    Scan = Scan
    Request = {r1}
    MaxAttempts = 2
    MaxStalls = 1
    MaxFaults = 1
    ZombieStalls = FALSE
CHECK_DEADLOCK FALSE
INVARIANTS
    BegunPlanIsClosed
    UploadResumable
PROPERTIES
    DeploysOnce
    DeployEnds
    PendingEnds
