SPECIFICATION NextReleaseSpec
CONSTANTS
    Plan = {p1, p2}
    Version = {v1, v2}
    First = p1
    FirstVersion = v1
    FirstDeploy = d1
    ProviderDeploy = {d1, d2}
    Operation = {}
    None = None
    Slot = {s1}
    Scan = Scan
    Request = {r1, r2}
    MaxAttempts = 1
    MaxStalls = 0
    MaxFaults = 0
    ZombieStalls = FALSE
CHECK_DEADLOCK FALSE
INVARIANTS
    CandidateHasPlan
    PointIsRestorable
PROPERTIES
    FailedPlanStaysFailed
