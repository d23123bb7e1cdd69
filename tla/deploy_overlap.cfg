SPECIFICATION QueuedSpec
CONSTANTS
    Plan = {p1}
    Version = {v1}
    ProviderDeploy = {d1, d2}
    Operation = {}
    None = None
    Slot = {s1, s2}
    Scan = Scan
    Request = {}
    MaxAttempts = 2
    MaxStalls = 1
    MaxFaults = 2
    ZombieStalls = TRUE
SYMMETRY Symmetry
CHECK_DEADLOCK FALSE
INVARIANTS
    BeginAtMostOnce
PROPERTIES
    ManualIsFinal
    RecordedIdStays
