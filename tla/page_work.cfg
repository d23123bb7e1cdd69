SPECIFICATION MCSpec
CONSTANTS
    Run = {r1, r2}
    Attempt = {a1, a2}
    Producer = {p1}
    Scan = {s1}
    Answer = {x1, x2}
    None = None
    MaxAttempts = 2
    MaxStalls = 1
    MaxRecovery = 1
    MaxFaults = 2
    LostAcks = FALSE
INVARIANTS SucceededOnce
PROPERTIES SucceededStays WorkEnds
CHECK_DEADLOCK FALSE
