SPECIFICATION Spec
CONSTANTS
    Run = {r1, r2}
    Material = {m1, m2, m3}
    Ready = {m1, m2}
    None = None
    Steps = 2
    StepTries = 2
    MaxAttempts = 2
    MaxRecovery = 1
    Delivery = {d1, d2}
    Budget <- Together
    r1 = r1
    r2 = r2
    m1 = m1
    m2 = m2
    m3 = m3
    d1 = d1
    d2 = d2
INVARIANTS
    StateOwnsRun
    StepsHaveOneOwner
    ChangesAreRemembered
PROPERTIES
    OneHistory
    Researched
CHECK_DEADLOCK FALSE
