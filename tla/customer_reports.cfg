SPECIFICATION Spec
CONSTANTS
    MaxRuns = 2
    MaxArtifacts = 2
    Proof = {p1}
    Attempt = {t1, t2}
    Person = {c1}
    Budget <- CheckedTogether
    MaxRecovery = 1
    None = None
    p1 = p1
    t1 = t1
    t2 = t2
    c1 = c1
INVARIANTS
    PointersAreTruth
    DeliveredAsReviewed
    InvalidEvidenceAlerted
    RenderingsBelong
    ProseIsAttributed
PROPERTIES
    SayingIsFrozen
    WorkEnds
CHECK_DEADLOCK FALSE
