SPECIFICATION MCSpec
CONSTANTS
    MaxAssets = 1
    MaxWidths = 2
    MaxUnresolved = 1
    MaxRetained = 1
    MaxCleanups = 2
    MaxReenqueues = 1
    MaxMishaps = 1
    MaxVersions = 3
    MaxReviews = 3
    NoCopy = NoCopy
    Processor = {p1, p2}
    Cleaner = {c1, c2}
    Run = {r1, r2}
    Attempt = {a1, a2}
    Producer = {p1}
    Scan = {s1}
    Answer = {x1}
    None = None
    MaxAttempts = 2
    MaxStalls = 1
    MaxRecovery = 1
    MaxFaults = 1
    LostAcks = FALSE
INVARIANTS
    UsedIsServed
    CleanedIsErased
    SuggestionFollowsRun
PROPERTIES
    ImagesSettle
    DecidedCopyStays
CHECK_DEADLOCK FALSE
