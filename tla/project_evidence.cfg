SPECIFICATION MCSpec
CONSTANTS
    Import = {i1}
    Audit = {u1}
    Serp = {s1}
    Scout = {c1, c2}
    Sync = {y1, y2}
    i1 = i1
    u1 = u1
    s1 = s1
    c1 = c1
    c2 = c2
    y1 = y1
    y2 = y2
    Nonce = {n1, n2}
    n1 = n1
    n2 = n2
    Callback = {b1, b2}
    b1 = b1
    b2 = b2
    Key = {k1, k2}
    k1 = k1
    k2 = k2
    Answer = {1, 2}
    Attempt = {a1, a2}
    a1 = a1
    a2 = a2
    None = None
    MaxAttempts = 2
    MaxStalls = 1
    MaxMishaps = 2
SYMMETRY Symmetry
INVARIANTS
    BriefsAreNew
PROPERTIES
    ResultsStay
    GrantsHold
CHECK_DEADLOCK FALSE
