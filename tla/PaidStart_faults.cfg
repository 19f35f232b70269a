SPECIFICATION FairSpec
CONSTANTS
    A = A
    Charger = {A}
    CpOf <- OneCharger
    Pub = {p1}
    Hook = {h1, h2}
    Task = {t1, t2}
    None = None
    MaxRetries = 2
    MaxFaults = 1
INVARIANTS
    TypeOK
    StartsJustified
    PaidIsAccounted
PROPERTY PaidIsResolved
CHECK_DEADLOCK FALSE
