SPECIFICATION Spec
CONSTANTS
    c1 = c1
    c2 = c2
    A = A
    B = B
    Conn = {c1, c2}
    Charger = {A}
    ChargerOf <- SameCharger
    Sid = {s1, s2}
    Pub = {}
    None = None
    Register = {1, 3}
    MaxMsgs = 4
    Faults = TRUE
SYMMETRY Symmetry
INVARIANTS
    TypeOK
    BilledOnce
    StreamOrder
    EnergyAudited
PROPERTY LedgerSpec
CHECK_DEADLOCK FALSE
