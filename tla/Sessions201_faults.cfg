SPECIFICATION Spec
CONSTANTS
    A = A
    Conn = {c1, c2}
    Charger = {A}
    ChargerOf <- SameCharger
    Sid = {s1, s2}
    Txn = {t1, t2}
    None = None
    Reading = {0, 1, 2}
    MaxMsgs = 4
    Faults = TRUE
SYMMETRY Symmetry
INVARIANTS
    TypeOK
    SessionsSound
PROPERTIES
    LateEnergyIsForeign
    LedgerSpec
CHECK_DEADLOCK FALSE
