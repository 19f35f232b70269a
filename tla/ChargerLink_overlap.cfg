SPECIFICATION Spec
CONSTANTS
    c1 = c1
    c2 = c2
    c3 = c3
    A = A
    B = B
    Conn = {c1, c2}
    Charger = {A}
    ChargerOf <- OneCharger
    None = None
    MaxFaults = 0
INVARIANT ConnectedIsRegistered
CHECK_DEADLOCK FALSE
