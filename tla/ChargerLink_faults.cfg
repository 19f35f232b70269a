SPECIFICATION Spec
CONSTANTS
    c1 = c1
    c2 = c2
    c3 = c3
    A = A
    B = B
    Conn = {c1, c2, c3}
    Charger = {A, B}
    ChargerOf <- TwoChargers
    None = None
    MaxFaults = 1
INVARIANTS
    TypeOK
    RegisteredIsServed
    StatusSettled
PROPERTY ReachSpec
CHECK_DEADLOCK FALSE
