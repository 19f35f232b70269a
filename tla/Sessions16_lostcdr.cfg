SPECIFICATION Spec
CONSTANTS
    c1 = c1
    c2 = c2
    A = A
    B = B
    Conn = {c1, c2}
    Charger = {A, B}
    ChargerOf <- TwoChargers
    Sid = {s1, s2}
    Pub = {p1}
    None = None
    Register = {1, 3}
    MaxMsgs = 3
    Faults = TRUE
INVARIANT CdrPerCompleted
CHECK_DEADLOCK FALSE
