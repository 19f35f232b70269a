SPECIFICATION FairSpec
CONSTANTS
    c1 = c1
    c2 = c2
    A = A
    B = B
    Conn = {c1, c2}
    Charger = {A, B}
    ChargerOf <- TwoChargers
    Sid = {s1, s2}
    Pub = {p1}
    None = None
    Register = {0, 1, 3}
    MaxMsgs = 3
    Faults = FALSE
INVARIANT ShownIsTrue
PROPERTY CompletedIsBilled
CHECK_DEADLOCK FALSE
