SPECIFICATION AccessSpec
CONSTANTS
    Uid = {u1, u2, u3}
    TestUid = {u2, u3}
    Spare = {u3}
    MaxAlone = 3
    Group = {g1}
    Postpaid = {g1}
    Req = {r1, r2}
    Line = {l1}
    NoOne = NoOne
    MaxReqs = 4
    CardFaults = TRUE
    Partner = {p1}
    Push = {q1, q2}
    Edit = {e1, e2}
    RoamUid = {v1, v2}
    Fee = {kwh, flat}
    Amount = {1, 2}
    Unset = Unset
    MaxRoam = 5
    RoamFaults = TRUE
SYMMETRY Symmetry
INVARIANTS
    AccessTypeOK
    CardsSound
    ContextTrusted
    RoamingSound
CHECK_DEADLOCK FALSE
