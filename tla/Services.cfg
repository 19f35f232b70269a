SPECIFICATION ServicesSpec
CONSTANTS
    Station = {c1, c2}
    Virtual = {c2}
    Visit16 = {v1}
    Operator = {o1, o2}
    MaxWords = 3
    MaxDeletes = 2
    Account = {a1, a2}
    Mail = {m1, m2}
    Phone = {p1}
    Ride = {r1, r2}
    Tier = {"public", "home"}
    Form = {f1, f2}
    NoAccount = NoAccount
    MaxForms = 3
    Charge = {x1, x2}
    Charge201 = {x2}
    NoCharge = NoCharge
    MaxScans = 1
    MaxReadings = 1
    Topic = {q1, q2}
    Site = {q1}
    Unknown = Unknown
    Client = {n1}
    KeptEvents = 1
    ReadCount = 2
    MaxFeed = 3
    MaxBreaks = 1
SYMMETRY Symmetry
INVARIANTS
    ServicesTypeOK
    FleetSound
    RidesOwned
    CloserSound
    FeedSound
CHECK_DEADLOCK FALSE
