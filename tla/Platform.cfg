SPECIFICATION PlatformSpec
CONSTANTS
    Serial = {s1, s2}
    Email = {e1, e2}
    Setup = {t1}
    Req = {r1, r2}
    NoOne = NoOne
    MaxCrashes = 2
    Reader = {g1, g2, g3}
    Secret = {k1}
    Plain = {1, 2}
    Mask = Mask
    Default = Default
    MaxUpdates = 2
    ReadFaults = TRUE
    Quote = {q1, q2}
    Manager = {m1}
    Price = {1, 2}
    SpotUrl = TRUE
    MaxChanges = 3
    Nested = {"pricing", "features"}
    Flat = {"pki", "org"}
    AdminMail = {a1, a2}
    NoMail = NoMail
    Visitor = {v1, v2}
    MaxVisits = 4
    Job = {j1, j2}
    MaxSeconds = 2
    MaxRecords = 3
    MaxJobs = 3
    Attempt = {n1, n2}
    MaxCodes = 2
    MaxEntries = 7
    Handler = {h1, h2}
    Custom <- CustomProfiles
    File <- FileProfiles
    NoExamples = FALSE
    Sold <- SoldHere
    MaxCustom = 2
SYMMETRY Symmetry
INVARIANTS
    PlatformTypeOK
    PkiSound
    SettingCacheFresh
    SpotFresh
    SetupSound
    BackupsSound
    CodesSpent
    ProfilesOrdered
CHECK_DEADLOCK FALSE
