SPECIFICATION FairSpec
CONSTANTS
    MaxLen = 3
    BatchSize = 2
    Faults = {"crash", "raise", "redis", "lago"}
    MaxEvents = 4
    MaxFaults = 2
INVARIANTS TypeOK BilledInOrder EntriesAccounted
PROPERTY SettledInTheEnd
CHECK_DEADLOCK FALSE
