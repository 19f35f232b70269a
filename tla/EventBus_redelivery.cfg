SPECIFICATION FairSpec
CONSTANTS
    MaxLen = 3
    BatchSize = 2
    Faults = {"crash"}
    MaxEvents = 2
    MaxFaults = 1
PROPERTY RedeliveredOnRestart
CHECK_DEADLOCK FALSE
