SPECIFICATION FairSpec
CONSTANTS
    MaxEvents = 3
    QueueMax = 2
    Kinds <- OneOfEach
    MaxFaults = 1
    MaxCrashes = 1
INVARIANTS TypeOK NeverBehindBoth NeverTwice LiveStreamIsComplete
PROPERTIES EveryEventArrives
CHECK_DEADLOCK FALSE
