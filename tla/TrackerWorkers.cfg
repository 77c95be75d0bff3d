SPECIFICATION TrackerSpec
CONSTANTS
    Callers = {w1, w2, manual}
    Workers = {w1, w2}
    Producers = {s1, s2}
    Users = {u}
    Watchdog = dog
    MaxStale = 1
    MaxEvents = 1
INVARIANTS TrackerTypeOK GateHasStudy OverlapBounded OrphansBounded
PROPERTIES StoppedEnds Served
CHECK_DEADLOCK FALSE
