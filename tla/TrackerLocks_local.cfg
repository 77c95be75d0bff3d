SPECIFICATION Spec
CONSTANTS
    Sessions = {a}
    Controls = {claim}
    Kills = {}
    LeasedStudies = {}
    TimedStudies = {timed}
    StreamStudies = {stream}
    Producers = {loop}
INVARIANTS NoOppositeWait
CHECK_DEADLOCK FALSE
