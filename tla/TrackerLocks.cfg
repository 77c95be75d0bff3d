SPECIFICATION FairSpec
CONSTANTS
    Sessions = {a}
    Controls = {claim}
    Kills = {kill}
    LeasedStudies = {study}
    TimedStudies = {}
    StreamStudies = {}
    Producers = {loop}
INVARIANTS NoCircularWait
PROPERTIES EveryCallReturns
CHECK_DEADLOCK FALSE
