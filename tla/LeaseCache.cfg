SPECIFICATION Spec
CONSTANTS
    Owners = {claim, kill}
    Touchers = {touch}
    Pollers = {beat}
    Watchers = {watch}
    Nobody = Nobody
    MaxSaves = 3
    MaxTouches = 1
    MaxFallbacks = 1
    MaxCrashes = 2
INVARIANTS AnswersCurrent CacheHonest
PROPERTIES SavesNeverRevert
CHECK_DEADLOCK FALSE
