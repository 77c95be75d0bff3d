SPECIFICATION Spec
CONSTANTS
    Names = {n1}
    NoName = NoName
    MaxLeases = 1
    MaxFrames = 1
    MaxKills = 0
    MaxRestarts = 0
    MaxObserved = 0
    StaleAfter = 0
    RetryLimit = 1
    ReclaimLimit = 1
PROPERTIES RetryIsStudied
