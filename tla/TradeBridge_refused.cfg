SPECIFICATION Spec
CONSTRAINT LaunchesApart
CONSTANTS
    Bridges = {b1, b2, b3}
    Listeners = {b1, b3}
    Nobody = Nobody
    MaxVerdicts = 1
    CandleOf <- MCCandleOf
    Keyed = TRUE
    MaxTrades = 2
INVARIANTS OneBridge
CHECK_DEADLOCK FALSE
