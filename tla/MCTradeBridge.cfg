SPECIFICATION Spec
CONSTRAINT CrowdsIdle
CONSTANTS
    Bridges = {b1, b2, b3}
    Listeners = {b1, b3}
    Nobody = Nobody
    MaxVerdicts = 5
    CandleOf <- MCCandleOf
    Keyed = TRUE
    MaxTrades = 2
INVARIANTS StaleNeverBlocks ContractsCapped
PROPERTIES EntriesForward
CHECK_DEADLOCK FALSE
