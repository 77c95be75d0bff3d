SPECIFICATION FairSpec
CONSTRAINT OneStory
CONSTANTS
    Names = {n1}
    NoName = NoName
    MaxLeases = 2
    MaxFrames = 2
    MaxKills = 1
    MaxRestarts = 1
    MaxObserved = 1
    StaleAfter = 0
    RetryLimit = 1
    ReclaimLimit = 1
INVARIANTS UsableIsProved ErrorIsEarned DecisionOfOwner ProcessingOwned ReclaimBudget
PROPERTIES KilledStaysKilled RecoveryIsAtomic EveryStudySettles KeepsAuthority
