SPECIFICATION FairSpec
CONSTANTS
    MaxFrames = 3
    Keys = {k1, k2}
    NoKey = NoKey
    RetryLimit = 1
    MaxFences = 1
    MaxCrashes = 1
INVARIANTS ResultOfPresentOwner OneStudyAtATime ImagesReleased
PROPERTIES ResultsMoveForward KeepsPromise EveryFrameLeaves
CHECK_DEADLOCK FALSE
