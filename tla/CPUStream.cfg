SPECIFICATION StreamSpec
CONSTANTS
    Workers = {w1}
    MaxKeyframes = 4
    None = None
    MaxPictures = 1
    MaxViews = 1
    MaxFreezes = 1
    MaxTroubles = 1
    Threshold = 2
    RequeueLimit = 2
INVARIANTS SlotNewest InFlightHeld
PROPERTIES PublishesPresentView ScreenIsStudied
