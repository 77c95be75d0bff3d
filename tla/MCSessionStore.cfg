SPECIFICATION Spec
CONSTRAINT FewCalls
SYMMETRY Alike
VIEW Remembered
CONSTANTS
    MaxCalls = 4
    Claims = {c1, c2}
    Kills = {k}
    Releases = {r}
    Emergencies = {e}
    Starts = {t}
    Stops = {s}
    Settings = {u}
    FocusSets = {g}
    FocusClears = {f}
    Selectors = {a}
    Crashes = {w}
    LeasedStudies = {l1}
    LocalStudies = {m1, m2}
    Tracking = TRUE
    Live = TRUE
INVARIANTS NoEarlierOwner ClearHolds
PROPERTIES OwnersFromClaims KeepsAuthority FramesForward PublicationsKeepLiveOff
CHECK_DEADLOCK FALSE
