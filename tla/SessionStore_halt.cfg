SPECIFICATION Spec
CONSTANTS
    Claims = {}
    Kills = {}
    Releases = {}
    Emergencies = {e}
    Starts = {}
    Stops = {}
    Settings = {u}
    FocusSets = {}
    FocusClears = {}
    Selectors = {}
    Crashes = {}
    LeasedStudies = {}
    LocalStudies = {}
    Tracking = TRUE
    Live = TRUE
INVARIANTS LiveStaysOff
CHECK_DEADLOCK FALSE
