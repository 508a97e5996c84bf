CONSTANTS
    NumTracks = 3
    Missing = {}
    None = None
    MaxClicks = 3
SPECIFICATION Spec
CHECK_DEADLOCK FALSE
PROPERTY DisplayIsConsistent
