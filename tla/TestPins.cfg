CONSTANTS
    Modules = {"encoder", "oled", "test"}
    MaxLoads = 2
SPECIFICATION Spec
CHECK_DEADLOCK FALSE
INVARIANT OwnPinsApart
