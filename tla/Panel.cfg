CONSTANTS
    Users = {u1, u2}
    Nobody = Nobody
    MaxPresses = 3
    MaxOpens = 3
    MaxCount = 1
    MaxTurns = 3
    KnobOpens = 2
    CountPins = 1
    MaxEdges = 3
    Writers = {w1, w2}
    Fields <- MCFields
    Spectrum = "spectrum"
    MaxWrites = 2
    Modules = {"encoder", "oled", "test"}
    MaxLoads = 2
SPECIFICATION MCSpec
SYMMETRY Symmetry
CHECK_DEADLOCK FALSE
INVARIANTS TypesOK OneOpener OpenerOwnsIrqs ClicksAccounted PatientKnobCounted CaughtUp LedsCatchUp SerialPicture NoGhosts FieldsApart LoadingBalanced
