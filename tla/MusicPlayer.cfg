CONSTANTS
    NumTracks = 3
    Missing = {2}
    None = None
    MaxClicks = 4
SPECIFICATION FairSpec
CHECK_DEADLOCK FALSE
INVARIANTS TypeOK SongIsCurrent ChangeIsPrompt WaitsOnlyPaused
PROPERTIES ChoiceIsPlayed ChangeIsTaken ProgramEnds
