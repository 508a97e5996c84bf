CONSTANTS
    Openers = {o1}
    MaxCount = 2
    MaxTurns = 4
SPECIFICATION TurnsSpec
CHECK_DEADLOCK FALSE
PROPERTY WholeTurnsOnly
