SPECIFICATION Spec
CONSTANTS
    Daemons = {1, 2}
    Unmarked = Unmarked
    MaxTries = 2
    MaxDepth = 1
    MaxConns = 2
    MaxFaults = 2
INVARIANT GroupIsThereForPhones
PROPERTY OnlyItsOwn PaneSurvives
CHECK_DEADLOCK FALSE
