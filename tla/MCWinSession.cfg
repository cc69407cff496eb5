SPECIFICATION Spec
CONSTANTS
    Hosts = {1, 2}
    Nobody = Nobody
    MaxOut = 2
    MaxFaults = 1
    c1 = c1
    c2 = c2
    Conns = {c1, c2}
    Sizes = {1, 2}
    Screens <- Turned
INVARIANT ViewerShowsAll CopyFollowsHost FileFindsHost SizeIsOfThePresent
PROPERTY OverIsTold
CHECK_DEADLOCK FALSE
