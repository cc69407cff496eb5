SPECIFICATION Spec
CONSTANTS
    Panes = {a, b}
    Pids = {n1, n2}
    Cmds = {1, 2, 3}
    Nobody = Nobody
    Stranger = Stranger
    MaxFaults = 3
INVARIANT OffFindsAndStops NobodyElseIsHit
PROPERTY OrderIsItsOwn
SYMMETRY Interchangeable
CHECK_DEADLOCK FALSE
