SPECIFICATION Spec
CONSTANTS
    People = {p1, p2}
    Browsers = {b1, b2}
    Machines = {m1, m2}
    Nobody = Nobody
    MaxLogins = 2
    MaxFaults = 2
    MaxPending = 1
    MaxWrong = 1
INVARIANT HandedOutWorks LoginStaysHome ApprovalIsFinal
SYMMETRY Interchangeable
CHECK_DEADLOCK FALSE
