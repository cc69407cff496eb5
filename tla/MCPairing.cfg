SPECIFICATION Spec
CONSTANTS
    Ids = {1, 2}
    Cmds = {1, 2, 3}
    Phones = {p1, p2}
    Nobody = Nobody
    MaxDevices = 2
    MaxFaults = 1
    MaxStarts = 4
INVARIANT NumbersAgree RememberedOpens AlarmHasACause
PROPERTY WrongNumberIsFinal
CHECK_DEADLOCK FALSE
