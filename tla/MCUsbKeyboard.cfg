SPECIFICATION Spec
CONSTANTS
    Letters = {a}
    Shifts = {ls}
    Fns = {f}
    Watched <- OneWatch
    MaxKeys = 2
    MaxPresses = 2
    MaxReports = 2
    a = a
    ls = ls
    f = f
INVARIANTS KeyboardInv KeysInOrder CaseIsRight NoneIsLost
CHECK_DEADLOCK FALSE
