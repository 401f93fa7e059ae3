CONSTANTS
    t1 = t1
    t2 = t2
    s1 = s1
    s2 = s2
    b1 = b1
    c1 = c1
    c2 = c2
    Thread <- MCThread
    Sensor <- MCSensor
    Board <- MCBoard
    Command <- MCCommand
    MaxPending = 1
    Digits <- MCDigits
    MaxText = 5
SPECIFICATION Spec
CHECK_DEADLOCK FALSE
SYMMETRY MCSymmetry
INVARIANTS
    TypeOK
    BlockedByOthers
    CutIsPrefix
PROPERTIES
    QuietReadIsOwn
    BacklogIsCleared
