CONSTANTS
    t1 = t1
    t2 = t2
    b2 = b2
    b3 = b3
    a1 = a1
    a2 = a2
    d1 = d1
    m1 = m1
    Thread <- MCThread
    Board02 = b2
    Board03 = b3
    OldAdc <- MCOldAdc
    Analog <- MCAnalog
    Input <- MCInput
    Output <- MCNone
    Mode <- MCMode
    Value <- MCValue
    Byte = 2
    MaxLate = 1
    MaxLine = 2
    MaxPulses = 2
SPECIFICATION Spec
CHECK_DEADLOCK FALSE
SYMMETRY MCSymmetry
INVARIANTS
    TypeOK
    PulsesAccounted
PROPERTIES
    QuietCallIsExact
    AdcIsOwnNumber
