CONSTANTS
    c1 = c1
    c2 = c2
    Conn <- MCNone
    PageValues <- MCAllValues
    SentSigs <- MCAllSigs
SPECIFICATION FairSpec
CHECK_DEADLOCK FALSE
PROPERTY
    SigintInWaitQuits
