CONSTANTS
    c1 = c1
    c2 = c2
    Conn <- MCOne
    PageValues <- MCAllValues
    SentSigs <- MCAllSigs
SPECIFICATION FairSpec
CHECK_DEADLOCK FALSE
PROPERTY
    QuitPageQuits
