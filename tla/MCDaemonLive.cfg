CONSTANTS
    c1 = c1
    c2 = c2
    Conn <- MCConn
    PageValues <- MCRestart
    SentSigs <- MCInt
SPECIFICATION FairSpec
CHECK_DEADLOCK FALSE
PROPERTIES
    WakeupActs
    RequestEnds
