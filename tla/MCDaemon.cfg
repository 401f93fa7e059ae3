CONSTANTS
    c1 = c1
    c2 = c2
    Conn <- MCConn
    PageValues <- MCAllValues
    SentSigs <- MCAllSigs
SPECIFICATION Spec
SYMMETRY ConnSymmetry
CHECK_DEADLOCK FALSE
INVARIANTS
    TypeOK
    MutexSound
    UsersHaveInterfaces
    QuitWasAsked
    LeakStopsService
PROPERTY
    Supervised
