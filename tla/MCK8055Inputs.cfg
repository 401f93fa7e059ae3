CONSTANTS
    t1 = t1
    t2 = t2
    Thread <- MCThread
    Width = 3
    MaxPulses = 3
SPECIFICATION Spec
SYMMETRY ThreadSymmetry
INVARIANTS
    TypeOK
    PulsesAccounted
PROPERTY
    AloneReadIsFresh
