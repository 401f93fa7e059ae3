CONSTANTS
    t1 = t1
    t2 = t2
    Thread <- MCThread
SPECIFICATION Spec
SYMMETRY ThreadSymmetry
INVARIANTS
    TypeOK
    NothingInvented
PROPERTY
    AloneReconciles
