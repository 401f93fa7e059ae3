SPECIFICATION FairSpec
INVARIANTS
    TypeOK
    AnsweredAreRegistered
    IdsSound
    ServesWithDevices
    AnsweredAreServed
PROPERTIES
    ElvIsLost
    KeepsServing
