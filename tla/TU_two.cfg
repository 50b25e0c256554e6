SPECIFICATION FairSpec
CONSTANTS
    t1 = t1
    t2 = t2
    NoTU = NoTU
    NoThread = NoThread
    TU <- MCTwo
    Thread <- MCTwo
    Ext <- MCExt
INVARIANTS
    IInv
    ClientsUpToDate
    ChatReachesOnlyThePeer
PROPERTIES
    ImplementsCalls
    OperationsEnd
