SPECIFICATION PBXFairSpec
CONSTANTS
    t1 = t1
    t2 = t2
    t3 = t3
    main = main
    Main = main
    NoTU = NoTU
    NoThread = NoThread
    Ext <- MCExt
    MaxExt = 3
    Commands <- NoHangup
    Sighups = TRUE
    TU <- MCTwo
    Thread <- MCTwoThreads
INVARIANTS
    PBXInv
PROPERTIES
    ServerSettles
