SPECIFICATION PBXSpec
CONSTANTS
    t1 = t1
    t2 = t2
    t3 = t3
    main = main
    Main = main
    NoTU = NoTU
    NoThread = NoThread
    Ext <- MCExt
    MaxExt = 3
    Commands <- NoChat
    Sighups = FALSE
    TU <- MCThree
    Thread <- MCThreeThreads
SYMMETRY Symmetry3
INVARIANTS
    LockOrder
    PointersLive
    DialableWhileServed
    NoLeak
