CONSTANTS
    o1 = o1
    o2 = o2
    x1 = x1
    x2 = x2
    w1 = w1
    w2 = w2
    c1 = c1
    c2 = c2
    Objects <- MCObjects
    EngineFrames <- MCEngineFrames
    Owners <- MCOwners
    Conns <- MCConns
    Null = Null
SPECIFICATION FairSpec
INVARIANTS TypeOK ReadsLiveMemory FunctionsAreOwed
PROPERTY ComesBack
