CONSTANTS
    c1 = c1
    c2 = c2
    e1 = e1
    e2 = e2
    w1 = w1
    w2 = w2
    Conns <- MCConns
    EngineConns <- MCEngineConns
    Watches <- MCWatches
    Null = Null
    Refuses = FALSE
SPECIFICATION Spec
INVARIANT CallbackIsSafe
