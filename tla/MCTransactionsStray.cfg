CONSTANTS
    c1 = c1
    c2 = c2
    e1 = e1
    e2 = e2
    g1 = g1
    g2 = g2
    t1 = t1
    t2 = t2
    Conns <- MCConns
    EngineConns <- MCEngineConns
    Guards <- MCGuards
    Txns <- MCTxns
    Null = Null
    NoTxn = NoTxn
SPECIFICATION Spec
INVARIANT NeverAnothers
