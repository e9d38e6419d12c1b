CONSTANTS
    o1 = o1
    o2 = o2
    o3 = o3
    x1 = x1
    x2 = x2
    x3 = x3
    Objects <- MCObjects
    EngineObjects <- MCEngineObjects
    Null = Null
SPECIFICATION Spec
INVARIANTS TypeOK NoLeak SoundOwners
PROPERTY PromiseSpec
