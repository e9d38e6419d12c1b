CONSTANTS
    o1 = o1
    o2 = o2
    x1 = x1
    x2 = x2
    Null = Null
    Objects <- MCObjects
    EngineResults <- MCEngineResults
    ColumnNames <- MCColumnNames
    MaxNames = 3
SPECIFICATION Spec
INVARIANTS TypeOK NamesAreItsOwn KeptNamesAreLive
