CONSTANTS
    o1 = o1
    o2 = o2
    x1 = x1
    x2 = x2
    r1 = r1
    r2 = r2
    r3 = r3
    k1 = k1
    k2 = k2
    y1 = y1
    y2 = y2
    c1 = c1
    c2 = c2
    c3 = c3
    Objects <- MCObjects
    EngineApps <- MCEngineApps
    Rows <- MCRows
    Width = 3
    Null = Null
    LoadObjects <- MCLoadObjects
    EngineLoads <- MCEngineLoads
    Columns <- MCColumns
    Counts <- MCCounts
    Arrays <- MCArrays
    Beyond = Beyond
    Absent = Absent
SYMMETRY MCSymmetry
CONSTRAINT PlainTables
SPECIFICATION BulkSpec
INVARIANTS BulkTypeOK RowsAreWhole CountsAgree EveryRowOnce ToldIsTrue
PROPERTY HappensOrNot
