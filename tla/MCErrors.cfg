CONSTANTS
    x1 = x1
    x2 = x2
    EngineErrors <- MCEngineErrors
    Classes <- MCClasses
    Statuses <- MCStatuses
    NoClass = NoClass
    Places <- MCPlaces
    Missing = Missing
    Null = Null
    AllocFails = TRUE
SPECIFICATION Spec
INVARIANTS TypeOK OnlyUnwindingLeaks NothingLost CaughtByClass CaretUnderColumn
