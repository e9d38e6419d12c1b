CONSTANTS
    Limit <- MCLimit
    Types <- MCTypes
    Kinds <- MCKinds
    Names = {a, b}
    Given <- MCGiven
    W = 16
    Scales <- MCScales
CONSTRAINT ReadOrBound
SPECIFICATION ValuesSpec
INVARIANTS TypeOK DivisionIsExact TextIsTheNumber HalvesAgree NeverWraps FitsIsAnswered RoundTrip
