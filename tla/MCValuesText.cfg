CONSTANTS
    Limit <- MCLimit
    Types <- MCTypes
    Kinds <- MCKinds
    Names = {a, b}
    Given <- MCGiven
    W = 16
    Scales <- MCScales
CONSTRAINT ReadOrBound
SPECIFICATION ValuesSpec
INVARIANT SpellingsAgree
