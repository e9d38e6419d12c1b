CONSTANTS
    Limit <- MCLimit
    Types <- WithFullWidth
    Kinds <- MCKinds
SPECIFICATION ReadSpec
INVARIANT FitsIsAnswered
