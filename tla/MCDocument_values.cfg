\* Arrays and inline tables, one nested in another, paths of up to two keys.
CONSTANTS
    Key = {k1, k2}
    MaxNodes = 6
    MaxValueDepth = 2
    MaxPath = 2
    Path <- MCRepeatedPath
SPECIFICATION Spec
SYMMETRY KeySymmetry
CONSTRAINT FirstDocument
INVARIANTS
    TreeInv
    NothingIgnored
    DocumentIsTree
    NothingLost
PROPERTIES
    CompleteValuesStay
\* The parser stops when the values are used up.
CHECK_DEADLOCK FALSE
