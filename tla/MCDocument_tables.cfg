\* Headers and dotted keys, no arrays or inline tables, paths of up to three keys.
CONSTANTS
    Key = {k1, k2}
    MaxNodes = 6
    MaxValueDepth = 0
    MaxPath = 3
    Path <- MCThinPath
SPECIFICATION Spec
SYMMETRY KeySymmetry
CONSTRAINT FirstDocument
INVARIANTS
    NoLogicError
    NoTableDefinedTwice
    DottedKeysStayInSection
PROPERTIES
    NothingOverwritten
    ImplementsTableRules
\* The parser stops when the values are used up.
CHECK_DEADLOCK FALSE
