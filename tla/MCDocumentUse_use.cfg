\* A program uses the documents of several parses, some keys with a dot.
CONSTANTS
    plain = plain
    dotted = dotted
    Key = {plain, dotted}
    Parts <- MCParts
    MaxNodes = 5
    MaxValueDepth = 1
    MaxPath = 2
    Path <- MCPath
    MaxChanges = 2
SPECIFICATION UseSpec
INVARIANTS
    TreesAreSeparate
    WrittenIsFound
    LoopSeesTheArray
PROPERTIES
    ReturnedDocumentsStay
    CopiesAreFaithful
\* The program stops when the values are used up.
CHECK_DEADLOCK FALSE
