\* A header in the last line.
CONSTANTS
    NestingLimit = 1
    Offered <- Headers
    MaxLexemes = 6
SPECIFICATION ComparedSpec
INVARIANTS
    RejectsOnlyNonToml
\* The parser stops at the end of the document.
CHECK_DEADLOCK FALSE
