\* The documents of TOML 1.0 and 1.1 over every lexeme.
CONSTANTS
    NestingLimit = 2
    Offered <- Everything
    MaxLexemes = 12
SPECIFICATION ComparedSpec
INVARIANTS
    AcceptsOnlyToml
    RejectsLittleToml
    ContextInSync
    NestingCounted
    IndInv
PROPERTIES
    Terminates
\* The parser stops at the end of the document.
CHECK_DEADLOCK FALSE
