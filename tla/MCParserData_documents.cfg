\* Documents of up to three statements, in several layouts and encodings.
CONSTANTS
    Documents <- AllWritten
    Writable = {}
    Specifications = {"1.0", "1.1"}
    cValueNestingLimit = 2
    cBareKeyCharacterLimit = 20
    cStringCharacterLimit = 20
    cIntOrFloatCharacterLimit = 20
    Bits = 16
    KeyText <- KeysWritten
    MaxNodes = 12
    Layouts <- LayoutsWritten
    DeepestNesting = 2
SPECIFICATION ParserSpec
INVARIANTS
    ReadsWhatIsWritten
    LocatedWhereWritten
    TokenizerInSync
\* The parser stops at the end and at an error.
CHECK_DEADLOCK FALSE
