\* UTF-8 and UTF-16, well-formed and corrupted.
CONSTANTS
    Documents <- AllDocuments
    Writable = {34}
SPECIFICATION Spec
INVARIANTS
    ReaderInv
    DecodesDocument
    ErrorsAreCorruption
    EndsAtEnd
    LocationFits
    TokensTile
\* The reader stops at the end and at an error.
CHECK_DEADLOCK FALSE
