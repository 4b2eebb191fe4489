\* Every kind of token, in both versions of TOML.
CONSTANTS
    Documents <- AllDocuments
    Writable <- Written
    Specifications = {"1.0", "1.1"}
    cValueNestingLimit = 2
    cBareKeyCharacterLimit = 5
    cStringCharacterLimit = 5
    cIntOrFloatCharacterLimit = 8
    Bits = 8
SPECIFICATION FairTokenizerSpec
INVARIANTS
    DeliversToml
    RejectsNoToml
    TokensLimited
PROPERTIES
    ReaderSpec
    ReadsToTheEnd
\* The tokenizer stops at the end and at an error.
CHECK_DEADLOCK FALSE
