\* UTF-8 of up to three bytes.
CONSTANTS
    Documents <- ThreeBytes
    Writable = {34}
SPECIFICATION Spec
INVARIANTS
    DecodesStrictly
CHECK_DEADLOCK FALSE
