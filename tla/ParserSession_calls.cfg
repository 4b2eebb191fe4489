\* Four calls of any of the eight functions, one after another.
CONSTANTS
    MaxCalls = 4
SPECIFICATION Spec
INVARIANTS
    IndInv
    DocumentOfOwnCall
    HoldsNothing
    LastErrorOfLatestFailure
    TerminatesOnlyForStreams
\* The caller may stop calling, and std::terminate ends the program.
CHECK_DEADLOCK FALSE
