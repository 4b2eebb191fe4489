\* A null pointer is explained by lastError.
CONSTANTS
    MaxCalls = 2
SPECIFICATION Spec
INVARIANTS
    LastErrorExplainsNull
\* The caller may stop calling, and std::terminate ends the program.
CHECK_DEADLOCK FALSE
