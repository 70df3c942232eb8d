\* Two callers, one call each.
CONSTANTS
    c1 = c1
    c2 = c2
    c3 = c3
    Callers <- MCCallers2
    MaxCalls = 1
SPECIFICATION Spec
INVARIANT NoForeignCancellation
CHECK_DEADLOCK FALSE
