\* Two callers, one call each: between them a runner, a caller blocked on
\* the Once, and a call arriving after it is done; every configuration of
\* the four endpoints, the discovery URL and the enabled servers.
CONSTANTS
    c1 = c1
    c2 = c2
    c3 = c3
    Callers <- MCCallers2
    MaxCalls = 1
SPECIFICATION Spec
INVARIANT TypeOK
INVARIANT ConfiguredOverridesDiscovered
INVARIANT OwnServicesSelfHosted
PROPERTY CallReturns
PROPERTY CacheRefined
CHECK_DEADLOCK FALSE
