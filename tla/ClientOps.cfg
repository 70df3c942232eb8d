\* One client command per behaviour; three director attempts per call, every
\* status the client treats differently, up to four object servers (DoStat
\* fetches checksums from at most three).  token.get() returns a token or an
\* error.
CONSTANTS
    DirectorRetries = 3
    Verbs <- AllVerbs
    Statuses <- AllStatuses
    MaxObjServers = 4
    TokenOutcomes <- TokensWellFormed
SPECIFICATION ClientSpec
INVARIANT TypeOK
INVARIANT ClientTypeOK
INVARIANT NoFalseSuccess
PROPERTY PolicyRefined
CHECK_DEADLOCK FALSE
