\* token.get() may also return an empty token with a nil error, the case
\* the code's `tokenContents == ""` test is there for.
CONSTANTS
    DirectorRetries = 1
    Verbs <- AllVerbs
    Statuses <- StatusesFew
    MaxObjServers = 1
    TokenOutcomes <- AllTokens
SPECIFICATION ClientSpec
INVARIANT NoFalseSuccess
CHECK_DEADLOCK FALSE
