\* An origin with a director in the same process; request paths of up to
\* three segments (enough for /x/../config/ and /config/index.html/.), and
\* up to two redirects followed; two API key ids and three one-time codes.
CONSTANTS
    Segs <- MCSegs
    SegExt <- MCSegExt
    MaxSegs = 3
    MaxHops = 2
    WebAssets <- MCWebAssets
    EnabledServers <- MCEnabled
    GlobusStorage = FALSE
    KeyIds <- MCKeyIds
    MaxCodes = 3
SPECIFICATION Spec
INVARIANT AdminPagesServedToAdmins
