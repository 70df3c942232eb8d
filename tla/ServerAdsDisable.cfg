\* A Pelican server registered with director tests enabled that refreshes
\* its ad with DisableDirectorTest set.
CONSTANTS
    h1 = h1
    h2 = h2
    a = a
    b = b
    NoAd = NoAd
    Hosts <- OneHost
    Handlers = {a}
    TopoScheme <- TopoHttps
    AdvertisementTTL = 1
    MaxTime = 2
    MaxCalls = 2
SPECIFICATION Spec
INVARIANT DisabledServerNotProbed
CHECK_DEADLOCK FALSE
