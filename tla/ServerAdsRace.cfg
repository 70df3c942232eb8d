\* A topology ad (http://h1) and a Pelican ad (https://h1) ingested by two
\* goroutines at once.
CONSTANTS
    h1 = h1
    h2 = h2
    a = a
    b = b
    NoAd = NoAd
    Hosts <- OneHost
    Handlers = {a, b}
    TopoScheme <- TopoHttp
    AdvertisementTTL = 1
    MaxTime = 2
    MaxCalls = 2
SYMMETRY MCSymmetry
SPECIFICATION Spec
INVARIANT IdentityUnique
CHECK_DEADLOCK FALSE
