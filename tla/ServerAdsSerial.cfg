\* One ingestion goroutine at a time.  The topology URL of h1 is http, so a
\* topology ad and a Pelican ad for h1 are stored under sibling keys; that of
\* h2 is https, the same key as its Pelican ad, so precedence decides which
\* one is stored.
CONSTANTS
    h1 = h1
    h2 = h2
    a = a
    b = b
    NoAd = NoAd
    Hosts <- TwoHosts
    Handlers = {a}
    TopoScheme <- TopoMixed
    AdvertisementTTL = 1
    MaxTime = 2
    MaxCalls = 3
SPECIFICATION Spec
INVARIANT IdentityUnique
PROPERTY PelicanNotReplacedByTopology
CHECK_DEADLOCK FALSE
