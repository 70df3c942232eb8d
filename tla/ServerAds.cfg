\* Two concurrent ingestion goroutines, topology ads on https (same key as
\* the Pelican ad) so that refreshes, replacements and evictions all meet.
CONSTANTS
    h1 = h1
    h2 = h2
    a = a
    b = b
    NoAd = NoAd
    Hosts <- OneHost
    Handlers = {a, b}
    TopoScheme <- TopoHttps
    AdvertisementTTL = 1
    MaxTime = 2
    MaxCalls = 3
SYMMETRY MCSymmetry
SPECIFICATION Spec
INVARIANT TypeOK
INVARIANT AtMostOneActiveProbe
CHECK_DEADLOCK FALSE
