\* One handler, one host; the ad is cleared while its recordAd is between
\* Set and the stat-utility block.
CONSTANTS
    h1 = h1
    h2 = h2
    a = a
    b = b
    NoAd = NoAd
    Hosts <- OneHost
    Handlers = {a}
    TopoScheme <- TopoHttps
    AdvertisementTTL = 1
    MaxTime = 2
    MaxCalls = 1
SPECIFICATION Spec
INVARIANT StatUtilTornDown
CHECK_DEADLOCK FALSE
