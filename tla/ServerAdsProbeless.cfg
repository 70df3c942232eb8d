\* The ads_probes model with the eviction callback run late: a topology ad
\* deleted by a Pelican registration at the same https key tears down the
\* probe that registration has just started.
CONSTANTS
    h1 = h1
    h2 = h2
    a = a
    b = b
    NoAd = NoAd
    Hosts <- OneHost
    Handlers = {a, b}
    TopoScheme <- TopoHttps
    AdvertisementTTL = 1
    MaxTime = 2
    MaxCalls = 3
SYMMETRY MCSymmetry
SPECIFICATION Spec
INVARIANT ProbeForEnabledAd
CHECK_DEADLOCK FALSE
