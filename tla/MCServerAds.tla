---------------------------- MODULE MCServerAds ----------------------------
(* Model-checking instance of ServerAds.  h1's topology URL is http (as    *)
(* most topology servers are), h2's is https, the same key as its Pelican  *)
(* ad.                                                                    *)
EXTENDS ServerAds, TLC

CONSTANTS h1, h2, a, b

OneHost == {h1}
TwoHosts == {h1, h2}
TopoHttp == h1 :> "http"
TopoHttps == h1 :> "https"
TopoMixed == h1 :> "http" @@ h2 :> "https"
MCSymmetry == Permutations(Handlers)
=============================================================================
