-------------------------------- MODULE MCWebUI --------------------------------
(* Model-checking instance of WebUI: the page layout of frontend/out and  *)
(* path segments covering every branch of the four handlers.              *)
EXTENDS WebUI

MCSegs == {"", ".", "..", "config", "origin", "globus", "login", "initialization", "index.html"}

MCSegExt == [s \in MCSegs |-> CASE s \in {".", ".."} -> "."
                               [] s = "index.html"   -> ".html"
                               [] OTHER              -> ""]

(* index.html of the root, of every page the handlers name, and of the    *)
(* initialization code page.                                              *)
MCWebAssets ==
    {<<"index.html">>, <<"initialization", "code", "index.html">>}
    \cup {<<p, "index.html">> : p \in {"config", "origin", "cache", "director", "registry",
                                       "login", "403", "404"}}

MCEnabled == {"origin", "director"}

(* Two API key ids: a second key while the first exists. *)
MCKeyIds == {"k1", "k2"}
=============================================================================
