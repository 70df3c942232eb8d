----------------------------- MODULE MCClientOps -----------------------------
(* Model-checking instance of ClientOps.                                   *)
EXTENDS ClientOps

AllVerbs == {"GET", "PUT", "DELETE", "PROPFIND"}
AllStatuses == {207, 307, 403, 404, 405, 429, 500, 502}
TokensWellFormed == {"ok", "err"}
AllTokens == {"ok", "err", "empty"}
StatusesFew == {307, 404}
=============================================================================
