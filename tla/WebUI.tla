-------------------------------- MODULE WebUI --------------------------------
(***************************************************************************)
(* The server web UI's page route (web_ui/ui.go): GET /view/*requestPath   *)
(* runs handleGlobusPages, handleWebUIRedirect, handleWebUIAuth and        *)
(* handleWebUIResource in that order; each either answers and aborts or   *)
(* lets the next one run.  A browser follows the redirects it is given.    *)
(*                                                                         *)
(* A request path is the sequence of its "/"-separated segments after the  *)
(* leading "/" ("/" is <<"">>, "/config/" is <<"config", "">>).  The       *)
(* embedded frontend/out tree is WebAssets, a set of cleaned paths.        *)
(* Who the user is (GetUserGroups, CheckAdmin) and whether the admin       *)
(* password is set (authDB) come from code outside src: the user is       *)
(* anonymous, logged in, or an admin, and authDB may be set at any time.  *)
(***************************************************************************)
EXTENDS Integers, Sequences, SequencesExt, FiniteSets

CONSTANTS
    Segs,            \* segments a request path may contain
    SegExt,          \* [Segs -> path.Ext of the segment]
    MaxSegs,         \* bound on the segments of a typed-in request path
    MaxHops,         \* bound on the redirects a browser follows in a row
    WebAssets,       \* the files under frontend/out, as cleaned paths
    EnabledServers,  \* lower-case names of the servers this process runs
    GlobusStorage,   \* Origin.StorageType is "globus"
    KeyIds,          \* ids the database gives API keys (bounds the keys made)
    MaxCodes         \* bound on the one-time codes waitUntilLogin generates

ServerPages       == {"director", "registry", "origin", "cache"}
PublicAccessPages == {"director", "registry"}
AdminAccessPages  == {"config", "origin", "cache"}
NotFoundFile      == <<"404", "index.html">>

Users == {"anon", "user", "admin"}

VARIABLES
    db,     \* authDB is set (the admin password is initialized)
    user,   \* who sends the request
    path,   \* the request's requestPath
    hops,   \* redirects followed to reach this request
    stage,  \* the handler that runs next, or "done"
    resp,   \* the answer: a status and a file served or a redirect target
    keys,   \* ids of the API keys in the server database
    login,  \* InitServerWebLogin: "idle", "waiting", "done" or "failed"
    codes,  \* <<previousCode, currentCode>>, as generation numbers (0: nil)
    health  \* the Server_WebUI component health status

vars == <<db, user, path, hops, stage, resp, keys, login, codes, health>>

(* Endpoints of configureCommonEndpoints this module models, each but the *)
(* servers list behind AuthHandler and AdminAuthHandler.                   *)
API      == {"getConfig", "patchConfig", "restart", "servers",
             "createToken", "deleteToken", "listTokens"}
AdminAPI == API \ {"servers"}

(* State the page route leaves alone. *)
server == <<keys, login, codes, health>>

NoResp == [code |-> 0, body |-> <<>>]

TypeOK ==
    /\ db \in BOOLEAN
    /\ user \in Users
    /\ path \in Seq(STRING) /\ path # <<>>
    /\ hops \in 0..MaxHops
    /\ stage \in {"globus", "redirect", "auth", "resource", "done", "sendRestart"} \cup API
    /\ resp \in [code: {0, 200, 301, 302, 400, 401, 403, 404, 500}, body: Seq(STRING)]
    /\ keys \subseteq KeyIds
    /\ login \in {"idle", "waiting", "done", "failed"}
    /\ codes \in (0..MaxCodes) \X (0..MaxCodes)
    /\ health \in {"unknown", "warning", "ok"}

-----------------------------------------------------------------------------
(* path.Clean of a rooted path: empty and "." segments go, ".." drops the *)
(* segment before it (and nothing at the root).                           *)
CleanStep(acc, s) ==
    IF s \in {"", "."} THEN acc
    ELSE IF s = ".." THEN (IF acc = <<>> THEN acc ELSE Front(acc))
    ELSE Append(acc, s)

Clean(p) == FoldLeft(CleanStep, <<>>, p)

TrailingSlash(p) == Last(p) = ""

(* The path the redirect and resource handlers look at: "index.html"      *)
(* appended to a directory, then cleaned.                                 *)
Cleaned(p) == Clean(IF TrailingSlash(p) THEN [p EXCEPT ![Len(p)] = "index.html"] ELSE p)

(* path.Ext of a segment; the segments of redirect targets have none.    *)
ExtOf(s) == IF s \in DOMAIN SegExt THEN SegExt[s] ELSE ""

(* strings.Contains(cleaned, "."): some segment has an extension.         *)
HasDot(q) == \E i \in 1..Len(q) : ExtOf(q[i]) # ""

(* strings.Split(strings.TrimPrefix(p, "/"), "/")[0]                      *)
RootOf(q) == IF q = <<>> THEN "" ELSE q[1]

Answer(code, body) == stage' = "done" /\ resp' = [code |-> code, body |-> body]

PassTo(next) == stage' = next /\ UNCHANGED resp

(* "/view/" ++ p ++ "/" as the requestPath the browser sends next.        *)
ViewDir(p) == p \o <<"">>

-----------------------------------------------------------------------------
(* A browser requests /view/<path>.                                       *)
Request ==
    /\ stage = "done"
    /\ \E p \in SeqOf(Segs, MaxSegs) \ {<<>>}, u \in Users :
          path' = p /\ user' = u
    /\ hops' = 0 /\ stage' = "globus" /\ resp' = NoResp
    /\ UNCHANGED <<db, server>>

(* The browser follows a redirect to another /view/ page.                 *)
Follow ==
    /\ stage = "done" /\ resp.code \in {301, 302} /\ hops < MaxHops
    /\ path' = resp.body /\ hops' = hops + 1
    /\ stage' = "globus" /\ resp' = NoResp
    /\ UNCHANGED <<db, user, server>>

(* The admin password is set through the initialization page.            *)
InitializeDB ==
    /\ ~db /\ db' = TRUE
    /\ UNCHANGED <<user, path, hops, stage, resp, server>>

(* handleGlobusPages: /origin/globus... is a 404 unless the origin's      *)
(* storage is Globus.  It looks at the raw path.                          *)
GlobusPages ==
    /\ stage = "globus"
    /\ IF Len(path) >= 2 /\ path[1] = "origin" /\ path[2] = "globus" /\ ~GlobusStorage
          THEN Answer(404, NotFoundFile)
          ELSE PassTo("redirect")
    /\ UNCHANGED <<db, user, path, hops, server>>

(* handleWebUIRedirect, on the cleaned path: a directory named without    *)
(* its trailing "/" is redirected to /view/ + path + "/"; "/" goes to the *)
(* only enabled server; a page of a server this process does not run is   *)
(* a 404.                                                                 *)
WebUIRedirect ==
    /\ stage = "redirect"
    /\ LET q == Cleaned(path) IN
       IF ~HasDot(q) /\ q # <<>> /\ Append(q, "index.html") \in WebAssets
          THEN Answer(301, ViewDir(<<"">> \o q))
       ELSE IF Cardinality(EnabledServers) = 1 /\ q = <<"index.html">>
          THEN Answer(302, ViewDir(<<CHOOSE s \in EnabledServers : TRUE>>))
       ELSE IF RootOf(q) \in ServerPages /\ RootOf(q) \notin EnabledServers
          THEN Answer(404, NotFoundFile)
       ELSE PassTo("auth")
    /\ UNCHANGED <<db, user, path, hops, server>>

(* handleWebUIAuth, on the raw path: static files other than .html pass;  *)
(* the initialization page is for an unset password only, and every      *)
(* other page redirects there while it is unset; a logged-in user leaves *)
(* the login page (to "/view/", returnURL being absent); public pages     *)
(* pass; an anonymous user may see "/" when a director or registry runs;  *)
(* an admin page needs an admin (others go to 403, or to login).          *)
WebUIAuth ==
    /\ stage = "auth"
    /\ LET root == path[1]
           loggedIn == user # "anon"
       IN IF ExtOf(Last(path)) \notin {"", ".html"} THEN PassTo("resource")
          ELSE IF root = "initialization"
             THEN IF db THEN Answer(302, <<"">>) ELSE PassTo("resource")
          ELSE IF ~db THEN Answer(302, ViewDir(<<"initialization", "code">>))
          ELSE IF root = "login" /\ loggedIn THEN Answer(302, <<"">>)
          ELSE IF root \in PublicAccessPages THEN PassTo("resource")
          ELSE IF /\ ~loggedIn
                  /\ EnabledServers \cap {"director", "registry"} # {}
                  /\ root = ""
             THEN PassTo("resource")
          ELSE IF root \in AdminAccessPages /\ user # "admin"
             THEN Answer(302, ViewDir(<<IF loggedIn THEN "403" ELSE "login">>))
          ELSE PassTo("resource")
    /\ UNCHANGED <<db, user, path, hops, server>>

(* handleWebUIResource serves the cleaned path, or the 404 page.          *)
WebUIResource ==
    /\ stage = "resource"
    /\ LET q == Cleaned(path) IN
       IF q \in WebAssets THEN Answer(200, q) ELSE Answer(404, NotFoundFile)
    /\ UNCHANGED <<db, user, path, hops, server>>

-----------------------------------------------------------------------------
(* A client calls an /api/v1.0 endpoint.  AuthHandler and AdminAuthHandler *)
(* (outside src) turn away an anonymous caller (401) and a non-admin (403) *)
(* before the handler of an admin endpoint runs.                          *)
APIRequest ==
    /\ stage = "done"
    /\ \E e \in API, u \in Users :
          /\ user' = u
          /\ IF e \in AdminAPI /\ u # "admin"
                THEN Answer(IF u = "anon" THEN 401 ELSE 403, <<>>)
                ELSE PassTo(e) /\ resp' = NoResp
    /\ UNCHANGED <<db, path, hops, server>>

(* token.Verify of the login cookie (outside src): 200 when it verifies,  *)
(* else the status it fails with.                                         *)
VerifyStatus == {200, 401, 403}

(* hotRestartServer answers 200, then sends on the unbuffered RestartFlag *)
(* and blocks until the launcher (outside src) receives it.               *)
HotRestartServer ==
    /\ stage = "restart"
    /\ stage' = "sendRestart" /\ resp' = [code |-> 200, body |-> <<>>]
    /\ UNCHANGED <<db, user, path, hops, server>>

RestartReceived ==
    /\ stage = "sendRestart" /\ stage' = "done"
    /\ UNCHANGED <<db, user, path, hops, resp, server>>

(* getConfigValues: 403 without a user, 500 when the config does not      *)
(* unmarshal, else the config.                                            *)
GetConfigValues ==
    /\ stage = "getConfig"
    /\ IF user = "anon" THEN Answer(403, <<>>)
       ELSE \E unmarshalOk \in BOOLEAN : Answer(IF unmarshalOk THEN 200 ELSE 500, <<>>)
    /\ UNCHANGED <<db, user, path, hops, server>>

(* updateConfigValues: a body that binds neither as a Config nor as a map *)
(* is a 400; no Server.WebConfigFile, or a failed read, merge or write of *)
(* it, a 500; else 200, then the blocking send on RestartFlag.            *)
UpdateConfigValues ==
    /\ stage = "patchConfig"
    /\ \E failure \in {"none", "bind", "bindMap", "noPath", "read", "merge", "write"} :
          CASE failure \in {"bind", "bindMap"} -> Answer(400, <<>>)
            [] failure = "none" -> stage' = "sendRestart" /\ resp' = [code |-> 200, body |-> <<>>]
            [] OTHER -> Answer(500, <<>>)
    /\ UNCHANGED <<db, user, path, hops, server>>

(* getEnabledServers: 500 when no server is enabled, else their names.    *)
GetEnabledServers ==
    /\ stage = "servers"
    /\ Answer(IF EnabledServers = {} THEN 500 ELSE 200, <<>>)
    /\ UNCHANGED <<db, user, path, hops, server>>

(* createApiToken: Verify's status when the cookie fails; 400 for a body  *)
(* that does not bind, an empty name or scope list, or an expiration that *)
(* is neither "", "never" nor RFC 3339; 500 without a user; a failed      *)
(* CreateApiKey is answered with Verify's status; else 200 and the key.   *)
CreateApiToken ==
    /\ stage = "createToken"
    /\ \E status \in VerifyStatus, bindOk, named, scoped, userOk, createOk \in BOOLEAN,
         expiration \in {"", "never", "rfc3339", "other"} :
          IF status # 200 THEN Answer(status, <<>>) /\ UNCHANGED keys
          ELSE IF ~bindOk \/ ~named \/ ~scoped \/ expiration = "other"
             THEN Answer(400, <<>>) /\ UNCHANGED keys
          ELSE IF ~userOk THEN Answer(500, <<>>) /\ UNCHANGED keys
          ELSE IF ~createOk \/ keys = KeyIds THEN Answer(status, <<>>) /\ UNCHANGED keys
          ELSE \E id \in KeyIds \ keys : keys' = keys \cup {id} /\ Answer(200, <<>>)
    /\ UNCHANGED <<db, user, path, hops, login, codes, health>>

(* deleteApiToken: Verify's failure status; 500 when DeleteApiKey fails   *)
(* (an unknown id among them); else 200.                                  *)
DeleteApiToken ==
    /\ stage = "deleteToken"
    /\ \E status \in VerifyStatus, id \in KeyIds, deleteOk \in BOOLEAN :
          IF status # 200 THEN Answer(status, <<>>) /\ UNCHANGED keys
          ELSE IF ~deleteOk \/ id \notin keys THEN Answer(500, <<>>) /\ UNCHANGED keys
          ELSE keys' = keys \ {id} /\ Answer(200, <<>>)
    /\ UNCHANGED <<db, user, path, hops, login, codes, health>>

(* listApiTokens: Verify's failure status; 500 when ListApiKeys fails.    *)
ListApiTokens ==
    /\ stage = "listTokens"
    /\ \E status \in VerifyStatus, listOk \in BOOLEAN :
          Answer(IF status # 200 THEN status ELSE IF listOk THEN 200 ELSE 500, <<>>)
    /\ UNCHANGED <<db, user, path, hops, server>>

-----------------------------------------------------------------------------
(* InitServerWebLogin marks the web UI's health a warning and runs        *)
(* waitUntilLogin, which returns at once when authDB is set, and else     *)
(* stores a new one-time code, keeping the last one as previousCode.      *)
InitServerWebLogin ==
    /\ login = "idle"
    /\ IF db THEN login' = "done" /\ health' = "ok" /\ UNCHANGED codes
       ELSE login' = "waiting" /\ health' = "warning" /\ codes' = <<codes[2], codes[2] + 1>>
    /\ UNCHANGED <<db, user, path, hops, stage, resp, keys>>

(* One 100 ms round of waitUntilLogin's loop: a SIGINT or SIGTERM ends it *)
(* with an error (health stays a warning); a cancelled context, or authDB *)
(* now set, ends it with nil and InitServerWebLogin marks health OK;      *)
(* after 30 s a new code replaces the current one.                        *)
WaitUntilLogin ==
    /\ login = "waiting"
    /\ \/ login' = "failed" /\ UNCHANGED <<codes, health>>
       \/ login' = "done" /\ health' = "ok" /\ UNCHANGED codes
       \/ db /\ login' = "done" /\ health' = "ok" /\ UNCHANGED codes
       \/ codes[2] < MaxCodes /\ codes' = <<codes[2], codes[2] + 1>> /\ UNCHANGED <<login, health>>
    /\ UNCHANGED <<db, user, path, hops, stage, resp, keys>>

Init ==
    /\ db \in BOOLEAN
    /\ user = "anon" /\ path = <<"">> /\ hops = 0
    /\ stage = "done" /\ resp = NoResp
    /\ keys = {} /\ login = "idle" /\ codes = <<0, 0>> /\ health = "unknown"

Next ==
    \/ Request \/ Follow \/ InitializeDB
    \/ GlobusPages \/ WebUIRedirect \/ WebUIAuth \/ WebUIResource
    \/ APIRequest \/ HotRestartServer \/ RestartReceived \/ GetConfigValues
    \/ UpdateConfigValues \/ GetEnabledServers
    \/ CreateApiToken \/ DeleteApiToken \/ ListApiTokens
    \/ InitServerWebLogin \/ WaitUntilLogin

Spec == Init /\ [][Next]_vars

-----------------------------------------------------------------------------
(* handleWebUIAuth: the pages under config, origin and cache                *)
(* (adminAccessPages) are served only to an admin; a logged-in user is     *)
(* sent to the 403 page and an anonymous one to the login page.            *)
AdminPagesServedToAdmins ==
    (stage = "done" /\ resp.code = 200 /\ RootOf(resp.body) \in AdminAccessPages)
        => user = "admin"

=============================================================================
