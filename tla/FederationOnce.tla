--------------------------- MODULE FederationOnce ---------------------------
(***************************************************************************)
(* GetFederation (config/config.go): the federation metadata is computed *)
(* once per process, by discoverFederationImpl under a sync.Once, with the *)
(* ctx of whichever caller gets there first; every caller returns the     *)
(* globals that run stored, error included.                               *)
(*                                                                         *)
(* Callers are goroutines (a transfer, a server component) that each call *)
(* GetFederation up to MaxCalls times; each has its own ctx, which may be *)
(* cancelled.  The process's configuration (the endpoints configured out  *)
(* of band, Federation.DiscoveryUrl, the enabled servers) is fixed before *)
(* the first call; what the discovery fetch returns is the network's      *)
(* choice.  URLs are abstracted to a few strings: "c" an endpoint         *)
(* configured without a scheme, "https://d" one discovered, External the  *)
(* server's own Server.ExternalWebUrl.                                    *)
(***************************************************************************)
EXTENDS Integers, FiniteSets, Sequences

CONSTANTS
    Callers,   \* goroutines calling GetFederation
    MaxCalls   \* calls per caller

Fields == {"director", "registry", "jwks", "broker"}
Servers == {"director", "registry", "broker"}
External == "https://e"
Discovered == "https://d"

(* Federation.DiscoveryUrl: unset, a bare host, a full URL, a URL with a  *)
(* path, a string url.Parse rejects once wrapped, the server's own URL.   *)
FedStrs == {"", "f", "https://f", "https://f/p", "bad", External}

(* A client process enables no server; a server process any set of them. *)
Configs ==
    [mode: {"client"}, conf: [Fields -> {"", "c"}], fed: FedStrs, enabled: {{}}]
    \cup [mode: {"server"}, conf: [Fields -> {"", "c"}], fed: FedStrs, enabled: SUBSET Servers]

(* What the well-known document gives, per field, or a transport error.   *)
Metadata == [Fields -> {"", Discovered}]

FedInfos == [Fields \cup {"discovery"} -> STRING]

Outcomes == [info: FedInfos, err: {"none", "parse", "path", "transport", "cancelled"}]

(* No call has returned yet; no fetch was made; the fetch failed in transit. *)
NoOutcome == [unset |-> TRUE]
NoAnswer == [nofetch |-> TRUE]
Transport == [transport |-> TRUE]

VARIABLES
    cfg,       \* the process configuration
    conf,      \* Federation.*Url as viper returns them (configured or defaulted)
    retries,   \* Client.DirectorRetries as viper returns it
    init,      \* InitClient / InitServer: "start", "enabled", "done", "failed"
    enabled,   \* enabledServers
    once,      \* state of fedDiscoveryOnce: "fresh", "running", "done"
    fedErr,    \* globalFedInfo/globalFedErr, or NoOutcome before the first run
    pc,        \* [Callers -> "idle", "running", "wait", "done"]
    ctxDone,   \* [Callers -> the caller's ctx is cancelled]
    got,       \* [Callers -> what the last call returned, or NoOutcome]
    calls,     \* [Callers -> calls made]
    meta       \* what the discovery fetch returned, or NoAnswer

vars == <<cfg, conf, retries, init, enabled, once, fedErr, pc, ctxDone, got, calls, meta>>

(* The configuration discoverFederationImpl reads.                        *)
Viper == [cfg EXCEPT !.conf = conf]

-----------------------------------------------------------------------------
(* wrapWithHttpsIfNeeded: a non-empty string without an http(s) scheme    *)
(* gets "https://" prepended.                                             *)
WrapWithHttpsIfNeeded(s) == IF s \in {"c", "f", "bad"} THEN "https://" \o s ELSE s

(* url.Parse of a wrapped string, and whether it has both host and path.  *)
ParseOk(s) == s # "https://bad"
HostAndPath(s) == s = "https://f/p"

(* Mutant: the discovered value replaces a configured director endpoint.  *)
SetGlobalsMetaWins(cf, md) ==
    [f \in Fields |-> IF f = "director" /\ md[f] # "" THEN md[f]
                      ELSE IF cf[f] = "" THEN md[f] ELSE cf[f]]

(* "Set our globals": a field still unset takes the discovered value.     *)
SetGlobals(cf, md) ==
    [f \in Fields |-> IF cf[f] = "" THEN md[f] ELSE cf[f]]

(* The deferred defaults of discoverFederationImpl: unset endpoints guess  *)
(* the server's own URL when that server runs here, the discovery URL     *)
(* falls back to the (unwrapped) director endpoint on a director, then    *)
(* the four endpoints (not the discovery URL) are wrapped.                *)
Defaults(info, en) ==
    LET dir == IF info.director = "" /\ "director" \in en THEN External ELSE info.director
        guess == [f \in Fields |->
                    CASE f = "director" -> dir
                      [] f = "registry" -> IF info.registry = "" /\ "registry" \in en
                                              THEN External ELSE info.registry
                      [] f = "jwks"     -> IF info.jwks = "" /\ "director" \in en
                                              THEN External \o "/.well-known/issuer.jwks"
                                              ELSE info.jwks
                      [] f = "broker"   -> IF info.broker = "" /\ "broker" \in en
                                              THEN External ELSE info.broker]
    IN [f \in Fields \cup {"discovery"} |->
          IF f = "discovery"
             THEN IF info.discovery = "" /\ "director" \in en THEN dir ELSE info.discovery
             ELSE WrapWithHttpsIfNeeded(guess[f])]

(* Whether discoverFederationImpl fetches the well-known document.        *)
Fetches(c) ==
    LET w == WrapWithHttpsIfNeeded(c.fed)
    IN /\ \E f \in Fields : c.conf[f] = ""
       /\ ParseOk(w) /\ ~HostAndPath(w)
       /\ w # "" /\ w # External

(* discoverFederationImpl(ctx) given the configuration and the fetch's    *)
(* answer (a Metadata record, or Transport).    Every return path runs    *)
(* the deferred defaults, errors included.                                *)
DiscoverFederationImpl(c, en, answer, cancelled) ==
    LET w == WrapWithHttpsIfNeeded(c.fed)
        withDisc(m, d) == [f \in Fields \cup {"discovery"} |-> IF f = "discovery" THEN d ELSE m[f]]
        configured == withDisc(c.conf, "")
        Out(info, e) == [info |-> Defaults(info, en), err |-> e]
    IN CASE \A f \in Fields : c.conf[f] # ""  -> Out(withDisc(c.conf, c.fed), "none")
         [] ~ParseOk(w)                        -> Out(configured, "parse")
         [] HostAndPath(w)                     -> Out(configured, "path")
         [] ~Fetches(c)                        -> Out(withDisc(c.conf, w), "none")
         [] cancelled                          -> Out(withDisc(c.conf, w), "cancelled")
         [] answer = Transport                 -> Out(withDisc(c.conf, w), "transport")
         [] OTHER                              -> Out(withDisc(SetGlobals(c.conf, answer), w), "none")

TypeOK ==
    /\ cfg \in Configs
    /\ conf \in [Fields -> {"", "c", External}]
    /\ retries \in Int
    /\ init \in {"start", "enabled", "done", "failed"}
    /\ enabled \in SUBSET Servers
    /\ once \in {"fresh", "running", "done"}
    /\ fedErr \in Outcomes \cup {NoOutcome}
    /\ pc \in [Callers -> {"idle", "running", "wait", "done"}]
    /\ ctxDone \in [Callers -> BOOLEAN]
    /\ got \in [Callers -> Outcomes \cup {NoOutcome}]
    /\ calls \in [Callers -> 0..MaxCalls]
    /\ meta \in Metadata \cup {Transport, NoAnswer}
    /\ \A c \in Callers : pc[c] = "done" => got[c] \in Outcomes

-----------------------------------------------------------------------------
(* Mutant: the result is not cached; every call runs discovery again.     *)
CallUncached(c) ==
    /\ init = "done" /\ pc[c] = "idle" /\ calls[c] < MaxCalls
    /\ calls' = [calls EXCEPT ![c] = @ + 1]
    /\ pc' = [pc EXCEPT ![c] = "running"]
    /\ once' = "running"
    /\ UNCHANGED <<cfg, conf, retries, init, enabled, fedErr, ctxDone, got, meta>>

(* fedDiscoveryOnce.Do: the first caller runs the function; a caller     *)
(* arriving while it runs blocks until it returns; later callers return   *)
(* the stored globals at once.                                            *)
Call(c) ==
    /\ init = "done" /\ pc[c] = "idle" /\ calls[c] < MaxCalls
    /\ calls' = [calls EXCEPT ![c] = @ + 1]
    /\ CASE once = "fresh"   -> /\ once' = "running"
                                /\ pc' = [pc EXCEPT ![c] = "running"]
                                /\ UNCHANGED <<fedErr, got>>
         [] once = "running" -> /\ pc' = [pc EXCEPT ![c] = "wait"]
                                /\ UNCHANGED <<once, fedErr, got>>
         [] once = "done"    -> /\ pc' = [pc EXCEPT ![c] = "done"]
                                /\ got' = [got EXCEPT ![c] = fedErr]
                                /\ UNCHANGED <<once, fedErr>>
    /\ UNCHANGED <<cfg, conf, retries, init, enabled, ctxDone, meta>>

(* The discovery's answer: a fetch with a cancelled ctx fails before any  *)
(* answer; no fetch, no answer.                                           *)
Answers(c) ==
    IF Fetches(Viper) /\ ~ctxDone[c] THEN Metadata \cup {Transport} ELSE {NoAnswer}

(* Mutant: the Once is not marked done when the function returns.         *)
DiscoverKeepRunning(c) ==
    /\ pc[c] = "running"
    /\ \E a \in Answers(c) :
          LET o == DiscoverFederationImpl(Viper, enabled, a, ctxDone[c])
          IN /\ fedErr' = o /\ got' = [got EXCEPT ![c] = o] /\ meta' = a
    /\ once' = "running"
    /\ pc' = [pc EXCEPT ![c] = "done"]
    /\ UNCHANGED <<cfg, conf, retries, init, enabled, ctxDone, calls>>

(* The Once's function with the runner's ctx: globalFedInfo, globalFedErr *)
(* = discoverFederationImpl(ctx); Do then marks the Once done.            *)
Discover(c) ==
    /\ pc[c] = "running"
    /\ \E a \in Answers(c) :
          LET o == DiscoverFederationImpl(Viper, enabled, a, ctxDone[c])
          IN /\ fedErr' = o /\ got' = [got EXCEPT ![c] = o] /\ meta' = a
    /\ once' = "done"
    /\ pc' = [pc EXCEPT ![c] = "done"]
    /\ UNCHANGED <<cfg, conf, retries, init, enabled, ctxDone, calls>>

(* Mutant: Do does not block a caller while the function runs.           *)
WakeNoWait(c) ==
    /\ pc[c] = "wait"
    /\ pc' = [pc EXCEPT ![c] = "done"]
    /\ got' = [got EXCEPT ![c] = fedErr]
    /\ UNCHANGED <<cfg, conf, retries, init, enabled, once, fedErr, ctxDone, calls, meta>>

(* A blocked caller's Do returns once the runner is done.                 *)
Wake(c) ==
    /\ pc[c] = "wait" /\ once = "done"
    /\ pc' = [pc EXCEPT ![c] = "done"]
    /\ got' = [got EXCEPT ![c] = fedErr]
    /\ UNCHANGED <<cfg, conf, retries, init, enabled, once, fedErr, ctxDone, calls, meta>>

(* The caller goes on to its next operation.                              *)
Finish(c) ==
    /\ pc[c] = "done"
    /\ pc' = [pc EXCEPT ![c] = "idle"]
    /\ UNCHANGED <<cfg, conf, retries, init, enabled, once, fedErr, ctxDone, got, calls, meta>>

(* The caller's ctx is cancelled (its operation is abandoned).           *)
Cancel(c) ==
    /\ ~ctxDone[c]
    /\ ctxDone' = [ctxDone EXCEPT ![c] = TRUE]
    /\ UNCHANGED <<cfg, conf, retries, init, enabled, once, fedErr, pc, got, calls, meta>>

(* Client.DirectorRetries as the config file or the environment gives it, *)
(* when one does.                                                         *)
RetryConfigs == {-1, 0, 1, 2}

(* SetClientDefaults: a default of 5; the plugin (Client.IsPlugin) doubles *)
(* whatever is set; a result below 1 falls back to 5.                     *)
ClientDirectorRetries(isSet, configured, isPlugin) ==
    LET n == IF isSet THEN configured ELSE 5
        m == IF isPlugin THEN 2 * n ELSE n
    IN IF m < 1 THEN 5 ELSE m

(* SetClientDefaults' grandfathered variables: the first of the prefixes' *)
(* _DIRECTOR_URL and _NAMESPACE_URL that is set is viper.Set as           *)
(* Federation.DirectorURL and Federation.RegistryUrl.                     *)
LegacyEnv(c, env) == [f \in Fields |-> IF f \in env THEN "c" ELSE c[f]]

(* InitClient: SetClientDefaults (its config-file reads may fail), then   *)
(* the unmarshal (which may fail), then it (re)sets the deferred          *)
(* federation lookup; discovery waits for the first call.                 *)
InitClient ==
    /\ cfg.mode = "client" /\ init = "start"
    /\ \/ init' = "failed" /\ UNCHANGED <<conf, retries, once>>
       \/ \E env \in SUBSET {"director", "registry"}, isSet, plugin \in BOOLEAN, r \in RetryConfigs :
             /\ conf' = LegacyEnv(conf, env)
             /\ retries' = ClientDirectorRetries(isSet, r, plugin)
             /\ init' = "done" /\ once' = "fresh"
    /\ UNCHANGED <<cfg, enabled, fedErr, pc, ctxDone, got, calls, meta>>

(* InitServer begins with setEnabledServer(currentServers).               *)
InitServerEnable ==
    /\ cfg.mode = "server" /\ init = "start"
    /\ enabled' = cfg.enabled /\ init' = "enabled"
    /\ UNCHANGED <<cfg, conf, retries, once, fedErr, pc, ctxDone, got, calls, meta>>

(* Mutant: the broker's own URL is not set as the default broker.       *)
ServerUrlDefaultsNoBroker(c, en) ==
    [f \in Fields |-> IF c[f] = "" /\ f \in en \ {"broker"} THEN External ELSE c[f]]

(* InitServer: viper.SetDefault of Federation.DirectorUrl, RegistryUrl    *)
(* and BrokerURL to Server.ExternalWebUrl for the director, registry and   *)
(* broker it starts (currentServers); JWKS gets no default here.          *)
ServerUrlDefaults(c, en) ==
    [f \in Fields |-> IF c[f] = "" /\ f \in en THEN External ELSE c[f]]

(* InitServer then resets the Once and calls GetFederation with its own   *)
(* ctx, live at start-up; an earlier check failing, or the discovery's    *)
(* error, fails the server's start.                                       *)
InitServerFederation ==
    /\ init = "enabled"
    /\ \/ init' = "failed" /\ UNCHANGED <<conf, once, fedErr, meta>>
       \/ LET v == [cfg EXCEPT !.conf = ServerUrlDefaults(cfg.conf, cfg.enabled)] IN
          \E a \in IF Fetches(v) THEN Metadata \cup {Transport} ELSE {NoAnswer} :
             LET o == DiscoverFederationImpl(v, enabled, a, FALSE)
             IN /\ conf' = v.conf
                /\ fedErr' = o /\ meta' = a /\ once' = "done"
                /\ init' = IF o.err = "none" THEN "done" ELSE "failed"
    /\ UNCHANGED <<cfg, retries, enabled, pc, ctxDone, got, calls>>

Init ==
    /\ cfg \in Configs
    /\ conf = cfg.conf
    /\ retries = 0
    /\ init = "start"
    /\ enabled = {}
    /\ once = "fresh"
    /\ fedErr = NoOutcome
    /\ pc = [c \in Callers |-> "idle"]
    /\ ctxDone = [c \in Callers |-> FALSE]
    /\ got = [c \in Callers |-> NoOutcome]
    /\ calls = [c \in Callers |-> 0]
    /\ meta = NoAnswer

Next ==
    \/ InitClient \/ InitServerEnable \/ InitServerFederation
    \/ \E c \in Callers : Call(c) \/ Discover(c) \/ Wake(c) \/ Finish(c) \/ Cancel(c)

(* Discovery finishes: its HTTP client has a 5-second timeout.  A blocked *)
(* Do returns when the runner is done (sync.Once).                        *)
Fairness == \A c \in Callers : WF_vars(Discover(c)) /\ WF_vars(Wake(c))

Spec == Init /\ [][Next]_vars /\ Fairness

-----------------------------------------------------------------------------
(* GetFederation implements FederationCache: the fedDiscoveryOnce and the *)
(* globals it fills are the computed value, the values callers returned   *)
(* are theirs.  InitServer's eager lookup and the first client call are   *)
(* the computation; every other call returns the stored value.            *)
Cache == INSTANCE FederationCache WITH value <- fedErr, Values <- Outcomes, None <- NoOutcome

(* GetFederation is thread-safe (its doc comment): the metadata is        *)
(* computed once per process and every caller that returns gets exactly   *)
(* that value, error included, whoever ran the lookup and however the     *)
(* callers interleaved with it.                                           *)
CacheRefined == Cache!Spec

(* No caller stays blocked in GetFederation: a call eventually returns.  *)
CallReturns == \A c \in Callers : pc[c] \in {"running", "wait"} ~> pc[c] = "done"

(* A caller whose own ctx is live is never failed with a cancellation.    *)
NoForeignCancellation ==
    \A c \in Callers : got[c] # NoOutcome /\ got[c].err = "cancelled" => ctxDone[c]

(* Spec 4.2: fields configured out of band override discovered values     *)
(* field by field: a successful GetFederation returns every endpoint set  *)
(* in the configuration or defaulted by InitServer, and every other       *)
(* endpoint the discovery document gave.                                  *)
ConfiguredOverridesDiscovered ==
    \A c \in Callers, f \in Fields :
        got[c] # NoOutcome /\ got[c].err = "none" =>
            /\ conf[f] # "" => got[c].info[f] = WrapWithHttpsIfNeeded(conf[f])
            /\ conf[f] = "" /\ meta \in Metadata /\ meta[f] # "" => got[c].info[f] = meta[f]

(* Spec 4.2: a server that runs the director, registry or broker itself, *)
(* with that endpoint not configured, names its own external URL for it   *)
(* in whatever GetFederation returns (error or not), even when the        *)
(* discovery document names another one; a director with no configured  *)
(* or discovered JWKS URL serves its own.  The JWKS default is applied by *)
(* the discovery's deferred defaults from enabledServers, so it needs      *)
(* setEnabledServer to come before InitServer's eager lookup.             *)
OwnServicesSelfHosted ==
    \A c \in Callers : got[c] # NoOutcome =>
        /\ \A f \in Servers :
              f \in cfg.enabled /\ cfg.conf[f] = "" => got[c].info[f] = External
        /\ "director" \in cfg.enabled /\ cfg.conf.jwks = ""
           /\ ~(meta \in Metadata /\ meta.jwks # "")
              => got[c].info.jwks = External \o "/.well-known/issuer.jwks"

=============================================================================
