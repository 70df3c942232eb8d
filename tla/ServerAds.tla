----------------------------- MODULE ServerAds -----------------------------
(***************************************************************************)
(* The director's server-advertisement store (director/cache_ads.go).      *)
(*                                                                         *)
(* recordAd runs in every ingestion goroutine (the registerOrigin /        *)
(* registerCache HTTP handlers and the topology poller), concurrently.     *)
(* Each call to the TTL cache `serverAds` (Get, Delete, Set) is atomic,    *)
(* and the stat-utility and health-test blocks each run under their own    *)
(* mutex, but recordAd as a whole is not: a handler is a sequence of       *)
(* atomic steps between which other handlers, the TTL cleaner and the      *)
(* probe goroutines interleave.                                           *)
(*                                                                         *)
(* A URL is <<scheme, host>>; the data of an ad is abstracted to what the  *)
(* store decides on: its source (topology or Pelican), DisableDirectorTest *)
(* and its expiration.                                                     *)
(***************************************************************************)
EXTENDS Naturals, FiniteSets

CONSTANTS
    Hosts,            \* host:port identities of servers
    Handlers,         \* goroutines that may run recordAd at the same time
    TopoScheme,       \* [Hosts -> Schemes]: scheme of a host's topology URL
    AdvertisementTTL, \* Director.AdvertisementTTL, in clock ticks
    MaxTime,          \* bound on the clock
    MaxCalls,         \* bound on the number of recordAd calls
    NoAd              \* model value: no entry / nil item

Schemes == {"http", "https"}
Keys == Schemes \X Hosts

ASSUME /\ TopoScheme \in [Hosts -> Schemes]
       /\ AdvertisementTTL \in Nat \ {0}
       /\ MaxTime \in Nat \ {0}
       /\ MaxCalls \in Nat

VARIABLES
    serverAds,   \* [Keys -> Entry \cup {NoAd}]: items of the TTL cache
    now,         \* the clock
    calls,       \* recordAd calls so far; call i names item, group and ctx i
    statUtils,   \* keys that have a serverStatUtil
    healthUtils, \* [Keys -> HealthUtil \cup {NoAd}]: healthTestUtils
    cancelled,   \* ids of cancelled probe contexts
    probes,      \* LaunchPeriodicDirectorTest goroutines not yet returned
    shutdown,    \* the director's root ctx is cancelled
    hs,          \* [Handlers -> local state of a recordAd call]
    pending      \* [Keys -> OnEviction callbacks started and not yet run]

vars == <<serverAds, now, calls, statUtils, healthUtils, cancelled, probes,
          shutdown, hs, pending>>

Ids == 1..MaxCalls
Entry == [topo: BOOLEAN, noTest: BOOLEAN, exp: 0..(2 * MaxTime), item: Ids]
HealthUtil == [grp: Ids, cancel: Ids]
Probe == [key: Keys, grp: Ids, ctx: Ids]
Existing == [key: Keys, val: Entry]
Pc == {"idle", "lookup", "decide", "set", "stat", "health"}
Local == [pc: Pc, key: Keys, topo: BOOLEAN, noTest: BOOLEAN,
          exp: 0..MaxTime, ttl: 0..MaxTime, step: 1..3,
          ex: Existing \cup {NoAd}, id: 0..MaxCalls]

IdleLocal == [pc |-> "idle", key |-> <<"https", CHOOSE x \in Hosts : TRUE>>,
              topo |-> FALSE, noTest |-> FALSE, exp |-> 0, ttl |-> 0,
              step |-> 1, ex |-> NoAd, id |-> 0]

TypeOK ==
    /\ serverAds \in [Keys -> Entry \cup {NoAd}]
    /\ now \in 1..MaxTime
    /\ calls \in 0..MaxCalls
    /\ statUtils \subseteq Keys
    /\ healthUtils \in [Keys -> HealthUtil \cup {NoAd}]
    /\ cancelled \subseteq Ids
    /\ probes \subseteq Probe
    /\ shutdown \in BOOLEAN
    /\ hs \in [Handlers -> Local]
    /\ pending \in [Keys -> 0..MaxCalls]

-----------------------------------------------------------------------------
(* The TTL cache: Get returns nil for an item whose expiration has passed, *)
(* although the item stays in the cache until the cleaner evicts it.       *)
Live(k) == serverAds[k] # NoAd /\ serverAds[k].exp > now

(* The http and https spellings of a URL (cache_ads.go:105-113).          *)
HttpURL(k) == <<"http", k[2]>>
HttpsURL(k) == <<"https", k[2]>>
LookupOrder(k) == <<HttpURL(k), HttpsURL(k), k>>

(* A probe goroutine's ctx is a child of its errgroup's ctx, itself a      *)
(* child of the root ctx.                                                  *)
Active(p) == p.ctx \notin cancelled /\ ~shutdown

(* serverAds removes the items under K (Delete, DeleteAll, or the         *)
(* cleaner's eviction of an expired item).  ttlcache v3 runs each          *)
(* OnEviction callback on a goroutine of its own: the removal only starts  *)
(* one callback per item removed (none for a key that holds no item),     *)
(* which TearDown runs later.                                             *)
Remove(K) ==
    /\ serverAds' = [k \in Keys |-> IF k \in K THEN NoAd ELSE serverAds[k]]
    /\ pending' = [k \in Keys |-> IF k \in K /\ serverAds[k] # NoAd
                                  THEN pending[k] + 1 ELSE pending[k]]

Goto(h, pc) == hs' = [hs EXCEPT ![h].pc = pc]
Return(h) == hs' = [hs EXCEPT ![h] = IdleLocal]

-----------------------------------------------------------------------------
(* A new recordAd call: the ad's URL is https for a Pelican server and the *)
(* topology's scheme for a topology server.                               *)
RecordAd(h) ==
    /\ hs[h].pc = "idle"
    /\ calls < MaxCalls
    /\ \E host \in Hosts, topo \in BOOLEAN, noTest \in BOOLEAN, exp \in 0..MaxTime :
          /\ topo => ~noTest
          /\ hs' = [hs EXCEPT ![h] =
                      [IdleLocal EXCEPT !.pc = "lookup",
                         !.key = IF topo THEN <<TopoScheme[host], host>>
                                         ELSE <<"https", host>>,
                         !.topo = topo, !.noTest = noTest, !.exp = exp,
                         !.id = calls + 1]]
    /\ calls' = calls + 1
    /\ UNCHANGED <<serverAds, now, statUtils, healthUtils, cancelled, probes, shutdown, pending>>

(* An ad with an empty URL is dropped before the cache is touched.         *)
RecordAdEmptyUrl(h) ==
    /\ hs[h].pc = "idle"
    /\ calls < MaxCalls
    /\ calls' = calls + 1
    /\ UNCHANGED <<serverAds, now, statUtils, healthUtils, cancelled, probes,
                   shutdown, hs, pending>>

(* existing := Get(httpURL), else Get(httpsURL), else Get(rawURL): three   *)
(* separate cache reads.                                                  *)
Lookup(h) ==
    LET l == hs[h]
        k == LookupOrder(l.key)[l.step]
    IN /\ l.pc = "lookup"
       /\ IF Live(k)
             THEN hs' = [hs EXCEPT ![h].ex = [key |-> k, val |-> serverAds[k]],
                                   ![h].pc = "decide"]
          ELSE IF l.step = 3
             THEN Goto(h, "decide")
          ELSE hs' = [hs EXCEPT ![h].step = l.step + 1]
       /\ UNCHANGED <<serverAds, now, calls, statUtils, healthUtils, cancelled,
                      probes, shutdown, pending>>

(* existing.Value(): the item read earlier, updated in place by any Set   *)
(* on its key while it stayed in the cache.                               *)
ExistingValue(ex) ==
    IF serverAds[ex.key] # NoAd /\ serverAds[ex.key].item = ex.val.item
       THEN serverAds[ex.key] ELSE ex.val

(* Mutant: time.Until(Expiration) used even when Expiration is zero.      *)
AdTTLNoDefault(l) == l.exp - now

(* The TTL handed to Set: time.Until(Expiration), or AdvertisementTTL      *)
(* when the ad carries no expiration.                                     *)
AdTTL(l) == IF l.exp = 0 THEN AdvertisementTTL ELSE l.exp - now

(* Mutant: the sibling ad found under the other scheme is never deleted.  *)
DecideNoDelete(h) ==
    LET l == hs[h] IN
    /\ l.pc = "decide"
    /\ IF l.exp # 0 /\ l.exp <= now
          THEN Return(h)
          ELSE hs' = [hs EXCEPT ![h].ttl = AdTTL(l), ![h].pc = "set"]
    /\ UNCHANGED <<serverAds, statUtils, healthUtils, cancelled, now, calls, probes, shutdown, pending>>

(* Mutant: a topology ad does not yield to the Pelican ad it found.        *)
DecideNoPrecedence(h) ==
    LET l == hs[h]
        replaceTopo == l.ex # NoAd /\ ~l.topo /\ ExistingValue(l.ex).topo
    IN /\ l.pc = "decide"
       /\ IF replaceTopo
             THEN Remove({l.ex.key})
             ELSE UNCHANGED <<serverAds, pending>>
       /\ IF l.exp # 0 /\ l.exp <= now
             THEN Return(h)
             ELSE hs' = [hs EXCEPT ![h].ttl = AdTTL(l), ![h].pc = "set"]
       /\ UNCHANGED <<now, calls, probes, shutdown, statUtils, healthUtils, cancelled>>

(* Topology precedence, then the TTL check.  A topology ad yields to a    *)
(* Pelican one; a Pelican ad deletes the topology one it found.  An ad     *)
(* that has already expired is dropped, after that deletion.              *)
Decide(h) ==
    LET l == hs[h]
        found == l.ex # NoAd
        cur == IF found THEN ExistingValue(l.ex) ELSE NoAd
        replaceTopo == found /\ ~l.topo /\ cur.topo
    IN /\ l.pc = "decide"
       /\ IF found /\ l.topo /\ ~cur.topo
             THEN /\ Return(h)
                  /\ UNCHANGED <<serverAds, pending>>
          ELSE /\ IF replaceTopo
                     THEN Remove({l.ex.key})
                     ELSE UNCHANGED <<serverAds, pending>>
               /\ IF l.exp # 0 /\ l.exp <= now
                     THEN Return(h)
                     ELSE hs' = [hs EXCEPT ![h].ttl = AdTTL(l), ![h].pc = "set"]
       /\ UNCHANGED <<now, calls, probes, shutdown, statUtils, healthUtils, cancelled>>

(* serverAds.Set(url, ad, ttl): a live item is updated in place, otherwise *)
(* a new item replaces whatever is stored under the key.                  *)
SetAd(h) ==
    LET l == hs[h]
        item == IF Live(l.key) THEN serverAds[l.key].item ELSE l.id
    IN /\ l.pc = "set"
       /\ serverAds' = [serverAds EXCEPT ![l.key] =
                          [topo |-> l.topo, noTest |-> l.noTest,
                           exp |-> now + l.ttl, item |-> item]]
       /\ Goto(h, "stat")
       /\ UNCHANGED <<now, calls, statUtils, healthUtils, cancelled, probes, shutdown, pending>>

(* Under statUtilsMutex: create the stat utility if the URL has none.  The *)
(* call then returns for a topology ad or one with DisableDirectorTest.    *)
StatUtil(h) ==
    LET l == hs[h] IN
    /\ l.pc = "stat"
    /\ statUtils' = statUtils \cup {l.key}
    /\ IF l.topo \/ l.noTest THEN Return(h) ELSE Goto(h, "health")
    /\ UNCHANGED <<serverAds, now, calls, healthUtils, cancelled, probes, shutdown, pending>>

(* A new errgroup (limit 1) with one probe under a fresh cancel ctx.       *)
NewHealthTest(l) ==
    /\ healthUtils' = [healthUtils EXCEPT ![l.key] = [grp |-> l.id, cancel |-> l.id]]
    /\ probes' = probes \cup {[key |-> l.key, grp |-> l.id, ctx |-> l.id]}
    /\ UNCHANGED cancelled

(* Existing, still-running errgroup: TryGo the new probe.  It starts only  *)
(* if the group's single slot is free; then the old cancel is called and   *)
(* replaced.  Otherwise the new ctx is cancelled and the old probe stays.  *)
RetryHealthTest(l) ==
    LET u == healthUtils[l.key] IN
    IF \E p \in probes : p.grp = u.grp
       THEN UNCHANGED <<healthUtils, probes, cancelled>>
       ELSE /\ probes' = probes \cup {[key |-> l.key, grp |-> u.grp, ctx |-> l.id]}
            /\ cancelled' = cancelled \cup {u.cancel}
            /\ healthUtils' = [healthUtils EXCEPT ![l.key].cancel = l.id]

(* Mutant: every call registers a new errgroup, ignoring an existing one. *)
HealthTestAlwaysNew(h) ==
    LET l == hs[h] IN
    /\ l.pc = "health"
    /\ NewHealthTest(l)
    /\ Return(h)
    /\ UNCHANGED <<serverAds, now, calls, statUtils, shutdown, pending>>

(* Under healthTestUtilsMutex.  An errgroup whose ctx is done (only after  *)
(* the root ctx is cancelled) is replaced by a new one.                   *)
HealthTest(h) ==
    LET l == hs[h] IN
    /\ l.pc = "health"
    /\ IF healthUtils[l.key] = NoAd \/ shutdown
          THEN NewHealthTest(l)
          ELSE RetryHealthTest(l)
    /\ Return(h)
    /\ UNCHANGED <<serverAds, now, calls, statUtils, shutdown, pending>>

-----------------------------------------------------------------------------
(* Environment of recordAd.                                                *)

(* A probe returns when its ctx is cancelled or, on its next cycle, when   *)
(* its server's ad is no longer in the cache.                             *)
ProbeExit(p) ==
    /\ p \in probes
    /\ ~Active(p) \/ ~Live(p.key)
    /\ probes' = probes \ {p}
    /\ UNCHANGED <<serverAds, now, calls, statUtils, healthUtils, cancelled, shutdown, hs, pending>>

(* The TTL cache's cleaner evicts an expired item.                        *)
Evict(k) ==
    /\ serverAds[k] # NoAd
    /\ serverAds[k].exp <= now
    /\ Remove({k})
    /\ UNCHANGED <<now, calls, statUtils, healthUtils, cancelled, probes, shutdown, hs>>

(* The eviction callback of serverAds (registered outside cache_ads.go),   *)
(* on its own goroutine: it cancels the health test registered under the  *)
(* URL now, and drops the URL's stat utility, whatever recordAd did for    *)
(* the URL since the item was evicted.                                    *)
TearDown(k) ==
    /\ pending[k] > 0
    /\ pending' = [pending EXCEPT ![k] = @ - 1]
    /\ statUtils' = statUtils \ {k}
    /\ cancelled' = IF healthUtils[k] # NoAd THEN cancelled \cup {healthUtils[k].cancel}
                    ELSE cancelled
    /\ healthUtils' = [healthUtils EXCEPT ![k] = NoAd]
    /\ UNCHANGED <<serverAds, now, calls, probes, shutdown, hs>>

(* ClearServerAds: serverAds.DeleteAll().                                 *)
ClearServerAds ==
    /\ \E k \in Keys : serverAds[k] # NoAd
    /\ Remove({k \in Keys : serverAds[k] # NoAd})
    /\ UNCHANGED <<now, calls, statUtils, healthUtils, cancelled, probes, shutdown, hs>>

Tick ==
    /\ now < MaxTime
    /\ now' = now + 1
    /\ UNCHANGED <<serverAds, calls, statUtils, healthUtils, cancelled, probes, shutdown, hs, pending>>

Shutdown ==
    /\ ~shutdown
    /\ shutdown' = TRUE
    /\ UNCHANGED <<serverAds, now, calls, statUtils, healthUtils, cancelled, probes, hs, pending>>

-----------------------------------------------------------------------------
Init ==
    /\ serverAds = [k \in Keys |-> NoAd]
    /\ now = 1
    /\ calls = 0
    /\ statUtils = {}
    /\ healthUtils = [k \in Keys |-> NoAd]
    /\ cancelled = {}
    /\ probes = {}
    /\ shutdown = FALSE
    /\ hs = [h \in Handlers |-> IdleLocal]
    /\ pending = [k \in Keys |-> 0]

Next ==
    \/ \E h \in Handlers :
          \/ RecordAd(h) \/ RecordAdEmptyUrl(h) \/ Lookup(h) \/ Decide(h)
          \/ SetAd(h) \/ StatUtil(h) \/ HealthTest(h)
    \/ \E p \in probes : ProbeExit(p)
    \/ \E k \in Keys : Evict(k) \/ TearDown(k)
    \/ ClearServerAds
    \/ Tick
    \/ Shutdown

Spec == Init /\ [][Next]_vars

-----------------------------------------------------------------------------
(* A handler between its Set and its return is still setting the server   *)
(* up; the properties below speak of servers no handler is working on.    *)
InFlight(k) == \E h \in Handlers : hs[h].pc \in {"set", "stat", "health"} /\ hs[h].key = k

ActiveProbes(k) == {p \in probes : p.key = k /\ Active(p)}

(* Spec 4.5: a single in-flight probe per server.  Refreshes of a live     *)
(* Pelican ad (TryGo on the errgroup of limit 1), evictions that cancel    *)
(* the probe and re-registrations that build a new errgroup must never     *)
(* leave two uncancelled LaunchPeriodicDirectorTest goroutines on one URL. *)
AtMostOneActiveProbe == \A k \in Keys : Cardinality(ActiveProbes(k)) <= 1

(* Every live Pelican ad that has not disabled director tests is being     *)
(* probed once its recordAd has returned: neither a refresh (TryGo refused *)
(* while the old probe is cancelled) nor the late OnEviction callback of   *)
(* an ad that recordAd deleted at the same URL strands the server without  *)
(* a health test; probes end only when their own ad expires.              *)
ProbeForEnabledAd ==
    \A k \in Keys :
        (/\ Live(k) /\ ~serverAds[k].topo /\ ~serverAds[k].noTest
         /\ ~InFlight(k) /\ ~shutdown)
        => ActiveProbes(k) # {}

(* Spec 3 / 8.2: at most one of http://h and https://h is in the store,    *)
(* whichever source registered them and in whichever order.               *)
IdentityUnique == \A h \in Hosts : ~(Live(<<"http", h>>) /\ Live(<<"https", h>>))

(* Spec 3: a Pelican-sourced ad supersedes a topology-sourced one and the  *)
(* reverse is ignored: no step turns a live Pelican ad into a topology ad. *)
PelicanNotReplacedByTopology ==
    [][\A k \in Keys :
         (Live(k) /\ ~serverAds[k].topo) => ~(serverAds'[k] # NoAd /\ serverAds'[k].topo)
      ]_vars

(* cache_ads.go:204-206: a server with DisableDirectorTest set is not      *)
(* health-tested.                                                         *)
DisabledServerNotProbed ==
    \A k \in Keys :
        (Live(k) /\ ~serverAds[k].topo /\ serverAds[k].noTest /\ ~InFlight(k))
        => ActiveProbes(k) = {}

(* cache_ads.go:192-193: a server's stat utility (and its ResultCache     *)
(* goroutine) is stopped when its ad is evicted, so no utility outlives   *)
(* the ad it was made for once recordAd has returned and the eviction     *)
(* callbacks started for the URL have run.                                *)
StatUtilTornDown ==
    \A k \in statUtils : serverAds[k] # NoAd \/ InFlight(k) \/ pending[k] > 0

=============================================================================
