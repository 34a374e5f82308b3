------------------------------- MODULE WebBridge -------------------------------
(***************************************************************************)
(* The requests to the web face of one installation: the HTTP handlers of  *)
(* crates/web-component (router.rs, quota.rs), the use cases behind them   *)
(* (crates/application/src/web.rs, web_app.rs, ports/web_quota.rs,         *)
(* ports/policy.rs) and the runtime they call, while the installation is   *)
(* upgraded and uninstalled.                                               *)
(*                                                                         *)
(* A handler runs on a thread of its own, and each of its reads of the     *)
(* registry, of a quota or of the instance set is atomic.  A request that  *)
(* disconnects is dropped only where the handler awaits, which is before   *)
(* it enters the gate: from there on a handler runs to its end, and the    *)
(* cancellation token it owns is never seen cancelled.                     *)
(*                                                                         *)
(* The three rates per minute are not counted: a request may be limited    *)
(* whenever it is checked.                                                 *)
(***************************************************************************)
EXTENDS Integers, Sequences, FiniteSets

CONSTANTS Requests,
          Mixes,           \* what the requests may ask for
          Digest,          \* the digests of the runtimes that are activated in turn
          GuardedPage,     \* the digests whose page has a required-permission
          MaxConcurrent,   \* slots of an instance set
          GateInFlight,    \* BridgeLimits.max_in_flight_per_installation
          QuotaConcurrent, \* WebQuotaLimits.max_concurrent
          QuotaQueued,     \* WebQuotaLimits.max_queued
          CacheEntries     \* RuntimeConfig.max_web_assets

Kinds == {"asset", "page", "route", "action"}
Runtimes == 1..Len(Digest)
Digests == {Digest[v] : v \in Runtimes}

ASSUME RequestsAssumption == IsFiniteSet(Requests)
ASSUME MixesAssumption == Mixes \subseteq [Requests -> Kinds]

None == "none"
Refused == "refused"   \* any status that carries no bytes of the component

ASSUME DigestAssumption ==
  /\ Len(Digest) \in Nat \ {0}
  /\ GuardedPage \subseteq Digests
  /\ {None, Refused} \cap Digests = {}
ASSUME LimitsAssumption ==
  {MaxConcurrent, GateInFlight, QuotaConcurrent, QuotaQueued, CacheEntries}
    \subseteq Nat \ {0}

VARIABLES
  active,   \* ActiveRuntimeRegistry.current: the runtime in the entry, or Nothing
  closed,   \* runtimes whose instance set was closed by drain
  cache,    \* AssetCache.entries: the asset by digest
  gate,     \* GateState.in_flight of QuotaGate
  quota,    \* QuotaWindow of InProcessWebQuota: queued and in_flight
  kind,     \* what each request asks for
  at,       \* where each request is
  url,      \* the digest in the URL of an asset request
  seen,     \* the runtime of the entry the handler holds
  answer,   \* what was answered
  sawActive \* digests that were active during the request (observation only)

siteVars == <<active, closed>>
requestVars == <<kind, at, url, seen, answer>>
vars == <<siteVars, cache, gate, quota, requestVars, sawActive>>

Nothing == 0
IsActive == active # Nothing

\* Where a request is: before the registry is read for the entry, in an instance,
\* at one of the quotas, or at its end.
Places == {"new", "guarded", "declared", "checked", "missed", "reading", "matched",
           "inside", "bound", "admitted", "begun", "calling", "returned", "answered"}

Runs(v) == {r \in Requests : at[r] \in {"reading", "calling"} /\ seen[r] = v}

\* try_dispatch on the instance set of the entry the handler holds.
SlotFree(v) == v \notin closed /\ Cardinality(Runs(v)) < MaxConcurrent

Goes(r, place) == at' = [at EXCEPT ![r] = place]
\* The response, and the drop of the entry.
Answers(r, what) ==
  /\ Goes(r, "answered")
  /\ answer' = [answer EXCEPT ![r] = what]
  /\ seen' = [seen EXCEPT ![r] = Nothing]

Stays(r) == UNCHANGED <<seen, answer>>

NoSideEffect == UNCHANGED <<kind, url, siteVars, cache, gate, quota, sawActive>>

-----------------------------------------------------------------------------
(* Assets and pages. *)

\* asset: the digest of the URL must be the active one.
AssetChecks(r) ==
  /\ at[r] = "new"
  /\ kind[r] = "asset"
  /\ \E d \in Digests :
       /\ url' = [url EXCEPT ![r] = d]
       /\ IF IsActive /\ Digest[active] = d
          THEN Goes(r, "checked") /\ Stays(r)
          ELSE Answers(r, Refused)
  /\ UNCHANGED <<kind, siteVars, cache, gate, quota, sawActive>>

\* page: the page must be declared by the active version.
PageDeclared(r) ==
  /\ at[r] = "new"
  /\ kind[r] = "page"
  /\ IF IsActive
     THEN Goes(r, IF Digest[active] \in GuardedPage THEN "guarded" ELSE "declared") /\ Stays(r)
     ELSE Answers(r, Refused)
  /\ NoSideEffect

\* check_page_access reads the registry again and asks the policy.
PageAuthorized(r) ==
  /\ at[r] = "guarded"
  /\ \/ Answers(r, Refused)
     \/ IsActive /\ Goes(r, "declared") /\ Stays(r)
  /\ NoSideEffect

\* page: the installation must still be active.
PageActive(r) ==
  /\ at[r] = "declared"
  /\ IF IsActive THEN Goes(r, "checked") /\ Stays(r) ELSE Answers(r, Refused)
  /\ NoSideEffect

HitsByPath == cache

\* AssetCache::get
Hits == {c \in cache : c.digest = Digest[active]}

\* WebBridge::read_asset reads the registry, for the entry, and the cache.
AssetLooksUp(r) ==
  /\ at[r] = "checked"
  /\ \/ ~IsActive /\ Answers(r, Refused)
     \/ IsActive /\ \E c \in Hits : Answers(r, c.bytes)
     \/ /\ IsActive
        /\ Hits = {}
        /\ Goes(r, "missed")
        /\ seen' = [seen EXCEPT ![r] = active]
        /\ UNCHANGED answer
  /\ NoSideEffect

\* ActiveRuntime::read_asset takes a lease or is Busy.
AssetLeases(r) ==
  /\ at[r] = "missed"
  /\ IF SlotFree(seen[r]) THEN Goes(r, "reading") /\ Stays(r) ELSE Answers(r, Refused)
  /\ NoSideEffect

\* The guest answers; the lease is dropped and register admits the bytes to the
\* cache when they are new and there is room.  A guest may fail as well.
AssetRead(r) ==
  /\ at[r] = "reading"
  /\ \/ Answers(r, Refused) /\ UNCHANGED cache
     \/ LET asset == [digest |-> Digest[seen[r]], bytes |-> Digest[seen[r]]] IN
        /\ Answers(r, asset.bytes)
        /\ IF /\ Cardinality(cache) < CacheEntries
              /\ \A c \in cache : c.digest # asset.digest
           THEN cache' = cache \cup {asset}
           ELSE UNCHANGED cache
  /\ UNCHANGED <<kind, url, siteVars, gate, quota, sawActive>>

-----------------------------------------------------------------------------
(* Routes and actions. *)

\* route_dispatch matches the path against the declaration of the active version.
RouteMatched(r) ==
  /\ at[r] = "new"
  /\ kind[r] = "route"
  /\ \/ IsActive /\ Goes(r, "matched") /\ Stays(r)
     \/ Answers(r, Refused)
  /\ NoSideEffect

AwaitsBody(r) == at[r] = "matched" \/ (at[r] = "new" /\ kind[r] = "action")

\* A client disconnects while the handler awaits the body.
Disconnects(r) ==
  /\ AwaitsBody(r)
  /\ Answers(r, Refused)
  /\ NoSideEffect

\* QuotaGate::enter: the rate of the minute, then the concurrency.
EntersGate(r) ==
  /\ AwaitsBody(r)
  /\ \/ Answers(r, Refused) /\ UNCHANGED gate
     \/ /\ gate < GateInFlight
        /\ gate' = gate + 1
        /\ Goes(r, "inside")
        /\ Stays(r)
  /\ UNCHANGED <<kind, url, siteVars, cache, quota, sawActive>>

\* The handler is about to drop the guard of the gate.
Returns(r, what) ==
  /\ Goes(r, "returned")
  /\ answer' = [answer EXCEPT ![r] = what]
  /\ seen' = [seen EXCEPT ![r] = Nothing]

\* dispatch_route and invoke_action hold one entry from here on; the checks on
\* it (route, permission or grant, parameters, body) may refuse the request.
BindsEntry(r) ==
  /\ at[r] = "inside"
  /\ \/ Returns(r, Refused)
     \/ /\ IsActive
        /\ seen' = [seen EXCEPT ![r] = active]
        /\ Goes(r, "bound")
        /\ UNCHANGED answer
  /\ NoSideEffect

HasRoom == quota.queued < QuotaQueued /\ quota.inFlight + quota.queued < QuotaConcurrent

\* InProcessWebQuota::admit: rate, queue, concurrency.
Admitted(r) ==
  /\ at[r] = "bound"
  /\ kind[r] = "route"
  /\ \/ Returns(r, Refused) /\ UNCHANGED quota
     \/ /\ HasRoom
        /\ quota' = [quota EXCEPT !.queued = @ + 1]
        /\ Goes(r, "admitted")
        /\ Stays(r)
  /\ UNCHANGED <<kind, url, siteVars, cache, gate, sawActive>>

\* InProcessActionPolicy::check_rate
ActionChecked(r) ==
  /\ at[r] = "bound"
  /\ kind[r] = "action"
  /\ Returns(r, Refused) \/ (Goes(r, "begun") /\ Stays(r))
  /\ NoSideEffect

\* WebQuotaGuard::begin: the queue slot becomes an execution slot.
BeginsCall(r) ==
  /\ at[r] = "admitted"
  /\ quota' = [quota EXCEPT !.queued = @ - 1, !.inFlight = @ + 1]
  /\ Goes(r, "begun")
  /\ Stays(r)
  /\ UNCHANGED <<kind, url, siteVars, cache, gate, sawActive>>

FreesQueueSlot(r) == IF kind[r] = "route" THEN [quota EXCEPT !.queued = @ - 1] ELSE quota

\* The drop of a WebQuotaGuard that has begun.
FreesQuota(r) == IF kind[r] = "route" THEN [quota EXCEPT !.inFlight = @ - 1] ELSE quota

\* The runtime has no slot, or is closed: Busy, and the guards are dropped.
CallRefused(r) ==
  /\ at[r] = "begun"
  /\ ~SlotFree(seen[r])
  /\ quota' = FreesQuota(r)
  /\ Returns(r, Refused)
  /\ UNCHANGED <<kind, url, siteVars, cache, gate, sawActive>>

CallStarts(r) ==
  /\ at[r] = "begun"
  /\ SlotFree(seen[r])
  /\ Goes(r, "calling")
  /\ Stays(r)
  /\ NoSideEffect

\* The guest returns, or traps, or meets its deadline.
CallEnds(r) ==
  /\ at[r] = "calling"
  /\ quota' = FreesQuota(r)
  /\ Returns(r, Digest[seen[r]]) \/ Returns(r, Refused)
  /\ UNCHANGED <<kind, url, siteVars, cache, gate, sawActive>>

\* The drop of the QuotaGuard.
LeavesGate(r) ==
  /\ at[r] = "returned"
  /\ gate' = gate - 1
  /\ Goes(r, "answered")
  /\ Stays(r)
  /\ UNCHANGED <<kind, url, siteVars, cache, quota, sawActive>>

-----------------------------------------------------------------------------
(* Upgrades, rollbacks and the removal. *)

\* What the requests have seen once the active digests are these.
Watched(now) == [r \in Requests |->
                   CASE at[r] = "new" -> now
                     [] at[r] = "answered" -> sawActive[r]
                     [] OTHER -> sawActive[r] \cup now]

\* An upgrade or a rollback ends with ActiveRuntimeRegistry::swap.
Swap ==
  /\ IsActive
  /\ active < Len(Digest)
  /\ active' = active + 1
  /\ sawActive' = Watched({Digest[active + 1]})
  /\ UNCHANGED <<closed, cache, gate, quota, requestVars>>

\* drain_previous, or the drain of an uninstallation, closes the set.
Drain(v) ==
  /\ v <= active
  /\ v \notin closed
  /\ closed' = closed \cup {v}
  /\ UNCHANGED <<active, cache, gate, quota, requestVars, sawActive>>

\* ActiveRuntimeRegistry::remove follows the drain of the entry read before.
Remove ==
  /\ IsActive
  /\ closed # {}
  /\ active' = Nothing
  /\ sawActive' = Watched({})
  /\ UNCHANGED <<closed, cache, gate, quota, requestVars>>

-----------------------------------------------------------------------------
Init ==
  /\ active = 1
  /\ closed = {}
  /\ cache = {}
  /\ gate = 0
  /\ quota = [queued |-> 0, inFlight |-> 0]
  /\ kind \in Mixes
  /\ at = [r \in Requests |-> "new"]
  /\ url = [r \in Requests |-> None]
  /\ seen = [r \in Requests |-> Nothing]
  /\ answer = [r \in Requests |-> None]
  /\ sawActive = [r \in Requests |-> {Digest[1]}]

Handles(r) ==
  \/ AssetChecks(r) \/ PageDeclared(r) \/ PageAuthorized(r) \/ PageActive(r)
  \/ AssetLooksUp(r) \/ AssetLeases(r) \/ AssetRead(r)
  \/ RouteMatched(r) \/ EntersGate(r) \/ BindsEntry(r) \/ Admitted(r) \/ ActionChecked(r)
  \/ BeginsCall(r) \/ CallRefused(r) \/ CallStarts(r) \/ CallEnds(r) \/ LeavesGate(r)

Next ==
  \/ \E r \in Requests : Handles(r) \/ Disconnects(r)
  \/ Swap
  \/ \E v \in Runtimes : Drain(v)
  \/ Remove

Spec == Init /\ [][Next]_vars

-----------------------------------------------------------------------------
In(places) == {r \in Requests : at[r] \in places}

TypeOK ==
  /\ active \in Runtimes \cup {Nothing}
  /\ closed \subseteq Runtimes
  /\ kind \in [Requests -> Kinds]
  /\ at \in [Requests -> Places]
  /\ answer \in [Requests -> Digests \cup {None, Refused}]
  /\ cache \subseteq [digest : Digests, bytes : Digests]
  /\ gate \in 0..GateInFlight
  /\ quota \in [queued : 0..QuotaQueued, inFlight : 0..QuotaConcurrent]
  /\ url \in [Requests -> Digests \cup {None}]
  /\ seen \in [Requests -> Runtimes \cup {Nothing}]
  /\ sawActive \in [Requests -> SUBSET Digests]

\* What a request is answered with, from the cache or by a guest, are the bytes
\* of a digest that was active at some moment of the request, and of the digest
\* they are cached under, through upgrades, rollbacks to a digest that ran before
\* and a removal (read_asset, AssetCache, invoke_action, dispatch_route).
ServedWasActive ==
  \A r \in Requests : answer[r] \in Digests => answer[r] \in sawActive[r]

\* Every slot of the two quotas is held by a request that is between the
\* matching enter and drop: none is lost or returned twice, whichever step
\* refuses the request, and the limits hold (QuotaGate, InProcessWebQuota).
SlotsComeBack ==
  /\ gate =
       Cardinality(In({"inside", "bound", "admitted", "begun", "calling", "returned"}))
  /\ quota.queued = Cardinality(In({"admitted"}))
  /\ quota.inFlight =
       Cardinality({r \in In({"begun", "calling"}) : kind[r] = "route"})
  /\ quota.queued + quota.inFlight <= QuotaConcurrent
=============================================================================
