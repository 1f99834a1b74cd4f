----------------------------- MODULE SpecRefresh -----------------------------
(***************************************************************************)
(* pkg/upstream/http/refresh.go composed with the Manager: one background  *)
(* goroutine per URL-based upstream re-fetches its spec, hands the new     *)
(* tools to the Manager, and takes the upstream out of service after       *)
(* MaxRefreshFailures consecutive failures, while config reloads go on.    *)
(* pkg/mcpanything/proxy.go starts it: first Rebuild, then the refreshers. *)
(*                                                                         *)
(* The environment: spec servers that change revision and come and go.     *)
(* reachable[u] means that a fetch of u's spec (and overlay) succeeds and  *)
(* that what it returns gets through the pipeline.                         *)
(***************************************************************************)
EXTENDS Manager, Naturals

CONSTANTS Refreshed,           \* upstreams with a URL spec and an interval
          MaxRefreshFailures,  \* 0: never taken out of service
          OverlayKinds         \* the kinds of overlay upstreams may have

ASSUME RefreshConstants ==
  /\ Refreshed \subseteq Upstreams
  /\ MaxRefreshFailures \in Nat
  /\ OverlayKinds \subseteq SUBSET BOOLEAN

(***************************************************************************)
(* An overlay kind is the set of answers shouldRefreshOverlay may give:    *)
(* {FALSE} without an overlay, {TRUE} with one re-read every cycle (or a   *)
(* spec server that sends no ETag, which is re-read the same way), both    *)
(* with one that has an interval of its own.                               *)
(***************************************************************************)
VARIABLES overlayDue,  \* each upstream's overlay kind, fixed at startup
          running,     \* proxy.New has returned: refreshers and watcher run
          pc,          \* where each refresher is
          snap,        \* revision (ETag) of the refresher's current snapshot
          got,         \* revision fetched in this cycle
          failures, degraded,
          specRev,     \* revision each spec server serves
          reachable,
          probe,       \* what a readiness probe of each upstream has loaded
          misled       \* probes told healthy since the tools were taken out

loopVars == <<overlayDue, running, pc, snap, got, failures, degraded>>
envVars == <<specRev, reachable>>
probeVars == <<probe, misled>>
vars == <<mgrVars, loopVars, envVars, probeVars>>

Steps == {"off", "idle", "fetched", "published", "cleared", "failed",
          "removing", "removed", "degraded"}

TypeOK ==
  /\ MgrTypeOK
  /\ overlayDue \in [Upstreams -> OverlayKinds]
  /\ running \in BOOLEAN
  /\ pc \in [Upstreams -> Steps]
  /\ snap \in [Upstreams -> Revisions]
  /\ got \in [Upstreams -> Revisions]
  /\ failures \in [Upstreams -> Nat]
  /\ MaxRefreshFailures > 0 =>
       \A u \in Upstreams : failures[u] <= MaxRefreshFailures
  /\ degraded \in [Upstreams -> BOOLEAN]
  /\ specRev \in [Upstreams -> Revisions]
  /\ reachable \in [Upstreams -> BOOLEAN]
  /\ probe \in [Upstreams -> {"none", "loaded"}]
  /\ misled \in [Upstreams -> Nat]

(* What an upstream that is not refreshed has, once and for all.           *)
FixedRevision == CHOOSE r \in Revisions : TRUE

Init ==
  /\ MgrInit
  /\ overlayDue \in [Upstreams -> OverlayKinds]
  /\ running = FALSE
  /\ pc = [u \in Upstreams |-> "off"]
  /\ specRev \in [Upstreams -> Revisions]
  /\ \A u \in Upstreams \ Refreshed : specRev[u] = FixedRevision
  /\ snap = specRev
  /\ got = specRev
  /\ failures = [u \in Upstreams |-> 0]
  /\ degraded = [u \in Upstreams |-> FALSE]
  /\ reachable = [u \in Upstreams |-> TRUE]
  /\ probe = [u \in Upstreams |-> "none"]
  /\ misled = [u \in Upstreams |-> 0]

Registered(u) == \E e \in registry.entries : e.up = u

Goto(u, step) == pc' = [pc EXCEPT ![u] = step]

-------------------------------------------------------------------------------
(* The spec servers.                                                       *)
ServerRevises(u) ==
  /\ \E r \in Revisions \ {specRev[u]} : specRev' = [specRev EXCEPT ![u] = r]
  /\ UNCHANGED <<mgrVars, loopVars, reachable, probeVars>>

ServerToggles(u) ==
  /\ reachable' = [reachable EXCEPT ![u] = ~@]
  /\ UNCHANGED <<mgrVars, loopVars, specRev, probeVars>>

(***************************************************************************)
(* Reload: Rebuild fetches what the servers serve.  The first one is       *)
(* proxy.New's; the watcher starts only once New has returned.             *)
(***************************************************************************)
ReloadPrepare(p, cfg) ==
  /\ \A u \in cfg.ups : reachable[u]
  /\ running \/ (~initialised /\ \A q \in Reloaders : rebuild[q] = {})
  /\ RebuildPrepare(p, cfg, specRev)
  /\ UNCHANGED <<loopVars, envVars, probeVars>>

ReloadCommit(p) ==
  /\ RebuildCommit(p)
  /\ UNCHANGED <<loopVars, envVars, probeVars>>

(***************************************************************************)
(* buildRefreshers: each refresher of an enabled upstream loads its first  *)
(* snapshot, without telling the Manager.  Refreshers are made here only.  *)
(***************************************************************************)
BuildRefreshers ==
  /\ initialised /\ ~running
  /\ LET us == Refreshed \cap configured IN
       /\ \A u \in us : reachable[u]
       /\ snap' = [u \in Upstreams |-> IF u \in us THEN specRev[u] ELSE snap[u]]
       /\ pc' = [u \in Upstreams |-> IF u \in us THEN "idle" ELSE pc[u]]
  /\ running' = TRUE
  /\ UNCHANGED <<mgrVars, overlayDue, got, failures, degraded,
                 envVars, probeVars>>

-------------------------------------------------------------------------------
(***************************************************************************)
(* refresh, up to the point where it has a new snapshot in hand.  A 304    *)
(* with no overlay due ends the cycle with success.                        *)
(***************************************************************************)
FetchFails(u) ==
  /\ pc[u] = "idle"
  /\ ~reachable[u]
  /\ Goto(u, "failed")
  /\ UNCHANGED <<mgrVars, overlayDue, running, snap, got, failures, degraded,
                 envVars, probeVars>>

NotModified(u) ==
  /\ pc[u] = "idle"
  /\ reachable[u]
  /\ specRev[u] = snap[u]
  /\ FALSE \in overlayDue[u]
  /\ failures' = [failures EXCEPT ![u] = 0]
  /\ UNCHANGED <<mgrVars, overlayDue, running, pc, snap, got, degraded,
                 envVars, probeVars>>


Fetch(u) ==
  /\ pc[u] = "idle"
  /\ reachable[u]
  /\ specRev[u] # snap[u] \/ TRUE \in overlayDue[u]
  /\ got' = [got EXCEPT ![u] = specRev[u]]
  /\ Goto(u, "fetched")
  /\ UNCHANGED <<mgrVars, overlayDue, running, snap, failures, degraded,
                 envVars, probeVars>>

(* Step 7: UpdateUpstream, before the snapshot advances.                   *)
Publish(u) ==
  /\ pc[u] = "fetched"
  /\ UpdateUpstream(u, got[u])
  /\ Goto(u, IF UpdateSucceeds(u, got[u]) THEN "published" ELSE "failed")
  /\ UNCHANGED <<overlayDue, running, snap, got, failures, degraded,
                 envVars, probeVars>>


ClearDegraded(u) ==
  /\ pc[u] = "published"
  /\ degraded' = [degraded EXCEPT ![u] = FALSE]
  /\ Goto(u, "cleared")
  /\ UNCHANGED <<mgrVars, overlayDue, running, snap, got, failures,
                 envVars, probeVars>>

(* Step 8, and the loop's failures.Store(0).                               *)
StoreSnapshot(u) ==
  /\ pc[u] = "cleared"
  /\ snap' = [snap EXCEPT ![u] = got[u]]
  /\ failures' = [failures EXCEPT ![u] = 0]
  /\ Goto(u, "idle")
  /\ UNCHANGED <<mgrVars, overlayDue, running, got, degraded,
                 envVars, probeVars>>

(* The loop after an error.                                                *)
CountFailure(u) ==
  /\ pc[u] = "failed"
  /\ failures' = [failures EXCEPT ![u] = @ + 1]
  /\ Goto(u, IF MaxRefreshFailures > 0 /\ failures[u] + 1 >= MaxRefreshFailures
             THEN "removing" ELSE "idle")
  /\ UNCHANGED <<mgrVars, overlayDue, running, snap, got, degraded,
                 envVars, probeVars>>

TakeOut(u) ==
  /\ pc[u] = "removing"
  /\ RemoveUpstream(u)
  /\ Goto(u, "removed")
  /\ misled' = [misled EXCEPT ![u] = IF Registered(u) THEN 0 ELSE @]
  /\ UNCHANGED <<overlayDue, running, snap, got, failures, degraded,
                 envVars, probe>>

(* degraded.Store(true) comes before failures.Store(0).                    *)
ResetThenMark(u) ==
  /\ pc[u] = "removed"
  /\ IF failures[u] > 0
     THEN failures' = [failures EXCEPT ![u] = 0] /\ UNCHANGED <<pc, degraded>>
     ELSE /\ degraded' = [degraded EXCEPT ![u] = TRUE]
          /\ Goto(u, "degraded")
          /\ UNCHANGED failures
  /\ UNCHANGED <<mgrVars, overlayDue, running, snap, got, envVars, probeVars>>

MarkDegraded(u) ==
  /\ pc[u] = "removed"
  /\ degraded' = [degraded EXCEPT ![u] = TRUE]
  /\ Goto(u, "degraded")
  /\ UNCHANGED <<mgrVars, overlayDue, running, snap, got, failures,
                 envVars, probeVars>>

ResetFailuresForgotten(u) ==
  /\ pc[u] = "degraded"
  /\ Goto(u, "idle")
  /\ UNCHANGED <<mgrVars, overlayDue, running, snap, got, failures, degraded,
                 envVars, probeVars>>

ResetFailures(u) ==
  /\ pc[u] = "degraded"
  /\ failures' = [failures EXCEPT ![u] = 0]
  /\ Goto(u, "idle")
  /\ UNCHANGED <<mgrVars, overlayDue, running, snap, got, degraded,
                 envVars, probeVars>>

RefresherStep(u) ==
  \/ FetchFails(u) \/ NotModified(u) \/ Fetch(u)
  \/ Publish(u) \/ ClearDegraded(u) \/ StoreSnapshot(u)
  \/ CountFailure(u) \/ TakeOut(u) \/ MarkDegraded(u) \/ ResetFailures(u)

(***************************************************************************)
(* IsHealthy, which /readyz asks: two atomic loads, with any number of the *)
(* refresher's steps in between.  The probes are those of one prober, one  *)
(* after the other; probes change nothing, so it stands for any of them.   *)
(***************************************************************************)
LoadDegraded(u) ==
  /\ pc[u] # "off" /\ probe[u] = "none"
  /\ ~degraded[u]
  /\ probe' = [probe EXCEPT ![u] = "loaded"]
  /\ UNCHANGED <<mgrVars, loopVars, envVars, misled>>

BelowMaximum(u) == MaxRefreshFailures = 0 \/ failures[u] < MaxRefreshFailures

LoadFailures(u) ==
  /\ probe[u] = "loaded"
  /\ probe' = [probe EXCEPT ![u] = "none"]
  /\ misled' = IF BelowMaximum(u) /\ u \in configured /\ ~Registered(u)
               THEN [misled EXCEPT ![u] = @ + 1] ELSE misled
  /\ UNCHANGED <<mgrVars, loopVars, envVars>>

Next ==
  \/ \E u \in Refreshed : RefresherStep(u)
  \/ \E u \in Refreshed : LoadDegraded(u) \/ LoadFailures(u)
  \/ \E u \in Refreshed : ServerRevises(u) \/ ServerToggles(u)
  \/ \E p \in Reloaders, cfg \in Configs : ReloadPrepare(p, cfg)
  \/ \E p \in Reloaders : ReloadCommit(p)
  \/ BuildRefreshers

(***************************************************************************)
(* Each refresher goroutine keeps ticking, and a Rebuild that holds its    *)
(* result gets the lock: nobody keeps m.mu.                                *)
(***************************************************************************)
Fairness ==
  /\ \A u \in Refreshed : WF_vars(RefresherStep(u))
  /\ \A p \in Reloaders : WF_vars(ReloadCommit(p))

Spec == Init /\ [][Next]_vars
FairSpec == Spec /\ Fairness

-------------------------------------------------------------------------------
(***************************************************************************)
(* /readyz is wrong about a removed upstream at most once per prober:      *)
(* however the two loads of IsHealthy fall between RemoveUpstream,         *)
(* degraded.Store(true) and failures.Store(0), and whatever reloads do     *)
(* meanwhile, no prober is told twice that an enabled upstream is healthy  *)
(* while its tools are out, until they have come back and go out anew.     *)
(***************************************************************************)
AtMostOneFalseReady == \A u \in Refreshed : misled[u] <= 1

(* What a probe answers when the refresher takes no step meanwhile.        *)
Healthy(u) == ~degraded[u] /\ BelowMaximum(u)

(* The registry routes calls to the tools of revision r of u's spec.       *)
Serves(u, r) ==
  Registered(u) /\ \A e \in registry.entries : e.up = u => e.rev = r



(***************************************************************************)
(* refresh.go:115-117 says of a degraded upstream: "When the spec server   *)
(* recovers, refresh() will succeed and call UpdateUpstream,               *)
(* re-registering the upstream's tools".                                   *)
(***************************************************************************)
RecoversWhenReachable ==
  \A u \in Refreshed : <>[]reachable[u] => []<>Healthy(u)

(***************************************************************************)
(* config.go:439-444: a rate limit applies "to every tool from this        *)
(* upstream" and "all tool calls for this upstream are wrapped with        *)
(* circuit breaking".                                                      *)
(***************************************************************************)
PoliciesKept == \A e \in registry.entries : e.policies

===============================================================================
