---------------------------- MODULE ProxyProofs ----------------------------
(***************************************************************************)
(* The two systems that contain the Manager: with the refreshers and their *)
(* spec servers (SpecRefresh), and with the config file, its watcher and   *)
(* the reloads it starts (ConfigLoader).  Both implement the Manager's     *)
(* specification, so that everything proved of the Manager holds of the    *)
(* running proxy; and each has invariants of its own.                      *)
(***************************************************************************)
EXTENDS SpecRefresh, ConfigLoader, ManagerProofs

-------------------------------------------------------------------------------
(* The refreshers.                                                         *)

(* The revisions a refresher or a reload hands on are revisions.           *)
RevisionsOK ==
  /\ specRev \in [Upstreams -> Revisions]
  /\ got \in [Upstreams -> Revisions]

LEMMA RevisionsInv == Spec => []RevisionsOK
<1>1. Init => RevisionsOK
  BY DEF Init, RevisionsOK
<1>2. RevisionsOK /\ [Next]_vars => RevisionsOK'
  <2> SUFFICES ASSUME RevisionsOK, [Next]_vars PROVE RevisionsOK'
    OBVIOUS
  <2> USE DEF RevisionsOK
  <2>1. ASSUME NEW u \in Refreshed, RefresherStep(u) PROVE RevisionsOK'
    <3>1. CASE Fetch(u)
      BY <3>1, RefreshConstants DEF Fetch, envVars
    <3>2. CASE ~Fetch(u)
      BY <2>1, <3>2 DEF RefresherStep, FetchFails, NotModified, Publish,
         ClearDegraded, StoreSnapshot, CountFailure, TakeOut, MarkDegraded,
         ResetFailures, envVars
    <3>3. QED
      BY <3>1, <3>2
  <2>2. ASSUME NEW u \in Refreshed, ServerRevises(u) \/ ServerToggles(u)
        PROVE  RevisionsOK'
    BY <2>2 DEF ServerRevises, ServerToggles, loopVars
  <2>3. ASSUME NEW p \in Reloaders, NEW cfg \in Configs, ReloadPrepare(p, cfg)
        PROVE  RevisionsOK'
    BY <2>3 DEF ReloadPrepare, loopVars, envVars
  <2>4. ASSUME NEW p \in Reloaders, ReloadCommit(p) PROVE RevisionsOK'
    BY <2>4 DEF ReloadCommit, loopVars, envVars
  <2>5. CASE BuildRefreshers
    BY <2>5 DEF BuildRefreshers, envVars
  <2>6. CASE UNCHANGED vars
    BY <2>6 DEF vars, loopVars, envVars
  <2>7. ASSUME NEW u \in Refreshed, LoadDegraded(u) \/ LoadFailures(u) PROVE RevisionsOK'
    BY <2>7 DEF LoadDegraded, LoadFailures, loopVars, envVars
  <2>8. QED
    BY <2>1, <2>2, <2>3, <2>4, <2>5, <2>6, <2>7 DEF Next
<1>3. QED
  BY <1>1, <1>2, PTL DEF Spec

(* Every step of the composed system is a step of the Manager or none.     *)
LEMMA ManagerStep == RevisionsOK /\ [Next]_vars => [MgrNext]_mgrVars
<1> SUFFICES ASSUME RevisionsOK, [Next]_vars PROVE [MgrNext]_mgrVars
  OBVIOUS
<1>1. ASSUME NEW u \in Refreshed, RefresherStep(u) PROVE [MgrNext]_mgrVars
  <2>1. u \in Upstreams /\ got[u] \in Revisions
    BY RefreshConstants DEF RevisionsOK
  <2>2. CASE Publish(u)
    BY <2>1, <2>2 DEF Publish, MgrNext
  <2>3. CASE TakeOut(u)
    BY <2>1, <2>3 DEF TakeOut, MgrNext
  <2>4. CASE ~Publish(u) /\ ~TakeOut(u)
    BY <1>1, <2>4 DEF RefresherStep, FetchFails, NotModified, Fetch, ClearDegraded,
       StoreSnapshot, CountFailure, MarkDegraded, ResetFailures
  <2>5. QED
    BY <2>2, <2>3, <2>4
<1>2. ASSUME NEW u \in Refreshed, ServerRevises(u) \/ ServerToggles(u)
      PROVE  [MgrNext]_mgrVars
  BY <1>2 DEF ServerRevises, ServerToggles
<1>3. ASSUME NEW p \in Reloaders, NEW cfg \in Configs, ReloadPrepare(p, cfg)
      PROVE  [MgrNext]_mgrVars
  BY <1>3 DEF ReloadPrepare, MgrNext, RevisionsOK
<1>4. ASSUME NEW p \in Reloaders, ReloadCommit(p) PROVE [MgrNext]_mgrVars
  BY <1>4 DEF ReloadCommit, MgrNext
<1>5. CASE BuildRefreshers
  BY <1>5 DEF BuildRefreshers
<1>6. CASE UNCHANGED vars
  BY <1>6 DEF vars
<1>7. ASSUME NEW u \in Refreshed, LoadDegraded(u) \/ LoadFailures(u)
      PROVE  [MgrNext]_mgrVars
  BY <1>7 DEF LoadDegraded, LoadFailures
<1>8. QED
  BY <1>1, <1>2, <1>3, <1>4, <1>5, <1>6, <1>7 DEF Next

(***************************************************************************)
(* The proxy with its refreshers and reloads implements the Manager's      *)
(* specification: nothing it does escapes what was proved of the Manager.  *)
(***************************************************************************)
THEOREM ImplementsManager == Spec => MgrSpec
<1>1. Init => MgrInit
  BY DEF Init
<1>2. QED
  BY <1>1, ManagerStep, RevisionsInv, PTL DEF Spec, MgrSpec

(***************************************************************************)
(* Refreshes, removals and reloads interleave without breaking the routing *)
(* table or what the group servers register.                               *)
(***************************************************************************)
THEOREM RunningProxySafe == Spec => [](RegistryWellFormed /\ GroupToolsServed)
BY ImplementsManager, RoutingSound, ToolsServed, PTL

-------------------------------------------------------------------------------
(***************************************************************************)
(* The failure counter of a refresher is below the threshold except while  *)
(* the upstream is being taken out, and it is not put back to zero before  *)
(* the upstream is marked degraded.  No refresher runs before New returns. *)
(***************************************************************************)
CountsOK ==
  /\ ~running => \A u \in Upstreams : pc[u] = "off"
  /\ \A u \in Upstreams :
      /\ pc[u] \in {"removing", "removed"} =>
           MaxRefreshFailures > 0 /\ failures[u] = MaxRefreshFailures
      /\ pc[u] = "degraded" => degraded[u]
      /\ MaxRefreshFailures > 0 /\ pc[u] \notin {"removing", "removed", "degraded"} =>
           failures[u] < MaxRefreshFailures

(* A build that waits for the lock has tools for each upstream it enables. *)
BuildsCover ==
  \A p \in Reloaders : \A b \in rebuild[p] : \A u \in b.ups :
    \E e \in b.entries : e.up = u

(***************************************************************************)
(* The tools of an upstream are in before its refresher starts and from    *)
(* UpdateUpstream until the degraded flag is cleared; when they are out,   *)
(* an undisturbed probe says so.                                           *)
(***************************************************************************)
OutMeansUnhealthy ==
  \A u \in Refreshed \cap configured :
    Registered(u) \/ (pc[u] \notin {"off", "published"} /\ ~Healthy(u))

(***************************************************************************)
(* AtMostOneFalseReady, strengthened: while the tools are still out after  *)
(* a probe was told otherwise, the degraded flag is up and no probe is on  *)
(* its way that has not seen it.                                           *)
(***************************************************************************)
MisledOnce ==
  \A u \in Refreshed :
    /\ misled[u] <= 1
    /\ u \in configured /\ ~Registered(u) /\ misled[u] = 1 =>
         degraded[u] /\ probe[u] = "none"

RefInv ==
  MgrInv /\ TypeOK /\ CountsOK /\ BuildsCover /\ OutMeansUnhealthy /\ MisledOnce

LEMMA RefInitInv == Init => RefInv
<1> SUFFICES ASSUME Init PROVE RefInv
  OBVIOUS
<1> USE DEF Init
<1>1. MgrInv
  BY InitInv
<1>2. TypeOK
  <2>1. MgrTypeOK
    BY <1>1 DEF MgrInv
  <2>2. /\ pc \in [Upstreams -> Steps]
        /\ degraded \in [Upstreams -> BOOLEAN]
        /\ reachable \in [Upstreams -> BOOLEAN]
        /\ probe \in [Upstreams -> {"none", "loaded"}]
        /\ misled \in [Upstreams -> Nat]
    BY DEF Steps
  <2>3. /\ failures \in [Upstreams -> Nat]
        /\ \A u \in Upstreams : failures[u] <= MaxRefreshFailures
    BY RefreshConstants
  <2>4. QED
    BY <2>1, <2>2, <2>3 DEF TypeOK
<1>3. CountsOK
  BY RefreshConstants DEF CountsOK
<1>4. BuildsCover /\ OutMeansUnhealthy
  BY DEF BuildsCover, OutMeansUnhealthy, MgrInit
<1>5. MisledOnce
  <2>1. \A u \in Refreshed : misled[u] = 0
    BY RefreshConstants
  <2> HIDE DEF Init
  <2>2. QED
    BY <2>1 DEF MisledOnce
<1>6. QED
  BY <1>1, <1>2, <1>3, <1>4, <1>5 DEF RefInv

(***************************************************************************)
(* rebuildFromStateLocked keeps the tools of an upstream whose state is    *)
(* left alone: a live tool's upstream has its state (NoOrphans), and what  *)
(* is in the state comes back.                                             *)
(***************************************************************************)
LEMMA OthersStay ==
  ASSUME MgrInv, NEW u \in Upstreams, NEW W \in [Upstreams -> SUBSET Entry],
         W[u] = upstreamByName[u], RebuildFromState(W), Registered(u)
  PROVE  Registered(u)'
<1>1. upstreamByName[u] # {} /\ \A e \in upstreamByName[u] : e.up = u
  BY DEF MgrInv, NoOrphans, StateOwned, Registered
<1>2. PICK e \in W[u] : e.up = u
  BY <1>1
<1>3. CASE Conflict(AllEntries(W))
  BY <1>3 DEF RebuildFromState, Registered
<1>4. CASE ~Conflict(AllEntries(W))
  <2>1. registry'.entries = AllEntries(W)
    BY <1>4 DEF RebuildFromState, ApplyRegistry, NewRegistry
  <2>2. e \in AllEntries(W)
    BY <1>2 DEF AllEntries
  <2>3. QED
    BY <1>2, <2>1, <2>2 DEF Registered
<1>5. QED
  BY <1>3, <1>4

(* The steps of the Manager keep MgrInv in the composed system.            *)
LEMMA RefMgrInv == RefInv /\ [Next]_vars => MgrInv'
<1> SUFFICES ASSUME RefInv, [Next]_vars PROVE MgrInv'
  OBVIOUS
<1>1. RevisionsOK
  BY DEF RefInv, TypeOK, RevisionsOK
<1>2. QED
  BY <1>1, ManagerStep, NextInv DEF RefInv

(***************************************************************************)
(* The steps of a refresher that do not touch the Manager.                 *)
(***************************************************************************)
LEMMA RefLocalInv ==
  ASSUME RefInv, MgrInv', NEW u \in Refreshed,
         \/ FetchFails(u) \/ NotModified(u) \/ Fetch(u) \/ ClearDegraded(u)
         \/ StoreSnapshot(u) \/ CountFailure(u) \/ MarkDegraded(u) \/ ResetFailures(u)
  PROVE  RefInv'
<1> USE DEF Goto, envVars, probeVars
<1>1. /\ u \in Upstreams /\ TypeOK /\ CountsOK /\ BuildsCover /\ OutMeansUnhealthy
      /\ MisledOnce
      /\ MaxRefreshFailures \in Nat /\ Refreshed \subseteq Upstreams
  BY RefreshConstants DEF RefInv
<1>2. UNCHANGED mgrVars
  BY DEF FetchFails, NotModified, Fetch, ClearDegraded, StoreSnapshot, CountFailure,
         MarkDegraded, ResetFailures
<1>3. MgrTypeOK'
  BY DEF MgrInv
<1>4. TypeOK' /\ CountsOK'
  <2>1. CASE FetchFails(u)
    BY <1>1, <1>3, <2>1 DEF FetchFails, TypeOK, CountsOK, Steps
  <2>2. CASE NotModified(u)
    BY <1>1, <1>3, <2>2 DEF NotModified, TypeOK, CountsOK, Steps
  <2>3. CASE Fetch(u)
    BY <1>1, <1>3, <2>3 DEF Fetch, TypeOK, CountsOK, Steps
  <2>4. CASE ClearDegraded(u)
    BY <1>1, <1>3, <2>4 DEF ClearDegraded, TypeOK, CountsOK, Steps
  <2>5. CASE StoreSnapshot(u)
    BY <1>1, <1>3, <2>5 DEF StoreSnapshot, TypeOK, CountsOK, Steps
  <2>6. CASE CountFailure(u)
    BY <1>1, <1>3, <2>6 DEF CountFailure, TypeOK, CountsOK, Steps
  <2>7. CASE MarkDegraded(u)
    BY <1>1, <1>3, <2>7 DEF MarkDegraded, TypeOK, CountsOK, Steps
  <2>8. CASE ResetFailures(u)
    BY <1>1, <1>3, <2>8 DEF ResetFailures, TypeOK, CountsOK, Steps
  <2>9. QED
    BY <2>1, <2>2, <2>3, <2>4, <2>5, <2>6, <2>7, <2>8
<1>5. BuildsCover'
  BY <1>1, <1>2 DEF BuildsCover, mgrVars
<1>6. OutMeansUnhealthy'
  <2> SUFFICES ASSUME NEW v \in Refreshed, v \in configured, ~Registered(v)
               PROVE  pc'[v] \notin {"off", "published"} /\ ~Healthy(v)'
    BY <1>2 DEF OutMeansUnhealthy, Registered, mgrVars
  <2>1. pc[v] \notin {"off", "published"} /\ ~Healthy(v)
    BY <1>1 DEF OutMeansUnhealthy
  <2>2. CASE v # u
    BY <1>1, <2>1, <2>2 DEF FetchFails, NotModified, Fetch, ClearDegraded, StoreSnapshot,
       CountFailure, MarkDegraded, ResetFailures, Healthy, BelowMaximum, TypeOK
  <2>3. CASE v = u
    <3>1. /\ pc[u] \notin {"off", "published"} /\ ~Healthy(u)
          /\ pc \in [Upstreams -> Steps] /\ failures \in [Upstreams -> Nat]
          /\ degraded \in [Upstreams -> BOOLEAN]
      BY <1>1, <2>1, <2>3 DEF TypeOK
    <3>2. pc[u] \notin {"removing", "removed"} => degraded[u]
      BY <1>1, <3>1 DEF Healthy, BelowMaximum, CountsOK
    <3>3. CASE FetchFails(u) \/ NotModified(u) \/ Fetch(u)
      BY <1>1, <2>3, <3>1, <3>2, <3>3 DEF FetchFails, NotModified, Fetch, Healthy, BelowMaximum
    <3>4. CASE ClearDegraded(u)
      BY <3>1, <3>4 DEF ClearDegraded
    <3>5. CASE StoreSnapshot(u) \/ CountFailure(u)
      BY <1>1, <2>3, <3>1, <3>2, <3>5 DEF StoreSnapshot, CountFailure, Healthy, BelowMaximum
    <3>6. CASE MarkDegraded(u) \/ ResetFailures(u)
      BY <1>1, <2>3, <3>1, <3>2, <3>6 DEF MarkDegraded, ResetFailures, Healthy, BelowMaximum
    <3>7. QED
      BY <3>3, <3>4, <3>5, <3>6
  <2>4. QED
    BY <2>2, <2>3
<1>7. MisledOnce'
  <2> SUFFICES ASSUME NEW v \in Refreshed
               PROVE  /\ misled'[v] <= 1
                      /\ v \in configured' /\ ~Registered(v)' /\ misled'[v] = 1 =>
                           degraded'[v] /\ probe'[v] = "none"
    BY DEF MisledOnce
  <2>1. misled' = misled /\ probe' = probe
    BY DEF FetchFails, NotModified, Fetch, ClearDegraded, StoreSnapshot, CountFailure,
           MarkDegraded, ResetFailures
  <2>2. /\ v \in configured' <=> v \in configured
        /\ Registered(v)' <=> Registered(v)
    BY <1>2 DEF Registered, mgrVars
  <2>3. v \in configured /\ ~Registered(v) => pc[v] # "published"
    BY <1>1 DEF OutMeansUnhealthy
  <2>4. v \in configured /\ ~Registered(v) /\ degraded[v] => degraded'[v]
    BY <1>1, <2>3 DEF FetchFails, NotModified, Fetch, ClearDegraded, StoreSnapshot,
       CountFailure, MarkDegraded, ResetFailures, TypeOK
  <2>5. QED
    BY <1>1, <2>1, <2>2, <2>4 DEF MisledOnce
<1>8. QED
  BY <1>4, <1>5, <1>6, <1>7 DEF RefInv

(* Steps of refreshers and reloads that go through the Manager.            *)

(* UpdateUpstream: the upstream's tools are in when it succeeds, and those *)
(* of the others stay.                                                     *)
LEMMA RefPublishInv ==
  ASSUME RefInv, MgrInv', NEW u \in Refreshed, Publish(u)
  PROVE  RefInv'
<1> USE DEF Goto, envVars, probeVars
<1>1. /\ u \in Upstreams /\ MgrInv /\ TypeOK /\ CountsOK /\ BuildsCover /\ OutMeansUnhealthy
      /\ MisledOnce
      /\ MaxRefreshFailures \in Nat /\ Refreshed \subseteq Upstreams
  BY RefreshConstants DEF RefInv
<1>2. MgrTypeOK'
  BY DEF MgrInv
<1>3. TypeOK' /\ CountsOK'
  BY <1>1, <1>2 DEF Publish, TypeOK, CountsOK, Steps
<1>4. rebuild' = rebuild /\ configured' = configured
  BY DEF Publish, UpdateUpstream
<1>5. BuildsCover'
  BY <1>1, <1>4 DEF BuildsCover
<1>6. ASSUME NEW v \in Refreshed, ~Registered(v)'
      PROVE  ~Registered(v) /\ (v = u => pc'[u] = "failed")
  <2>1. PICK W : W = WithUpstream(u, got[u])
    OBVIOUS
  <2>2. got[u] \in Revisions /\ upstreamByName \in [Upstreams -> SUBSET Entry]
    BY <1>1 DEF TypeOK, MgrTypeOK
  <2>3. /\ W \in [Upstreams -> SUBSET Entry]
        /\ \A w \in Upstreams \ {u} : W[w] = upstreamByName[w]
        /\ W[u] = EntriesOf(u, got[u], FALSE)
    BY <1>1, <2>1, <2>2, EntriesOfFacts DEF WithUpstream
  <2>4. RebuildFromState(W)
    BY <2>1 DEF Publish, UpdateUpstream
  <2>5. CASE v # u
    BY <1>1, <1>6, <2>3, <2>4, <2>5, OthersStay
  <2>6. CASE v = u
    <3>1. Conflict(AllEntries(W))
      <4> SUFFICES ASSUME ~Conflict(AllEntries(W)) PROVE Registered(u)'
        BY <1>6, <2>6
      <4>1. registry'.entries = AllEntries(W)
        BY <2>4 DEF RebuildFromState, ApplyRegistry, NewRegistry
      <4>2. PICK e \in W[u] : e.up = u
        <5>1. W[u] # {} /\ \A e \in W[u] : e.up = u
          BY <1>1, <2>2, <2>3, EntriesOfFacts
        <5>2. QED
          BY <5>1
      <4>3. QED
        BY <1>1, <4>1, <4>2 DEF AllEntries, Registered
    <3>2. pc'[u] = "failed" /\ registry' = registry
      BY <1>1, <2>1, <2>4, <3>1 DEF Publish, UpdateSucceeds, RebuildFromState, TypeOK
    <3>3. QED
      BY <1>6, <2>6, <3>2 DEF Registered
  <2>7. QED
    BY <2>5, <2>6
<1>7. OutMeansUnhealthy'
  BY <1>1, <1>4, <1>6 DEF OutMeansUnhealthy, Publish, Healthy, BelowMaximum, TypeOK
<1>8. MisledOnce'
  BY <1>1, <1>4, <1>6 DEF MisledOnce, Publish
<1>9. QED
  BY <1>3, <1>5, <1>7, <1>8 DEF RefInv

(* RemoveUpstream: the upstream is unhealthy by its failures, and the      *)
(* tools of the others stay.                                               *)
LEMMA RefTakeOutInv ==
  ASSUME RefInv, MgrInv', NEW u \in Refreshed, TakeOut(u)
  PROVE  RefInv'
<1> USE DEF Goto, envVars
<1>1. /\ u \in Upstreams /\ MgrInv /\ TypeOK /\ CountsOK /\ BuildsCover /\ OutMeansUnhealthy
      /\ MisledOnce
      /\ MaxRefreshFailures \in Nat /\ Refreshed \subseteq Upstreams
  BY RefreshConstants DEF RefInv
<1>2. MgrTypeOK'
  BY DEF MgrInv
<1>3. TypeOK' /\ CountsOK'
  BY <1>1, <1>2 DEF TakeOut, TypeOK, CountsOK, Steps
<1>4. rebuild' = rebuild /\ configured' = configured
  BY DEF TakeOut, RemoveUpstream
<1>5. BuildsCover'
  BY <1>1, <1>4 DEF BuildsCover
<1>6. ASSUME NEW v \in Refreshed, ~Registered(v)', v # u
      PROVE  ~Registered(v)
  <2>1. PICK W : W = WithoutUpstream(u)
    OBVIOUS
  <2>2. upstreamByName \in [Upstreams -> SUBSET Entry]
    BY <1>1 DEF TypeOK, MgrTypeOK
  <2>3. /\ W \in [Upstreams -> SUBSET Entry]
        /\ \A w \in Upstreams \ {u} : W[w] = upstreamByName[w]
    BY <1>1, <2>1, <2>2 DEF WithoutUpstream
  <2>4. RebuildFromState(W)
    BY <2>1 DEF TakeOut, RemoveUpstream
  <2>5. QED
    BY <1>1, <1>6, <2>3, <2>4, OthersStay
<1>7. OutMeansUnhealthy'
  BY <1>1, <1>4, <1>6 DEF OutMeansUnhealthy, TakeOut, CountsOK, Healthy, BelowMaximum, TypeOK
<1>8. MisledOnce'
  <2>1. /\ misled' \in [Upstreams -> Nat] /\ probe' = probe /\ degraded' = degraded
        /\ misled'[u] = IF Registered(u) THEN 0 ELSE misled[u]
        /\ \A v \in Refreshed \ {u} : misled'[v] = misled[v]
    BY <1>1, <1>3 DEF TakeOut, TypeOK
  <2>2. QED
    BY <1>1, <1>4, <1>6, <2>1 DEF MisledOnce
<1>9. QED
  BY <1>3, <1>5, <1>7, <1>8 DEF RefInv

(* A reload builds tools for each upstream it enables, and commits them.   *)
LEMMA RefReloadInv ==
  ASSUME RefInv, MgrInv', NEW p \in Reloaders,
         ReloadCommit(p) \/ \E cfg \in Configs : ReloadPrepare(p, cfg)
  PROVE  RefInv'
<1>1. /\ MgrInv /\ TypeOK /\ CountsOK /\ BuildsCover /\ OutMeansUnhealthy
      /\ MisledOnce
      /\ rebuild \in [Reloaders -> SUBSET Build]
  BY DEF RefInv, TypeOK, MgrTypeOK
<1>2. UNCHANGED <<loopVars, envVars, probeVars>>
  BY DEF ReloadCommit, ReloadPrepare
<1>3. TypeOK' /\ CountsOK'
  <2>1. MgrTypeOK'
    BY DEF MgrInv
  <2>2. QED
    BY <1>1, <1>2, <2>1 DEF TypeOK, CountsOK, loopVars, envVars, probeVars
<1>4. CASE \E cfg \in Configs : ReloadPrepare(p, cfg)
  <2>1. PICK cfg \in Configs : RebuildPrepare(p, cfg, specRev)
    BY <1>4 DEF ReloadPrepare
  <2>2. /\ specRev \in [Upstreams -> Revisions]
        /\ cfg.ups \subseteq Upstreams
    BY <1>1, ManagerConstants DEF TypeOK, Config
  <2>3. \A u \in cfg.ups : \E e \in BuiltEntries(cfg, specRev) : e.up = u
    <3> SUFFICES ASSUME NEW u \in cfg.ups
                 PROVE  \E e \in BuiltEntries(cfg, specRev) : e.up = u
      OBVIOUS
    <3>1. /\ EntriesOf(u, specRev[u], TRUE) # {}
          /\ \A e \in EntriesOf(u, specRev[u], TRUE) : e.up = u
      BY <2>2, EntriesOfFacts
    <3>2. PICK e \in EntriesOf(u, specRev[u], TRUE) : e.up = u
      BY <3>1
    <3>3. e \in BuiltEntries(cfg, specRev)
      BY DEF BuiltEntries
    <3>4. QED
      BY <3>2, <3>3
  <2>4. rebuild' = [rebuild EXCEPT ![p] =
          {[entries |-> BuiltEntries(cfg, specRev),
            groups |-> EffectiveGroups(cfg), ups |-> cfg.ups]}]
    BY <2>1 DEF RebuildPrepare
  <2>5. BuildsCover'
    BY <1>1, <2>3, <2>4 DEF BuildsCover
  <2>6. OutMeansUnhealthy'
    BY <1>1, <1>2, <2>1 DEF RebuildPrepare, OutMeansUnhealthy, Registered, Healthy, BelowMaximum, loopVars
  <2>7. MisledOnce'
    BY <1>1, <1>2, <2>1 DEF RebuildPrepare, MisledOnce, Registered, loopVars, probeVars
  <2>8. QED
    BY <1>3, <2>5, <2>6, <2>7 DEF RefInv
<1>5. CASE ReloadCommit(p)
  <2>1. PICK b \in rebuild[p] :
          /\ registry' = NewRegistry(b.entries, b.groups)
          /\ configured' = b.ups
          /\ rebuild' = [rebuild EXCEPT ![p] = {}]
    BY <1>5 DEF ReloadCommit, RebuildCommit, ApplyRegistry
  <2>2. BuildsCover'
    BY <1>1, <2>1 DEF BuildsCover
  <2>3. OutMeansUnhealthy'
    BY <1>1, <2>1 DEF BuildsCover, OutMeansUnhealthy, Registered, NewRegistry
  <2>4. MisledOnce'
    BY <1>1, <1>2, <2>1 DEF BuildsCover, MisledOnce, Registered, NewRegistry, probeVars
  <2>5. QED
    BY <1>3, <2>2, <2>3, <2>4 DEF RefInv
<1>6. QED
  BY <1>4, <1>5

(* Before the refreshers are made every enabled upstream has its tools.    *)
LEMMA RefStartInv ==
  ASSUME RefInv, MgrInv', BuildRefreshers
  PROVE  RefInv'
<1>1. /\ MgrInv /\ TypeOK /\ CountsOK /\ BuildsCover /\ OutMeansUnhealthy
      /\ MisledOnce
      /\ MaxRefreshFailures \in Nat
  BY RefreshConstants DEF RefInv
<1>2. MgrTypeOK'
  BY DEF MgrInv
<1>3. UNCHANGED mgrVars
  BY DEF BuildRefreshers
<1>4. TypeOK'
  BY <1>1, <1>2 DEF BuildRefreshers, TypeOK, Steps, envVars, probeVars
<1>5. BuildsCover'
  BY <1>1, <1>3 DEF BuildsCover, mgrVars
<1>6. /\ running' = TRUE /\ failures' = failures /\ degraded' = degraded
      /\ \A u \in Upstreams :
           /\ pc[u] = "off"
           /\ pc'[u] = IF u \in Refreshed \cap configured THEN "idle" ELSE "off"
  BY <1>1 DEF BuildRefreshers, CountsOK
<1>7. CountsOK'
  BY <1>1, <1>6 DEF CountsOK
<1>8. OutMeansUnhealthy'
  <2>1. \A u \in Refreshed \cap configured : Registered(u)
    BY <1>1, <1>6, RefreshConstants DEF OutMeansUnhealthy
  <2>2. QED
    BY <1>3, <2>1 DEF OutMeansUnhealthy, Registered, mgrVars
<1>9. MisledOnce'
  BY <1>1, <1>3 DEF BuildRefreshers, MisledOnce, Registered, mgrVars, probeVars
<1>10. QED
  BY <1>4, <1>5, <1>7, <1>8, <1>9 DEF RefInv

(* The two loads of a probe.                                               *)
LEMMA RefProbeInv ==
  ASSUME RefInv, MgrInv', NEW u \in Refreshed, LoadDegraded(u) \/ LoadFailures(u)
  PROVE  RefInv'
<1>1. /\ u \in Upstreams /\ TypeOK /\ CountsOK /\ BuildsCover /\ OutMeansUnhealthy
      /\ MisledOnce /\ Refreshed \subseteq Upstreams
  BY RefreshConstants DEF RefInv
<1>2. UNCHANGED <<mgrVars, loopVars, envVars>>
  BY DEF LoadDegraded, LoadFailures
<1>3. TypeOK'
  <2>1. MgrTypeOK'
    BY DEF MgrInv
  <2>2. probe' \in [Upstreams -> {"none", "loaded"}] /\ misled' \in [Upstreams -> Nat]
    BY <1>1 DEF LoadDegraded, LoadFailures, TypeOK
  <2>3. QED
    BY <1>1, <1>2, <2>1, <2>2 DEF TypeOK, loopVars, envVars
<1>4. CountsOK' /\ BuildsCover' /\ OutMeansUnhealthy'
  BY <1>1, <1>2 DEF CountsOK, BuildsCover, OutMeansUnhealthy, Registered, Healthy,
     BelowMaximum, mgrVars, loopVars
<1>5. MisledOnce'
  <2> SUFFICES ASSUME NEW v \in Refreshed
               PROVE  /\ misled'[v] <= 1
                      /\ v \in configured' /\ ~Registered(v)' /\ misled'[v] = 1 =>
                           degraded'[v] /\ probe'[v] = "none"
    BY DEF MisledOnce
  <2>1. /\ v \in configured' <=> v \in configured
        /\ Registered(v)' <=> Registered(v)
        /\ degraded' = degraded
    BY <1>2 DEF Registered, mgrVars, loopVars
  <2>2. CASE LoadDegraded(u)
    BY <1>1, <2>1, <2>2 DEF LoadDegraded, MisledOnce, TypeOK
  <2>3. CASE LoadFailures(u)
    <3>1. BelowMaximum(u) /\ u \in configured /\ ~Registered(u) =>
            degraded[u] /\ misled[u] = 0
      BY <1>1, <2>3 DEF LoadFailures, MisledOnce, OutMeansUnhealthy, Healthy, TypeOK
    <3>2. probe'[u] = "none" /\ \A w \in Refreshed \ {u} : probe'[w] = probe[w]
      BY <1>1, <2>3 DEF LoadFailures, TypeOK
    <3>3. CASE BelowMaximum(u) /\ u \in configured /\ ~Registered(u)
      <4>1. misled'[u] = 1 /\ \A w \in Refreshed \ {u} : misled'[w] = misled[w]
        BY <1>1, <2>3, <3>1, <3>3 DEF LoadFailures, TypeOK
      <4>2. QED
        BY <1>1, <2>1, <3>1, <3>2, <3>3, <4>1 DEF MisledOnce
    <3>4. CASE ~(BelowMaximum(u) /\ u \in configured /\ ~Registered(u))
      <4>1. misled' = misled
        BY <2>3, <3>4 DEF LoadFailures
      <4>2. QED
        BY <1>1, <2>1, <3>2, <4>1 DEF MisledOnce
    <3>5. QED
      BY <3>3, <3>4
  <2>4. QED
    BY <2>2, <2>3
<1>6. QED
  BY <1>3, <1>4, <1>5 DEF RefInv

LEMMA RefNextInv == RefInv /\ [Next]_vars => RefInv'
<1> SUFFICES ASSUME RefInv, [Next]_vars PROVE RefInv'
  OBVIOUS
<1>1. MgrInv'
  BY RefMgrInv
<1>2. ASSUME NEW u \in Refreshed, RefresherStep(u) PROVE RefInv'
  BY <1>1, <1>2, RefLocalInv, RefPublishInv, RefTakeOutInv DEF RefresherStep
<1>3. ASSUME NEW u \in Refreshed, ServerRevises(u) \/ ServerToggles(u) PROVE RefInv'
  <2>1. UNCHANGED <<mgrVars, loopVars, probeVars>>
    BY <1>3 DEF ServerRevises, ServerToggles
  <2>2. /\ specRev' \in [Upstreams -> Revisions]
        /\ reachable' \in [Upstreams -> BOOLEAN]
    BY <1>3 DEF ServerRevises, ServerToggles, RefInv, TypeOK
  <2>3. QED
    BY <1>1, <2>1, <2>2 DEF RefInv, MgrInv, TypeOK, CountsOK, BuildsCover, OutMeansUnhealthy,
       MisledOnce, Registered, Healthy, BelowMaximum, mgrVars, loopVars, probeVars
<1>4. ASSUME NEW p \in Reloaders,
             ReloadCommit(p) \/ \E cfg \in Configs : ReloadPrepare(p, cfg)
      PROVE  RefInv'
  BY <1>1, <1>4, RefReloadInv
<1>5. CASE BuildRefreshers
  BY <1>1, <1>5, RefStartInv
<1>6. CASE UNCHANGED vars
  BY <1>1, <1>6 DEF RefInv, MgrInv, TypeOK, CountsOK, BuildsCover, OutMeansUnhealthy,
     MisledOnce, Registered, Healthy, BelowMaximum, vars, mgrVars, loopVars, envVars, probeVars
<1>7. ASSUME NEW u \in Refreshed, LoadDegraded(u) \/ LoadFailures(u) PROVE RefInv'
  BY <1>1, <1>7, RefProbeInv
<1>8. QED
  BY <1>2, <1>3, <1>4, <1>5, <1>6, <1>7 DEF Next

LEMMA RefInvariant == Spec => []RefInv
BY RefInitInv, RefNextInv, PTL DEF Spec

(***************************************************************************)
(* The refreshers' state keeps its type, and no failure counter passes     *)
(* the threshold, through any interleaving of refreshes and reloads.       *)
(***************************************************************************)
THEOREM RefTypeCorrect == Spec => []TypeOK
<1>1. RefInv => TypeOK
  BY DEF RefInv
<1>2. QED
  BY <1>1, RefInvariant, PTL

(***************************************************************************)
(* No prober is told twice that an enabled upstream is healthy while its   *)
(* tools are out, for any upstreams, spec servers, reloads and probes: by  *)
(* the time refresh.go puts the failures back to zero the degraded flag is *)
(* up, so that only a probe that loaded it before can be misled.           *)
(***************************************************************************)
THEOREM ReadinessHonest == Spec => []AtMostOneFalseReady
<1>1. RefInv => AtMostOneFalseReady
  BY DEF RefInv, MisledOnce, AtMostOneFalseReady
<1>2. QED
  BY <1>1, RefInvariant, PTL

-------------------------------------------------------------------------------
(* The config loader.                                                      *)

(* Nothing is heard before the watcher runs.                               *)
SilentBefore == watcher = "off" => news = "silent"

OneAtATime ==
  ~overlapped =>
    \A p, q \in Reloaders : phase[p] # "idle" /\ phase[q] # "idle" => p = q

(***************************************************************************)
(* SequentialReloadsConverge, strengthened: from the moment a reload has   *)
(* read the file's present content, that content is what the reload holds, *)
(* builds and commits, and what is in force when no reload runs, unless    *)
(* one that held it gave up.                                               *)
(***************************************************************************)
Carried(cfg) ==
  /\ AllIdle => Served(cfg) /\ current = {cfg}
  /\ \A p \in Reloaders :
       /\ phase[p] \in {"loaded", "built", "applied"} => loading[p] = {cfg}
       /\ phase[p] = "built" => \A b \in rebuild[p] :
            b.ups = cfg.ups /\ b.groups = EffectiveGroups(cfg)
       /\ phase[p] = "applied" => Served(cfg)

LastReadCarried ==
  news = "read" => file \in Configs /\ (~overlapped => Carried(file))

LdrInv ==
  MgrInv /\ LdrTypeOK /\ SilentBefore /\ NothingMissed /\ OneAtATime /\ LastReadCarried

LEMMA LdrInitInv == LdrInit => LdrInv
<1> SUFFICES ASSUME LdrInit PROVE LdrInv
  OBVIOUS
<1>1. MgrInv
  BY InitInv DEF LdrInit
<1>2. LdrTypeOK
  <2>1. MgrTypeOK
    BY <1>1 DEF MgrInv
  <2>4. writes \in 0..MaxWrites
    BY LoaderConstants, SMT DEF LdrInit
  <2>5. event \in BOOLEAN /\ timer \in BOOLEAN /\ overlapped \in BOOLEAN
    BY Zenon DEF LdrInit
  <2>2. \A p \in Reloaders : phase[p] = "idle" /\ loading[p] = {} /\ rebuild[p] = {}
    BY DEF LdrInit, MgrInit
  <2>3. QED
    BY <2>1, <2>2, <2>4, <2>5 DEF LdrInit, LdrTypeOK
<1>3. SilentBefore /\ NothingMissed /\ OneAtATime /\ LastReadCarried
  BY DEF LdrInit, SilentBefore, NothingMissed, OneAtATime, LastReadCarried
<1>4. QED
  BY <1>1, <1>2, <1>3 DEF LdrInv

(* Every step of the loader is a step of the Manager or leaves it alone.   *)
LEMMA LoaderStep == LdrTypeOK /\ [LdrNext]_ldrVars => [MgrNext]_mgrVars
<1> SUFFICES ASSUME LdrTypeOK, [LdrNext]_ldrVars PROVE [MgrNext]_mgrVars
  OBVIOUS
<1>1. ASSUME NEW p \in Reloaders, Commit(p) PROVE [MgrNext]_mgrVars
  BY <1>1 DEF Commit, MgrNext
<1>2. ASSUME NEW p \in Reloaders, NEW served \in [Upstreams -> Revisions], Prepare(p, served)
      PROVE  [MgrNext]_mgrVars
  BY <1>2 DEF Prepare, MgrNext, LdrTypeOK
<1>3. ASSUME NEW p \in Reloaders,
             \/ NewLoader(p) \/ Fire(p) \/ LoadFails(p) \/ Load(p) \/ Store(p)
             \/ RebuildFails(p)
      PROVE  [MgrNext]_mgrVars
  BY <1>3 DEF NewLoader, Fire, LoadFails, Load, Store, RebuildFails, GiveUp
<1>4. CASE Arm \/ StartWatch \/ StopWatch \/ \E content \in Configs \cup {Broken} : Write(content)
  BY <1>4 DEF Arm, StartWatch, StopWatch, Write
<1>5. CASE UNCHANGED ldrVars
  BY <1>5 DEF ldrVars
<1>6. QED
  BY <1>1, <1>2, <1>3, <1>4, <1>5 DEF LdrNext, Reload

LEMMA LdrMgrInv == LdrInv /\ [LdrNext]_ldrVars => MgrInv'
BY LoaderStep, NextInv DEF LdrInv

(* The file changes; the watcher starts, stops and reads its events.       *)
LEMMA WatchInv ==
  ASSUME LdrInv, MgrInv',
         Arm \/ StartWatch \/ StopWatch \/ \E content \in Configs \cup {Broken} : Write(content)
  PROVE  LdrInv'
<1>1. /\ LdrTypeOK /\ SilentBefore /\ NothingMissed /\ OneAtATime /\ LastReadCarried
      /\ MaxWrites \in Nat
  BY LoaderConstants DEF LdrInv
<1>2. UNCHANGED <<mgrVars, reloadVars, overlapped>>
  BY DEF Arm, StartWatch, StopWatch, Write
<1>3. LdrTypeOK'
  <2>1. MgrTypeOK' /\ UNCHANGED <<phase, loading, current, rebuild, overlapped>>
    BY <1>2 DEF MgrInv, mgrVars, reloadVars
  <2>2. event' \in BOOLEAN /\ timer' \in BOOLEAN
    BY <1>1 DEF Arm, StartWatch, StopWatch, Write, LdrTypeOK
  <2>3. /\ file' \in Configs \cup {Broken} /\ writes' \in 0..MaxWrites
        /\ watcher' \in {"off", "on", "done"} /\ news' \in {"silent", "heard", "read", "refused"}
    BY <1>1 DEF Arm, StartWatch, StopWatch, Write, LdrTypeOK, fileVars
  <2>4. QED
    BY <1>1, <2>1, <2>2, <2>3 DEF LdrTypeOK
<1>4. SilentBefore' /\ NothingMissed'
  BY <1>1, <1>2 DEF Arm, StartWatch, StopWatch, Write, SilentBefore, NothingMissed, reloadVars
<1>5. OneAtATime'
  BY <1>1, <1>2 DEF OneAtATime, reloadVars
<1>6. LastReadCarried'
  <2>1. news' = "read" => news = "read" /\ file' = file
    BY DEF Arm, StartWatch, StopWatch, Write, fileVars
  <2>2. QED
    BY <1>1, <1>2, <2>1 DEF LastReadCarried, Carried, AllIdle, Served, mgrVars, reloadVars
<1>7. QED
  BY <1>3, <1>4, <1>5, <1>6 DEF LdrInv

(* A step of reload p moves p alone.                                       *)
LEMMA MoveFacts ==
  ASSUME LdrTypeOK, NEW p \in Reloaders, NEW cfgs \in SUBSET Configs,
         NEW step \in {"idle", "reading", "loaded", "built", "applied"},
         Move(p, step, cfgs)
  PROVE  /\ phase' \in [Reloaders -> {"idle", "reading", "loaded", "built", "applied"}]
         /\ loading' \in [Reloaders -> SUBSET Configs]
         /\ phase'[p] = step /\ loading'[p] = cfgs
         /\ \A q \in Reloaders \ {p} : phase'[q] = phase[q] /\ loading'[q] = loading[q]
BY DEF LdrTypeOK, Move

(* Reads of the file, and reloads that start or give up.                   *)
LEMMA ReadInv ==
  ASSUME LdrInv, MgrInv', NEW p \in Reloaders,
         NewLoader(p) \/ Fire(p) \/ LoadFails(p) \/ Load(p) \/ RebuildFails(p)
  PROVE  LdrInv'
<1>1. /\ LdrTypeOK /\ SilentBefore /\ NothingMissed /\ OneAtATime /\ LastReadCarried
  BY DEF LdrInv
<1>2. PICK step \in {"idle", "reading", "loaded"}, cfgs \in SUBSET Configs :
        /\ Move(p, step, cfgs)
        /\ step = "loaded" <=> cfgs # {}
        /\ step = "reading" <=> NewLoader(p) \/ Fire(p)
        /\ step = "loaded" => cfgs = {file} /\ Load(p)
        /\ step = "idle" => LoadFails(p) \/ RebuildFails(p)
  <2>1. CASE NewLoader(p) \/ Fire(p)
    <3>1. Move(p, "reading", {})
      BY <2>1 DEF NewLoader, Fire
    <3>2. QED
      BY <2>1, <3>1
  <2>2. CASE Load(p)
    <3>1. {file} \in SUBSET Configs /\ Move(p, "loaded", {file})
      BY <1>1, <2>2 DEF Load, LdrTypeOK
    <3>2. ~NewLoader(p) /\ ~Fire(p)
      BY <2>2 DEF NewLoader, Fire, AllIdle, Load
    <3>3. QED
      BY <2>2, <3>1, <3>2
  <2>3. CASE LoadFails(p) \/ RebuildFails(p)
    <3>1. Move(p, "idle", {})
      BY <2>3 DEF LoadFails, RebuildFails, GiveUp
    <3>2. ~NewLoader(p) /\ ~Fire(p)
      BY <2>3 DEF NewLoader, Fire, AllIdle, LoadFails, RebuildFails
    <3>3. QED
      BY <2>3, <3>1, <3>2
  <2>4. QED
    BY <2>1, <2>2, <2>3
<1>3. /\ phase' \in [Reloaders -> {"idle", "reading", "loaded", "built", "applied"}]
      /\ loading' \in [Reloaders -> SUBSET Configs]
      /\ phase'[p] = step /\ loading'[p] = cfgs
      /\ \A q \in Reloaders \ {p} : phase'[q] = phase[q] /\ loading'[q] = loading[q]
  BY <1>1, <1>2, MoveFacts
<1>4. UNCHANGED <<mgrVars, fileVars, event, current>>
  BY DEF NewLoader, Fire, LoadFails, Load, RebuildFails, GiveUp, watchVars
<1>5. /\ NewLoader(p) \/ Fire(p) => phase[p] = "idle"
      /\ LoadFails(p) \/ Load(p) => phase[p] = "reading"
      /\ RebuildFails(p) => phase[p] = "loaded"
  BY DEF NewLoader, Fire, LoadFails, Load, RebuildFails, AllIdle
<1>6. LdrTypeOK'
  <2>1. MgrTypeOK' /\ UNCHANGED <<file, writes, event, current, rebuild>>
    BY <1>4 DEF MgrInv, mgrVars, fileVars
  <2>2. timer' \in BOOLEAN
    BY <1>1 DEF LdrTypeOK, NewLoader, Fire, LoadFails, Load, RebuildFails, GiveUp, watchVars
  <2>3. overlapped' \in BOOLEAN
    BY <1>1 DEF LdrTypeOK, NewLoader, Fire, LoadFails, Load, RebuildFails, GiveUp
  <2>4. watcher' \in {"off", "on", "done"} /\ news' \in {"silent", "heard", "read", "refused"}
    BY <1>1 DEF LdrTypeOK, NewLoader, Fire, LoadFails, Load, RebuildFails, GiveUp, watchVars
  <2>5. rebuild[p] = {}
    BY <1>1, <1>5 DEF LdrTypeOK
  <2>6. \A q \in Reloaders :
          /\ phase'[q] \in {"loaded", "built", "applied"} <=> loading'[q] # {}
          /\ phase'[q] = "built" <=> rebuild'[q] # {}
    BY <1>1, <1>2, <1>3, <2>1, <2>5 DEF LdrTypeOK
  <2>7. QED
    BY <1>1, <1>3, <2>1, <2>2, <2>3, <2>4, <2>6 DEF LdrTypeOK
<1>7. SilentBefore'
  BY <1>1 DEF SilentBefore, NewLoader, Fire, LoadFails, Load, RebuildFails, GiveUp, watchVars
<1>8. NothingMissed'
  <2>1. CASE LoadFails(p) \/ Load(p)
    BY <2>1 DEF NothingMissed, LoadFails, Load
  <2>2. CASE NewLoader(p) \/ Fire(p)
    BY <1>2, <1>3, <2>2 DEF NothingMissed
  <2>3. CASE RebuildFails(p)
    <3>1. /\ watcher' = "on" => watcher = "on"
          /\ news' = "heard" => news = "heard"
          /\ timer' = timer /\ event' = event
      BY <2>3 DEF RebuildFails, GiveUp
    <3>2. \A q \in Reloaders : phase[q] = "reading" => phase'[q] = "reading"
      BY <1>3, <1>5, <2>3
    <3>3. QED
      BY <1>1, <3>1, <3>2 DEF NothingMissed
  <2>4. QED
    BY <2>1, <2>2, <2>3
<1>9. ~overlapped' => \A q \in Reloaders \ {p} : phase[q] = "idle"
  <2>1. CASE NewLoader(p) \/ Fire(p)
    BY <1>1, <2>1 DEF NewLoader, Fire, AllIdle, LdrTypeOK
  <2>2. CASE LoadFails(p) \/ Load(p) \/ RebuildFails(p)
    <3>1. overlapped' = overlapped
      BY <2>2 DEF LoadFails, Load, RebuildFails, GiveUp
    <3>2. QED
      BY <1>1, <1>5, <2>2, <3>1 DEF OneAtATime
  <2>3. QED
    BY <2>1, <2>2
<1>10. OneAtATime'
  BY <1>3, <1>9 DEF OneAtATime
<1>11. LastReadCarried'
  <2> SUFFICES ASSUME news' = "read"
               PROVE  file \in Configs /\ (~overlapped' => Carried(file)')
    BY <1>4 DEF LastReadCarried, fileVars
  <2>1. step # "idle"
    BY <1>1, <1>2 DEF LoadFails, RebuildFails, LdrTypeOK
  <2>2. file \in Configs
    <3>1. CASE step = "loaded"
      BY <1>2, <3>1
    <3>2. CASE step = "reading"
      BY <1>1, <1>2, <3>2 DEF NewLoader, Fire, LastReadCarried
    <3>3. QED
      BY <2>1, <3>1, <3>2
  <2>3. ~overlapped' => \A q \in Reloaders \ {p} : phase'[q] = "idle"
    BY <1>3, <1>9
  <2>4. file' = file
    BY <1>4 DEF fileVars
  <2>5. ~overlapped' => Carried(file)'
    BY <1>2, <1>3, <2>1, <2>3, <2>4 DEF Carried, AllIdle
  <2>6. QED
    BY <2>2, <2>5
<1>12. QED
  BY <1>6, <1>7, <1>8, <1>10, <1>11 DEF LdrInv

(* Rebuild before and under the Manager's lock, and the loader's store.    *)
LEMMA ApplyInv ==
  ASSUME LdrInv, MgrInv', NEW p \in Reloaders, NEW served,
         Prepare(p, served) \/ Commit(p) \/ Store(p)
  PROVE  LdrInv'
<1>1. /\ LdrTypeOK /\ SilentBefore /\ NothingMissed /\ OneAtATime /\ LastReadCarried
  BY DEF LdrInv
<1>2. PICK step \in {"built", "applied", "idle"}, cfgs \in SUBSET Configs :
        /\ Move(p, step, cfgs)
        /\ step = "built" => cfgs = loading[p] /\ Prepare(p, served)
        /\ step = "applied" => cfgs = loading[p] /\ Commit(p)
        /\ step = "idle" => cfgs = {} /\ Store(p)
  <2>1. loading[p] \in SUBSET Configs
    BY <1>1 DEF LdrTypeOK
  <2>2. CASE Prepare(p, served)
    <3>1. Move(p, "built", loading[p])
      BY <2>2 DEF Prepare
    <3>2. QED
      BY <2>1, <2>2, <3>1
  <2>3. CASE Commit(p)
    <3>1. Move(p, "applied", loading[p])
      BY <2>3 DEF Commit
    <3>2. QED
      BY <2>1, <2>3, <3>1
  <2>4. CASE Store(p)
    <3>1. Move(p, "idle", {})
      BY <2>4 DEF Store
    <3>2. QED
      BY <2>4, <3>1
  <2>5. QED
    BY <2>2, <2>3, <2>4
<1>3. /\ phase' \in [Reloaders -> {"idle", "reading", "loaded", "built", "applied"}]
      /\ loading' \in [Reloaders -> SUBSET Configs]
      /\ phase'[p] = step /\ loading'[p] = cfgs
      /\ \A q \in Reloaders \ {p} : phase'[q] = phase[q] /\ loading'[q] = loading[q]
  BY <1>1, <1>2, MoveFacts
<1>4. UNCHANGED <<fileVars, watchVars, news, overlapped>>
  BY DEF Prepare, Commit, Store
<1>5. /\ step = "built" => phase[p] = "loaded"
      /\ step = "applied" => phase[p] = "built"
      /\ step = "idle" => phase[p] = "applied"
  BY <1>2 DEF Prepare, Commit, Store
<1>6. loading[p] # {}
  BY <1>1, <1>2, <1>5 DEF LdrTypeOK
<1>7. /\ \A q \in Reloaders \ {p} : rebuild'[q] = rebuild[q]
      /\ rebuild'[p] # {} <=> step = "built"
  <2>1. rebuild \in [Reloaders -> SUBSET Build]
    BY <1>1 DEF LdrTypeOK, MgrTypeOK
  <2>2. CASE step = "built"
    BY <1>2, <2>1, <2>2 DEF Prepare, RebuildPrepare
  <2>3. CASE step = "applied"
    BY <1>2, <2>1, <2>3 DEF Commit, RebuildCommit
  <2>4. CASE step = "idle"
    BY <1>1, <1>2, <1>5, <2>4 DEF Store, mgrVars, LdrTypeOK
  <2>5. QED
    BY <2>2, <2>3, <2>4
<1>8. LdrTypeOK'
  <2>1. MgrTypeOK' /\ UNCHANGED <<file, writes, watcher, event, timer, news, overlapped>>
    BY <1>4 DEF MgrInv, fileVars, watchVars
  <2>2. current' \in SUBSET Configs
    BY <1>1 DEF LdrTypeOK, Prepare, Commit, Store
  <2>3. \A q \in Reloaders :
          /\ phase'[q] \in {"loaded", "built", "applied"} <=> loading'[q] # {}
          /\ phase'[q] = "built" <=> rebuild'[q] # {}
    BY <1>1, <1>2, <1>3, <1>6, <1>7 DEF LdrTypeOK
  <2>4. QED
    BY <1>1, <1>3, <2>1, <2>2, <2>3 DEF LdrTypeOK
<1>9. SilentBefore' /\ NothingMissed'
  BY <1>1, <1>3, <1>4, <1>5 DEF SilentBefore, NothingMissed, watchVars
<1>10. ~overlapped' => ~overlapped /\ \A q \in Reloaders \ {p} : phase[q] = "idle"
  BY <1>1, <1>4, <1>5 DEF OneAtATime
<1>11. OneAtATime'
  BY <1>3, <1>10 DEF OneAtATime
<1>12. LastReadCarried'
  <2> SUFFICES ASSUME news' = "read", ~overlapped',
                      NEW cfg \in Configs, file = cfg
               PROVE  Carried(cfg)'
    BY <1>1, <1>4 DEF LastReadCarried, fileVars
  <2>1. \A q \in Reloaders \ {p} : phase'[q] = "idle"
    BY <1>3, <1>10
  <2>2. Carried(cfg)
    BY <1>1, <1>4, <1>10 DEF LastReadCarried
  <2>3. loading[p] = {cfg}
    BY <1>5, <2>2 DEF Carried
  <2>4. CASE step = "built"
    <3>1. RebuildPrepare(p, cfg, served)
      BY <1>2, <2>3, <2>4 DEF Prepare
    <3>2. \A b \in rebuild'[p] : b.ups = cfg.ups /\ b.groups = EffectiveGroups(cfg)
      BY <1>1, <3>1 DEF RebuildPrepare, LdrTypeOK, MgrTypeOK
    <3>3. QED
      BY <1>2, <1>3, <2>1, <2>3, <2>4, <3>2 DEF Carried, AllIdle
  <2>5. CASE step = "applied"
    <3>1. PICK b \in rebuild[p] : groups' = b.groups /\ configured' = b.ups
      BY <1>2, <2>5 DEF Commit, RebuildCommit
    <3>2. Served(cfg)'
      BY <1>5, <2>2, <2>5, <3>1 DEF Carried, Served
    <3>3. QED
      BY <1>2, <1>3, <2>1, <2>3, <2>5, <3>2 DEF Carried, AllIdle
  <2>6. CASE step = "idle"
    <3>1. Served(cfg)' /\ current' = {cfg}
      BY <1>2, <1>5, <2>2, <2>3, <2>6 DEF Carried, Served, Store, mgrVars
    <3>2. QED
      BY <1>3, <2>1, <2>6, <3>1 DEF Carried, AllIdle
  <2>7. QED
    BY <2>4, <2>5, <2>6
<1>13. QED
  BY <1>8, <1>9, <1>11, <1>12 DEF LdrInv

LEMMA LdrNextInv == LdrInv /\ [LdrNext]_ldrVars => LdrInv'
<1> SUFFICES ASSUME LdrInv, [LdrNext]_ldrVars PROVE LdrInv'
  OBVIOUS
<1>1. MgrInv'
  BY LdrMgrInv
<1>2. CASE Arm \/ StartWatch \/ StopWatch \/ \E content \in Configs \cup {Broken} : Write(content)
  BY <1>1, <1>2, WatchInv
<1>3. ASSUME NEW p \in Reloaders,
             NewLoader(p) \/ Fire(p) \/ LoadFails(p) \/ Load(p) \/ RebuildFails(p)
      PROVE  LdrInv'
  BY <1>1, <1>3, ReadInv
<1>4. ASSUME NEW p \in Reloaders, Commit(p) \/ Store(p)
      PROVE  LdrInv'
  BY <1>1, <1>4, ApplyInv
<1>5. ASSUME NEW p \in Reloaders, NEW s \in [Upstreams -> Revisions], Prepare(p, s)
      PROVE  LdrInv'
  BY <1>1, <1>5, ApplyInv
<1>6. CASE UNCHANGED ldrVars
  <2>1. UNCHANGED <<mgrVars, fileVars, watchVars, reloadVars, news, overlapped>>
    BY <1>6 DEF ldrVars
  <2>2. LdrTypeOK'
    BY <1>1, <2>1 DEF LdrInv, MgrInv, LdrTypeOK, mgrVars, fileVars, watchVars, reloadVars
  <2>3. (SilentBefore /\ NothingMissed /\ OneAtATime)'
    BY <2>1 DEF LdrInv, SilentBefore, NothingMissed, OneAtATime, watchVars, reloadVars
  <2>4. LastReadCarried'
    BY <2>1 DEF LdrInv, LastReadCarried, Carried, AllIdle, Served, mgrVars,
       fileVars, reloadVars
  <2>5. QED
    BY <1>1, <2>2, <2>3, <2>4 DEF LdrInv
<1>7. QED
  BY <1>2, <1>3, <1>4, <1>5, <1>6 DEF LdrNext, Reload

LEMMA LdrInvariant == LdrSpec => []LdrInv
BY LdrInitInv, LdrNextInv, PTL DEF LdrSpec

(***************************************************************************)
(* Watching and reloading the config file, failing reloads and overlapping *)
(* ones included, drives the Manager only through Rebuild: the Manager's   *)
(* own theorems hold of it.                                                *)
(***************************************************************************)
THEOREM LoaderImplementsManager == LdrSpec => MgrSpec
<1>1. LdrInit => MgrInit
  BY DEF LdrInit
<1>2. LdrInv /\ [LdrNext]_ldrVars => [MgrNext]_mgrVars
  BY LoaderStep DEF LdrInv
<1>3. QED
  BY <1>1, <1>2, LdrInvariant, PTL DEF LdrSpec, MgrSpec

(***************************************************************************)
(* Reloads, overlapping ones included, leave routing table and servers in  *)
(* agreement: what Rebuild commits under the lock is sound although it was *)
(* built before the lock was taken (manager.go).                           *)
(***************************************************************************)
THEOREM ReloadingProxySafe == LdrSpec => [](RegistryWellFormed /\ GroupToolsServed)
BY LoaderImplementsManager, RoutingSound, ToolsServed, PTL

(***************************************************************************)
(* The loader keeps its types: in particular a reload holds a loaded       *)
(* configuration, and the Manager a build of it, exactly in the phases     *)
(* between the load and the store.                                         *)
(***************************************************************************)
THEOREM LdrTypeCorrect == LdrSpec => []LdrTypeOK
<1>1. LdrInv => LdrTypeOK
  BY DEF LdrInv
<1>2. QED
  BY <1>1, LdrInvariant, PTL

(***************************************************************************)
(* No change of the config file the watcher was told of is missed, however *)
(* writes, debounce and reloads interleave.                                *)
(***************************************************************************)
THEOREM ChangesNotMissed == LdrSpec => []NothingMissed
<1>1. LdrInv => NothingMissed
  BY DEF LdrInv
<1>2. QED
  BY <1>1, LdrInvariant, PTL

(***************************************************************************)
(* Reloads that do not overlap leave the file's configuration in force or  *)
(* have refused it, for any number of reloading goroutines; what reloads   *)
(* that overlapped left behind is put right by the next one that does not. *)
(***************************************************************************)
THEOREM SequentialReloadsCorrect == LdrSpec => []SequentialReloadsConverge
<1>1. LdrInv => SequentialReloadsConverge
  BY DEF LdrInv, LastReadCarried, Carried, SequentialReloadsConverge, AtRest
<1>2. QED
  BY <1>1, LdrInvariant, PTL

===============================================================================
