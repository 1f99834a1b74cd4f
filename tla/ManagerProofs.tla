---------------------------- MODULE ManagerProofs ----------------------------
(***************************************************************************)
(* The Manager's safety, for every set of upstreams, tools, groups,        *)
(* configurations and reloaders.                                           *)
(***************************************************************************)
EXTENDS Manager, TLAPS

-------------------------------------------------------------------------------
(* What the registry constructors return.                                  *)

(* The entries compiled for an upstream (http/builder.go Build,            *)
(* buildEntriesFromBytes) are entries of that upstream, and there are some.*)
LEMMA EntriesOfFacts ==
  ASSUME NEW u \in Upstreams, NEW r \in Revisions, NEW pol \in BOOLEAN
  PROVE  /\ EntriesOf(u, r, pol) \in SUBSET Entry
         /\ \A e \in EntriesOf(u, r, pol) : e.up = u
         /\ EntriesOf(u, r, pol) # {}
<1>1. SpecTools[u][r] \subseteq Tools /\ SpecTools[u][r] # {}
  BY RegistryConstants
<1>2. EntriesOf(u, r, pol) \in SUBSET Entry
  BY <1>1 DEF EntriesOf, Entry
<1>3. \A e \in EntriesOf(u, r, pol) : e.up = u
  BY DEF EntriesOf
<1>4. EntriesOf(u, r, pol) # {}
  <2>1. PICK t \in SpecTools[u][r] : TRUE
    BY <1>1
  <2>2. [tool |-> t, up |-> u, rev |-> r, policies |-> pol] \in EntriesOf(u, r, pol)
    BY <2>1 DEF EntriesOf
  <2>3. QED
    BY <2>2
<1>5. QED
  BY <1>2, <1>3, <1>4

(* registry.New and NewFromEntries return a registry.                      *)
LEMMA NewRegistryType ==
  ASSUME NEW es \in SUBSET Entry, NEW gs
  PROVE  NewRegistry(es, gs) \in Registry
BY DEF NewRegistry, Registry, GroupMembers

(* manager.go:294-305: the groups in force are groups, with distinct names *)
(* and endpoints, also when the default group is made up.                  *)
LEMMA EffectiveGroupsFacts ==
  ASSUME NEW cfg \in Configs
  PROVE  /\ EffectiveGroups(cfg) \in SUBSET Group
         /\ DistinctGroups(EffectiveGroups(cfg))
<1>1. cfg \in Config /\ DistinctGroups(cfg.groups)
  BY ManagerConstants
<1>2. CASE cfg.groups = {}
  BY <1>1, <1>2, RegistryConstants DEF EffectiveGroups, Config, Group, DistinctGroups
<1>3. CASE cfg.groups # {}
  BY <1>1, <1>3 DEF EffectiveGroups, Config
<1>4. QED
  BY <1>2, <1>3

(* The entries Rebuild builds before it takes the lock.                    *)
LEMMA BuiltEntriesType ==
  ASSUME NEW cfg \in Configs, NEW served \in [Upstreams -> Revisions]
  PROVE  BuiltEntries(cfg, served) \in SUBSET Entry
<1>1. cfg.ups \subseteq Upstreams
  BY ManagerConstants DEF Config
<1>2. ASSUME NEW u \in cfg.ups
      PROVE  EntriesOf(u, served[u], TRUE) \in SUBSET Entry
  BY <1>1, EntriesOfFacts
<1>3. QED
  BY <1>2 DEF BuiltEntries

-------------------------------------------------------------------------------
(* applyRegistryLocked on the server of one group: as endpoints are        *)
(* distinct, the server of g's endpoint is updated for g and no other.     *)
LEMMA ServedValue ==
  ASSUME NEW new, NEW gs \in SUBSET Group, DistinctGroups(gs),
         NEW g \in gs, NEW t \in Tools
  PROVE  ServedAfter(new, gs, g.endpoint)[t] =
           IF t \in new.groups[g.name]
           THEN {[group |-> g.name, policies |-> PoliciesOf(new, t)]}
           ELSE IF t \in registry.groups[g.name] THEN {}
           ELSE servers[g.endpoint][t]
<1>1. (CHOOSE h \in gs : h.endpoint = g.endpoint) = g
  BY DEF DistinctGroups
<1>2. \E h \in gs : h.endpoint = g.endpoint
  OBVIOUS
<1>3. QED
  BY <1>1, <1>2 DEF ServedAfter

LEMMA ServedType ==
  ASSUME MgrTypeOK, NEW new, NEW gs \in SUBSET Group, NEW e \in Endpoints
  PROVE  ServedAfter(new, gs, e) \in [Tools -> SUBSET Handler]
<1> DEFINE g == CHOOSE h \in gs : h.endpoint = e
<1>1. CASE \E h \in gs : h.endpoint = e
  <2>1. g \in gs
    BY <1>1
  <2>2. g.name \in GroupNames
    BY <2>1 DEF Group
  <2>3. \A t \in Tools : PoliciesOf(new, t) \in BOOLEAN
    BY DEF PoliciesOf
  <2>4. servers[e] \in [Tools -> SUBSET Handler]
    BY DEF MgrTypeOK
  <2>5. \A t \in Tools :
          [group |-> g.name, policies |-> PoliciesOf(new, t)] \in Handler
    BY <2>2, <2>3 DEF Handler
  <2> HIDE DEF g
  <2>6. [t \in Tools |->
          IF t \in new.groups[g.name]
          THEN {[group |-> g.name, policies |-> PoliciesOf(new, t)]}
          ELSE IF t \in registry.groups[g.name] THEN {}
          ELSE servers[e][t]] \in [Tools -> SUBSET Handler]
    BY <2>4, <2>5
  <2>7. QED
    BY <1>1, <2>6 DEF ServedAfter, g
<1>2. CASE ~\E h \in gs : h.endpoint = e
  BY <1>2 DEF ServedAfter, MgrTypeOK
<1>3. QED
  BY <1>1, <1>2

(* ApplyRegistry keeps the types of what it writes.                        *)
LEMMA ApplyRegistryType ==
  ASSUME MgrTypeOK, NEW es \in SUBSET Entry, NEW gs \in SUBSET Group,
         ApplyRegistry(NewRegistry(es, gs), gs)
  PROVE  /\ registry' \in Registry
         /\ servers' \in [Endpoints -> [Tools -> SUBSET Handler]]
BY NewRegistryType, ServedType DEF ApplyRegistry

(***************************************************************************)
(* Whatever the servers held, after applyRegistryLocked every group serves *)
(* its tools.                                                              *)
(***************************************************************************)
LEMMA ApplyRegistryServes ==
  ASSUME MgrTypeOK, NEW es \in SUBSET Entry, NEW gs \in SUBSET Group,
         DistinctGroups(gs), groups' = gs,
         ApplyRegistry(NewRegistry(es, gs), gs)
  PROVE  GroupToolsServed'
<1>1. registry' = NewRegistry(es, gs)
  BY DEF ApplyRegistry
<1>2. ASSUME NEW g \in gs, NEW t \in Tools,
             t \in NewRegistry(es, gs).groups[g.name]
      PROVE  servers'[g.endpoint][t] =
               {[group |-> g.name, policies |-> PoliciesOf(NewRegistry(es, gs), t)]}
  <2>1. servers'[g.endpoint] = ServedAfter(NewRegistry(es, gs), gs, g.endpoint)
    BY DEF ApplyRegistry, Group
  <2>2. servers'[g.endpoint][t] =
           IF t \in NewRegistry(es, gs).groups[g.name]
           THEN {[group |-> g.name, policies |-> PoliciesOf(NewRegistry(es, gs), t)]}
           ELSE IF t \in registry.groups[g.name] THEN {}
           ELSE servers[g.endpoint][t]
    BY <2>1, ServedValue
  <2>3. QED
    BY <1>2, <2>2
<1>3. \A g \in gs : NewRegistry(es, gs).groups[g.name] \subseteq Tools
  BY DEF NewRegistry, GroupMembers, Group
<1>4. \A t \in Tools : PoliciesOf(NewRegistry(es, gs), t) = PoliciesOf(registry, t)'
  BY <1>1 DEF PoliciesOf
<1>5. QED
  BY <1>1, <1>2, <1>3, <1>4 DEF GroupToolsServed

(***************************************************************************)
(* A server that holds nothing but its group's tools still does after      *)
(* applyRegistryLocked with the same groups.                               *)
(***************************************************************************)
LEMMA ApplyRegistryMirrors ==
  ASSUME MgrTypeOK, NEW es \in SUBSET Entry, NEW gs \in SUBSET Group,
         DistinctGroups(gs), groups = gs, groups' = gs, ServersMirrorRegistry,
         ApplyRegistry(NewRegistry(es, gs), gs)
  PROVE  ServersMirrorRegistry'
<1> SUFFICES ASSUME NEW g \in gs, NEW t \in Tools,
                    servers'[g.endpoint][t] # {}
             PROVE  t \in registry'.groups[g.name]
  BY DEF ServersMirrorRegistry
<1>1. registry' = NewRegistry(es, gs)
  BY DEF ApplyRegistry
<1>2. g.endpoint \in Endpoints
  BY DEF Group
<1>3. servers'[g.endpoint] = ServedAfter(NewRegistry(es, gs), gs, g.endpoint)
  BY <1>2 DEF ApplyRegistry
<1>4. servers'[g.endpoint][t] =
           IF t \in NewRegistry(es, gs).groups[g.name]
           THEN {[group |-> g.name, policies |-> PoliciesOf(NewRegistry(es, gs), t)]}
           ELSE IF t \in registry.groups[g.name] THEN {}
           ELSE servers[g.endpoint][t]
  BY <1>3, ServedValue
<1>5. servers[g.endpoint][t] # {} => t \in registry.groups[g.name]
  BY DEF ServersMirrorRegistry
<1>6. QED
  BY <1>1, <1>4, <1>5

-------------------------------------------------------------------------------
(***************************************************************************)
(* The inductive invariant.  RegistryWellFormed, GroupToolsServed and      *)
(* NoOrphans are not inductive alone: a Rebuild commits what it built      *)
(* before the lock, so what it holds must be free of conflicts and its     *)
(* groups distinct (BuildsSound); an update replaces an upstream's         *)
(* entries, so the state must file each entry under its own upstream       *)
(* (StateOwned); and a group's tool set must be exactly the one computed   *)
(* from the entries and groups in force (GroupsExact).                     *)
(***************************************************************************)
BuildsSound ==
  \A p \in Reloaders : \A b \in rebuild[p] :
    ~Conflict(b.entries) /\ DistinctGroups(b.groups)

StateOwned ==
  \A u \in Upstreams : \A e \in upstreamByName[u] : e.up = u

GroupsExact ==
  /\ DistinctGroups(groups)
  /\ registry = NewRegistry(registry.entries, groups)
  /\ ~Conflict(registry.entries)

MgrInv ==
  /\ MgrTypeOK
  /\ BuildsSound
  /\ StateOwned
  /\ GroupsExact
  /\ GroupToolsServed
  /\ RegistryReflectsState
  /\ NoOrphans

(* The invariant holds of what NewManager returns.                         *)
LEMMA InitInv == MgrInit => MgrInv
<1> SUFFICES ASSUME MgrInit PROVE MgrInv
  OBVIOUS
<1> USE DEF MgrInit
<1>1. MgrTypeOK
  BY DEF MgrTypeOK, EmptyRegistry, Registry
<1>2. BuildsSound /\ StateOwned
  BY DEF BuildsSound, StateOwned
<1>3. GroupsExact
  <2>1. registry.entries = {} /\ registry.groups = [n \in GroupNames |-> {}]
    BY DEF EmptyRegistry
  <2>2. \A n \in GroupNames : GroupMembers({}, {}, n) = {}
    BY DEF GroupMembers
  <2>3. registry = NewRegistry(registry.entries, groups)
    BY <2>1, <2>2 DEF EmptyRegistry, NewRegistry
  <2>4. QED
    BY <2>1, <2>3 DEF GroupsExact, DistinctGroups, Conflict
<1>4. GroupToolsServed
  BY DEF GroupToolsServed
<1>5. RegistryReflectsState /\ NoOrphans
  BY DEF RegistryReflectsState, NoOrphans, AllEntries, EmptyRegistry
<1>6. QED
  BY <1>1, <1>2, <1>3, <1>4, <1>5 DEF MgrInv

(* Rebuild before the lock touches nothing but what it builds.             *)
LEMMA PrepareInv ==
  ASSUME MgrInv, NEW p \in Reloaders, NEW cfg \in Configs,
         NEW served \in [Upstreams -> Revisions], RebuildPrepare(p, cfg, served)
  PROVE  MgrInv'
<1> DEFINE b == [entries |-> BuiltEntries(cfg, served),
                 groups |-> EffectiveGroups(cfg), ups |-> cfg.ups]
<1>1. b \in Build
  BY BuiltEntriesType, EffectiveGroupsFacts, ManagerConstants DEF Build, Config
<1>2. ~Conflict(b.entries) /\ DistinctGroups(b.groups)
  BY EffectiveGroupsFacts DEF RebuildPrepare
<1>3. rebuild' = [rebuild EXCEPT ![p] = {b}]
  BY DEF RebuildPrepare
<1> HIDE DEF b
<1>4. UNCHANGED <<initialised, upstreamByName, registry, groups, servers, configured>>
  BY DEF RebuildPrepare
<1>5. MgrTypeOK'
  BY <1>1, <1>3, <1>4 DEF MgrInv, MgrTypeOK
<1>6. BuildsSound'
  BY <1>2, <1>3 DEF MgrInv, MgrTypeOK, BuildsSound
<1>7. StateOwned' /\ GroupsExact' /\ RegistryReflectsState' /\ NoOrphans'
  BY <1>4 DEF MgrInv, StateOwned, GroupsExact, RegistryReflectsState, NoOrphans
<1>8. GroupToolsServed'
  BY <1>4 DEF MgrInv, GroupToolsServed, PoliciesOf
<1>9. QED
  BY <1>5, <1>6, <1>7, <1>8 DEF MgrInv

(* Rebuild under the lock, however stale what it built may be.             *)
LEMMA CommitInv ==
  ASSUME MgrInv, NEW p \in Reloaders, RebuildCommit(p)
  PROVE  MgrInv'
<1>1. PICK b \in rebuild[p] :
        /\ ApplyRegistry(NewRegistry(b.entries, b.groups), b.groups)
        /\ groups' = b.groups
        /\ configured' = b.ups
        /\ initialised' = TRUE
        /\ upstreamByName' = [u \in Upstreams |-> {e \in b.entries : e.up = u}]
        /\ rebuild' = [rebuild EXCEPT ![p] = {}]
  BY DEF RebuildCommit
<1>2. b \in Build /\ ~Conflict(b.entries) /\ DistinctGroups(b.groups)
  BY <1>1 DEF MgrInv, MgrTypeOK, BuildsSound
<1>3. b.entries \in SUBSET Entry /\ b.groups \in SUBSET Group /\ b.ups \in SUBSET Upstreams
  BY <1>2 DEF Build
<1>4. registry' = NewRegistry(b.entries, b.groups)
  BY <1>1 DEF ApplyRegistry
<1>5. registry'.entries = b.entries
  BY <1>4 DEF NewRegistry
<1>6. MgrTypeOK'
  <2>1. /\ registry' \in Registry
        /\ servers' \in [Endpoints -> [Tools -> SUBSET Handler]]
    BY <1>1, <1>3, ApplyRegistryType DEF MgrInv
  <2>2. upstreamByName' \in [Upstreams -> SUBSET Entry]
    BY <1>1, <1>3
  <2>3. rebuild' \in [Reloaders -> SUBSET Build]
    BY <1>1 DEF MgrInv, MgrTypeOK
  <2>4. QED
    BY <1>1, <1>3, <2>1, <2>2, <2>3 DEF MgrTypeOK
<1>7. BuildsSound'
  BY <1>1 DEF MgrInv, MgrTypeOK, BuildsSound
<1>8. StateOwned'
  BY <1>1 DEF StateOwned
<1>9. GroupsExact'
  BY <1>1, <1>2, <1>4, <1>5 DEF GroupsExact
<1>10. GroupToolsServed'
  BY <1>1, <1>2, <1>3, ApplyRegistryServes DEF MgrInv
<1>11. AllEntries(upstreamByName') = b.entries
  BY <1>1, <1>3 DEF AllEntries, Entry
<1>12. RegistryReflectsState'
  BY <1>5, <1>11 DEF RegistryReflectsState
<1>13. NoOrphans'
  BY <1>1, <1>3, <1>5 DEF NoOrphans, Entry
<1>14. QED
  BY <1>6, <1>7, <1>8, <1>9, <1>10, <1>12, <1>13 DEF MgrInv

(***************************************************************************)
(* rebuildFromStateLocked succeeds for a state W in which every upstream   *)
(* has its own entries.                                                    *)
(***************************************************************************)
LEMMA FromStateInv ==
  ASSUME MgrInv, NEW W \in [Upstreams -> SUBSET Entry],
         \A u \in Upstreams : \A e \in W[u] : e.up = u,
         ~Conflict(AllEntries(W)), RebuildFromState(W), upstreamByName' = W,
         UNCHANGED <<initialised, groups, configured, rebuild>>
  PROVE  MgrInv'
<1>1. PICK gs : gs = groups
  OBVIOUS
<1>2. PICK es : es = AllEntries(W)
  OBVIOUS
<1>3. es \in SUBSET Entry
  BY <1>2 DEF AllEntries
<1>4. gs \in SUBSET Group /\ DistinctGroups(gs)
  BY <1>1 DEF MgrInv, MgrTypeOK, GroupsExact
<1>5. ApplyRegistry(NewRegistry(es, gs), gs)
  BY <1>1, <1>2 DEF RebuildFromState
<1>6. registry' = NewRegistry(es, gs) /\ registry'.entries = es
  BY <1>5 DEF ApplyRegistry, NewRegistry
<1>7. MgrTypeOK'
  <2>1. /\ registry' \in Registry
        /\ servers' \in [Endpoints -> [Tools -> SUBSET Handler]]
    BY <1>3, <1>4, <1>5, ApplyRegistryType DEF MgrInv
  <2>2. QED
    BY <2>1 DEF MgrInv, MgrTypeOK
<1>8. BuildsSound'
  BY DEF MgrInv, BuildsSound
<1>9. StateOwned'
  BY DEF StateOwned
<1>10. GroupsExact'
  BY <1>1, <1>2, <1>4, <1>6 DEF GroupsExact
<1>11. GroupToolsServed'
  BY <1>1, <1>3, <1>4, <1>5, ApplyRegistryServes DEF MgrInv
<1>12. RegistryReflectsState'
  BY <1>2, <1>6 DEF RegistryReflectsState
<1>13. NoOrphans'
  BY <1>2, <1>6 DEF NoOrphans, AllEntries
<1>14. QED
  BY <1>7, <1>8, <1>9, <1>10, <1>11, <1>12, <1>13 DEF MgrInv

(***************************************************************************)
(* rebuildFromStateLocked fails: the registry stays, and the state written *)
(* still has entries for every upstream it had some for.                   *)
(***************************************************************************)
LEMMA StaleStateInv ==
  ASSUME MgrInv, NEW W \in [Upstreams -> SUBSET Entry],
         \A u \in Upstreams : \A e \in W[u] : e.up = u,
         \A u \in Upstreams : upstreamByName[u] # {} => W[u] # {},
         Conflict(AllEntries(W)) \/ W = upstreamByName,
         upstreamByName' = W, UNCHANGED <<registry, servers>>,
         UNCHANGED <<initialised, groups, configured, rebuild>>
  PROVE  MgrInv'
<1>1. MgrTypeOK'
  BY DEF MgrInv, MgrTypeOK
<1>2. BuildsSound' /\ StateOwned' /\ GroupsExact'
  BY DEF MgrInv, BuildsSound, StateOwned, GroupsExact
<1>3. GroupToolsServed'
  BY DEF MgrInv, GroupToolsServed, PoliciesOf
<1>4. RegistryReflectsState'
  BY DEF MgrInv, RegistryReflectsState
<1>5. NoOrphans'
  <2>1. \A e \in registry.entries : e.up \in Upstreams
    BY DEF MgrInv, MgrTypeOK, Registry, Entry
  <2>2. QED
    BY <2>1 DEF MgrInv, NoOrphans
<1>6. QED
  BY <1>1, <1>2, <1>3, <1>4, <1>5 DEF MgrInv

LEMMA UpdateInv ==
  ASSUME MgrInv, NEW u \in Upstreams, NEW r \in Revisions, UpdateUpstream(u, r)
  PROVE  MgrInv'
<1>1. PICK W : W = WithUpstream(u, r)
  OBVIOUS
<1>2. /\ EntriesOf(u, r, FALSE) \in SUBSET Entry
      /\ EntriesOf(u, r, FALSE) # {}
      /\ \A e \in EntriesOf(u, r, FALSE) : e.up = u
  BY EntriesOfFacts
<1>3. upstreamByName \in [Upstreams -> SUBSET Entry]
  BY DEF MgrInv, MgrTypeOK
<1>4. W = [upstreamByName EXCEPT ![u] = EntriesOf(u, r, FALSE)]
  BY <1>1 DEF WithUpstream
<1>5. W \in [Upstreams -> SUBSET Entry]
  BY <1>2, <1>3, <1>4
<1>6. \A v \in Upstreams : \A e \in W[v] : e.up = v
  BY <1>2, <1>3, <1>4 DEF MgrInv, StateOwned
<1>7. \A v \in Upstreams : upstreamByName[v] # {} => W[v] # {}
  BY <1>2, <1>3, <1>4
<1>8. /\ upstreamByName' = W
      /\ RebuildFromState(W)
      /\ UNCHANGED <<initialised, groups, configured, rebuild>>
  BY <1>1 DEF UpdateUpstream
<1>9. CASE Conflict(AllEntries(W))
  BY <1>5, <1>6, <1>7, <1>8, <1>9, StaleStateInv DEF RebuildFromState
<1>10. CASE ~Conflict(AllEntries(W))
  BY <1>5, <1>6, <1>8, <1>10, FromStateInv
<1>11. QED
  BY <1>9, <1>10

LEMMA RemoveInv ==
  ASSUME MgrInv, NEW u \in Upstreams, RemoveUpstream(u)
  PROVE  MgrInv'
<1>1. PICK W : W = WithoutUpstream(u)
  OBVIOUS
<1>2. PICK old : old = upstreamByName
  OBVIOUS
<1>3. old \in [Upstreams -> SUBSET Entry] /\ \A v \in Upstreams : \A e \in old[v] : e.up = v
  BY <1>2 DEF MgrInv, MgrTypeOK, StateOwned
<1>4. W = [old EXCEPT ![u] = {}]
  BY <1>1, <1>2 DEF WithoutUpstream
<1>5. W \in [Upstreams -> SUBSET Entry] /\ \A v \in Upstreams : \A e \in W[v] : e.up = v
  BY <1>3, <1>4
<1>6. /\ upstreamByName' = IF Conflict(AllEntries(W)) THEN old ELSE W
      /\ RebuildFromState(W)
      /\ UNCHANGED <<initialised, groups, configured, rebuild>>
  BY <1>1, <1>2 DEF RemoveUpstream
<1>7. CASE Conflict(AllEntries(W))
  <2>1. upstreamByName' = old /\ UNCHANGED <<registry, servers>>
    BY <1>6, <1>7 DEF RebuildFromState
  <2>2. QED
    BY <1>2, <1>3, <1>6, <2>1, StaleStateInv
<1>8. CASE ~Conflict(AllEntries(W))
  <2>1. upstreamByName' = W
    BY <1>6, <1>8
  <2>2. QED
    BY <1>5, <1>6, <1>8, <2>1, FromStateInv
<1>9. QED
  BY <1>7, <1>8

(* A step that changes nothing.                                            *)
LEMMA StutterInv == MgrInv /\ UNCHANGED mgrVars => MgrInv'
BY DEF MgrInv, mgrVars, MgrTypeOK, BuildsSound, StateOwned, GroupsExact,
       GroupToolsServed, PoliciesOf, RegistryReflectsState, NoOrphans

LEMMA NextInv == MgrInv /\ [MgrNext]_mgrVars => MgrInv'
<1> SUFFICES ASSUME MgrInv, [MgrNext]_mgrVars PROVE MgrInv'
  OBVIOUS
<1>1. CASE \E p \in Reloaders, cfg \in Configs, served \in [Upstreams -> Revisions] :
             RebuildPrepare(p, cfg, served)
  BY <1>1, PrepareInv
<1>2. CASE \E p \in Reloaders : RebuildCommit(p)
  BY <1>2, CommitInv
<1>3. CASE \E u \in Upstreams, r \in Revisions : UpdateUpstream(u, r)
  BY <1>3, UpdateInv
<1>4. CASE \E u \in Upstreams : RemoveUpstream(u)
  BY <1>4, RemoveInv
<1>5. CASE UNCHANGED mgrVars
  BY <1>5, StutterInv
<1>6. QED
  BY <1>1, <1>2, <1>3, <1>4, <1>5 DEF MgrNext

(* The inductive invariant is an invariant.                                *)
LEMMA InvHolds == MgrSpec => []MgrInv
BY InitInv, NextInv, PTL DEF MgrSpec

-------------------------------------------------------------------------------
(***************************************************************************)
(* Every field of the Manager keeps its type.                              *)
(***************************************************************************)
THEOREM TypeCorrect == MgrSpec => []MgrTypeOK
<1>1. MgrInv => MgrTypeOK
  BY DEF MgrInv
<1>2. QED
  BY <1>1, InvHolds, PTL

(***************************************************************************)
(* Calls are always routed by a registry that names each tool once, and    *)
(* whose groups hold only tools of upstreams they list, whatever reloads,  *)
(* refreshes and removals interleave.                                      *)
(***************************************************************************)
THEOREM RoutingSound == MgrSpec => []RegistryWellFormed
<1>1. MgrInv => RegistryWellFormed
  <2> SUFFICES ASSUME MgrInv PROVE RegistryWellFormed
    OBVIOUS
  <2>1. ~Conflict(registry.entries)
    BY DEF MgrInv, GroupsExact
  <2>2. \A n \in GroupNames :
          registry.groups[n] = GroupMembers(registry.entries, groups, n)
    BY DEF MgrInv, GroupsExact, NewRegistry
  <2>3. QED
    BY <2>1, <2>2 DEF RegistryWellFormed, GroupMembers
<1>2. QED
  BY <1>1, InvHolds, PTL

(***************************************************************************)
(* Every tool of a group in force is registered on the group's server,     *)
(* with a handler that dispatches to that group.                           *)
(***************************************************************************)
THEOREM ToolsServed == MgrSpec => []GroupToolsServed
<1>1. MgrInv => GroupToolsServed
  BY DEF MgrInv
<1>2. QED
  BY <1>1, InvHolds, PTL

(***************************************************************************)
(* The live registry is what the upstreams handed in, unless that is       *)
(* contradictory.                                                          *)
(***************************************************************************)
THEOREM RegistryCurrent == MgrSpec => []RegistryReflectsState
<1>1. MgrInv => RegistryReflectsState
  BY DEF MgrInv
<1>2. QED
  BY <1>1, InvHolds, PTL

(* A live tool's upstream always has its state (RemoveUpstream rolls back).*)
THEOREM NoOrphanTools == MgrSpec => []NoOrphans
<1>1. MgrInv => NoOrphans
  BY DEF MgrInv
<1>2. QED
  BY <1>1, InvHolds, PTL

(***************************************************************************)
(* A step that keeps the groups leaves no removed tool behind on a server  *)
(* that was clean.                                                         *)
(***************************************************************************)
LEMMA RebuildFromStateMirrors ==
  ASSUME MgrInv, NEW W \in [Upstreams -> SUBSET Entry], groups' = groups,
         ServersMirrorRegistry, RebuildFromState(W)
  PROVE  ServersMirrorRegistry'
<1>1. CASE Conflict(AllEntries(W))
  BY <1>1 DEF RebuildFromState, ServersMirrorRegistry
<1>2. CASE ~Conflict(AllEntries(W))
  <2>1. PICK gs : gs = groups
    OBVIOUS
  <2>2. PICK es : es = AllEntries(W)
    OBVIOUS
  <2>3. es \in SUBSET Entry
    BY <2>2 DEF AllEntries
  <2>4. gs \in SUBSET Group /\ DistinctGroups(gs)
    BY <2>1 DEF MgrInv, MgrTypeOK, GroupsExact
  <2>5. ApplyRegistry(NewRegistry(es, gs), gs)
    BY <1>2, <2>1, <2>2 DEF RebuildFromState
  <2>6. QED
    BY <2>1, <2>3, <2>4, <2>5, ApplyRegistryMirrors DEF MgrInv
<1>3. QED
  BY <1>1, <1>2

LEMMA NextMirrors ==
  ASSUME MgrInv, [MgrNext]_mgrVars, groups' = groups, ServersMirrorRegistry
  PROVE  ServersMirrorRegistry'
<1>1. upstreamByName \in [Upstreams -> SUBSET Entry]
  BY DEF MgrInv, MgrTypeOK
<1>2. ASSUME NEW p \in Reloaders, NEW cfg \in Configs,
             NEW served \in [Upstreams -> Revisions], RebuildPrepare(p, cfg, served)
      PROVE  ServersMirrorRegistry'
  BY <1>2 DEF RebuildPrepare, ServersMirrorRegistry
<1>3. ASSUME NEW p \in Reloaders, RebuildCommit(p)
      PROVE  ServersMirrorRegistry'
  <2>1. PICK b \in rebuild[p] :
          /\ ApplyRegistry(NewRegistry(b.entries, b.groups), b.groups)
          /\ groups' = b.groups
    BY <1>3 DEF RebuildCommit
  <2>2. b \in Build /\ DistinctGroups(b.groups)
    BY <2>1 DEF MgrInv, MgrTypeOK, BuildsSound
  <2>3. b.entries \in SUBSET Entry /\ b.groups \in SUBSET Group
    BY <2>2 DEF Build
  <2>4. groups = b.groups
    BY <2>1
  <2>5. QED
    BY <2>1, <2>2, <2>3, <2>4, ApplyRegistryMirrors DEF MgrInv
<1>4. ASSUME NEW u \in Upstreams, NEW r \in Revisions, UpdateUpstream(u, r)
      PROVE  ServersMirrorRegistry'
  <2>1. PICK W : W = WithUpstream(u, r)
    OBVIOUS
  <2>2. W \in [Upstreams -> SUBSET Entry]
    BY <1>1, <2>1, EntriesOfFacts DEF WithUpstream
  <2>3. RebuildFromState(W)
    BY <1>4, <2>1 DEF UpdateUpstream
  <2>4. QED
    BY <2>2, <2>3, RebuildFromStateMirrors
<1>5. ASSUME NEW u \in Upstreams, RemoveUpstream(u)
      PROVE  ServersMirrorRegistry'
  <2>1. PICK W : W = WithoutUpstream(u)
    OBVIOUS
  <2>2. W \in [Upstreams -> SUBSET Entry]
    BY <1>1, <2>1 DEF WithoutUpstream
  <2>3. RebuildFromState(W)
    BY <1>5, <2>1 DEF RemoveUpstream
  <2>4. QED
    BY <2>2, <2>3, RebuildFromStateMirrors
<1>6. CASE UNCHANGED mgrVars
  BY <1>6 DEF mgrVars, ServersMirrorRegistry
<1>7. QED
  BY <1>2, <1>3, <1>4, <1>5, <1>6 DEF MgrNext

(***************************************************************************)
(* applyRegistryLocked never leaves a removed tool behind on a clean       *)
(* server as long as the groups stay: no refresh, removal or reload of the *)
(* same groups makes a server list a tool the registry does not have.      *)
(***************************************************************************)
THEOREM RefreshLeavesNothingBehind == MgrSpec => MirrorPreserved
<1>1. MgrInv /\ [MgrNext]_mgrVars =>
        [groups' = groups /\ ServersMirrorRegistry => ServersMirrorRegistry']_mgrVars
  BY NextMirrors
<1>2. QED
  BY <1>1, InvHolds, PTL DEF MgrSpec, MirrorPreserved

===============================================================================
