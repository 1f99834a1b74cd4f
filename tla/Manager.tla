------------------------------- MODULE Manager -------------------------------
(***************************************************************************)
(* pkg/mcp/manager.go: the Manager owns the live registry and one MCP      *)
(* server per group endpoint.  Rebuild (config reload) builds everything   *)
(* without the lock and then swaps it in under the lock; UpdateUpstream    *)
(* and RemoveUpstream (background refresh) run under the lock as a whole.  *)
(* A section under m.mu is one action; what happens outside it is another. *)
(***************************************************************************)
EXTENDS ToolRegistry

CONSTANTS Configs,          \* the configurations the config file may hold
          Reloaders         \* goroutines that may be inside Rebuild

ASSUME ManagerConstants ==
  /\ Configs \subseteq Config
  /\ \A cfg \in Configs : DistinctGroups(cfg.groups)

VARIABLES initialised,      \* m.namingCfg # nil: some Rebuild has succeeded
          upstreamByName,   \* per upstream, the entries it last handed in
          registry,         \* m.registry
          groups,           \* m.groups
          servers,          \* per endpoint and tool, the handler registered
          configured,       \* upstreams enabled in the configuration in force
          rebuild           \* per reloader, what Rebuild holds before the lock

mgrVars == <<initialised, upstreamByName, registry, groups, servers,
             configured, rebuild>>

(* What a tool handler closure captures.                                   *)
Handler == [group: GroupNames, policies: BOOLEAN]

(* The result of the part of Rebuild that runs before the lock is taken.   *)
Build == [entries: SUBSET Entry, groups: SUBSET Group, ups: SUBSET Upstreams]

(* Options are sets with at most one element.                              *)
MgrTypeOK ==
  /\ initialised \in BOOLEAN
  /\ upstreamByName \in [Upstreams -> SUBSET Entry]
  /\ registry \in Registry
  /\ groups \in SUBSET Group
  /\ servers \in [Endpoints -> [Tools -> SUBSET Handler]]
  /\ configured \in SUBSET Upstreams
  /\ rebuild \in [Reloaders -> SUBSET Build]

(* NewManager                                                              *)
MgrInit ==
  /\ initialised = FALSE
  /\ upstreamByName = [u \in Upstreams |-> {}]
  /\ registry = EmptyRegistry
  /\ groups = {}
  /\ servers = [e \in Endpoints |-> [t \in Tools |-> {}]]
  /\ configured = {}
  /\ rebuild = [p \in Reloaders |-> {}]

AllEntries(state) == UNION {state[u] : u \in Upstreams}

(***************************************************************************)
(* applyRegistryLocked: on the server of each group, the tools the OLD     *)
(* registry has for the group's NAME and the new one does not are removed, *)
(* and every tool of the group in the new registry is (re)registered.      *)
(* Whatever else the server holds stays.                                   *)
(***************************************************************************)
ServedAfterNoRemoval(new, gs, e) ==
  IF \E g \in gs : g.endpoint = e
  THEN LET g == CHOOSE h \in gs : h.endpoint = e IN
       [t \in Tools |->
          IF t \in new.groups[g.name]
          THEN {[group |-> g.name, policies |-> PoliciesOf(new, t)]}
          ELSE servers[e][t]]
  ELSE servers[e]

ServedAfterAddOnlyNew(new, gs, e) ==
  IF \E g \in gs : g.endpoint = e
  THEN LET g == CHOOSE h \in gs : h.endpoint = e IN
       [t \in Tools |->
          IF t \in new.groups[g.name] \ registry.groups[g.name]
          THEN {[group |-> g.name, policies |-> PoliciesOf(new, t)]}
          ELSE IF t \in registry.groups[g.name] \ new.groups[g.name] THEN {}
          ELSE servers[e][t]]
  ELSE servers[e]

ServedAfter(new, gs, e) ==
  IF \E g \in gs : g.endpoint = e
  THEN LET g == CHOOSE h \in gs : h.endpoint = e IN
       [t \in Tools |->
          IF t \in new.groups[g.name]
          THEN {[group |-> g.name, policies |-> PoliciesOf(new, t)]}
          ELSE IF t \in registry.groups[g.name] THEN {}
          ELSE servers[e][t]]
  ELSE servers[e]

ApplyRegistry(new, gs) ==
  /\ registry' = new
  /\ servers' = [e \in Endpoints |-> ServedAfter(new, gs, e)]

(* rebuildFromStateLocked                                                  *)
RebuildFromStateUnchecked(state) ==
  ApplyRegistry(NewRegistry(AllEntries(state), groups), groups)

RebuildFromState(state) ==
  IF Conflict(AllEntries(state))
  THEN UNCHANGED <<registry, servers>>
  ELSE ApplyRegistry(NewRegistry(AllEntries(state), groups), groups)

-------------------------------------------------------------------------------
(***************************************************************************)
(* Rebuild up to m.mu.Lock(): check the configuration, fetch and build     *)
(* each enabled upstream at the revision its spec server serves, build the *)
(* registry.  A failing step returns an error and changes nothing.         *)
(***************************************************************************)
BuiltEntries(cfg, served) ==
  UNION {EntriesOf(u, served[u], TRUE) : u \in cfg.ups}

RebuildPrepareUnchecked(p, cfg, served) ==
  /\ rebuild[p] = {}
  /\ cfg.valid
  /\ rebuild' = [rebuild EXCEPT ![p] =
        {[entries |-> BuiltEntries(cfg, served),
          groups |-> EffectiveGroups(cfg), ups |-> cfg.ups]}]
  /\ UNCHANGED <<initialised, upstreamByName, registry, groups, servers,
                 configured>>

RebuildPrepare(p, cfg, served) ==
  /\ rebuild[p] = {}
  /\ cfg.valid
  /\ ~Conflict(BuiltEntries(cfg, served))
  /\ rebuild' = [rebuild EXCEPT ![p] =
        {[entries |-> BuiltEntries(cfg, served),
          groups |-> EffectiveGroups(cfg), ups |-> cfg.ups]}]
  /\ UNCHANGED <<initialised, upstreamByName, registry, groups, servers,
                 configured>>

(* Rebuild under the lock.                                                 *)
RebuildCommitKeepState(p) ==
  \E b \in rebuild[p] :
    /\ ApplyRegistry(NewRegistry(b.entries, b.groups), b.groups)
    /\ groups' = b.groups
    /\ configured' = b.ups
    /\ initialised' = TRUE
    /\ rebuild' = [rebuild EXCEPT ![p] = {}]
    /\ UNCHANGED upstreamByName

RebuildCommit(p) ==
  \E b \in rebuild[p] :
    /\ ApplyRegistry(NewRegistry(b.entries, b.groups), b.groups)
    /\ groups' = b.groups
    /\ configured' = b.ups
    /\ initialised' = TRUE
    /\ upstreamByName' =
         [u \in Upstreams |-> {e \in b.entries : e.up = u}]
    /\ rebuild' = [rebuild EXCEPT ![p] = {}]

(* upstreamByName once UpdateUpstream has written into it.                 *)
WithUpstream(u, r) ==
  [upstreamByName EXCEPT ![u] = EntriesOf(u, r, FALSE)]

(* UpdateUpstream returns nil.                                             *)
UpdateSucceeds(u, r) == ~Conflict(AllEntries(WithUpstream(u, r)))

(***************************************************************************)
(* UpdateUpstream with the entries of revision r, compiled by the          *)
(* refresher (without policies).  The per-upstream state is written first  *)
(* and stays written when the registry cannot be rebuilt.                  *)
(***************************************************************************)
UpdateUpstream(u, r) ==
  /\ initialised
  /\ upstreamByName' = WithUpstream(u, r)
  /\ RebuildFromState(WithUpstream(u, r))
  /\ UNCHANGED <<initialised, groups, configured, rebuild>>

(* RemoveUpstream: rolled back when the registry cannot be rebuilt.        *)
WithoutUpstream(u) == [upstreamByName EXCEPT ![u] = {}]

RemoveUpstreamNoRollback(u) ==
  /\ initialised
  /\ upstreamByName' = WithoutUpstream(u)
  /\ RebuildFromState(WithoutUpstream(u))
  /\ UNCHANGED <<initialised, groups, configured, rebuild>>

RemoveUpstream(u) ==
  /\ initialised
  /\ upstreamByName' = IF Conflict(AllEntries(WithoutUpstream(u)))
                       THEN upstreamByName ELSE WithoutUpstream(u)
  /\ RebuildFromState(WithoutUpstream(u))
  /\ UNCHANGED <<initialised, groups, configured, rebuild>>

-------------------------------------------------------------------------------
MgrNext ==
  \/ \E p \in Reloaders, cfg \in Configs, served \in [Upstreams -> Revisions] :
       RebuildPrepare(p, cfg, served)
  \/ \E p \in Reloaders : RebuildCommit(p)
  \/ \E u \in Upstreams, r \in Revisions : UpdateUpstream(u, r)
  \/ \E u \in Upstreams : RemoveUpstream(u)

MgrSpec == MgrInit /\ [][MgrNext]_mgrVars

-------------------------------------------------------------------------------
(***************************************************************************)
(* The registry that calls are routed by names each tool once, and a       *)
(* group holds only tools of upstreams the group lists, each with an entry *)
(* behind it (DispatchForGroup's "unknown tool" branch after its group     *)
(* check is dead; SPEC.md AC-11.4).                                        *)
(***************************************************************************)
RegistryWellFormed ==
  /\ ~Conflict(registry.entries)
  /\ \A n \in GroupNames : \A t \in registry.groups[n] :
       \E e \in registry.entries, g \in groups :
         e.tool = t /\ g.name = n /\ e.up \in g.ups

(***************************************************************************)
(* Every tool of a group in force is registered on the group's server with *)
(* a handler that dispatches to that group under the entry's own policies, *)
(* whatever reloads and refreshes went before.                             *)
(***************************************************************************)
GroupToolsServed ==
  \A g \in groups : \A t \in registry.groups[g.name] :
    servers[g.endpoint][t] =
      {[group |-> g.name, policies |-> PoliciesOf(registry, t)]}

(***************************************************************************)
(* The live registry is exactly what the upstreams handed in, unless what  *)
(* they handed in cannot coexist (an UpdateUpstream that failed leaves its *)
(* entries behind).                                                        *)
(***************************************************************************)
RegistryReflectsState ==
  ~Conflict(AllEntries(upstreamByName)) =>
     registry.entries = AllEntries(upstreamByName)

(***************************************************************************)
(* An upstream whose tools are live still has its state, so that a later   *)
(* refresh or removal can reach those tools (RemoveUpstream's rollback).   *)
(***************************************************************************)
NoOrphans == \A e \in registry.entries : upstreamByName[e.up] # {}

(* The servers of the groups in force hold nothing but their group's tools.*)
ServersMirrorRegistry ==
  \A g \in groups, t \in Tools :
    servers[g.endpoint][t] # {} => t \in registry.groups[g.name]

(***************************************************************************)
(* A step that keeps the groups (every refresh, and a reload of a          *)
(* configuration with the same groups) never leaves a removed tool behind  *)
(* on a server that was clean.                                             *)
(***************************************************************************)
MirrorPreserved ==
  [][groups' = groups /\ ServersMirrorRegistry => ServersMirrorRegistry']_mgrVars

===============================================================================
