----------------------------- MODULE ToolRegistry -----------------------------
(***************************************************************************)
(* pkg/upstream/registry.go: the immutable tool registry and the data it   *)
(* is built from.                                                          *)
(*                                                                         *)
(* A tool is its prefixed name.  A revision stands for one content of an   *)
(* upstream's OpenAPI spec (and for the ETag the spec server gives it);    *)
(* SpecTools[u][r] is the set of prefixed names generated from revision r. *)
(* Two upstreams may generate the same name although their prefixes        *)
(* differ (prefix a with tool b__c, prefix a__b with tool c), so the sets  *)
(* may overlap: that is the conflict the registry constructors refuse.     *)
(***************************************************************************)
CONSTANTS Upstreams,        \* names of upstreams
          Tools,            \* prefixed tool names
          GroupNames,       \* names of tool groups
          Endpoints,        \* HTTP paths of MCP servers
          Revisions,        \* contents of an upstream's spec
          SpecTools,        \* [Upstreams -> [Revisions -> SUBSET Tools]]
          DefaultGroup,     \* "default"
          DefaultEndpoint   \* "/mcp"

(* An upstream whose spec yields no tool at all is left out: an upstream   *)
(* that has no entries and one that is not in a map are then the same.     *)
ASSUME RegistryConstants ==
  /\ SpecTools \in [Upstreams -> [Revisions -> (SUBSET Tools) \ {{}}]]
  /\ DefaultGroup \in GroupNames
  /\ DefaultEndpoint \in Endpoints

(***************************************************************************)
(* A RegistryEntry.  policies: the entry carries what the configuration    *)
(* attaches to its upstream (rate limit, cache, UI handler, and the        *)
(* breaker of the Upstream it points to).                                  *)
(***************************************************************************)
Entry == [tool: Tools, up: Upstreams, rev: Revisions, policies: BOOLEAN]

(***************************************************************************)
(* A group of the configuration.  filter is the set of names its JSONPath  *)
(* filter lets through (all of Tools when it has none).                    *)
(***************************************************************************)
Group == [name: GroupNames, endpoint: Endpoints,
          ups: SUBSET Upstreams, filter: SUBSET Tools]

(***************************************************************************)
(* A configuration: the enabled upstreams, the groups and whether every    *)
(* check on the configuration alone passes (distinct tool prefixes, known  *)
(* rate limits, breakers and caches, filters that compile, a cache store   *)
(* and a rate-limit enforcer that can be built).                           *)
(***************************************************************************)
Config == [ups: SUBSET Upstreams, groups: SUBSET Group, valid: BOOLEAN]

(* Group names and endpoints are taken to be distinct.                     *)
DistinctGroups(gs) ==
  \A g, h \in gs : g # h => g.name # h.name /\ g.endpoint # h.endpoint

(* The groups in force: a default group of all enabled upstreams when the  *)
(* configuration has none.                                                 *)
EffectiveGroupsSwapped(cfg) ==
  IF cfg.groups = {}
  THEN {[name |-> DefaultEndpoint, endpoint |-> DefaultGroup,
         ups |-> cfg.ups, filter |-> Tools]}
  ELSE cfg.groups

EffectiveGroups(cfg) ==
  IF cfg.groups = {}
  THEN {[name |-> DefaultGroup, endpoint |-> DefaultEndpoint,
         ups |-> cfg.ups, filter |-> Tools]}
  ELSE cfg.groups

(* The entries compiled from revision r of upstream u.                     *)
EntriesOf(u, r, policies) ==
  {[tool |-> t, up |-> u, rev |-> r, policies |-> policies] :
     t \in SpecTools[u][r]}

Conflict(es) == \E a, b \in es : a # b /\ a.tool = b.tool

GroupMembers(es, gs, n) ==
  {t \in Tools : \E e \in es, g \in gs :
     e.tool = t /\ g.name = n /\ e.up \in g.ups /\ t \in g.filter}

(***************************************************************************)
(* The registry New and NewFromEntries build when Conflict(es) is false:   *)
(* byPrefixedName as a set of entries, and the tool set of each group (a   *)
(* group that does not exist has no tools: a call to it is refused the     *)
(* same way).                                                              *)
(***************************************************************************)
NewRegistry(es, gs) ==
  [entries |-> es, groups |-> [n \in GroupNames |-> GroupMembers(es, gs, n)]]

Registry == [entries: SUBSET Entry, groups: [GroupNames -> SUBSET Tools]]

EmptyRegistry == [entries |-> {}, groups |-> [n \in GroupNames |-> {}]]

(* The tool handler captures its entry's rate limit when it is registered. *)
PoliciesOf(reg, t) == \E e \in reg.entries : e.tool = t /\ e.policies

===============================================================================
