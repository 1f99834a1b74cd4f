------------------------------ MODULE Operator ------------------------------
(***************************************************************************)
(* The Kubernetes operator: MCPProxyReconciler and MCPUpstreamReconciler   *)
(* (operator/controller), the configuration generator (operator/configgen) *)
(* and the admission webhook (operator/webhook), for one MCPProxy.         *)
(*                                                                         *)
(* A reconcile reads the proxy, the MCPUpstreams and the annotated         *)
(* Services one after the other and writes one object after the other,     *)
(* while users edit all of them; it may be cut off between any two calls   *)
(* of the API server and is then run again from the start.  The work queue *)
(* of controller-runtime is external: it holds the proxy's key at most     *)
(* once, never runs two reconciles of one key at a time, and keeps a key   *)
(* that is added while its reconcile runs.                                 *)
(***************************************************************************)
EXTENDS Naturals, Sequences, FiniteSets

CONSTANTS
    Upstreams,      \* MCPUpstream objects: records of namespace and name
    Services,       \* Services that users annotate: records of namespace and name
    Namespaces,     \* namespaces of the cluster that may carry labels
    ProxyNamespace, \* the namespace of the MCPProxy
    UpstreamSpecs, ServiceSpecs, ProxySpecs,   \* what users may write
    Sources,        \* ConfigMaps that users keep specs and overlays in
    Contents,       \* what a source may hold
    Webhooks,       \* is the admission webhook enabled?
    None,
    MaxEdits,       \* bound on what users do
    MaxFaults       \* bound on failed API calls and operator restarts

Kinds == {"specs", "overlays"}

\* labels: do the labels match the proxy's upstreamSelector; source: where the
\* file of each kind comes from ("url" needs no file).
UpstreamSpec == [labels : BOOLEAN, type : {"http", "command"}, prefix : STRING,
                 base : BOOLEAN, commands : BOOLEAN,
                 specs : Sources \cup {"url", None}, overlays : Sources \cup {None}]

\* openapi: the OpenAPI source annotations that are set; mine: no proxy
\* annotation, or one that names this proxy.
ServiceSpec == [enabled : BOOLEAN, mine : BOOLEAN, prefix : STRING, port : BOOLEAN,
                openapi : SUBSET (Sources \cup {"url"}), overlays : Sources \cup {None}]

\* namespaceSelector of serviceDiscovery: names, and whether it has labels too.
ServiceSelector == [names : Seq(STRING), labels : BOOLEAN]

\* namespaces: namespaceSelector, or the proxy's own namespace.
ProxySpec == [port : Nat, namespaces : Seq(STRING), discovery : BOOLEAN,
              selector : ServiceSelector \cup {None}, gateway : BOOLEAN]

ASSUME SpecsAssumption ==
    /\ UpstreamSpecs \subseteq UpstreamSpec
    /\ ServiceSpecs \subseteq ServiceSpec
    /\ ProxySpecs \subseteq ProxySpec

ASSUME BoundsAssumption ==
    /\ MaxEdits \in Nat /\ MaxFaults \in Nat
    /\ IsFiniteSet(Upstreams) /\ IsFiniteSet(Services)

\* An upstream in the generated configuration.
UpstreamConfig == [id : Upstreams \cup Services, type : {"http", "command"}, prefix : STRING,
                   files : SUBSET Kinds]

\* None is no spec and no object.
ASSUME NoneAssumption ==
    /\ None \notin UpstreamSpec \cup ServiceSpec
    /\ None \notin [port : Nat, upstreams : Seq(UpstreamConfig)]

VARIABLES
    proxy,          \* the MCPProxy: generation and spec
    upstreams, services,    \* object -> spec, None while it does not exist
    labelled,       \* namespaces whose labels a ServiceSelector with labels matches
    sources,        \* source ConfigMap -> content, None while it does not exist
    config,         \* <proxy>-config: the generated configuration
    files,          \* <proxy>-specs and <proxy>-overlays: file key -> content
    deployment, service, route,     \* the proxy's objects, None while absent
    status,         \* MCPProxy status
    assigned,       \* MCPUpstream status: is it assigned to the proxy?
    queued,         \* is the proxy's key in the work queue?
    job,            \* the reconcile that is running
    applied,        \* generation the Deployment was last reconciled for (observation)
    unseen,         \* did something change that no watch reports? (observation)
    edits, faults

vars == <<proxy, upstreams, services, labelled, sources, config, files, deployment, service, route,
          status, assigned, queued, job, applied, unseen, edits, faults>>

userVars == <<proxy, upstreams, services, labelled, sources>>
ownedVars == <<config, files, deployment, service, route>>

Idle == [pc |-> "idle", proxy |-> None, ups |-> {}, todo |-> {}]

Init ==
    /\ \E p \in ProxySpecs : proxy = [gen |-> 1, spec |-> p]
    /\ upstreams = [u \in Upstreams |-> None]
    /\ services = [s \in Services |-> None]
    /\ labelled = {} /\ sources \in [Sources -> Contents]
    /\ config = None /\ files = [k \in Kinds |-> <<>>]
    /\ deployment = None /\ service = None /\ route = None
    /\ status = [gen |-> 0, reconciled |-> FALSE, conflict |-> FALSE, count |-> 0]
    /\ assigned = [u \in Upstreams |-> FALSE]
    /\ queued = TRUE /\ job = Idle /\ applied = 0 /\ unseen = FALSE
    /\ edits = 0 /\ faults = 0

---------------------------------------------------------------------------
(* What the proxy should look like *)

Names(seq) == {seq[i] : i \in DOMAIN seq}

\* listUpstreams: label selector and namespaces.
SelectsUpstream(p, u, s) == s # None /\ s.labels /\ u.ns \in Names(p.namespaces)

CrdUpstream(u, s) ==
    [id |-> u, from |-> "crd", type |-> s.type, prefix |-> s.prefix, base |-> s.base,
     commands |-> s.commands, specs |-> s.specs, overlays |-> s.overlays]

ListUpstreams(p) == {CrdUpstream(u, upstreams[u]) :
                        u \in {v \in Upstreams : SelectsUpstream(p, v, upstreams[v])}}

\* serviceDiscoveryNamespaces: those of the upstreams without a selector of its own;
\* else the named and the labelled ones, or the proxy's when there are none.
ServiceNamespaces(p) ==
    LET found == Names(p.selector.names) \cup (IF p.selector.labels THEN labelled ELSE {}) IN
    IF p.selector = None THEN Names(p.namespaces)
    ELSE IF found = {} THEN {ProxyNamespace} ELSE found

\* listAnnotatedServices before conversion: opted in and matching the proxy.
SelectsService(p, u, s) ==
    p.discovery /\ s # None /\ s.enabled /\ s.mine /\ u.ns \in ServiceNamespaces(p)

\* serviceToMCPUpstream fails without prefix or port, or without exactly one
\* OpenAPI source: such a Service is skipped.
Convertible(s) == s.prefix # "" /\ s.port /\ Cardinality(s.openapi) = 1

ServiceUpstream(u, s) ==
    [id |-> u, from |-> "service", type |-> "http", prefix |-> s.prefix, base |-> TRUE,
     commands |-> FALSE, specs |-> CHOOSE x \in s.openapi : TRUE, overlays |-> s.overlays]

ListAnnotatedServices(p) ==
    {ServiceUpstream(u, services[u]) :
        u \in {v \in Services : SelectsService(p, v, services[v]) /\ Convertible(services[v])}}

\* A prefix that two upstreams claim; the empty prefix is never recorded.
DetectPrefixConflicts(ups) ==
    {x.prefix : x \in {y \in ups : y.prefix # "" /\ \E z \in ups : z # y /\ z.prefix = y.prefix}}

\* buildHTTPUpstreamConfig and buildCommandUpstreamConfig fail otherwise.
Buildable(x) == IF x.type = "command" THEN x.commands ELSE x.base /\ x.specs # None

FileKeyByName(x) == x.id.name

\* "<namespace>_<name>.yaml": no name has an underscore, so the key names both.
FileKey(x) == <<x.id.ns, x.id.name>>

\* Command upstreams use no files.
UsesFile(x, k) == x.type # "command" /\ x[k] \in Sources

GenerateUpstream(x) ==
    [id |-> x.id, type |-> x.type, prefix |-> x.prefix,
     files |-> {k \in Kinds : UsesFile(x, k)}]

\* The first place of ns in a list of namespaces, one past it when it is not there.
Place(seq, ns) ==
    IF ns \in Names(seq)
    THEN CHOOSE i \in DOMAIN seq : seq[i] = ns /\ \A j \in DOMAIN seq : j < i => seq[j] # ns
    ELSE Len(seq) + 1

\* Where the list has an upstream: the MCPUpstreams by namespace, then the Services
\* by namespace, the labelled namespaces last.
Rank(p, x) ==
    IF x.from = "crd" THEN Place(p.namespaces, x.id.ns)
    ELSE Len(p.namespaces) + 1
           + Place(IF p.selector = None THEN p.namespaces ELSE p.selector.names, x.id.ns)

\* The lists that a reconcile may get for the upstreams it selects: the cache lists
\* the objects of a namespace, and the labelled namespaces, in no particular order.
Listings(p, ups) ==
    {l \in [1 .. Cardinality(ups) -> ups] :
        \A i, j \in DOMAIN l : i < j => l[i] # l[j] /\ Rank(p, l[i]) <= Rank(p, l[j])}

\* The configurations that may come of them, which are compared as text.
Generate(p, ups) ==
    {[port |-> p.port, upstreams |-> [i \in DOMAIN l |-> GenerateUpstream(l[i])]] :
        l \in Listings(p, ups)}

\* Specs and overlays are mounted when some upstream uses them.
BuildDeployment(p, ups) ==
    [port |-> p.port, mounts |-> {k \in Kinds : \E x \in ups : UsesFile(x, k)}]

BuildService(p) == [port |-> p.port]
BuildHTTPRoute(p) == IF p.gateway THEN [port |-> p.port] ELSE None

---------------------------------------------------------------------------
(* MCPProxyReconciler.Reconcile *)

Goto(l) == job' = [job EXCEPT !.pc = l]

\* The key leaves the queue and the proxy is read.
Start ==
    /\ job.pc = "idle" /\ queued
    /\ queued' = FALSE /\ unseen' = FALSE
    /\ job' = [Idle EXCEPT !.pc = "crds", !.proxy = proxy]
    /\ UNCHANGED <<userVars, ownedVars, status, assigned, applied, edits, faults>>

ReadUpstreams ==
    /\ job.pc = "crds"
    /\ job' = [job EXCEPT !.pc = "services", !.ups = ListUpstreams(job.proxy.spec)]
    /\ UNCHANGED <<userVars, ownedVars, status, assigned, queued, applied, unseen, edits, faults>>

ReadServices ==
    /\ job.pc = "services"
    /\ job' = [job EXCEPT !.pc = "config",
                          !.ups = @ \cup ListAnnotatedServices(job.proxy.spec)]
    /\ UNCHANGED <<userVars, ownedVars, status, assigned, queued, applied, unseen, edits, faults>>

\* The status subresource is written against the version that was read: when the
\* proxy has changed since, the write fails.
CanWriteStatus == job.proxy = proxy

\* Generate fails: the Reconciled condition is set to false and the reconcile
\* ends with an error, which puts the key back.
GenerateFails ==
    /\ job.pc = "config"
    /\ \E x \in job.ups : ~Buildable(x)
    /\ status' = IF CanWriteStatus THEN [status EXCEPT !.reconciled = FALSE] ELSE status
    /\ job' = Idle /\ queued' = TRUE
    /\ UNCHANGED <<userVars, ownedVars, assigned, applied, unseen, edits, faults>>

\* Objects the proxy owns are watched: a write that changes one queues the key.
Changed(old, new) == queued' = (queued \/ old # new)

ReconcileConfigMap ==
    /\ job.pc = "config"
    /\ \A x \in job.ups : Buildable(x)
    /\ config' \in Generate(job.proxy.spec, job.ups)
    /\ Changed(config, config')
    /\ job' = [job EXCEPT !.pc = "files",
                          !.todo = {w \in job.ups \X Kinds : UsesFile(w[1], w[2])}]
    /\ UNCHANGED <<userVars, files, deployment, service, route, status, assigned, applied,
                   unseen, edits, faults>>

\* The list has the MCPUpstreams before the Services.
NextFile(w) == w \in job.todo /\ (w[1].from = "service" => \A v \in job.todo : v[1].from = "service")

\* upsertConfigMap: one key is set, nothing ever removes one.
PutFile(m, f, c) == [g \in DOMAIN m \cup {f} |-> IF g = f THEN c ELSE m[g]]

CopyFileUnchecked(w) ==
    LET k == w[2]  s == w[1][k]  f == FileKey(w[1]) IN
    /\ job.pc = "files" /\ NextFile(w)
    /\ files' = [files EXCEPT ![k] = PutFile(@, f, sources[s])]
    /\ Changed(files, files')
    /\ job' = [job EXCEPT !.todo = @ \ {w}]
    /\ UNCHANGED <<userVars, config, deployment, service, route, status, assigned, applied,
                   unseen, edits, faults>>

\* The source's content is copied under the upstream's file key.
CopyFile(w) ==
    LET k == w[2]  s == w[1][k]  f == FileKey(w[1]) IN
    /\ job.pc = "files" /\ NextFile(w)
    /\ sources[s] # None
    /\ files' = [files EXCEPT ![k] = PutFile(@, f, sources[s])]
    /\ Changed(files, files')
    /\ job' = [job EXCEPT !.todo = @ \ {w}]
    /\ UNCHANGED <<userVars, config, deployment, service, route, status, assigned, applied,
                   unseen, edits, faults>>

\* A missing source ends the reconcile with an error.
SourceMissing(w) ==
    /\ job.pc = "files" /\ NextFile(w)
    /\ sources[w[1][w[2]]] = None
    /\ job' = Idle /\ queued' = TRUE
    /\ UNCHANGED <<userVars, ownedVars, status, assigned, applied, unseen, edits, faults>>

ReconcileDeploymentEarly ==
    /\ job.pc = "files"
    /\ deployment' = BuildDeployment(job.proxy.spec, job.ups)
    /\ Changed(deployment, deployment')
    /\ applied' = job.proxy.gen
    /\ Goto("service")
    /\ UNCHANGED <<userVars, config, files, service, route, status, assigned, unseen, edits, faults>>

ReconcileDeployment ==
    /\ job.pc = "files" /\ job.todo = {}
    /\ deployment' = BuildDeployment(job.proxy.spec, job.ups)
    /\ Changed(deployment, deployment')
    /\ applied' = job.proxy.gen
    /\ Goto("service")
    /\ UNCHANGED <<userVars, config, files, service, route, status, assigned, unseen, edits, faults>>

ReconcileServiceOnce ==
    /\ job.pc = "service"
    /\ service' = IF service = None THEN BuildService(job.proxy.spec) ELSE service
    /\ Changed(service, service')
    /\ Goto("route")
    /\ UNCHANGED <<userVars, config, files, deployment, route, status, assigned, applied, unseen, edits, faults>>

ReconcileService ==
    /\ job.pc = "service"
    /\ service' = BuildService(job.proxy.spec)
    /\ Changed(service, service')
    /\ Goto("route")
    /\ UNCHANGED <<userVars, config, files, deployment, route, status, assigned, applied,
                   unseen, edits, faults>>

\* Created, updated, or deleted when the proxy has no gateway.  The controller
\* does not watch HTTPRoutes.
ReconcileHTTPRoute ==
    /\ job.pc = "route"
    /\ route' = BuildHTTPRoute(job.proxy.spec)
    /\ Goto("status")
    /\ UNCHANGED <<userVars, config, files, deployment, service, status, assigned, queued,
                   applied, unseen, edits, faults>>

NewStatus(gen) ==
    [gen |-> gen, reconciled |-> TRUE, conflict |-> DetectPrefixConflicts(job.ups) # {},
     count |-> Cardinality(job.ups)]

UpdateStatusOfLatest ==
    /\ job.pc = "status"
    /\ status' = NewStatus(proxy.gen) /\ job' = Idle
    /\ UNCHANGED <<userVars, ownedVars, assigned, queued, applied, unseen, edits, faults>>

\* One write of all fields; a conflict is an error and puts the key back.
UpdateStatus ==
    /\ job.pc = "status"
    /\ IF CanWriteStatus THEN status' = NewStatus(job.proxy.gen) /\ UNCHANGED queued
       ELSE queued' = TRUE /\ UNCHANGED status
    /\ job' = Idle
    /\ UNCHANGED <<userVars, ownedVars, assigned, applied, unseen, edits, faults>>

ReconcileStep ==
    \/ Start \/ ReadUpstreams \/ ReadServices \/ GenerateFails \/ ReconcileConfigMap
    \/ \E w \in job.todo : CopyFile(w) \/ SourceMissing(w)
    \/ ReconcileDeployment \/ ReconcileService \/ ReconcileHTTPRoute \/ UpdateStatus

\* A call of the API server fails, or the operator restarts and lists everything
\* again: the reconcile is cut off and the key is back in the queue.
CutOff ==
    /\ job.pc # "idle" /\ faults < MaxFaults
    /\ job' = Idle /\ queued' = TRUE /\ faults' = faults + 1
    /\ UNCHANGED <<userVars, ownedVars, status, assigned, applied, unseen, edits>>

\* RequeueAfter: periodicSyncInterval.
Resync ==
    /\ job.pc = "idle" /\ ~queued
    /\ queued' = TRUE
    /\ UNCHANGED <<userVars, ownedVars, status, assigned, job, applied, unseen, edits, faults>>

\* MCPUpstreamReconciler.Reconcile, run by its own events and every five minutes.
AssignUpstream(u) ==
    /\ upstreams[u] # None
    /\ assigned[u] # SelectsUpstream(proxy.spec, u, upstreams[u])
    /\ assigned' = [assigned EXCEPT ![u] = ~@]
    /\ UNCHANGED <<userVars, ownedVars, status, queued, job, applied, unseen, edits, faults>>

---------------------------------------------------------------------------
(* Users, and what the watches make of their edits *)

Edit ==
    /\ edits < MaxEdits /\ edits' = edits + 1
    /\ UNCHANGED <<status, job, applied, faults>>

EditProxy(p) ==
    /\ Edit /\ proxy.spec # p
    /\ proxy' = [gen |-> proxy.gen + 1, spec |-> p] /\ queued' = TRUE
    /\ UNCHANGED <<upstreams, services, labelled, sources, ownedVars, assigned, unseen>>

\* validateMCPUpstream: one base URL and one OpenAPI source, whatever the type.
ValidateUpstream(s) == s.base /\ s.specs # None

GenerationChanged(old, new) ==
    old = None \/ new = None \/ [old EXCEPT !.labels = TRUE] # [new EXCEPT !.labels = TRUE]

ProxiesForUpstream(u, old, new) ==
    SelectsUpstream(proxy.spec, u, old) \/ SelectsUpstream(proxy.spec, u, new)

\* A write of an MCPUpstream, or its deletion (None).  The handler maps the old
\* and the new object; a change of labels alone does not pass the predicate.
WriteUpstream(u, s) ==
    LET seen == GenerationChanged(upstreams[u], s) /\ ProxiesForUpstream(u, upstreams[u], s) IN
    /\ Edit /\ upstreams[u] # s
    /\ Webhooks /\ s # None => ValidateUpstream(s)
    /\ upstreams' = [upstreams EXCEPT ![u] = s]
    /\ assigned' = IF s = None THEN [assigned EXCEPT ![u] = FALSE] ELSE assigned
    /\ queued' = (queued \/ seen)
    /\ unseen' = (unseen \/ (~seen /\ ProxiesForUpstream(u, upstreams[u], s)))
    /\ UNCHANGED <<proxy, services, labelled, sources, ownedVars>>

ProxiesForServiceNew(u, old, new) == SelectsService(proxy.spec, u, new)

\* mapServiceToProxy, for the old and for the new object.
ProxiesForService(u, old, new) ==
    SelectsService(proxy.spec, u, old) \/ SelectsService(proxy.spec, u, new)

WriteService(u, s) ==
    /\ Edit /\ services[u] # s
    /\ services' = [services EXCEPT ![u] = s]
    /\ queued' = (queued \/ ProxiesForService(u, services[u], s))
    /\ UNCHANGED <<proxy, upstreams, labelled, sources, ownedVars, assigned, unseen>>

\* Source ConfigMaps are not owned by the proxy, so nothing watches them.
WriteSource(s, c) ==
    /\ Edit /\ sources[s] # c
    /\ sources' = [sources EXCEPT ![s] = c]
    /\ unseen' = TRUE
    /\ UNCHANGED <<proxy, upstreams, services, labelled, ownedVars, assigned, queued>>

\* Nor are namespaces watched.
LabelNamespace(ns) ==
    /\ Edit
    /\ labelled' = IF ns \in labelled THEN labelled \ {ns} ELSE labelled \cup {ns}
    /\ unseen' = TRUE
    /\ UNCHANGED <<proxy, upstreams, services, sources, ownedVars, assigned, queued>>

\* Somebody changes or removes one of the proxy's objects.
Tamper ==
    /\ Edit
    /\ \/ /\ config # None /\ config' = [port |-> 0, upstreams |-> <<>>] /\ queued' = TRUE
          /\ UNCHANGED <<files, deployment, service, route, unseen>>
       \/ /\ deployment # None /\ deployment' = None /\ queued' = TRUE
          /\ UNCHANGED <<config, files, service, route, unseen>>
       \/ /\ service # None /\ service' = None /\ queued' = TRUE
          /\ UNCHANGED <<config, files, deployment, route, unseen>>
       \/ /\ route # None /\ route' = None /\ unseen' = TRUE
          /\ UNCHANGED <<config, files, deployment, service, queued>>
    /\ UNCHANGED <<userVars, assigned>>

Next ==
    \/ ReconcileStep \/ CutOff \/ Resync
    \/ \E u \in Upstreams : AssignUpstream(u)
    \/ \E p \in ProxySpecs : EditProxy(p)
    \/ \E u \in Upstreams, s \in UpstreamSpecs \cup {None} : WriteUpstream(u, s)
    \/ \E u \in Services, s \in ServiceSpecs \cup {None} : WriteService(u, s)
    \/ \E s \in Sources, c \in Contents \cup {None} : WriteSource(s, c)
    \/ \E ns \in Namespaces : LabelNamespace(ns)
    \/ Tamper

\* A worker takes the queued key and goes on; the timers of RequeueAfter fire.
Fairness ==
    /\ WF_vars(ReconcileStep) /\ WF_vars(Resync)
    /\ \A u \in Upstreams : WF_vars(AssignUpstream(u))

Spec == Init /\ [][Next]_vars /\ Fairness

---------------------------------------------------------------------------
(* Properties *)

\* The objects are of their types, the status is of a generation there has been,
\* and the file maps hold contents only, never the absence of a source.
OpTypeOK ==
    /\ proxy \in [gen : 1 .. MaxEdits + 1, spec : ProxySpecs]
    /\ upstreams \in [Upstreams -> UpstreamSpecs \cup {None}]
    /\ services \in [Services -> ServiceSpecs \cup {None}]
    /\ labelled \subseteq Namespaces
    /\ \A k \in Kinds : \A f \in DOMAIN files[k] : files[k][f] \in Contents
    /\ service \in {None} \cup [port : Nat] /\ route \in {None} \cup [port : Nat]
    /\ status.gen \in 0 .. proxy.gen /\ status.count \in Nat
    /\ assigned \in [Upstreams -> BOOLEAN] /\ queued \in BOOLEAN

Wanted == ListUpstreams(proxy.spec) \cup ListAnnotatedServices(proxy.spec)

\* Some selected upstream cannot be configured, or its source is missing.
Broken ==
    \/ \E x \in Wanted : ~Buildable(x)
    \/ \E x \in Wanted, k \in Kinds : UsesFile(x, k) /\ sources[x[k]] = None

FilesCurrent ==
    \A x \in Wanted, k \in Kinds :
        UsesFile(x, k) => FileKey(x) \in DOMAIN files[k] /\ files[k][FileKey(x)] = sources[x[k]]

\* The proxy's objects are what the cluster asks for.
Current ==
    /\ config \in Generate(proxy.spec, Wanted)
    /\ FilesCurrent
    /\ deployment = BuildDeployment(proxy.spec, Wanted)
    /\ service = BuildService(proxy.spec)
    /\ route = BuildHTTPRoute(proxy.spec)

\* A Deployment never mounts a ConfigMap that does not exist yet: its pods would
\* hang at start.  The order of the steps of Reconcile, across reconciles that
\* were cut off anywhere.
MountedMapsExist ==
    deployment # None =>
        /\ config # None
        /\ \A k \in deployment.mounts : DOMAIN files[k] # {}

\* When the controller rests, with an empty queue and no running reconcile, the
\* proxy's objects are current, unless something changed that nothing watches
\* (labels alone, of namespaces too, source ConfigMaps, the HTTPRoute).  An edit during a
\* reconcile, after its kind was read, must not be lost.
QuietMeansCurrent == job.pc = "idle" /\ ~queued /\ ~unseen => Current

\* The status never claims a generation whose Deployment has not been written,
\* even when the proxy is edited during the reconcile.
StatusNotAhead == status.gen <= applied

\* An MCPUpstream and a Service of one namespace and name have one file key, which
\* each reconcile writes twice when their sources differ.
Contend(x, y, k) ==
    x.id = y.id /\ UsesFile(x, k) /\ UsesFile(y, k) /\ sources[x[k]] # sources[y[k]]

Contended == \E x, y \in Wanted, k \in Kinds : Contend(x, y, k)

\* After the last edit the cluster reaches what was asked for and keeps it, the
\* unwatched changes included, unless an upstream is broken or two share a file.
Converges ==
    <>[](Broken \/ Contended \/ (Current /\ \A u \in Upstreams :
            assigned[u] = SelectsUpstream(proxy.spec, u, upstreams[u])))

\* The same configuration in another order, where the cache leaves the order open.
Reordered ==
    /\ config # None /\ config.port = config'.port
    /\ Names(config.upstreams) = Names(config'.upstreams)
    /\ \E x, y \in Wanted : x # y /\ Rank(proxy.spec, x) = Rank(proxy.spec, y)

\* The files that change are those two upstreams contend for.
Rewritten ==
    \A k \in Kinds :
        /\ DOMAIN files'[k] = DOMAIN files[k]
        /\ \A f \in DOMAIN files[k] :
              \/ files'[k][f] = files[k][f]
              \/ \E x, y \in Wanted : Contend(x, y, k) /\ f = FileKey(x)

\* The operator comes to rest: its own writes, which queue the key again, end.  What
\* may go on for ever is the same configuration in another order, when two upstreams
\* of one origin share a namespace, and files that two upstreams contend for.
WritesStop ==
    <>[][/\ UNCHANGED <<deployment, service, route>>
         /\ config' = config \/ Reordered
         /\ files' = files \/ Rewritten]_ownedVars
=============================================================================
