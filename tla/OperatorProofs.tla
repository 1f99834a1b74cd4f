--------------------------- MODULE OperatorProofs ---------------------------
(***************************************************************************)
(* The operator, for any number of upstreams, Services, sources, edits and *)
(* failures.                                                               *)
(***************************************************************************)
EXTENDS Operator, FiniteSetTheorems, TLAPS

(* An upstream that a reconcile works on.                                  *)
Selected ==
  [id : Upstreams \cup Services, from : {"crd", "service"}, type : {"http", "command"},
   prefix : STRING, base : BOOLEAN, commands : BOOLEAN,
   specs : Sources \cup {"url", None}, overlays : Sources \cup {None}]

Labels == {"idle", "crds", "services", "config", "files", "service", "route", "status"}

(***************************************************************************)
(* The running reconcile works on an older or the present proxy, never on  *)
(* one older than the Deployment was last written for.                     *)
(***************************************************************************)
JobOK ==
  /\ job \in [pc : Labels, proxy : {None} \cup [gen : Nat, spec : ProxySpecs],
              ups : SUBSET Selected, todo : SUBSET (Selected \X Kinds)]
  /\ IsFiniteSet(job.ups)
  /\ \A w \in job.todo : UsesFile(w[1], w[2])
  /\ job.pc # "idle" => /\ job.proxy \in [gen : Nat, spec : ProxySpecs]
                        /\ applied <= job.proxy.gen /\ job.proxy.gen <= proxy.gen
  /\ job.pc \in {"service", "route", "status"} => applied = job.proxy.gen

(***************************************************************************)
(* While files are copied, every file of a selected upstream is still to   *)
(* do, or its map has a key.                                               *)
(***************************************************************************)
FilesPending ==
  job.pc = "files" =>
    /\ config # None
    /\ \A x \in job.ups, k \in Kinds :
          UsesFile(x, k) => <<x, k>> \in job.todo \/ DOMAIN files[k] # {}

OwnedOK ==
  /\ files = [k \in Kinds |-> files[k]]
  /\ deployment # None => deployment.mounts \subseteq Kinds
  /\ sources \in [Sources -> Contents \cup {None}]

GenerationsOK ==
  /\ status \in [gen : Nat, reconciled : BOOLEAN, conflict : BOOLEAN, count : Nat]
  /\ applied \in Nat /\ status.gen <= applied /\ applied <= proxy.gen
  /\ edits \in 0 .. MaxEdits /\ proxy.gen <= edits + 1

OpInv == OpTypeOK /\ JobOK /\ FilesPending /\ OwnedOK /\ GenerationsOK /\ MountedMapsExist

---------------------------------------------------------------------------
(* What is selected is well-formed and finite.                             *)
LEMMA UpstreamsListed ==
  ASSUME OpInv, NEW p \in ProxySpecs
  PROVE  ListUpstreams(p) \subseteq Selected /\ IsFiniteSet(ListUpstreams(p))
<1> DEFINE S == {v \in Upstreams : SelectsUpstream(p, v, upstreams[v])}
<1>1. \A u \in S : upstreams[u] \in UpstreamSpec
  BY SpecsAssumption DEF OpInv, OpTypeOK, SelectsUpstream
<1>2. \A u \in S : CrdUpstream(u, upstreams[u]) \in Selected
  BY <1>1 DEF CrdUpstream, Selected, UpstreamSpec
<1>3. IsFiniteSet(S)
  BY FS_Subset, BoundsAssumption
<1>4. IsFiniteSet({CrdUpstream(u, upstreams[u]) : u \in S})
  <2> DEFINE f == [u \in S |-> CrdUpstream(u, upstreams[u])]
  <2>1. f \in Surjection(S, {CrdUpstream(u, upstreams[u]) : u \in S})
    BY DEF Surjection
  <2>2. QED
    BY <1>3, <2>1, FS_Surjection
<1>5. QED
  BY <1>2, <1>4 DEF ListUpstreams

LEMMA ServicesListed ==
  ASSUME OpInv, NEW p \in ProxySpecs
  PROVE  ListAnnotatedServices(p) \subseteq Selected /\ IsFiniteSet(ListAnnotatedServices(p))
<1> DEFINE S == {v \in Services : SelectsService(p, v, services[v]) /\ Convertible(services[v])}
<1>1. \A u \in S : services[u] \in ServiceSpec /\ Convertible(services[u])
  BY SpecsAssumption DEF OpInv, OpTypeOK, SelectsService
<1>2. \A u \in S : services[u].openapi # {}
  <2>1. Cardinality({}) # 1
    BY FS_EmptySet
  <2>2. \A u \in S : Cardinality(services[u].openapi) = 1
    BY <1>1 DEF Convertible
  <2>3. QED
    BY <2>1, <2>2
<1>3. \A u \in S : ServiceUpstream(u, services[u]) \in Selected
  <2> SUFFICES ASSUME NEW u \in S PROVE ServiceUpstream(u, services[u]) \in Selected
    OBVIOUS
  <2> DEFINE c == CHOOSE y \in services[u].openapi : TRUE
  <2>1. c \in services[u].openapi
    BY <1>2
  <2>2. c \in Sources \cup {"url", None}
    BY <1>1, <2>1 DEF ServiceSpec
  <2>3. services[u].prefix \in STRING /\ services[u].overlays \in Sources \cup {None}
    BY <1>1 DEF ServiceSpec
  <2> HIDE DEF c
  <2>4. [id |-> u, from |-> "service", type |-> "http", prefix |-> services[u].prefix,
         base |-> TRUE, commands |-> FALSE, specs |-> c,
         overlays |-> services[u].overlays] \in Selected
    BY <2>2, <2>3 DEF Selected
  <2>5. QED
    BY <2>4 DEF ServiceUpstream, c
<1>4. IsFiniteSet(S)
  BY FS_Subset, BoundsAssumption
<1>5. IsFiniteSet({ServiceUpstream(u, services[u]) : u \in S})
  <2> DEFINE f == [u \in S |-> ServiceUpstream(u, services[u])]
  <2>1. f \in Surjection(S, {ServiceUpstream(u, services[u]) : u \in S})
    BY DEF Surjection
  <2>2. QED
    BY <1>4, <2>1, FS_Surjection
<1>6. QED
  BY <1>3, <1>5 DEF ListAnnotatedServices

(* A generated configuration is never the absence of one.                  *)
LEMMA GeneratedIsConfig ==
  ASSUME NEW p, p.port \in Nat, NEW ups \in SUBSET Selected, IsFiniteSet(ups),
         NEW c \in Generate(p, ups)
  PROVE  c # None
<1>1. PICK l \in Listings(p, ups) :
         c = [port |-> p.port, upstreams |-> [i \in DOMAIN l |-> GenerateUpstream(l[i])]]
  BY DEF Generate
<1>2. Cardinality(ups) \in Nat /\ l \in [1 .. Cardinality(ups) -> ups]
  BY <1>1, FS_CardinalityType DEF Listings
<1>3. \A x \in ups : GenerateUpstream(x) \in UpstreamConfig
  BY DEF GenerateUpstream, UpstreamConfig, Selected
<1>4. [i \in DOMAIN l |-> GenerateUpstream(l[i])] \in Seq(UpstreamConfig)
  BY <1>2, <1>3
<1>5. QED
  BY <1>1, <1>4, NoneAssumption

LEMMA OpInitInv == Init => OpInv
<1> SUFFICES ASSUME Init PROVE OpInv
  OBVIOUS
<1> USE DEF Init
<1>1. OpTypeOK /\ GenerationsOK
  BY BoundsAssumption DEF OpTypeOK, GenerationsOK, Kinds
<1>2. JobOK
  BY FS_EmptySet DEF JobOK, Idle, Labels
<1>3. FilesPending /\ OwnedOK /\ MountedMapsExist
  BY DEF FilesPending, OwnedOK, MountedMapsExist, Idle
<1>4. QED
  BY <1>1, <1>2, <1>3 DEF OpInv
---------------------------------------------------------------------------
(* The steps of Reconcile before anything is written.                      *)
LEMMA ReadInv ==
  ASSUME OpInv, Start \/ ReadUpstreams \/ ReadServices
  PROVE  OpInv'
<1> USE DEF OpInv, userVars, ownedVars
<1>1. OpTypeOK' /\ OwnedOK' /\ GenerationsOK' /\ MountedMapsExist'
  BY DEF Start, ReadUpstreams, ReadServices, OpTypeOK, OwnedOK, GenerationsOK,
         MountedMapsExist
<1>2. FilesPending'
  BY DEF Start, ReadUpstreams, ReadServices, FilesPending, Idle, JobOK
<1>3. JobOK'
  <2>1. CASE Start
    <3>1. job' = [pc |-> "crds", proxy |-> proxy, ups |-> {}, todo |-> {}]
      BY <2>1 DEF Start, Idle
    <3>2. proxy \in [gen : Nat, spec : ProxySpecs] /\ applied <= proxy.gen
      BY DEF OpTypeOK, GenerationsOK
    <3>3. UNCHANGED <<proxy, applied>>
      BY <2>1 DEF Start
    <3>4. QED
      BY <3>1, <3>2, <3>3, FS_EmptySet DEF JobOK, Labels
  <2>2. CASE ReadUpstreams
    <3>1. job.proxy.spec \in ProxySpecs
      BY <2>2 DEF ReadUpstreams, JobOK
    <3>2. QED
      BY <2>2, <3>1, UpstreamsListed DEF ReadUpstreams, JobOK, Labels
  <2>3. CASE ReadServices
    <3>1. job.proxy.spec \in ProxySpecs
      BY <2>3 DEF ReadServices, JobOK
    <3>2. IsFiniteSet(job.ups \cup ListAnnotatedServices(job.proxy.spec))
      BY <3>1, ServicesListed, FS_Union DEF JobOK
    <3>3. QED
      BY <2>3, <3>1, <3>2, ServicesListed DEF ReadServices, JobOK, Labels
  <2>4. QED
    BY <2>1, <2>2, <2>3
<1>4. QED
  BY <1>1, <1>2, <1>3

(* A reconcile that ends without touching the proxy's objects.             *)
LEMMA EndInv ==
  ASSUME OpInv, job' = Idle, queued' \in BOOLEAN,
         \/ UNCHANGED status
         \/ status' = [status EXCEPT !.reconciled = FALSE]
         \/ job.pc = "status" /\ status' = NewStatus(job.proxy.gen),
         UNCHANGED <<userVars, ownedVars, assigned, applied, edits>>
  PROVE  OpInv'
<1> USE DEF OpInv, userVars, ownedVars
<1>1. JobOK' /\ FilesPending'
  BY FS_EmptySet DEF JobOK, FilesPending, Idle, Labels
<1>2. OwnedOK' /\ MountedMapsExist'
  BY DEF OwnedOK, MountedMapsExist
<1>3. GenerationsOK'
  <2>1. CASE UNCHANGED status
    BY <2>1 DEF GenerationsOK
  <2>2. CASE status' = [status EXCEPT !.reconciled = FALSE]
    BY <2>2 DEF GenerationsOK
  <2>3. CASE job.pc = "status" /\ status' = NewStatus(job.proxy.gen)
    <3>1. Cardinality(job.ups) \in Nat
      BY FS_CardinalityType DEF JobOK
    <3>2. job.proxy.gen \in Nat /\ applied = job.proxy.gen
      BY <2>3 DEF JobOK
    <3>3. QED
      BY <2>3, <3>1, <3>2 DEF NewStatus, GenerationsOK
  <2>4. QED
    BY <2>1, <2>2, <2>3
<1>4. OpTypeOK'
  BY <1>3 DEF OpTypeOK, GenerationsOK
<1>5. QED
  BY <1>1, <1>2, <1>3, <1>4

(* The configuration is written and the files to copy are listed.          *)
LEMMA ConfigInv ==
  ASSUME OpInv, ReconcileConfigMap
  PROVE  OpInv'
<1> USE DEF OpInv, userVars, ReconcileConfigMap, Changed
<1>1. config' # None
  <2>1. job.proxy.spec.port \in Nat /\ job.ups \subseteq Selected /\ IsFiniteSet(job.ups)
    BY SpecsAssumption DEF JobOK, ProxySpec
  <2>2. QED
    BY <2>1, GeneratedIsConfig
<1>2. OpTypeOK' /\ OwnedOK' /\ GenerationsOK'
  BY DEF OpTypeOK, OwnedOK, GenerationsOK
<1>3. MountedMapsExist'
  BY <1>1 DEF MountedMapsExist
<1>4. JobOK'
  BY DEF JobOK, Labels
<1>5. FilesPending'
  BY <1>1 DEF FilesPending, JobOK
<1>6. QED
  BY <1>2, <1>3, <1>4, <1>5

(* One file is copied: no map loses a key.                                 *)
LEMMA CopyInv ==
  ASSUME OpInv, NEW w \in job.todo, CopyFile(w)
  PROVE  OpInv'
<1> DEFINE k == w[2]
           f == FileKey(w[1])
           c == sources[w[1][k]]
<1> USE DEF OpInv, userVars, Changed
<1>1. w[1] \in Selected /\ k \in Kinds /\ w = <<w[1], k>> /\ UsesFile(w[1], k)
  BY DEF JobOK
<1>2. files' = [files EXCEPT ![k] = PutFile(files[k], f, c)] /\ c # None
  BY DEF CopyFile
<1>3. c \in Contents
  BY <1>1, <1>2 DEF UsesFile, OwnedOK
<1> HIDE DEF f, c
<1>4. /\ files' = [i \in Kinds |-> files'[i]]
      /\ \A i \in Kinds : files'[i] = IF i = k THEN PutFile(files[k], f, c) ELSE files[i]
  BY <1>1, <1>2 DEF OwnedOK
<1>5. \A i \in Kinds : /\ DOMAIN files[i] \subseteq DOMAIN files'[i]
                       /\ \A g \in DOMAIN files'[i] : files'[i][g] \in Contents
  BY <1>3, <1>4 DEF PutFile, OpTypeOK
<1>6. DOMAIN files'[k] # {}
  BY <1>1, <1>4 DEF PutFile
<1>7. OpTypeOK' /\ OwnedOK' /\ GenerationsOK'
  BY <1>4, <1>5 DEF CopyFile, OpTypeOK, OwnedOK, GenerationsOK
<1>8. MountedMapsExist'
  <2> SUFFICES ASSUME deployment # None, NEW i \in deployment.mounts
               PROVE  DOMAIN files'[i] # {}
    BY DEF CopyFile, MountedMapsExist
  <2>1. i \in Kinds /\ DOMAIN files[i] # {}
    BY DEF MountedMapsExist, OwnedOK
  <2>2. QED
    BY <1>5, <2>1
<1>9. JobOK'
  BY DEF CopyFile, JobOK
<1>10. FilesPending'
  <2> SUFFICES ASSUME NEW x \in job.ups, NEW i \in Kinds, UsesFile(x, i)
               PROVE  <<x, i>> \in job.todo \ {w} \/ DOMAIN files'[i] # {}
    BY DEF CopyFile, FilesPending, JobOK
  <2>1. <<x, i>> \in job.todo \/ DOMAIN files[i] # {}
    BY DEF CopyFile, FilesPending
  <2>2. CASE i = k
    BY <1>6, <2>2
  <2>3. CASE i # k
    BY <1>1, <1>5, <2>1, <2>3
  <2>4. QED
    BY <2>2, <2>3
<1>11. QED
  BY <1>7, <1>8, <1>9, <1>10

(* The Deployment is written when no file is left to do.                   *)
LEMMA DeploymentInv ==
  ASSUME OpInv, ReconcileDeployment
  PROVE  OpInv'
<1> USE DEF OpInv, userVars, ReconcileDeployment, Changed, Goto
<1>1. /\ deployment'.mounts = {k \in Kinds : \E x \in job.ups : UsesFile(x, k)}
      /\ config # None
  BY DEF BuildDeployment, FilesPending
<1>2. \A k \in deployment'.mounts : DOMAIN files[k] # {}
  BY <1>1 DEF FilesPending
<1>3. OwnedOK' /\ MountedMapsExist'
  BY <1>1, <1>2 DEF OwnedOK, MountedMapsExist
<1>4. JobOK' /\ FilesPending'
  BY DEF JobOK, FilesPending, Labels, OpTypeOK
<1>5. OpTypeOK' /\ GenerationsOK'
  BY DEF OpTypeOK, GenerationsOK, JobOK
<1>6. QED
  BY <1>3, <1>4, <1>5

LEMMA ServiceRouteInv ==
  ASSUME OpInv, ReconcileService \/ ReconcileHTTPRoute
  PROVE  OpInv'
<1> USE DEF OpInv, userVars, ReconcileService, ReconcileHTTPRoute, Changed, Goto
<1>1. job.proxy.spec.port \in Nat
  BY SpecsAssumption DEF JobOK, ProxySpec
<1>2. /\ service' \in {None} \cup [port : Nat]
      /\ route' \in {None} \cup [port : Nat] /\ queued' \in BOOLEAN
  <2>1. CASE ReconcileService
    BY <1>1, <2>1 DEF BuildService, OpTypeOK
  <2>2. CASE ReconcileHTTPRoute
    BY <1>1, <2>2 DEF BuildHTTPRoute, OpTypeOK
  <2>3. QED
    BY <2>1, <2>2
<1>3. OwnedOK' /\ MountedMapsExist' /\ FilesPending'
  BY DEF OwnedOK, MountedMapsExist, FilesPending, JobOK
<1>4. JobOK'
  BY DEF JobOK, Labels
<1>5. OpTypeOK' /\ GenerationsOK'
  BY <1>2 DEF OpTypeOK, GenerationsOK
<1>6. QED
  BY <1>3, <1>4, <1>5

(* What users do to their own objects.                                     *)
LEMMA EditInv ==
  ASSUME OpInv,
         \/ \E p \in ProxySpecs : EditProxy(p)
         \/ \E u \in Upstreams, s \in UpstreamSpecs \cup {None} : WriteUpstream(u, s)
         \/ \E u \in Services, s \in ServiceSpecs \cup {None} : WriteService(u, s)
         \/ \E s \in Sources, c \in Contents \cup {None} : WriteSource(s, c)
         \/ \E ns \in Namespaces : LabelNamespace(ns)
  PROVE  OpInv'
<1> USE DEF OpInv, Edit, ownedVars
<1>1. UNCHANGED <<status, job, applied, files, deployment, config, service, route>>
  BY DEF EditProxy, WriteUpstream, WriteService, WriteSource, LabelNamespace
<1>2. FilesPending' /\ MountedMapsExist'
  BY <1>1 DEF FilesPending, MountedMapsExist
<1>3. CASE \E p \in ProxySpecs : EditProxy(p)
  <2>1. PICK p \in ProxySpecs : EditProxy(p)
    BY <1>3
  <2>2. /\ proxy' \in [gen : 1 .. MaxEdits + 1, spec : ProxySpecs]
        /\ proxy'.gen = proxy.gen + 1 /\ proxy'.gen <= edits' + 1
        /\ edits' \in 0 .. MaxEdits
    BY <2>1, BoundsAssumption DEF EditProxy, OpTypeOK, GenerationsOK
  <2>3. OpTypeOK' /\ OwnedOK' /\ GenerationsOK'
    BY <1>1, <2>1, <2>2 DEF EditProxy, OpTypeOK, OwnedOK, GenerationsOK
  <2>4. JobOK'
    BY <1>1, <2>2 DEF JobOK, OpTypeOK
  <2>5. QED
    BY <1>2, <2>3, <2>4
<1>4. CASE \E u \in Upstreams, s \in UpstreamSpecs \cup {None} : WriteUpstream(u, s)
  <2>1. OpTypeOK' /\ OwnedOK' /\ GenerationsOK'
    BY <1>1, <1>4, BoundsAssumption
       DEF WriteUpstream, GenerationChanged, ProxiesForUpstream, SelectsUpstream,
           OpTypeOK, OwnedOK, GenerationsOK
  <2>2. JobOK'
    BY <1>1, <1>4 DEF WriteUpstream, JobOK
  <2>3. QED
    BY <1>2, <2>1, <2>2
<1>5. CASE \E u \in Services, s \in ServiceSpecs \cup {None} : WriteService(u, s)
  <2>1. OpTypeOK' /\ OwnedOK' /\ GenerationsOK'
    BY <1>1, <1>5, BoundsAssumption
       DEF WriteService, ProxiesForService, SelectsService, OpTypeOK, OwnedOK, GenerationsOK
  <2>2. JobOK'
    BY <1>1, <1>5 DEF WriteService, JobOK
  <2>3. QED
    BY <1>2, <2>1, <2>2
<1>6. CASE \E s \in Sources, c \in Contents \cup {None} : WriteSource(s, c)
  <2>1. OpTypeOK' /\ OwnedOK' /\ GenerationsOK'
    BY <1>1, <1>6, BoundsAssumption DEF WriteSource, OpTypeOK, OwnedOK, GenerationsOK
  <2>2. JobOK'
    BY <1>1, <1>6 DEF WriteSource, JobOK
  <2>3. QED
    BY <1>2, <2>1, <2>2
<1>7. CASE \E ns \in Namespaces : LabelNamespace(ns)
  <2>1. OpTypeOK' /\ OwnedOK' /\ GenerationsOK'
    BY <1>1, <1>7, BoundsAssumption DEF LabelNamespace, OpTypeOK, OwnedOK, GenerationsOK
  <2>2. JobOK'
    BY <1>1, <1>7 DEF LabelNamespace, JobOK
  <2>3. QED
    BY <1>2, <2>1, <2>2
<1>8. QED
  BY <1>3, <1>4, <1>5, <1>6, <1>7

(* Somebody changes or removes an object of the proxy.                     *)
LEMMA TamperInv ==
  ASSUME OpInv, Tamper
  PROVE  OpInv'
<1> USE DEF OpInv, Tamper, Edit, userVars
<1>1. [port |-> 0, upstreams |-> <<>>] # None
  <2>1. [port |-> 0, upstreams |-> <<>>] \in [port : Nat, upstreams : Seq(UpstreamConfig)]
    OBVIOUS
  <2>2. QED
    BY <2>1, NoneAssumption
<1>2. config # None => config' # None
  BY <1>1
<1>3. UNCHANGED files /\ (deployment' # None => deployment' = deployment)
  OBVIOUS
<1>4. MountedMapsExist' /\ FilesPending'
  BY <1>2, <1>3 DEF MountedMapsExist, FilesPending
<1>5. OwnedOK' /\ GenerationsOK'
  <2>1. UNCHANGED <<proxy, sources, status, applied>>
    OBVIOUS
  <2>2. edits' = edits + 1 /\ edits < MaxEdits
    OBVIOUS
  <2>3. OwnedOK'
    BY <1>3, <2>1 DEF OwnedOK
  <2>4. edits' \in 0 .. MaxEdits /\ proxy.gen <= edits' + 1
    BY <2>2, BoundsAssumption DEF GenerationsOK, OpTypeOK
  <2>5. QED
    BY <2>1, <2>3, <2>4 DEF GenerationsOK
<1>6. /\ service' \in {None} \cup [port : Nat]
      /\ route' \in {None} \cup [port : Nat] /\ queued' \in BOOLEAN
  BY DEF OpTypeOK
<1>7. OpTypeOK'
  BY <1>3, <1>6 DEF OpTypeOK
<1>8. JobOK'
  BY DEF JobOK
<1>9. QED
  BY <1>4, <1>5, <1>7, <1>8

LEMMA OpNextInv == OpInv /\ [Next]_vars => OpInv'
<1> SUFFICES ASSUME OpInv, [Next]_vars PROVE OpInv'
  OBVIOUS
<1>1. CASE Start \/ ReadUpstreams \/ ReadServices
  BY <1>1, ReadInv
<1>2. CASE GenerateFails
  BY <1>2, EndInv DEF GenerateFails, userVars, ownedVars
<1>3. CASE ReconcileConfigMap
  BY <1>3, ConfigInv
<1>4. CASE \E w \in job.todo : CopyFile(w)
  BY <1>4, CopyInv
<1>5. CASE \E w \in job.todo : SourceMissing(w)
  BY <1>5, EndInv DEF SourceMissing, userVars, ownedVars
<1>6. CASE ReconcileDeployment
  BY <1>6, DeploymentInv
<1>7. CASE ReconcileService \/ ReconcileHTTPRoute
  BY <1>7, ServiceRouteInv
<1>8. CASE UpdateStatus
  BY <1>8, EndInv DEF UpdateStatus, userVars, ownedVars, OpInv, OpTypeOK
<1>9. CASE CutOff
  BY <1>9, EndInv DEF CutOff, userVars, ownedVars
<1>10. CASE Resync \/ (\E u \in Upstreams : AssignUpstream(u)) \/ UNCHANGED vars
  <2>1. /\ UNCHANGED <<proxy, upstreams, services, labelled, sources, config, files,
                       deployment, service, route, status, job, applied, edits>>
        /\ queued' \in BOOLEAN /\ assigned' \in [Upstreams -> BOOLEAN]
    BY <1>10 DEF Resync, AssignUpstream, vars, userVars, ownedVars, OpInv, OpTypeOK
  <2>2. OpTypeOK' /\ OwnedOK' /\ GenerationsOK' /\ MountedMapsExist'
    BY <2>1 DEF OpInv, OpTypeOK, OwnedOK, GenerationsOK, MountedMapsExist
  <2>3. JobOK' /\ FilesPending'
    BY <2>1 DEF OpInv, JobOK, FilesPending
  <2>4. QED
    BY <2>2, <2>3 DEF OpInv
<1>11. CASE \/ \E p \in ProxySpecs : EditProxy(p)
            \/ \E u \in Upstreams, s \in UpstreamSpecs \cup {None} : WriteUpstream(u, s)
            \/ \E u \in Services, s \in ServiceSpecs \cup {None} : WriteService(u, s)
            \/ \E s \in Sources, c \in Contents \cup {None} : WriteSource(s, c)
            \/ \E ns \in Namespaces : LabelNamespace(ns)
  BY <1>11, EditInv
<1>12. CASE Tamper
  BY <1>12, TamperInv
<1>13. QED
  BY <1>1, <1>2, <1>3, <1>4, <1>5, <1>6, <1>7, <1>8, <1>9, <1>10, <1>11, <1>12
     DEF Next, ReconcileStep

LEMMA OpAlways == Spec => []OpInv
  BY OpInitInv, OpNextInv, PTL DEF Spec

---------------------------------------------------------------------------
(* An empty queue means that the work done so far is up to date.           *)

FileIsCurrent(x, k) ==
  FileKey(x) \in DOMAIN files[k] /\ files[k][FileKey(x)] = sources[x[k]]

(***************************************************************************)
(* QuietMeansCurrent, strengthened to a running reconcile: as long as      *)
(* nothing has queued the key again and nothing changed unseen, what the   *)
(* reconcile read is what the cluster holds, and every object it is        *)
(* through with is as it should be.                                        *)
(***************************************************************************)
ReadIsCurrent ==
  /\ job.pc # "idle" => job.proxy = proxy
  /\ job.pc = "services" => job.ups = ListUpstreams(proxy.spec)
  /\ job.pc \in {"config", "files", "service", "route", "status"} => job.ups = Wanted

WrittenIsCurrent ==
  /\ job.pc \in {"idle", "files", "service", "route", "status"} =>
       config \in Generate(proxy.spec, Wanted)
  /\ job.pc = "files" => \A x \in Wanted, k \in Kinds :
       UsesFile(x, k) => <<x, k>> \in job.todo \/ FileIsCurrent(x, k)
  /\ job.pc \in {"idle", "service", "route", "status"} =>
       FilesCurrent /\ deployment = BuildDeployment(proxy.spec, Wanted)
  /\ job.pc \in {"idle", "route", "status"} => service = BuildService(proxy.spec)
  /\ job.pc \in {"idle", "status"} => route = BuildHTTPRoute(proxy.spec)

QuietInv == ~queued /\ ~unseen => ReadIsCurrent /\ WrittenIsCurrent

(* What the lists depend on.                                               *)
LEMMA ServicesStay ==
  ASSUME UNCHANGED labelled
  PROVE  /\ \A p : ServiceNamespaces(p)' = ServiceNamespaces(p)
         /\ UNCHANGED services =>
              \A p : ListAnnotatedServices(p)' = ListAnnotatedServices(p)
<1>1. \A p : ServiceNamespaces(p)' = ServiceNamespaces(p)
  BY DEF ServiceNamespaces
<1>2. ASSUME UNCHANGED services, NEW p
      PROVE  ListAnnotatedServices(p)' = ListAnnotatedServices(p)
  <2>1. \A v, t : SelectsService(p, v, t)' = SelectsService(p, v, t)
    BY <1>1 DEF SelectsService
  <2>2. QED
    BY <1>2, <2>1 DEF ListAnnotatedServices
<1>3. QED
  BY <1>1, <1>2

LEMMA UsersStay ==
  ASSUME UNCHANGED userVars
  PROVE  /\ \A p : ListUpstreams(p)' = ListUpstreams(p)
         /\ \A p : ListAnnotatedServices(p)' = ListAnnotatedServices(p)
         /\ Wanted' = Wanted /\ proxy' = proxy /\ sources' = sources
<1>1. \A p : ListUpstreams(p)' = ListUpstreams(p)
  BY DEF userVars, ListUpstreams
<1>2. \A p : ListAnnotatedServices(p)' = ListAnnotatedServices(p)
  BY ServicesStay DEF userVars
<1>3. QED
  BY <1>1, <1>2 DEF userVars, Wanted

(* The user's objects, the objects written and the reconcile all stay.     *)
LEMMA QuietStays ==
  ASSUME QuietInv, UNCHANGED <<userVars, ownedVars, job, queued, unseen>>
  PROVE  QuietInv'
<1>1. /\ Wanted' = Wanted /\ proxy' = proxy /\ sources' = sources
      /\ ListUpstreams(proxy.spec)' = ListUpstreams(proxy.spec)
  BY UsersStay DEF userVars, ListUpstreams
<1>2. ReadIsCurrent => ReadIsCurrent'
  BY <1>1 DEF ReadIsCurrent
<1>3. WrittenIsCurrent => WrittenIsCurrent'
  BY <1>1 DEF WrittenIsCurrent, FilesCurrent, FileIsCurrent, ownedVars
<1>4. QED
  BY <1>2, <1>3 DEF QuietInv

(* A reconcile starts and reads.                                           *)
LEMMA QuietRead ==
  ASSUME OpInv, QuietInv, Start \/ ReadUpstreams \/ ReadServices
  PROVE  QuietInv'
<1>1. JobOK
  BY DEF OpInv
<1>2. UNCHANGED <<userVars, ownedVars>>
  BY DEF Start, ReadUpstreams, ReadServices
<1>3. /\ Wanted' = Wanted /\ proxy' = proxy
      /\ ListUpstreams(proxy.spec)' = ListUpstreams(proxy.spec)
  BY <1>2, UsersStay DEF userVars, ListUpstreams
<1>4. CASE Start
  <2>1. job'.pc = "crds" /\ job'.proxy = proxy
    BY <1>4 DEF Start, Idle
  <2>2. QED
    BY <1>3, <2>1 DEF QuietInv, ReadIsCurrent, WrittenIsCurrent
<1>5. CASE ReadUpstreams
  <2>1. /\ job.pc = "crds" /\ UNCHANGED <<queued, unseen>> /\ job'.pc = "services"
        /\ job'.proxy = job.proxy /\ job'.ups = ListUpstreams(job.proxy.spec)
    BY <1>1, <1>5 DEF ReadUpstreams, JobOK
  <2>2. QED
    BY <1>3, <2>1 DEF QuietInv, ReadIsCurrent, WrittenIsCurrent
<1>6. CASE ReadServices
  <2>1. /\ job.pc = "services" /\ UNCHANGED <<queued, unseen>> /\ job'.pc = "config"
        /\ job'.proxy = job.proxy
        /\ job'.ups = job.ups \cup ListAnnotatedServices(job.proxy.spec)
    BY <1>1, <1>6 DEF ReadServices, JobOK
  <2>2. QED
    BY <1>3, <2>1 DEF QuietInv, ReadIsCurrent, WrittenIsCurrent, Wanted
<1>7. QED
  BY <1>4, <1>5, <1>6

(* A write that changes an owned object queues the key.                    *)
LEMMA QuietConfig ==
  ASSUME OpInv, QuietInv, ReconcileConfigMap
  PROVE  QuietInv'
<1>1. Wanted' = Wanted /\ proxy' = proxy /\ sources' = sources
  BY UsersStay DEF ReconcileConfigMap
<1>2. /\ job.pc = "config" /\ job'.pc = "files" /\ job'.proxy = job.proxy
      /\ job'.ups = job.ups
      /\ job'.todo = {w \in job.ups \X Kinds : UsesFile(w[1], w[2])}
      /\ config' \in Generate(job.proxy.spec, job.ups)
  BY DEF ReconcileConfigMap, OpInv, JobOK
<1>3. ~queued' /\ ~unseen' => ReadIsCurrent
  BY DEF ReconcileConfigMap, Changed, QuietInv
<1>4. ASSUME ReadIsCurrent PROVE ReadIsCurrent'
  BY <1>1, <1>2, <1>4 DEF ReadIsCurrent
<1>5. ASSUME ReadIsCurrent PROVE WrittenIsCurrent'
  <2>1. job.proxy = proxy /\ job.ups = Wanted
    BY <1>2, <1>5 DEF ReadIsCurrent
  <2>2. \A x \in Wanted, k \in Kinds : UsesFile(x, k) => <<x, k>> \in job'.todo
    BY <1>2, <2>1
  <2>3. QED
    BY <1>1, <1>2, <2>1, <2>2 DEF WrittenIsCurrent
<1>6. QED
  BY <1>3, <1>4, <1>5 DEF QuietInv

LEMMA QuietCopy ==
  ASSUME OpInv, QuietInv, NEW w \in job.todo, CopyFile(w)
  PROVE  QuietInv'
<1> DEFINE k == w[2]
           f == FileKey(w[1])
           c == sources[w[1][k]]
<1>1. w[1] \in Selected /\ k \in Kinds /\ w = <<w[1], k>>
  BY DEF OpInv, JobOK
<1>2. Wanted' = Wanted /\ proxy' = proxy /\ sources' = sources
  BY UsersStay DEF CopyFile
<1>3. /\ files' = [files EXCEPT ![k] = PutFile(files[k], f, c)]
      /\ job.pc = "files" /\ job'.pc = "files" /\ job'.proxy = job.proxy
      /\ job'.ups = job.ups /\ job'.todo = job.todo \ {w}
      /\ UNCHANGED <<config, deployment, service, route>>
  BY DEF CopyFile, OpInv, JobOK
<1>4. ~queued' /\ ~unseen' => files' = files /\ ReadIsCurrent /\ WrittenIsCurrent
  BY DEF CopyFile, Changed, QuietInv
<1>5. ReadIsCurrent => ReadIsCurrent'
  BY <1>2, <1>3 DEF ReadIsCurrent
<1>6. ASSUME files' = files, WrittenIsCurrent PROVE WrittenIsCurrent'
  <2>1. files'[k] = PutFile(files[k], f, c)
    BY <1>1, <1>3 DEF OpInv, OwnedOK
  <2>2. FileIsCurrent(w[1], k)
    BY <1>6, <2>1 DEF PutFile, FileIsCurrent
  <2>3. ASSUME NEW x \in Wanted, NEW i \in Kinds, UsesFile(x, i)
        PROVE  <<x, i>> \in job.todo \ {w} \/ FileIsCurrent(x, i)
    <3>1. <<x, i>> \in job.todo \/ FileIsCurrent(x, i)
      BY <1>3, <1>6, <2>3 DEF WrittenIsCurrent
    <3>2. CASE <<x, i>> = w
      BY <1>1, <2>2, <3>2
    <3>3. QED
      BY <3>1, <3>2
  <2>4. \A x, i : FileIsCurrent(x, i)' = FileIsCurrent(x, i)
    BY <1>2, <1>6 DEF FileIsCurrent
  <2>5. QED
    BY <1>2, <1>3, <1>6, <2>3, <2>4 DEF WrittenIsCurrent
<1>7. QED
  BY <1>4, <1>5, <1>6 DEF QuietInv

LEMMA QuietDeployment ==
  ASSUME OpInv, QuietInv, ReconcileDeployment
  PROVE  QuietInv'
<1>1. Wanted' = Wanted /\ proxy' = proxy /\ sources' = sources
  BY UsersStay DEF ReconcileDeployment
<1>2. /\ job.pc = "files" /\ job.todo = {} /\ job'.pc = "service"
      /\ job'.proxy = job.proxy /\ job'.ups = job.ups
      /\ deployment' = BuildDeployment(job.proxy.spec, job.ups)
      /\ UNCHANGED <<config, files>>
  BY DEF ReconcileDeployment, Goto, OpInv, JobOK
<1>3. ~queued' /\ ~unseen' => ReadIsCurrent /\ WrittenIsCurrent
  BY DEF ReconcileDeployment, Changed, QuietInv
<1>4. ReadIsCurrent => ReadIsCurrent'
  BY <1>1, <1>2 DEF ReadIsCurrent
<1>5. ASSUME ReadIsCurrent, WrittenIsCurrent PROVE WrittenIsCurrent'
  <2>1. job.proxy = proxy /\ job.ups = Wanted
    BY <1>2, <1>5 DEF ReadIsCurrent
  <2>2. FilesCurrent
    BY <1>2, <1>5 DEF WrittenIsCurrent, FilesCurrent, FileIsCurrent
  <2>3. FilesCurrent'
    BY <1>1, <1>2, <2>2 DEF FilesCurrent
  <2>4. QED
    BY <1>1, <1>2, <1>5, <2>1, <2>3 DEF WrittenIsCurrent
<1>6. QED
  BY <1>3, <1>4, <1>5 DEF QuietInv

LEMMA QuietServiceRoute ==
  ASSUME OpInv, QuietInv, ReconcileService \/ ReconcileHTTPRoute
  PROVE  QuietInv'
<1>1. Wanted' = Wanted /\ proxy' = proxy /\ sources' = sources
  BY UsersStay DEF ReconcileService, ReconcileHTTPRoute
<1>2. ~queued' /\ ~unseen' => ReadIsCurrent /\ WrittenIsCurrent
  BY DEF ReconcileService, ReconcileHTTPRoute, Changed, QuietInv
<1>3. UNCHANGED <<config, files, deployment>> /\ (FilesCurrent => FilesCurrent')
  BY <1>1 DEF ReconcileService, ReconcileHTTPRoute, FilesCurrent
<1>4. CASE ReconcileService
  <2>1. /\ job.pc = "service" /\ job'.pc = "route"
        /\ job'.proxy = job.proxy /\ job'.ups = job.ups
        /\ service' = BuildService(job.proxy.spec)
    BY <1>4 DEF ReconcileService, Goto, OpInv, JobOK
  <2>2. QED
    BY <1>1, <1>2, <1>3, <2>1 DEF QuietInv, ReadIsCurrent, WrittenIsCurrent
<1>5. CASE ReconcileHTTPRoute
  <2>1. /\ job.pc = "route" /\ job'.pc = "status"
        /\ job'.proxy = job.proxy /\ job'.ups = job.ups
        /\ route' = BuildHTTPRoute(job.proxy.spec) /\ service' = service
    BY <1>5 DEF ReconcileHTTPRoute, Goto, OpInv, JobOK
  <2>2. QED
    BY <1>1, <1>2, <1>3, <2>1 DEF QuietInv, ReadIsCurrent, WrittenIsCurrent
<1>6. QED
  BY <1>4, <1>5

(* The status is written: the reconcile ends with everything current.      *)
LEMMA QuietStatus ==
  ASSUME OpInv, QuietInv, UpdateStatus
  PROVE  QuietInv'
<1>1. UNCHANGED <<userVars, ownedVars, unseen>>
  BY DEF UpdateStatus
<1>2. Wanted' = Wanted /\ proxy' = proxy /\ sources' = sources
  BY <1>1, UsersStay
<1>3. ~queued' /\ ~unseen' => WrittenIsCurrent
  BY DEF UpdateStatus, QuietInv
<1>4. job.pc = "status" /\ job'.pc = "idle"
  BY DEF UpdateStatus, Idle
<1>5. FilesCurrent => FilesCurrent'
  BY <1>1, <1>2 DEF FilesCurrent, ownedVars
<1>6. QED
  BY <1>1, <1>2, <1>3, <1>4, <1>5 DEF QuietInv, ReadIsCurrent, WrittenIsCurrent, ownedVars

(* An edit of an MCPUpstream or a Service that neither queues the key nor  *)
(* counts as unseen does not concern this proxy.                           *)
LEMMA UnselectedUpstream ==
  ASSUME OpInv, NEW u \in Upstreams, NEW s, WriteUpstream(u, s), ~queued', ~unseen'
  PROVE  ListUpstreams(proxy.spec)' = ListUpstreams(proxy.spec)
<1> DEFINE p == proxy.spec
           S == {v \in Upstreams : SelectsUpstream(p, v, upstreams[v])}
           T == {v \in Upstreams : SelectsUpstream(p, v, upstreams'[v])}
<1>1. proxy' = proxy /\ upstreams' = [upstreams EXCEPT ![u] = s]
  BY DEF WriteUpstream
<1>2. ~SelectsUpstream(p, u, upstreams[u]) /\ ~SelectsUpstream(p, u, s)
  BY DEF WriteUpstream, ProxiesForUpstream
<1>3. \A v \in Upstreams : upstreams'[v] = IF v = u THEN s ELSE upstreams[v]
  BY <1>1 DEF OpInv, OpTypeOK
<1>4. S = T /\ \A v \in S : upstreams'[v] = upstreams[v]
  BY <1>2, <1>3
<1>5. ListUpstreams(p) = {CrdUpstream(v, upstreams[v]) : v \in S}
  BY DEF ListUpstreams
<1>6. ListUpstreams(proxy.spec)' = {CrdUpstream(v, upstreams'[v]) : v \in T}
  BY <1>1 DEF ListUpstreams, SelectsUpstream, CrdUpstream
<1> HIDE DEF S, T
<1>7. QED
  BY <1>4, <1>5, <1>6

LEMMA UnselectedService ==
  ASSUME OpInv, NEW u \in Services, NEW s, WriteService(u, s), ~queued'
  PROVE  ListAnnotatedServices(proxy.spec)' = ListAnnotatedServices(proxy.spec)
<1> DEFINE p == proxy.spec
           S == {v \in Services : SelectsService(p, v, services[v]) /\ Convertible(services[v])}
           T == {v \in Services : SelectsService(p, v, services'[v]) /\ Convertible(services'[v])}
<1>1. proxy' = proxy /\ services' = [services EXCEPT ![u] = s]
  BY DEF WriteService
<1>2. ~SelectsService(p, u, services[u]) /\ ~SelectsService(p, u, s)
  BY DEF WriteService, ProxiesForService
<1>3. \A v \in Services : services'[v] = IF v = u THEN s ELSE services[v]
  BY <1>1 DEF OpInv, OpTypeOK
<1>4. S = T /\ \A v \in S : services'[v] = services[v]
  BY <1>2, <1>3
<1>5. ListAnnotatedServices(p) = {ServiceUpstream(v, services[v]) : v \in S}
  BY DEF ListAnnotatedServices
<1>6. ListAnnotatedServices(proxy.spec)' = {ServiceUpstream(v, services'[v]) : v \in T}
  <2>1. \A v, t : SelectsService(p, v, t)' = SelectsService(p, v, t)
    BY <1>1, ServicesStay DEF WriteService, SelectsService
  <2>2. QED
    BY <1>1, <2>1 DEF ListAnnotatedServices, ServiceUpstream, Convertible
<1> HIDE DEF S, T
<1>7. QED
  BY <1>4, <1>5, <1>6

LEMMA QuietEdit ==
  ASSUME OpInv, QuietInv,
         \/ \E u \in Upstreams, s \in UpstreamSpecs \cup {None} : WriteUpstream(u, s)
         \/ \E u \in Services, s \in ServiceSpecs \cup {None} : WriteService(u, s)
  PROVE  QuietInv'
<1> SUFFICES ASSUME ~queued', ~unseen'
             PROVE  ReadIsCurrent' /\ WrittenIsCurrent'
  BY DEF QuietInv
<1>1. UNCHANGED <<proxy, sources, job, config, files, deployment, service, route>>
  BY DEF WriteUpstream, WriteService, Edit, ownedVars
<1>2. ~queued /\ ~unseen
  <2>1. ASSUME NEW u, NEW s, WriteUpstream(u, s) PROVE ~queued /\ ~unseen
    BY <2>1, Zenon DEF WriteUpstream
  <2>2. ASSUME NEW u, NEW s, WriteService(u, s) PROVE ~queued /\ ~unseen
    BY <2>2, Zenon DEF WriteService
  <2>3. QED
    BY <2>1, <2>2
<1> DEFINE Same == /\ ListUpstreams(proxy.spec)' = ListUpstreams(proxy.spec)
                   /\ ListAnnotatedServices(proxy.spec)' = ListAnnotatedServices(proxy.spec)
<1>3. Same
  <2>1. ASSUME NEW u \in Upstreams, NEW s, WriteUpstream(u, s) PROVE Same
    BY <2>1, UnselectedUpstream, ServicesStay DEF WriteUpstream
  <2>2. ASSUME NEW u \in Services, NEW s, WriteService(u, s) PROVE Same
    BY <2>2, UnselectedService DEF WriteService, ListUpstreams
  <2>3. QED
    BY <2>1, <2>2
<1>4. Wanted' = Wanted
  BY <1>3 DEF Wanted
<1>5. ReadIsCurrent /\ WrittenIsCurrent
  BY <1>2 DEF QuietInv
<1>6. QED
  BY <1>1, <1>3, <1>4, <1>5 DEF ReadIsCurrent, WrittenIsCurrent, FilesCurrent, FileIsCurrent

LEMMA QuietNext == OpInv /\ QuietInv /\ [Next]_vars => QuietInv'
<1> SUFFICES ASSUME OpInv, QuietInv, [Next]_vars PROVE QuietInv'
  OBVIOUS
<1>1. CASE Start \/ ReadUpstreams \/ ReadServices
  BY <1>1, QuietRead
<1>2. CASE ReconcileConfigMap
  BY <1>2, QuietConfig
<1>3. CASE \E w \in job.todo : CopyFile(w)
  BY <1>3, QuietCopy
<1>4. CASE ReconcileDeployment
  BY <1>4, QuietDeployment
<1>5. CASE ReconcileService \/ ReconcileHTTPRoute
  BY <1>5, QuietServiceRoute
<1>6. CASE UpdateStatus
  BY <1>6, QuietStatus
<1>7. CASE \/ GenerateFails \/ (\E w \in job.todo : SourceMissing(w)) \/ CutOff \/ Resync
           \/ \E p \in ProxySpecs : EditProxy(p)
  BY <1>7 DEF GenerateFails, SourceMissing, CutOff, Resync, EditProxy, QuietInv
<1>8. CASE \/ \E s \in Sources, c \in Contents \cup {None} : WriteSource(s, c)
           \/ \E ns \in Namespaces : LabelNamespace(ns)
           \/ Tamper
  BY <1>8 DEF WriteSource, LabelNamespace, Tamper, QuietInv
<1>9. CASE (\E u \in Upstreams : AssignUpstream(u)) \/ UNCHANGED vars
  <2>1. UNCHANGED <<userVars, ownedVars, job, queued, unseen>>
    BY <1>9 DEF AssignUpstream, vars, userVars, ownedVars
  <2>2. QED
    BY <2>1, QuietStays
<1>10. CASE \/ \E u \in Upstreams, s \in UpstreamSpecs \cup {None} : WriteUpstream(u, s)
            \/ \E u \in Services, s \in ServiceSpecs \cup {None} : WriteService(u, s)
  BY <1>10, QuietEdit
<1>11. QED
  BY <1>1, <1>2, <1>3, <1>4, <1>5, <1>6, <1>7, <1>8, <1>9, <1>10 DEF Next, ReconcileStep

---------------------------------------------------------------------------
(***************************************************************************)
(* The operator's objects and status keep their types, and the spec and    *)
(* overlay maps never hold the absence of a source.                        *)
(***************************************************************************)
THEOREM OpTypeCorrect == Spec => []OpTypeOK
<1>1. OpInv => OpTypeOK
  BY DEF OpInv
<1>2. QED
  BY <1>1, OpAlways, PTL

(***************************************************************************)
(* Wherever reconciles are cut off and whatever users edit meanwhile, a    *)
(* Deployment mounts only ConfigMaps that exist.                           *)
(***************************************************************************)
THEOREM MapsBeforeDeployment == Spec => []MountedMapsExist
<1>1. OpInv => MountedMapsExist
  BY DEF OpInv
<1>2. QED
  BY <1>1, OpAlways, PTL

(***************************************************************************)
(* observedGeneration never names a generation whose Deployment has not    *)
(* been written.                                                           *)
(***************************************************************************)
THEOREM StatusHonest == Spec => []StatusNotAhead
<1>1. OpInv => StatusNotAhead
  BY DEF OpInv, GenerationsOK, StatusNotAhead
<1>2. QED
  BY <1>1, OpAlways, PTL

(***************************************************************************)
(* When the controller rests, the proxy's objects are what the cluster     *)
(* asks for: an edit that arrives during a reconcile, after its kind was   *)
(* read, is never lost, whatever is edited and wherever reconciles are cut *)
(* off.                                                                    *)
(***************************************************************************)
THEOREM NoEditLost == Spec => []QuietMeansCurrent
<1>1. Init => QuietInv
  BY DEF Init, QuietInv
<1>2. QuietInv => QuietMeansCurrent
  BY DEF QuietInv, WrittenIsCurrent, QuietMeansCurrent, Current
<1>3. QED
  BY <1>1, <1>2, OpAlways, QuietNext, PTL DEF Spec

=============================================================================
