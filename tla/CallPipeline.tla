---------------------------- MODULE CallPipeline ----------------------------
(***************************************************************************)
(* One tools/call from the HTTP request to its answer: inbound             *)
(* authentication (auth/inbound/middleware.go), the handler that           *)
(* Manager.applyRegistryLocked registers for each tool, the rate limiter,  *)
(* the response cache and the HTTP executor, while configuration reloads   *)
(* and spec refreshes swap the Manager's state under the calls' feet.      *)
(*                                                                         *)
(* A call takes its reads of the Manager one at a time, each a locked read *)
(* of its own: AuthRequired, ToolUpstreamName, the lookup of the handler,  *)
(* checkRateLimit, DispatchForGroup.  A Rebuild may come between any two.  *)
(* The variables of the Manager proper (per-upstream state, servers) are   *)
(* in module Manager; here a registry is only the function from the tool   *)
(* names it knows to what a call reads of an entry.                        *)
(***************************************************************************)
EXTENDS Naturals, FiniteSets, Sequences

CONSTANTS
    Calls,          \* tools/call requests; each is served by its own goroutine
    Tools, Groups, Upstreams,
    Subjects,       \* identities a validator can return
    Accepted(_),    \* tokens the validator of an upstream (of None: the global one) accepts
    Requests,       \* the requests clients may send
    Configs,        \* configurations a reload may bring
    Refreshes,      \* the entries a spec refresh may bring an upstream
    None,           \* no identity, no cache, no limit
    MaxChanges,     \* bound on reloads and refreshes
    MaxWindows      \* bound on ends of the rate limiters' period

Statuses == {"success", "error", "both", "unlisted"}

\* What a call reads of a RegistryEntry: upstream, AuthRequired, RateLimit,
\* CacheName, and the groups whose toolSet has the tool.
Entry == [up : Upstreams, authRequired : BOOLEAN, rateLimit : {None, "rl"},
          cache : {None, "c"}, groups : SUBSET Groups]

\* tool and canonical arguments, the group whose endpoint it is posted to, the
\* client (its address and its MCP session) and the token: that of a subject, an
\* API key, which names nobody, or none.
Request == [tool : Tools, group : Groups, token : Subjects \cup {"key", None},
            args : STRING, client : STRING]

ASSUME RequestsAssumption == Requests \subseteq Request

Registries == UNION {[T -> Entry] : T \in SUBSET Tools}

Providers == {"memory", "redis"}

\* store: the cache_store provider; perUser: the configured caches; limit: the
\* Average + Burst of limit "rl", None when no rate limit is configured;
\* rlStore: the rate_limit_store provider; source: what the limit counts by.
Config == [entries : Registries, store : {None} \cup Providers,
           perUser : UNION {[C -> BOOLEAN] : C \in SUBSET {"c"}},
           limit : {None} \cup (Nat \ {0}), rlStore : Providers,
           source : {"user", "ip", "session"}]

ASSUME ConfigsAssumption == Configs \subseteq Config

ASSUME RefreshesAssumption == Refreshes \subseteq [up : Upstreams, entries : Registries]

ASSUME BoundsAssumption == MaxChanges \in Nat /\ MaxWindows \in Nat

ASSUME NoneAssumption == None \notin Subjects \cup Tools \cup Nat \cup {"memory", "redis", "c", "rl"}

VARIABLES
    conf,       \* cfg of the last Rebuild (rateLimitCfgs, cacheConfigs, ...)
    reg,        \* m.registry
    gen,        \* Rebuilds so far: names the enforcer and the cache store
    history,    \* every registry loaded so far, latest last (observation)
    cache,      \* contents of each cache store: partial function key -> answer
    hits,       \* counters of each limiter store in the current window
    admitted,   \* the calls a limiter let through in this window (observation)
    windows,    \* ends of the limiters' period so far
    call        \* state of each call

vars == <<conf, reg, gen, history, cache, hits, admitted, windows, call>>

managerVars == <<conf, reg, gen, history>>

StoreIdPerRebuild(provider, g) == g

\* A memory store belongs to the Rebuild that made it; Redis outlives them all.
StoreId(provider, g) == IF provider = "redis" THEN 0 ELSE g

StoreIds == 0 .. (MaxChanges + 1)

Answer == [kind : {"ok", "error", "goerror", "refused", "limited", "unknown"},
           sub : Subjects \cup {None}, gen : Nat, status : Statuses \cup {None}]

Reply(k) == [kind |-> k, sub |-> None, gen |-> 0, status |-> None]

\* since, seen: the latest registry in history when the call arrived and when it
\* was dispatched (0 when it was not).  What DispatchForGroup reads of registry
\* and configuration, which never change once built: member, is the tool in the
\* group; store, the provider of the cache to use, if any; perUser; gen.
NewCall == [pc |-> "idle", req |-> None, since |-> 0, seen |-> 0, identity |-> FALSE, sub |-> None,
            enf |-> 0, enfBy |-> None, lim |-> None, key |-> None,
            member |-> FALSE, gen |-> 0, store |-> None, perUser |-> FALSE,
            ans |-> Reply("unknown")]

Init ==
    \E c \in Configs :
        /\ conf = c /\ reg = c.entries /\ gen = 1 /\ history = <<c.entries>>
        /\ cache = [s \in StoreIds |-> <<>>]
        /\ hits = [s \in StoreIds |-> <<>>]
        /\ admitted = {}
        /\ windows = 0
        /\ call = [i \in Calls |-> NewCall]

\* A partial function with one more entry, or another one.
Put(f, k, v) == [x \in DOMAIN f \cup {k} |-> IF x = k THEN v ELSE f[x]]

Goto(i, l) == call' = [call EXCEPT ![i].pc = l]
Finish(i, a) == call' = [call EXCEPT ![i].pc = "done", ![i].ans = a]

---------------------------------------------------------------------------
(* Inbound authentication *)

AuthRequiredIfKnown(t) == t \in DOMAIN reg /\ reg[t].authRequired

\* A tool the registry does not know needs authentication.
AuthRequired(t) == t \in DOMAIN reg => reg[t].authRequired

UpstreamIn(r, t) == IF t \in DOMAIN r THEN r[t].up ELSE None

ToolUpstreamNameNone(t) == None

ToolUpstreamName(t) == UpstreamIn(reg, t)

\* The validators are made once, at startup, from the configuration of startup:
\* no reload changes them, and an upstream it adds has the global one.
Accepts(up, token) == token \in Accepted(up)

\* A request comes in.  First read: a public tool goes straight to the handler,
\* without identity.
Arrive(i, r) ==
    /\ call[i].pc = "idle"
    /\ call' = [call EXCEPT ![i].req = r, ![i].since = Len(history),
                            ![i].pc = IF AuthRequired(r.tool) THEN "route" ELSE "lookup"]
    /\ UNCHANGED <<managerVars, cache, hits, admitted, windows>>

\* Second read: the validator of the tool's upstream if it has one, else the
\* global one.  ValidatorMiddleware refuses a missing or an invalid token, passes
\* on a DeniedError (any validator may deny any token), or puts the identity in
\* the context.  The identity an API key gives has no subject.
Authenticate(i) ==
    /\ call[i].pc = "route"
    /\ \/ Finish(i, Reply("refused"))
       \/ /\ Accepts(ToolUpstreamName(call[i].req.tool), call[i].req.token)
          /\ call' = [call EXCEPT ![i].pc = "lookup", ![i].identity = TRUE,
                         ![i].sub = IF call[i].req.token = "key" THEN None ELSE call[i].req.token]
    /\ UNCHANGED <<managerVars, cache, hits, admitted, windows>>

---------------------------------------------------------------------------
(* The tool handler: rate limit, arguments *)

ToolsForGroup(r, g) == {t \in DOMAIN r : g \in r[t].groups}

\* The MCP server of the group finds the handler; the handler has the limit's
\* name from the registration.  The groups of all configurations here have the
\* same endpoints, so that the server's tools are the group's (GroupToolsServed
\* and MirrorPreserved of module Manager).
LookupHandler(i) ==
    /\ call[i].pc = "lookup"
    /\ IF call[i].req.tool \in ToolsForGroup(reg, call[i].req.group)
       THEN Goto(i, IF reg[call[i].req.tool].rateLimit = None THEN "dispatch" ELSE "rate")
       ELSE Finish(i, Reply("unknown"))
    /\ UNCHANGED <<managerVars, cache, hits, admitted, windows>>

\* Without an identity the key falls back to the client address.
RateLimitKey(c, source) ==
    <<source, IF source = "user" /\ c.sub # None THEN c.sub ELSE c.req.client>>

\* checkRateLimit: one locked read of the enforcer and the limits, no enforcer
\* and an unknown limit allow the call.
ReadLimit(i) ==
    /\ call[i].pc = "rate"
    /\ IF conf.limit = None
       THEN Goto(i, "dispatch")
       ELSE call' = [call EXCEPT ![i].pc = "allow", ![i].lim = conf.limit,
                                 ![i].enf = StoreId(conf.rlStore, gen), ![i].enfBy = conf.rlStore,
                                 ![i].key = RateLimitKey(call[i], conf.source)]
    /\ UNCHANGED <<managerVars, cache, hits, admitted, windows>>

Count(f, k) == IF k \in DOMAIN f THEN f[k] ELSE 0

\* Enforcer.Allow: the store counts the hit and compares in one operation.
Allow(i) ==
    LET k == call[i].key  s == call[i].enf  n == Count(hits[s], k) + 1 IN
    /\ call[i].pc = "allow"
    /\ hits' = [hits EXCEPT ![s] = Put(@, k, n)]
    /\ IF n > call[i].lim
       THEN Finish(i, Reply("limited")) /\ UNCHANGED admitted
       ELSE /\ Goto(i, "dispatch")
            /\ admitted' = admitted \cup {i}
    /\ UNCHANGED <<managerVars, cache, windows>>

\* The limiter's store fails: the call is allowed and nothing is counted.
AllowFails(i) ==
    /\ call[i].pc = "allow"
    /\ Goto(i, "dispatch")
    /\ UNCHANGED <<managerVars, cache, hits, admitted, windows>>

\* Arguments that are no JSON object end the call.
ParseFails(i) ==
    /\ call[i].pc = "dispatch"
    /\ Finish(i, Reply("goerror"))
    /\ UNCHANGED <<managerVars, cache, hits, admitted, windows>>

---------------------------------------------------------------------------
(* Manager.DispatchForGroup: response cache and execution *)

\* One locked read of registry, store and cache configuration.  The cache is
\* used when there is a store and the tool names a configured cache.
Dispatch(i) ==
    LET t == call[i].req.tool
        cached == /\ conf.store # None
                  /\ t \in DOMAIN reg
                  /\ reg[t].cache \in DOMAIN conf.perUser
    IN  /\ call[i].pc = "dispatch"
        /\ call' = [call EXCEPT ![i].pc = IF cached THEN "get" ELSE "exec",
                                ![i].member = t \in ToolsForGroup(reg, call[i].req.group),
                                ![i].store = IF cached THEN conf.store ELSE None,
                                ![i].perUser = cached /\ conf.perUser[reg[t].cache],
                                ![i].gen = gen, ![i].seen = Len(history)]
        /\ UNCHANGED <<managerVars, cache, hits, admitted, windows>>

ComputeKeyShared(c) == <<c.req.tool, None, c.req.args>>

\* The subject is part of the key when the cache is per user and there is one.
ComputeKey(c) == <<c.req.tool, IF c.perUser THEN c.sub ELSE None, c.req.args>>

\* A stored answer may have expired or been evicted, or Redis may not answer:
\* every lookup may miss.  A hit is answered without asking for the group.
CacheGet(i) ==
    LET s == StoreId(call[i].store, call[i].gen)  k == ComputeKey(call[i]) IN
    /\ call[i].pc = "get"
    /\ \/ k \in DOMAIN cache[s] /\ Finish(i, cache[s][k])
       \/ Goto(i, "exec")
    /\ UNCHANGED <<managerVars, cache, hits, admitted, windows>>

HttpDispatchSuccessFirst(rsp, failOnInvalid) ==
    CASE rsp = "network" -> "goerror"
      [] rsp \in {"success", "both"} -> "ok"
      [] OTHER -> "error"

\* httpDispatchWithStatus: what an upstream's answer becomes.  A status in both
\* lists is an error; a body that fails validation only with "fail".
HttpDispatch(rsp, failOnInvalid) ==
    CASE rsp = "network" -> "goerror"
      [] rsp \in {"error", "both", "unlisted"} -> "error"
      [] rsp = "success" -> IF failOnInvalid THEN "error" ELSE "ok"

\* Executor.ServeHTTP before the upstream call: a failed request transform, a
\* failed credential or an OAuth prompt, an invalid request and an open breaker
\* are error results; a URL or body that cannot be built is a Go error.
ServeHTTP(stop, rsp, failOnInvalid) ==
    CASE stop \in {"transform", "credentials", "request", "breaker"} -> "error"
      [] stop = "envelope" -> "goerror"
      [] stop = None -> HttpDispatch(rsp, failOnInvalid)

\* The ends an execution can come to, and the status of a success.
Outcomes ==
    {LET k == ServeHTTP(stop, rsp, fail) IN [kind |-> k, status |-> IF k = "ok" THEN rsp ELSE None] :
        stop \in {None, "transform", "credentials", "envelope", "request", "breaker"},
        rsp \in Statuses \cup {"network"}, fail \in BOOLEAN}

Result(c, o) ==
    IF o.kind = "ok" THEN [kind |-> "ok", sub |-> c.sub, gen |-> c.gen, status |-> o.status]
    ELSE Reply(o.kind)

\* Registry.DispatchForGroup on the registry read by Dispatch.
Execute(i) ==
    /\ call[i].pc = "exec"
    /\ \E o \in Outcomes :
         LET ans == IF call[i].member THEN Result(call[i], o) ELSE Reply("error") IN
          IF call[i].store = None THEN Finish(i, ans)
          ELSE call' = [call EXCEPT ![i].pc = "set", ![i].ans = ans]
    /\ UNCHANGED <<managerVars, cache, hits, admitted, windows>>

CacheSetReread(i) ==
    LET s == StoreId(conf.store, gen)  k == ComputeKey(call[i]) IN
    /\ call[i].pc = "set"
    /\ Finish(i, call[i].ans)
    /\ IF call[i].ans.kind = "ok"
       THEN cache' = [cache EXCEPT ![s] = Put(@, k, call[i].ans)]
       ELSE UNCHANGED cache
    /\ UNCHANGED <<managerVars, hits, admitted, windows>>

\* Only a result that is no error is stored, in the store read by Dispatch; a
\* store that fails is ignored.
CacheSet(i) ==
    LET s == StoreId(call[i].store, call[i].gen)  k == ComputeKey(call[i]) IN
    /\ call[i].pc = "set"
    /\ Finish(i, call[i].ans)
    /\ \/ /\ call[i].ans.kind = "ok"
          /\ cache' = [cache EXCEPT ![s] = Put(@, k, call[i].ans)]
       \/ UNCHANGED cache
    /\ UNCHANGED <<managerVars, hits, admitted, windows>>

---------------------------------------------------------------------------
(* What happens around the calls *)

\* Rebuild swaps registry, enforcer, limits, store and caches under the lock.
Rebuild ==
    /\ Len(history) <= MaxChanges
    /\ \E c \in Configs :
        /\ conf' = c /\ reg' = c.entries /\ gen' = gen + 1
        /\ history' = Append(history, c.entries)
    /\ UNCHANGED <<cache, hits, admitted, windows, call>>

UpstreamTools(u) == {t \in DOMAIN reg : reg[t].up = u}

\* UpdateUpstream and RemoveUpstream change the registry alone: the cache store
\* and the enforcer stay.
Refresh(u, entries) ==
    /\ Len(history) <= MaxChanges
    /\ reg' = [t \in (DOMAIN reg \ UpstreamTools(u)) \cup DOMAIN entries |->
                 IF t \in DOMAIN entries THEN entries[t] ELSE reg[t]]
    /\ history' = Append(history, reg')
    /\ UNCHANGED <<conf, gen, cache, hits, admitted, windows, call>>

\* The limiters' period ends.
WindowEnds ==
    /\ windows < MaxWindows
    /\ \E s \in StoreIds : hits[s] # <<>>
    /\ windows' = windows + 1
    /\ hits' = [s \in StoreIds |-> <<>>]
    /\ admitted' = {}
    /\ UNCHANGED <<managerVars, cache, call>>

CallStep(i) ==
    \/ Authenticate(i) \/ LookupHandler(i)
    \/ ReadLimit(i) \/ Allow(i) \/ AllowFails(i) \/ ParseFails(i)
    \/ Dispatch(i) \/ CacheGet(i) \/ Execute(i) \/ CacheSet(i)

Next ==
    \/ \E i \in Calls, r \in Requests : Arrive(i, r)
    \/ \E i \in Calls : CallStep(i)
    \/ Rebuild
    \/ \E f \in Refreshes : Refresh(f.up, f.entries)
    \/ WindowEnds
    \/ (\A i \in Calls : call[i].pc = "done") /\ UNCHANGED vars

Spec == Init /\ [][Next]_vars

---------------------------------------------------------------------------
(* Properties *)

\* The variables hold what their declarations say; a cache holds answers under
\* the keys of ComputeKey.
TypeOK ==
    /\ conf \in Configs /\ reg \in Registries /\ gen \in 1 .. MaxChanges + 1
    /\ windows \in 0 .. MaxWindows
    /\ \A s \in StoreIds : \A k \in DOMAIN cache[s] :
           k \in Tools \X (Subjects \cup {None}) \X STRING /\ cache[s][k] \in Answer
    /\ \A s \in StoreIds : \A k \in DOMAIN hits[s] : hits[s][k] \in Nat
    /\ \A i \in Calls : call[i].ans \in Answer /\ call[i].seen \in 0 .. Len(history)

\* A caller with a subject, asking through a cache that is per user, is never
\* answered with what was computed for somebody else: not from an entry stored
\* before a reload made the cache per user, and not from an entry of a caller
\* whose identity has no subject (DispatchForGroup, ComputeKey).
PerUserIsolation ==
    \A i \in Calls : LET c == call[i] IN
        c.pc = "done" /\ c.sub # None /\ c.perUser /\ c.ans.kind = "ok" => c.ans.sub = c.sub

\* With a memory store every answer comes from the Rebuild whose registry the
\* call was dispatched with, even when the reload happened while the upstream
\* was working (the single locked read of DispatchForGroup).
AnswerOfOwnConfiguration ==
    \A i \in Calls : LET c == call[i] IN
        c.pc = "done" /\ c.store = "memory" /\ c.ans.kind = "ok" => c.ans.gen = c.gen

\* A cache only ever holds what an upstream answered with a success status that
\* is not also an error status: neither failures before the upstream call nor
\* errors of the upstream are replayed to later callers.
OnlySuccessesCached ==
    \A s \in StoreIds : \A k \in DOMAIN cache[s] : cache[s][k].status = "success"

Limits == {c.limit : c \in Configs} \ {None}

AdmittedBy(p, k) == {i \in admitted : call[i].enfBy = p /\ call[i].key = k}

\* In one window a key gets at most its limit through a Redis limiter, whatever
\* reloads come in between; through memory limiters every reload that happened
\* adds one more allowance, since Rebuild makes a new store (manager.go:269).
LimitHolds ==
    \A lim \in Limits :
        (\A l \in Limits : l <= lim) =>
            \A j \in admitted : LET k == call[j].key IN
                /\ Cardinality(AdmittedBy("redis", k)) <= lim
                /\ Cardinality(AdmittedBy("memory", k)) <= lim * gen

\* A call is dispatched without an identity only for a tool that some registry
\* loaded during the call declares public.  An unknown tool must count as
\* protected: a reload may add it between the check and the dispatch.
BypassOnlyIfPublic ==
    \A i \in Calls : LET c == call[i] IN
        c.seen > 0 /\ ~c.identity =>
            \E n \in c.since .. c.seen :
                c.req.tool \in DOMAIN history[n] /\ ~history[n][c.req.tool].authRequired

\* A call is dispatched with an identity only if its token was accepted by the
\* validator of the upstream that some registry loaded during the call gives the
\* tool: the two locked reads of DispatchMiddleware (is it public, whose is it)
\* never combine into a validator that no registry asks for.  A tool that none
\* of them knows is the global validator's, even if a reload adds it meanwhile.
ValidatedForUpstream ==
    \A i \in Calls : LET c == call[i] IN
        c.seen > 0 /\ c.identity =>
            \E n \in c.since .. c.seen :
                c.req.token \in Accepted(UpstreamIn(history[n], c.req.tool))

=============================================================================
