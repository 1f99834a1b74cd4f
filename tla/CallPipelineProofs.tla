------------------------- MODULE CallPipelineProofs -------------------------
(***************************************************************************)
(* Tool calls, for any number of calls, tools, subjects, configurations,   *)
(* reloads, refreshes and windows of the rate limiters.                    *)
(***************************************************************************)
EXTENDS CallPipeline, FiniteSetTheorems, TLAPS

(* What the calls, one after the other, can be found to be.                *)
Labels == {"idle", "route", "lookup", "rate", "allow", "dispatch", "get", "exec", "set", "done"}

LimitKeys == {"user", "ip", "session"} \X (Subjects \cup STRING)

CallRec ==
  [pc : Labels, req : Requests \cup {None}, since : Nat, seen : Nat, identity : BOOLEAN,
   sub : Subjects \cup {None}, enf : Nat, enfBy : Providers \cup {None},
   lim : Nat \cup {None}, key : {None} \cup LimitKeys,
   member : BOOLEAN, gen : Nat, store : Providers \cup {None}, perUser : BOOLEAN,
   ans : Answer]

CacheKeys == Tools \X (Subjects \cup {None}) \X STRING

(***************************************************************************)
(* The Manager's variables: the registry in force is the last of history,  *)
(* and every Rebuild has its place in history.                             *)
(***************************************************************************)
ManagerOK ==
  /\ conf \in Configs /\ reg \in Registries /\ windows \in 0 .. MaxWindows
  /\ history \in Seq(Registries) /\ Len(history) \in 1 .. MaxChanges + 1
  /\ reg = history[Len(history)]
  /\ gen \in 1 .. Len(history)

(***************************************************************************)
(* What a cache store holds: successes, under the subject they were        *)
(* computed for when the key names one, and of the store's own Rebuild     *)
(* when it is a memory store.                                              *)
(***************************************************************************)
StoresOK ==
  /\ cache = [s \in StoreIds |-> cache[s]]
  /\ hits = [s \in StoreIds |-> hits[s]]
  /\ \A s \in StoreIds : \A k \in DOMAIN hits[s] : hits[s][k] \in Nat

CacheOK ==
  \A s \in StoreIds : \A k \in DOMAIN cache[s] :
    /\ k \in CacheKeys /\ cache[s][k] \in Answer
    /\ cache[s][k].status = "success"
    /\ k[2] # None => cache[s][k].sub = k[2]
    /\ s # 0 => cache[s][k].gen = s

Public(t, n) == t \in DOMAIN history[n] /\ ~history[n][t].authRequired

(* One of the registries numbered since to m gives the tool of request r   *)
(* an upstream whose validator accepts the token.                          *)
Vouched(r, since, m) ==
  \E n \in since .. m : r.token \in Accepted(UpstreamIn(history[n], r.tool))

(* A call that goes on without an identity found its tool public on        *)
(* arrival; one with an identity was vouched for since.                    *)
ArrivedOK(c) ==
  /\ c.pc # "idle" => c.req \in Requests /\ c.since \in 1 .. Len(history)
  /\ c.seen \in 0 .. Len(history)
  /\ c.seen > 0 => c.pc \notin {"idle", "route"} /\ c.since <= c.seen
  /\ (c.pc \in {"lookup", "rate", "allow", "dispatch"} \/ c.seen > 0) /\ ~c.identity =>
       Public(c.req.tool, c.since)
  /\ c.identity => /\ c.pc \notin {"idle", "route"}
                   /\ Vouched(c.req, c.since, IF c.seen > 0 THEN c.seen ELSE Len(history))

(* A call at the limiter, or through it, has the limit and the store of    *)
(* one configuration.                                                      *)
LimiterOK(c) ==
  /\ c.lim \in Limits
  /\ (c.enfBy = "redis" /\ c.enf = 0) \/ (c.enfBy = "memory" /\ c.enf \in 1 .. gen)

(* An answer on its way to the cache, or to the caller, is the caller's.   *)
AnswerOK(c) ==
  /\ c.pc \in {"get", "set"} => c.store # None
  /\ c.store # None => c.gen \in 1 .. gen
  /\ c.pc = "set" /\ c.ans.kind = "ok" =>
       c.ans.status = "success" /\ c.ans.sub = c.sub /\ c.ans.gen = c.gen
  /\ c.pc = "done" /\ c.ans.kind = "ok" =>
       /\ c.sub # None /\ c.perUser => c.ans.sub = c.sub
       /\ c.store = "memory" => c.ans.gen = c.gen

CallsOK ==
  /\ call \in [Calls -> CallRec]
  /\ \A i \in Calls : ArrivedOK(call[i]) /\ AnswerOK(call[i])
  /\ \A i \in Calls : call[i].pc = "allow" \/ i \in admitted => LimiterOK(call[i])
  /\ admitted \subseteq Calls
  /\ \A i \in admitted : call[i].pc \in {"dispatch", "get", "exec", "set", "done"}

(***************************************************************************)
(* The calls a limiter let through can be numbered such that no two of one *)
(* store and key have the same number, and none has a number above its     *)
(* limit: the count at which it was let through.                           *)
(***************************************************************************)
NumberedBy(f) ==
  /\ f \in [admitted -> Nat]
  /\ \A i \in admitted : /\ 1 <= f[i] /\ f[i] <= call[i].lim
                         /\ f[i] <= Count(hits[call[i].enf], call[i].key)
  /\ \A i, j \in admitted :
       call[i].enf = call[j].enf /\ call[i].key = call[j].key /\ f[i] = f[j] => i = j

Numbered == \E f : NumberedBy(f)

CallInv == ManagerOK /\ StoresOK /\ CacheOK /\ CallsOK /\ Numbered

---------------------------------------------------------------------------
(* The steps that calls are made of.                                       *)

(* Everything but the label and the answer.                                *)
Kept(c, d) ==
  /\ d.req = c.req /\ d.since = c.since /\ d.seen = c.seen /\ d.identity = c.identity
  /\ d.sub = c.sub /\ d.enf = c.enf /\ d.enfBy = c.enfBy /\ d.lim = c.lim /\ d.key = c.key
  /\ d.member = c.member /\ d.gen = c.gen /\ d.store = c.store /\ d.perUser = c.perUser

LEMMA GotoFacts ==
  ASSUME call \in [Calls -> CallRec], NEW i \in Calls, NEW l \in Labels, Goto(i, l)
  PROVE  /\ call' \in [Calls -> CallRec]
         /\ \A j \in Calls \ {i} : call'[j] = call[j]
         /\ call'[i].pc = l /\ call'[i].ans = call[i].ans /\ Kept(call[i], call'[i])
<1>1. call' = [call EXCEPT ![i] = [call[i] EXCEPT !.pc = l]]
  BY DEF Goto
<1>2. call[i] \in CallRec
  OBVIOUS
<1>3. [call[i] EXCEPT !.pc = l] \in CallRec
  BY <1>2 DEF CallRec
<1>4. call'[i] = [call[i] EXCEPT !.pc = l]
  BY <1>1
<1>5. QED
  BY <1>1, <1>2, <1>3, <1>4 DEF CallRec, Kept

LEMMA FinishFacts ==
  ASSUME call \in [Calls -> CallRec], NEW i \in Calls, NEW a \in Answer, Finish(i, a)
  PROVE  /\ call' \in [Calls -> CallRec]
         /\ \A j \in Calls \ {i} : call'[j] = call[j]
         /\ call'[i].pc = "done" /\ call'[i].ans = a /\ Kept(call[i], call'[i])
<1>1. call' = [call EXCEPT ![i] = [call[i] EXCEPT !.pc = "done", !.ans = a]]
  BY DEF Finish
<1>2. call[i] \in CallRec
  OBVIOUS
<1>3. [call[i] EXCEPT !.pc = "done", !.ans = a] \in CallRec
  BY <1>2 DEF CallRec, Labels
<1>4. call'[i] = [call[i] EXCEPT !.pc = "done", !.ans = a]
  BY <1>1
<1>5. QED
  BY <1>1, <1>2, <1>3, <1>4 DEF CallRec, Kept

(* Where the Manager's variables stay, only the call that moves matters.   *)
LEMMA OthersStay ==
  ASSUME CallInv, NEW i \in Calls, call' \in [Calls -> CallRec],
         \A j \in Calls \ {i} : call'[j] = call[j],
         UNCHANGED <<managerVars, windows>>,
         ArrivedOK(call[i])', AnswerOK(call[i])',
         admitted' \subseteq admitted \cup {i},
         call'[i].pc = "allow" \/ i \in admitted' => LimiterOK(call[i])',
         i \in admitted' => call'[i].pc \in {"dispatch", "get", "exec", "set", "done"}
  PROVE  ManagerOK' /\ CallsOK'
<1>1. conf' = conf /\ reg' = reg /\ gen' = gen /\ history' = history /\ windows' = windows
  BY DEF managerVars
<1>2. ManagerOK'
  BY <1>1 DEF CallInv, ManagerOK
<1>3. \A j \in Calls \ {i} :
        /\ ArrivedOK(call[j])' = ArrivedOK(call[j])
        /\ AnswerOK(call[j])' = AnswerOK(call[j])
        /\ LimiterOK(call[j])' = LimiterOK(call[j])
  BY <1>1 DEF ArrivedOK, AnswerOK, LimiterOK, Public, Vouched
<1>4. CallsOK'
  BY <1>3 DEF CallInv, CallsOK
<1>5. QED
  BY <1>2, <1>4

LEMMA NumbersStay ==
  ASSUME Numbered, UNCHANGED <<hits, admitted>>,
         \A j \in admitted : /\ call'[j].enf = call[j].enf /\ call'[j].key = call[j].key
                             /\ call'[j].lim = call[j].lim
  PROVE  Numbered'
<1>1. PICK f : NumberedBy(f)
  BY DEF Numbered
<1>2. NumberedBy(f)'
  BY <1>1 DEF NumberedBy, Count
<1>3. QED
  BY <1>2 DEF Numbered

LEMMA StoresStay ==
  ASSUME CallInv, UNCHANGED <<cache, hits>>
  PROVE  StoresOK' /\ CacheOK'
BY DEF CallInv, StoresOK, CacheOK

(* A call goes on, before or after the limiter.                            *)
LEMMA GotoInv ==
  ASSUME CallInv, NEW i \in Calls, NEW l \in {"rate", "dispatch", "exec"}, Goto(i, l),
         \/ l # "exec" /\ call[i].pc \in {"lookup", "rate", "allow"}
         \/ l = "exec" /\ call[i].pc = "get",
         admitted' = admitted \/ (call[i].pc = "allow" /\ l = "dispatch" /\ admitted' = admitted \cup {i}),
         UNCHANGED <<managerVars, windows>>
  PROVE  ManagerOK' /\ CallsOK'
<1> DEFINE c == call[i]
           d == call'[i]
<1>1. /\ call' \in [Calls -> CallRec] /\ \A j \in Calls \ {i} : call'[j] = call[j]
      /\ d.pc = l /\ d.ans = c.ans /\ Kept(c, d)
  <2>1. l \in Labels /\ call \in [Calls -> CallRec]
    BY DEF Labels, CallInv, CallsOK
  <2>2. QED
    BY <2>1, GotoFacts
<1>2. history' = history /\ gen' = gen
  BY DEF managerVars
<1>3. ArrivedOK(c) /\ AnswerOK(c)
  BY DEF CallInv, CallsOK
<1>4. ArrivedOK(c)'
  BY <1>1, <1>2, <1>3 DEF ArrivedOK, Kept, Public, Vouched
<1>5. AnswerOK(c)'
  BY <1>1, <1>2, <1>3 DEF AnswerOK, Kept
<1>6. i \in admitted' => LimiterOK(c)'
  <2>1. i \in admitted' => LimiterOK(c)
    BY DEF CallInv, CallsOK
  <2>2. QED
    BY <1>1, <1>2, <2>1 DEF LimiterOK, Kept
<1>7. i \in admitted' => d.pc \in {"dispatch", "get", "exec", "set", "done"}
  BY <1>1 DEF CallInv, CallsOK
<1>8. d.pc # "allow" /\ admitted' \subseteq admitted \cup {i}
  BY <1>1
<1>9. QED
  BY <1>1, <1>4, <1>5, <1>6, <1>7, <1>8, OthersStay

(* A call ends.                                                            *)
LEMMA FinishInv ==
  ASSUME CallInv, NEW i \in Calls, NEW a \in Answer, Finish(i, a), call[i].pc # "idle",
         a.kind = "ok" =>
           /\ call[i].sub # None /\ call[i].perUser => a.sub = call[i].sub
           /\ call[i].store = "memory" => a.gen = call[i].gen,
         UNCHANGED <<managerVars, admitted, windows>>
  PROVE  ManagerOK' /\ CallsOK'
<1> DEFINE c == call[i]
           d == call'[i]
<1>1. /\ call' \in [Calls -> CallRec] /\ \A j \in Calls \ {i} : call'[j] = call[j]
      /\ d.pc = "done" /\ d.ans = a /\ Kept(c, d)
  <2>1. call \in [Calls -> CallRec]
    BY DEF CallInv, CallsOK
  <2>2. QED
    BY <2>1, FinishFacts
<1>2. history' = history /\ gen' = gen
  BY DEF managerVars
<1>3. ArrivedOK(c) /\ AnswerOK(c)
  BY DEF CallInv, CallsOK
<1>4. ArrivedOK(c)'
  BY <1>1, <1>2, <1>3 DEF ArrivedOK, Kept, Public, Vouched
<1>5. AnswerOK(c)'
  BY <1>1, <1>2, <1>3 DEF AnswerOK, Kept
<1>6. i \in admitted' => LimiterOK(c)'
  <2>1. i \in admitted' => LimiterOK(c)
    BY DEF CallInv, CallsOK
  <2>2. QED
    BY <1>1, <1>2, <2>1 DEF LimiterOK, Kept
<1>7. QED
  BY <1>1, <1>4, <1>5, <1>6, OthersStay

(* A step that leaves the stores alone.                                    *)
LEMMA StoresAside ==
  ASSUME CallInv, ManagerOK', CallsOK', UNCHANGED <<cache, hits, admitted>>,
         \A j \in admitted : /\ call'[j].enf = call[j].enf /\ call'[j].key = call[j].key
                             /\ call'[j].lim = call[j].lim
  PROVE  CallInv'
BY StoresStay, NumbersStay DEF CallInv

LEMMA FinishAside ==
  ASSUME CallInv, NEW i \in Calls, NEW a \in Answer, Finish(i, a), call[i].pc # "idle",
         a.kind = "ok" =>
           /\ call[i].sub # None /\ call[i].perUser => a.sub = call[i].sub
           /\ call[i].store = "memory" => a.gen = call[i].gen,
         UNCHANGED <<managerVars, cache, hits, admitted, windows>>
  PROVE  CallInv'
<1>1. ManagerOK' /\ CallsOK'
  BY FinishInv
<1>2. call \in [Calls -> CallRec] /\ admitted \subseteq Calls
  BY DEF CallInv, CallsOK
<1>3. \A j \in admitted : call'[j] = call[j] \/ Kept(call[j], call'[j])
  BY <1>2, FinishFacts
<1>4. QED
  BY <1>1, <1>3, StoresAside DEF Kept

LEMMA GotoAside ==
  ASSUME CallInv, NEW i \in Calls, NEW l \in {"rate", "dispatch", "exec"}, Goto(i, l),
         \/ l # "exec" /\ call[i].pc \in {"lookup", "rate", "allow"}
         \/ l = "exec" /\ call[i].pc = "get",
         UNCHANGED <<managerVars, cache, hits, admitted, windows>>
  PROVE  CallInv'
<1>1. ManagerOK' /\ CallsOK'
  BY GotoInv
<1>2. call \in [Calls -> CallRec] /\ admitted \subseteq Calls /\ l \in Labels
  BY DEF CallInv, CallsOK, Labels
<1>3. \A j \in admitted : call'[j] = call[j] \/ Kept(call[j], call'[j])
  BY <1>2, GotoFacts
<1>4. QED
  BY <1>1, <1>3, StoresAside DEF Kept

LEMMA ReplyType ==
  ASSUME NEW k \in {"ok", "error", "goerror", "refused", "limited", "unknown"}
  PROVE  Reply(k) \in Answer /\ Reply(k).kind = k
BY DEF Reply, Answer

(***************************************************************************)
(* A step of call i that sets more than label and answer, taken by a call  *)
(* no limiter has let through.                                             *)
(***************************************************************************)
LEMMA ChangeInv ==
  ASSUME CallInv, NEW i \in Calls, NEW d \in CallRec, call' = [call EXCEPT ![i] = d],
         i \notin admitted \/ (d.enf = call[i].enf /\ d.enfBy = call[i].enfBy
                               /\ d.key = call[i].key /\ d.lim = call[i].lim
                               /\ d.pc \in {"get", "exec", "set"}),
         UNCHANGED <<managerVars, cache, hits, admitted, windows>>,
         ArrivedOK(d), AnswerOK(d), d.pc = "allow" => LimiterOK(d)
  PROVE  CallInv'
<1>1. call \in [Calls -> CallRec] /\ admitted \subseteq Calls
  BY DEF CallInv, CallsOK
<1>2. /\ call' \in [Calls -> CallRec] /\ call'[i] = d
      /\ \A j \in Calls \ {i} : call'[j] = call[j]
  BY <1>1
<1>3. history' = history /\ gen' = gen
  BY DEF managerVars
<1>4. ArrivedOK(call[i])' /\ AnswerOK(call[i])'
  BY <1>2, <1>3 DEF ArrivedOK, AnswerOK, Public, Vouched
<1>5. call'[i].pc = "allow" \/ i \in admitted' => LimiterOK(call[i])'
  <2>1. i \in admitted => LimiterOK(call[i])
    BY DEF CallInv, CallsOK
  <2>2. d.pc = "allow" \/ i \in admitted => LimiterOK(d)
    BY <2>1 DEF LimiterOK
  <2>3. LimiterOK(call[i])' = LimiterOK(d)
    BY <1>2, <1>3 DEF LimiterOK
  <2>4. QED
    BY <1>2, <2>2, <2>3
<1>6. ManagerOK' /\ CallsOK'
  BY <1>2, <1>4, <1>5, OthersStay
<1>7. \A j \in admitted : /\ call'[j].enf = call[j].enf /\ call'[j].key = call[j].key
                          /\ call'[j].lim = call[j].lim
  BY <1>1, <1>2
<1>8. QED
  BY <1>6, <1>7, StoresAside

---------------------------------------------------------------------------
(* Inbound authentication.                                                 *)
LEMMA ArriveInv ==
  ASSUME CallInv, NEW i \in Calls, NEW r \in Requests, Arrive(i, r)
  PROVE  CallInv'
<1> DEFINE c == call[i]
           l == IF AuthRequired(r.tool) THEN "route" ELSE "lookup"
           d == [c EXCEPT !.req = r, !.since = Len(history), !.pc = l]
<1>1. c \in CallRec /\ c.pc = "idle" /\ ArrivedOK(c) /\ AnswerOK(c) /\ i \notin admitted
  BY DEF Arrive, CallInv, CallsOK
<1>2. Len(history) \in Nat /\ Len(history) >= 1 /\ reg = history[Len(history)]
  BY BoundsAssumption DEF CallInv, ManagerOK
<1>3. l \in {"route", "lookup"}
  OBVIOUS
<1>4. call' = [call EXCEPT ![i] = d]
  BY DEF Arrive
<1>5. l = "lookup" => Public(r.tool, Len(history))
  <2>1. l = "lookup" => ~AuthRequired(r.tool)
    OBVIOUS
  <2>2. ~AuthRequired(r.tool) => Public(r.tool, Len(history))
    BY <1>2, Zenon DEF AuthRequired, Public, Vouched
  <2>3. QED
    BY <2>1, <2>2
<1> HIDE DEF l
<1>6. /\ d \in CallRec /\ d.pc = l /\ d.req = r /\ d.since = Len(history) /\ d.seen = c.seen
      /\ d.identity = c.identity /\ d.store = c.store /\ d.gen = c.gen
  BY <1>1, <1>2, <1>3 DEF CallRec, Labels
<1> HIDE DEF d
<1>7. ArrivedOK(d)
  BY <1>1, <1>2, <1>6, <1>5, <1>3 DEF ArrivedOK
<1>8. AnswerOK(d)
  BY <1>1, <1>6, <1>3 DEF AnswerOK
<1>9. QED
  BY <1>1, <1>6, <1>3, <1>4, <1>7, <1>8, ChangeInv DEF Arrive

LEMMA AuthenticateInv ==
  ASSUME CallInv, NEW i \in Calls, Authenticate(i)
  PROVE  CallInv'
<1>1. CASE Finish(i, Reply("refused"))
  BY <1>1, ReplyType, FinishAside DEF Authenticate
<1>2. CASE ~Finish(i, Reply("refused"))
  <2> DEFINE c == call[i]
             who == IF c.req.token = "key" THEN None ELSE c.req.token
             d == [c EXCEPT !.pc = "lookup", !.identity = TRUE, !.sub = who]
  <2>1. c \in CallRec /\ c.pc = "route" /\ ArrivedOK(c) /\ AnswerOK(c) /\ i \notin admitted
    BY DEF Authenticate, CallInv, CallsOK
  <2>2. who \in Subjects \cup {None}
    BY <2>1, RequestsAssumption DEF ArrivedOK, Request
  <2>3. call' = [call EXCEPT ![i] = d]
    BY <1>2 DEF Authenticate
  <2> HIDE DEF who
  <2>4. /\ d \in CallRec /\ d.pc = "lookup" /\ d.identity = TRUE /\ d.req = c.req
        /\ d.since = c.since /\ d.seen = c.seen /\ d.store = c.store /\ d.gen = c.gen
    BY <2>1, <2>2 DEF CallRec, Labels
  <2> HIDE DEF d
  <2>5. Vouched(c.req, c.since, Len(history))
    <3>1. c.req.token \in Accepted(UpstreamIn(reg, c.req.tool))
      BY <1>2 DEF Authenticate, Accepts, ToolUpstreamName
    <3>2. reg = history[Len(history)] /\ Len(history) \in c.since .. Len(history)
      BY <2>1, BoundsAssumption DEF CallInv, ManagerOK, ArrivedOK
    <3>3. QED
      BY <3>1, <3>2 DEF Vouched
  <2>6. ArrivedOK(d) /\ AnswerOK(d)
    BY <2>1, <2>4, <2>5 DEF ArrivedOK, AnswerOK
  <2>7. QED
    BY <2>1, <2>3, <2>4, <2>6, ChangeInv DEF Authenticate
<1>3. QED
  BY <1>1, <1>2

(* The handler: lookup, limit, arguments.                                  *)
LEMMA LookupInv ==
  ASSUME CallInv, NEW i \in Calls, LookupHandler(i) \/ ParseFails(i) \/ AllowFails(i)
  PROVE  CallInv'
<1>1. CASE LookupHandler(i)
  BY <1>1, ReplyType, FinishAside, GotoAside DEF LookupHandler
<1>2. CASE ParseFails(i)
  BY <1>2, ReplyType, FinishAside DEF ParseFails
<1>3. CASE AllowFails(i)
  BY <1>3, GotoAside DEF AllowFails
<1>4. QED
  BY <1>1, <1>2, <1>3

LEMMA ReadLimitInv ==
  ASSUME CallInv, NEW i \in Calls, ReadLimit(i)
  PROVE  CallInv'
<1>1. CASE conf.limit = None
  BY <1>1, GotoAside DEF ReadLimit
<1>2. CASE conf.limit # None
  <2> DEFINE c == call[i]
             s == StoreId(conf.rlStore, gen)
             k == RateLimitKey(c, conf.source)
             d == [c EXCEPT !.pc = "allow", !.lim = conf.limit, !.enf = s,
                            !.enfBy = conf.rlStore, !.key = k]
  <2>1. c \in CallRec /\ c.pc = "rate" /\ ArrivedOK(c) /\ AnswerOK(c) /\ i \notin admitted
    BY DEF ReadLimit, CallInv, CallsOK
  <2>2. /\ conf \in Configs /\ conf.limit \in Nat \ {0} /\ conf.rlStore \in Providers
        /\ conf.source \in {"user", "ip", "session"}
    <3>1. conf \in Configs /\ conf \in Config
      BY ConfigsAssumption DEF CallInv, ManagerOK
    <3>2. /\ conf.limit \in {None} \cup (Nat \ {0}) /\ conf.rlStore \in Providers
          /\ conf.source \in {"user", "ip", "session"}
      BY <3>1 DEF Config
    <3>3. conf.limit \in Nat \ {0}
      BY <1>2, <3>2
    <3>4. QED
      BY <3>1, <3>2, <3>3
  <2>3. conf.limit \in Limits
    BY <1>2, <2>2 DEF Limits
  <2>4. k \in LimitKeys
    <3>1. c.req \in Request /\ c.sub \in Subjects \cup {None}
      BY <2>1, RequestsAssumption DEF ArrivedOK, CallRec
    <3>2. QED
      BY <2>2, <3>1 DEF RateLimitKey, Request, LimitKeys
  <2>5. /\ s \in Nat /\ gen \in Nat /\ gen >= 1
        /\ conf.rlStore = "redis" => s = 0
        /\ conf.rlStore = "memory" => s = gen
    BY BoundsAssumption DEF StoreId, CallInv, ManagerOK
  <2>6. call' = [call EXCEPT ![i] = d]
    BY <1>2 DEF ReadLimit
  <2> HIDE DEF s, k
  <2>7. /\ d \in CallRec /\ d.pc = "allow" /\ d.lim = conf.limit /\ d.enf = s
        /\ d.enfBy = conf.rlStore /\ d.identity = c.identity /\ d.req = c.req
        /\ d.since = c.since /\ d.seen = c.seen /\ d.store = c.store /\ d.gen = c.gen
    BY <2>1, <2>2, <2>4, <2>5 DEF CallRec, Labels
  <2> HIDE DEF d
  <2>8. ArrivedOK(d) /\ AnswerOK(d)
    BY <2>1, <2>7 DEF ArrivedOK, AnswerOK
  <2>9. LimiterOK(d)
    BY <2>2, <2>3, <2>5, <2>7 DEF LimiterOK, Providers
  <2>10. QED
    BY <2>1, <2>6, <2>7, <2>8, <2>9, ChangeInv DEF ReadLimit
<1>3. QED
  BY <1>1, <1>2

(* Enforcer.Allow: the hit's own count numbers the call it lets through.   *)
LEMMA AllowInv ==
  ASSUME CallInv, NEW i \in Calls, Allow(i)
  PROVE  CallInv'
<1> DEFINE c == call[i]
           k == c.key
           s == c.enf
           old == Count(hits[s], k)
<1>1. c \in CallRec /\ c.pc = "allow" /\ LimiterOK(c) /\ i \notin admitted
  BY DEF Allow, CallInv, CallsOK
<1>2. s \in StoreIds
  BY <1>1, BoundsAssumption DEF LimiterOK, StoreIds, CallInv, ManagerOK
<1>3. old \in Nat
  BY <1>2 DEF Count, CallInv, StoresOK
<1>4. c.lim \in Nat
  BY <1>1, ConfigsAssumption DEF LimiterOK, Limits, Config
<1>5. /\ hits' = [hits EXCEPT ![s] = Put(hits[s], k, old + 1)]
      /\ UNCHANGED <<managerVars, cache, windows>>
  BY DEF Allow
<1>6. /\ hits' = [t \in StoreIds |-> hits'[t]]
      /\ \A t \in StoreIds : hits'[t] = IF t = s THEN Put(hits[s], k, old + 1) ELSE hits[t]
  BY <1>2, <1>5 DEF CallInv, StoresOK
<1> HIDE DEF old
<1>7. StoresOK' /\ CacheOK'
  <2>1. \A x \in DOMAIN Put(hits[s], k, old + 1) : Put(hits[s], k, old + 1)[x] \in Nat
    BY <1>2, <1>3 DEF Put, CallInv, StoresOK
  <2>2. \A t \in StoreIds : \A x \in DOMAIN hits[t] : hits[t][x] \in Nat
    BY DEF CallInv, StoresOK
  <2>3. \A t \in StoreIds : \A x \in DOMAIN hits'[t] : hits'[t][x] \in Nat
    BY <1>6, <2>1, <2>2
  <2>4. cache' = cache
    BY <1>5
  <2>5. StoresOK'
    BY <1>6, <2>3, <2>4 DEF CallInv, StoresOK
  <2>6. CacheOK'
    BY <2>4 DEF CallInv, CacheOK
  <2>7. QED
    BY <2>5, <2>6
<1>8. \A t \in StoreIds : \A x :
        Count(hits'[t], x) = IF t = s /\ x = k THEN old + 1 ELSE Count(hits[t], x)
  BY <1>6 DEF Count, Put
<1>9. \A t \in StoreIds : \A x : Count(hits[t], x) \in Nat
  BY DEF Count, CallInv, StoresOK
<1>10. \A j \in admitted : j \in Calls /\ call[j].enf \in StoreIds
  BY BoundsAssumption DEF LimiterOK, StoreIds, CallInv, ManagerOK, CallsOK
<1>11. PICK f : NumberedBy(f)
  BY DEF CallInv, Numbered
<1>12. call \in [Calls -> CallRec]
  BY DEF CallInv, CallsOK
<1>13. Count(hits[s], k) = old
  BY DEF old
<1>14. CASE old + 1 > c.lim
  <2>1. Finish(i, Reply("limited")) /\ admitted' = admitted
    BY <1>14 DEF Allow, old
  <2>2. ManagerOK' /\ CallsOK'
    BY <1>1, <1>5, <2>1, ReplyType, FinishInv
  <2>3. \A j \in Calls : call'[j] = call[j] \/ Kept(call[j], call'[j])
    BY <1>12, <2>1, ReplyType, FinishFacts
  <2>4. \A j \in admitted : /\ call'[j].enf = call[j].enf /\ call'[j].key = call[j].key
                            /\ call'[j].lim = call[j].lim
    BY <1>10, <2>3 DEF Kept
  <2>5. \A j \in admitted :
          Count(hits[call[j].enf], call[j].key) <= Count(hits'[call[j].enf], call[j].key)
    BY <1>3, <1>8, <1>9, <1>10, <1>13
  <2>6. \A j \in admitted : f[j] <= Count(hits'[call[j].enf], call[j].key)
    BY <1>3, <1>8, <1>9, <1>10, <1>11, <2>5 DEF NumberedBy
  <2>7. NumberedBy(f)'
    BY <1>11, <2>1, <2>4, <2>6 DEF NumberedBy
  <2>8. QED
    BY <1>7, <2>2, <2>7 DEF CallInv, Numbered
<1>15. CASE ~(old + 1 > c.lim)
  <2>1. Goto(i, "dispatch") /\ admitted' = admitted \cup {i}
    BY <1>15 DEF Allow, old
  <2>2. ManagerOK' /\ CallsOK'
    BY <1>1, <1>5, <2>1, GotoInv
  <2>3. \A j \in Calls : call'[j] = call[j] \/ Kept(call[j], call'[j])
    BY <1>12, <2>1, GotoFacts DEF Labels
  <2>4. \A j \in Calls : /\ call'[j].enf = call[j].enf /\ call'[j].key = call[j].key
                         /\ call'[j].lim = call[j].lim
    BY <2>3 DEF Kept
  <2>5. PICK g : g = [j \in admitted \cup {i} |-> IF j = i THEN old + 1 ELSE f[j]]
    OBVIOUS
  <2>6. g \in [admitted' -> Nat]
    BY <1>3, <1>11, <2>1, <2>5 DEF NumberedBy
  <2>7. /\ g[i] = old + 1
        /\ \A j \in admitted : g[j] = f[j] /\ f[j] \in Nat /\ j # i
    BY <1>1, <1>11, <2>5 DEF NumberedBy
  <2>8. ASSUME NEW j \in admitted
        PROVE  /\ 1 <= g[j] /\ g[j] <= call[j].lim
               /\ g[j] <= Count(hits'[call[j].enf], call[j].key)
               /\ call[j].enf = s /\ call[j].key = k => g[j] <= old
    <3>1. 1 <= f[j] /\ f[j] <= call[j].lim /\ f[j] <= Count(hits[call[j].enf], call[j].key)
      BY <1>11 DEF NumberedBy
    <3>2. Count(hits[call[j].enf], call[j].key) <= Count(hits'[call[j].enf], call[j].key)
      BY <1>3, <1>8, <1>9, <1>10, <1>13
    <3>3. Count(hits'[call[j].enf], call[j].key) \in Nat
      BY <1>3, <1>8, <1>9, <1>10
    <3>4. QED
      BY <1>9, <1>10, <1>13, <2>7, <3>1, <3>2, <3>3
  <2>9. 1 <= g[i] /\ g[i] <= c.lim /\ g[i] <= Count(hits'[s], k)
    BY <1>2, <1>3, <1>4, <1>8, <1>15, <2>7
  <2>10. \A j \in admitted' : /\ 1 <= g[j] /\ g[j] <= call'[j].lim
                              /\ g[j] <= Count(hits'[call'[j].enf], call'[j].key)
    BY <1>10, <2>1, <2>4, <2>8, <2>9
  <2>11. ASSUME NEW j \in admitted', NEW m \in admitted',
                call'[j].enf = call'[m].enf, call'[j].key = call'[m].key, g[j] = g[m]
         PROVE  j = m
    <3>1. j \in Calls /\ m \in Calls
      BY <1>10, <2>1
    <3>2. call[j].enf = call[m].enf /\ call[j].key = call[m].key
      BY <2>4, <2>11, <3>1
    <3>3. CASE j \in admitted /\ m \in admitted
      BY <1>11, <2>7, <2>11, <3>2, <3>3 DEF NumberedBy
    <3>4. CASE j = i /\ m \in admitted
      BY <1>3, <2>7, <2>8, <2>11, <3>2, <3>4
    <3>5. CASE m = i /\ j \in admitted
      BY <1>3, <2>7, <2>8, <2>11, <3>2, <3>5
    <3>6. QED
      BY <2>1, <3>3, <3>4, <3>5
  <2>12. NumberedBy(g)'
    BY <2>6, <2>10, <2>11 DEF NumberedBy
  <2>13. QED
    BY <1>7, <2>2, <2>12 DEF CallInv, Numbered
<1>16. QED
  BY <1>14, <1>15

---------------------------------------------------------------------------
(* Manager.DispatchForGroup.                                               *)
LEMMA DispatchInv ==
  ASSUME CallInv, NEW i \in Calls, Dispatch(i)
  PROVE  CallInv'
<1> DEFINE c == call[i]
           t == c.req.tool
           cached == /\ conf.store # None
                     /\ t \in DOMAIN reg
                     /\ reg[t].cache \in DOMAIN conf.perUser
           l == IF cached THEN "get" ELSE "exec"
           st == IF cached THEN conf.store ELSE None
           mem == t \in ToolsForGroup(reg, c.req.group)
           own == cached /\ conf.perUser[reg[t].cache]
           d == [c EXCEPT !.pc = l, !.member = mem, !.store = st, !.perUser = own,
                          !.gen = gen, !.seen = Len(history)]
<1>1. c \in CallRec /\ c.pc = "dispatch" /\ ArrivedOK(c) /\ AnswerOK(c)
  BY DEF Dispatch, CallInv, CallsOK
<1>2. call' = [call EXCEPT ![i] = d]
  BY DEF Dispatch
<1>3. Len(history) \in Nat /\ Len(history) >= 1 /\ gen \in Nat /\ gen >= 1
  BY BoundsAssumption DEF CallInv, ManagerOK
<1>4. conf.store \in Providers \cup {None}
  <2>1. conf \in Config
    BY ConfigsAssumption DEF CallInv, ManagerOK
  <2>2. QED
    BY <2>1 DEF Config
<1>5. mem \in BOOLEAN /\ own \in BOOLEAN
  BY DEF ToolsForGroup
<1>6. l \in {"get", "exec"} /\ st \in Providers \cup {None} /\ (l = "get" => st # None)
  BY <1>4
<1> HIDE DEF l, st, mem, own
<1>7. /\ d \in CallRec /\ d.pc = l /\ d.store = st /\ d.gen = gen /\ d.seen = Len(history)
      /\ d.identity = c.identity /\ d.req = c.req /\ d.since = c.since /\ d.enf = c.enf
      /\ d.enfBy = c.enfBy /\ d.lim = c.lim /\ d.key = c.key
  <2>1. d \in CallRec
    BY <1>1, <1>3, <1>5, <1>6 DEF CallRec, Labels
  <2>2. QED
    BY <1>1, <2>1 DEF CallRec
<1> HIDE DEF d
<1>8. ArrivedOK(d)
  <2>1. c.identity => Vouched(c.req, c.since, Len(history))
    <3>1. c.seen \in 0 .. Len(history) /\ c.since \in Nat
      BY <1>1 DEF ArrivedOK, CallRec
    <3>2. QED
      BY <1>1, <1>3, <3>1 DEF ArrivedOK, Vouched
  <2>2. QED
    BY <1>1, <1>3, <1>6, <1>7, <2>1 DEF ArrivedOK
<1>9. AnswerOK(d)
  BY <1>3, <1>6, <1>7 DEF AnswerOK
<1>10. QED
  BY <1>2, <1>6, <1>7, <1>8, <1>9, ChangeInv DEF Dispatch

(* The store and key of a call that uses the cache.                        *)
LEMMA CacheKeyFacts ==
  ASSUME CallInv, NEW i \in Calls, call[i].pc \in {"get", "set"}
  PROVE  /\ StoreId(call[i].store, call[i].gen) \in StoreIds
         /\ StoreId(call[i].store, call[i].gen) # 0 =>
              StoreId(call[i].store, call[i].gen) = call[i].gen
         /\ call[i].store = "memory" =>
              StoreId(call[i].store, call[i].gen) # 0
         /\ ComputeKey(call[i]) \in CacheKeys
         /\ ComputeKey(call[i])[2] = IF call[i].perUser THEN call[i].sub ELSE None
<1> DEFINE c == call[i]
<1>1. c \in CallRec /\ ArrivedOK(c) /\ AnswerOK(c)
  BY DEF CallInv, CallsOK
<1>2. c.gen \in 1 .. gen /\ gen \in 1 .. MaxChanges + 1
  BY <1>1, BoundsAssumption DEF AnswerOK, CallInv, ManagerOK
<1>3. c.req \in Request /\ c.sub \in Subjects \cup {None}
  BY <1>1, RequestsAssumption DEF ArrivedOK, CallRec
<1>4. /\ ComputeKey(c) \in CacheKeys
      /\ ComputeKey(c)[2] = IF c.perUser THEN c.sub ELSE None
  BY <1>3 DEF ComputeKey, CacheKeys, Request
<1>5. QED
  BY <1>2, <1>4, BoundsAssumption DEF StoreId, StoreIds

LEMMA CacheGetInv ==
  ASSUME CallInv, NEW i \in Calls, CacheGet(i)
  PROVE  CallInv'
<1> DEFINE c == call[i]
           s == StoreId(c.store, c.gen)
           k == ComputeKey(c)
<1>1. c.pc = "get" /\ UNCHANGED <<managerVars, cache, hits, admitted, windows>>
  BY DEF CacheGet
<1>2. CASE Goto(i, "exec")
  BY <1>1, <1>2, GotoAside
<1>3. CASE k \in DOMAIN cache[s] /\ Finish(i, cache[s][k])
  <2>1. /\ s \in StoreIds /\ (s # 0 => s = c.gen) /\ (c.store = "memory" => s # 0)
        /\ k[2] = IF c.perUser THEN c.sub ELSE None
    BY <1>1, CacheKeyFacts
  <2> HIDE DEF s, k
  <2>2. /\ cache[s][k] \in Answer
        /\ k[2] # None => cache[s][k].sub = k[2]
        /\ s # 0 => cache[s][k].gen = s
    BY <1>3, <2>1 DEF CallInv, CacheOK
  <2>3. /\ c.sub # None /\ c.perUser => cache[s][k].sub = c.sub
        /\ c.store = "memory" => cache[s][k].gen = c.gen
    BY <2>1, <2>2
  <2>4. QED
    BY <1>1, <1>3, <2>2, <2>3, FinishAside
<1>4. QED
  BY <1>2, <1>3 DEF CacheGet

(* What the executor makes of an upstream's answer: only a status that is  *)
(* a success and no error comes back as a success.                         *)
LEMMA OutcomesFacts ==
  ASSUME NEW o \in Outcomes
  PROVE  /\ o.kind \in {"ok", "error", "goerror"}
         /\ o.kind = "ok" => o.status = "success"
<1>1. PICK stop \in {None, "transform", "credentials", "envelope", "request", "breaker"},
           rsp \in Statuses \cup {"network"}, fail \in BOOLEAN :
        o = [kind |-> ServeHTTP(stop, rsp, fail),
             status |-> IF ServeHTTP(stop, rsp, fail) = "ok" THEN rsp ELSE None]
  BY DEF Outcomes
<1>2. /\ HttpDispatch(rsp, fail) \in {"ok", "error", "goerror"}
      /\ HttpDispatch(rsp, fail) = "ok" => rsp = "success"
  BY DEF HttpDispatch, Statuses
<1>3. /\ ServeHTTP(stop, rsp, fail) \in {"ok", "error", "goerror"}
      /\ ServeHTTP(stop, rsp, fail) = "ok" => rsp = "success"
  BY <1>2 DEF ServeHTTP
<1>4. QED
  BY <1>1, <1>3

LEMMA ExecuteInv ==
  ASSUME CallInv, NEW i \in Calls, Execute(i)
  PROVE  CallInv'
<1> DEFINE c == call[i]
<1>1. /\ c \in CallRec /\ c.pc = "exec" /\ ArrivedOK(c) /\ AnswerOK(c)
      /\ UNCHANGED <<managerVars, cache, hits, admitted, windows>>
  BY DEF Execute, CallInv, CallsOK
<1>2. PICK o \in Outcomes :
        LET ans == IF c.member THEN Result(c, o) ELSE Reply("error") IN
          IF c.store = None THEN Finish(i, ans)
          ELSE call' = [call EXCEPT ![i].pc = "set", ![i].ans = ans]
  BY DEF Execute
<1> DEFINE a == IF c.member THEN Result(c, o) ELSE Reply("error")
<1>3. /\ a \in Answer
      /\ a.kind = "ok" => a.status = "success" /\ a.sub = c.sub /\ a.gen = c.gen
  <2>1. Reply("error") \in Answer /\ Reply("error").kind = "error"
    BY ReplyType
  <2>2. CASE o.kind = "ok"
    <3>1. o.status = "success" /\ c.sub \in Subjects \cup {None} /\ c.gen \in Nat
      BY <1>1, <2>2, OutcomesFacts DEF CallRec
    <3>2. Result(c, o) = [kind |-> "ok", sub |-> c.sub, gen |-> c.gen, status |-> "success"]
      BY <2>2, <3>1 DEF Result
    <3>3. QED
      BY <2>1, <3>1, <3>2 DEF Answer, Statuses
  <2>3. CASE o.kind # "ok"
    <3>1. Result(c, o) = Reply(o.kind) /\ o.kind \in {"error", "goerror"}
      BY <2>3, OutcomesFacts DEF Result
    <3>2. Reply(o.kind) \in Answer /\ Reply(o.kind).kind = o.kind
      BY <3>1, ReplyType
    <3>3. QED
      BY <2>1, <2>3, <3>1, <3>2
  <2>4. QED
    BY <2>2, <2>3
<1>4. CASE c.store = None
  <2>1. Finish(i, a)
    BY <1>2, <1>4
  <2> HIDE DEF a
  <2>2. QED
    BY <1>1, <1>3, <2>1, FinishAside
<1>5. CASE c.store # None
  <2> DEFINE d == [c EXCEPT !.pc = "set", !.ans = a]
  <2>1. call' = [call EXCEPT ![i] = d]
    BY <1>2, <1>5
  <2> HIDE DEF a
  <2>2. d \in CallRec /\ d.pc = "set" /\ d.ans = a /\ Kept(c, d)
    BY <1>1, <1>3 DEF CallRec, Labels, Kept
  <2> HIDE DEF d
  <2>3. ArrivedOK(d)
    BY <1>1, <2>2 DEF ArrivedOK, Kept
  <2>4. AnswerOK(d)
    BY <1>1, <1>3, <1>5, <2>2 DEF AnswerOK, Kept
  <2>5. QED
    BY <1>1, <2>1, <2>2, <2>3, <2>4, ChangeInv DEF Kept
<1>6. QED
  BY <1>4, <1>5

LEMMA CacheSetInv ==
  ASSUME CallInv, NEW i \in Calls, CacheSet(i)
  PROVE  CallInv'
<1> DEFINE c == call[i]
           s == StoreId(c.store, c.gen)
           k == ComputeKey(c)
<1>1. /\ c \in CallRec /\ c.pc = "set" /\ AnswerOK(c) /\ Finish(i, c.ans)
      /\ UNCHANGED <<managerVars, hits, admitted, windows>>
  BY DEF CacheSet, CallInv, CallsOK
<1>2. /\ c.ans \in Answer
      /\ c.ans.kind = "ok" =>
           c.ans.status = "success" /\ c.ans.sub = c.sub /\ c.ans.gen = c.gen
  BY <1>1 DEF CallRec, AnswerOK
<1>3. CASE UNCHANGED cache
  BY <1>1, <1>2, <1>3, FinishAside
<1>4. CASE c.ans.kind = "ok" /\ cache' = [cache EXCEPT ![s] = Put(cache[s], k, c.ans)]
  <2>1. ManagerOK' /\ CallsOK'
    BY <1>1, <1>2, FinishInv
  <2>2. Numbered'
    <3>1. call \in [Calls -> CallRec] /\ admitted \subseteq Calls
      BY DEF CallInv, CallsOK
    <3>2. \A j \in admitted : call'[j] = call[j] \/ Kept(call[j], call'[j])
      BY <1>1, <1>2, <3>1, FinishFacts
    <3>3. QED
      BY <1>1, <3>2, NumbersStay DEF Kept, CallInv
  <2>3. /\ s \in StoreIds /\ (s # 0 => s = c.gen) /\ k \in CacheKeys
        /\ k[2] = IF c.perUser THEN c.sub ELSE None
    BY <1>1, CacheKeyFacts
  <2> HIDE DEF s, k
  <2>4. /\ cache' = [t \in StoreIds |-> cache'[t]]
        /\ \A t \in StoreIds : cache'[t] = IF t = s THEN Put(cache[s], k, c.ans) ELSE cache[t]
    BY <1>4, <2>3 DEF CallInv, StoresOK
  <2>5. StoresOK'
    BY <1>1, <2>4 DEF CallInv, StoresOK
  <2>6. CacheOK'
    <3> SUFFICES ASSUME NEW t \in StoreIds, NEW x \in DOMAIN cache'[t]
                 PROVE  /\ x \in CacheKeys /\ cache'[t][x] \in Answer
                        /\ cache'[t][x].status = "success"
                        /\ x[2] # None => cache'[t][x].sub = x[2]
                        /\ t # 0 => cache'[t][x].gen = t
      BY DEF CacheOK
    <3>1. CASE t = s /\ x = k
      <4>1. cache'[t][x] = c.ans
        BY <2>4, <3>1 DEF Put
      <4>2. QED
        BY <1>2, <1>4, <2>3, <3>1, <4>1
    <3>2. CASE ~(t = s /\ x = k)
      <4>1. x \in DOMAIN cache[t] /\ cache'[t][x] = cache[t][x]
        BY <2>4, <3>2 DEF Put
      <4>2. QED
        BY <4>1 DEF CallInv, CacheOK
    <3>3. QED
      BY <3>1, <3>2
  <2>7. QED
    BY <2>1, <2>2, <2>5, <2>6 DEF CallInv
<1>5. QED
  BY <1>3, <1>4 DEF CacheSet

---------------------------------------------------------------------------
(* A reload or a refresh adds a registry; what calls have read stays read. *)
LEMMA ChangeOfRegistry ==
  ASSUME CallInv, NEW r \in Registries, history' = Append(history, r), reg' = r,
         Len(history) <= MaxChanges, conf' \in Configs, gen' \in {gen, gen + 1},
         UNCHANGED <<cache, hits, admitted, windows, call>>
  PROVE  CallInv'
<1>1. ManagerOK /\ CallsOK /\ Numbered
  BY DEF CallInv
<1>2. /\ Len(history) \in Nat /\ Len(history) >= 1 /\ Len(history') = Len(history) + 1
      /\ history' \in Seq(Registries) /\ history'[Len(history')] = r
      /\ \A n \in 1 .. Len(history) : history'[n] = history[n]
  BY <1>1, BoundsAssumption DEF ManagerOK
<1>3. gen \in Nat /\ gen >= 1 /\ gen <= Len(history)
  BY <1>1, <1>2 DEF ManagerOK
<1>4. ManagerOK'
  BY <1>1, <1>2, <1>3, BoundsAssumption DEF ManagerOK
<1>5. ASSUME NEW i \in Calls
      PROVE  /\ ArrivedOK(call[i])'
             /\ AnswerOK(call[i])'
             /\ LimiterOK(call[i]) => LimiterOK(call[i])'
  <2>1. ArrivedOK(call[i]) /\ AnswerOK(call[i]) /\ call[i] \in CallRec
    BY <1>1 DEF CallsOK
  <2>2. call[i].since \in Nat /\ call[i].seen \in Nat
    BY <2>1 DEF CallRec
  <2>3. call[i].since \in 1 .. Len(history) =>
          (Public(call[i].req.tool, call[i].since) => Public(call[i].req.tool, call[i].since)')
    BY <1>2 DEF Public
  <2>4. /\ call[i].pc # "idle" => call[i].since \in 1 .. Len(history)
        /\ (call[i].pc \in {"lookup", "rate", "allow", "dispatch"} \/ call[i].seen > 0)
             => call[i].pc # "idle"
    BY <2>1 DEF ArrivedOK
  <2>5. ArrivedOK(call[i])'
    <3>1. call'[i] = call[i]
      OBVIOUS
    <3>2. call[i].pc # "idle" => call[i].req \in Requests /\ call[i].since \in 1 .. Len(history')
      BY <1>2, <2>1, <2>2 DEF ArrivedOK
    <3>3. call[i].seen \in 0 .. Len(history')
      BY <1>2, <2>1 DEF ArrivedOK
    <3>4. call[i].seen > 0 => call[i].pc \notin {"idle", "route"} /\ call[i].since <= call[i].seen
      BY <2>1 DEF ArrivedOK
    <3>5. (call[i].pc \in {"lookup", "rate", "allow", "dispatch"} \/ call[i].seen > 0)
            /\ ~call[i].identity => Public(call[i].req.tool, call[i].since)'
      BY <2>1, <2>3, <2>4 DEF ArrivedOK
    <3>6. call[i].identity =>
            Vouched(call[i].req, call[i].since,
                    IF call[i].seen > 0 THEN call[i].seen ELSE Len(history))'
      <4> SUFFICES ASSUME call[i].identity
                   PROVE  Vouched(call[i].req, call[i].since,
                                  IF call[i].seen > 0 THEN call[i].seen ELSE Len(history))'
        OBVIOUS
      <4>1. PICK n \in call[i].since .. (IF call[i].seen > 0 THEN call[i].seen ELSE Len(history)) :
              call[i].req.token \in Accepted(UpstreamIn(history[n], call[i].req.tool))
        BY <2>1 DEF ArrivedOK, Vouched
      <4>2. /\ n \in 1 .. Len(history)
            /\ n \in call[i].since .. (IF call[i].seen > 0 THEN call[i].seen ELSE Len(history'))
        BY <1>2, <2>1, <2>2, <2>4 DEF ArrivedOK
      <4>3. history'[n] = history[n]
        BY <1>2, <4>2
      <4>4. QED
        BY <3>1, <4>1, <4>2, <4>3 DEF Vouched
    <3>7. call[i].identity => call[i].pc \notin {"idle", "route"}
      BY <2>1 DEF ArrivedOK
    <3>8. QED
      BY <3>1, <3>2, <3>3, <3>4, <3>5, <3>6, <3>7 DEF ArrivedOK
  <2>6. AnswerOK(call[i])'
    BY <1>3, <2>1 DEF AnswerOK
  <2>7. LimiterOK(call[i]) => LimiterOK(call[i])'
    BY <1>3 DEF LimiterOK
  <2>8. QED
    BY <2>5, <2>6, <2>7
<1>6. CallsOK'
  BY <1>1, <1>5 DEF CallsOK
<1>7. QED
  BY <1>4, <1>6, StoresStay, NumbersStay, <1>1 DEF CallInv

LEMMA RebuildInv ==
  ASSUME CallInv, Rebuild
  PROVE  CallInv'
<1>1. PICK c \in Configs : /\ conf' = c /\ reg' = c.entries /\ gen' = gen + 1
                           /\ history' = Append(history, c.entries)
  BY DEF Rebuild
<1>2. c.entries \in Registries
  BY ConfigsAssumption DEF Config
<1>3. QED
  BY <1>1, <1>2, ChangeOfRegistry DEF Rebuild

LEMMA RefreshInv ==
  ASSUME CallInv, NEW f \in Refreshes, Refresh(f.up, f.entries)
  PROVE  CallInv'
<1> DEFINE es == f.entries
           T == (DOMAIN reg \ UpstreamTools(f.up)) \cup DOMAIN es
           r == [t \in T |-> IF t \in DOMAIN es THEN es[t] ELSE reg[t]]
<1>1. es \in Registries /\ reg \in Registries
  BY RefreshesAssumption DEF CallInv, ManagerOK
<1>2. \A e \in Registries : DOMAIN e \subseteq Tools /\ \A t \in DOMAIN e : e[t] \in Entry
  BY DEF Registries
<1>3. r \in [T -> Entry] /\ T \in SUBSET Tools
  BY <1>1, <1>2
<1>4. reg' = r /\ history' = Append(history, r)
  BY DEF Refresh
<1> HIDE DEF r, T
<1>5. r \in Registries
  BY <1>3 DEF Registries
<1>6. conf \in Configs
  BY DEF CallInv, ManagerOK
<1>7. QED
  BY <1>4, <1>5, <1>6, ChangeOfRegistry DEF Refresh

LEMMA WindowEndsInv ==
  ASSUME CallInv, WindowEnds
  PROVE  CallInv'
<1>1. /\ admitted' = {} /\ hits' = [s \in StoreIds |-> <<>>] /\ windows' = windows + 1
      /\ windows < MaxWindows /\ UNCHANGED <<managerVars, cache, call>>
  BY DEF WindowEnds
<1>2. ManagerOK'
  <2>1. windows' \in 0 .. MaxWindows
    BY <1>1, BoundsAssumption DEF CallInv, ManagerOK
  <2>2. QED
    BY <1>1, <2>1 DEF CallInv, ManagerOK, managerVars
<1>3. StoresOK' /\ CacheOK'
  <2>1. \A s \in StoreIds : DOMAIN hits'[s] = {}
    BY <1>1
  <2>2. QED
    BY <1>1, <2>1 DEF CallInv, StoresOK, CacheOK
<1>4. CallsOK'
  <2>1. \A i \in Calls : /\ ArrivedOK(call[i])' = ArrivedOK(call[i])
                         /\ AnswerOK(call[i])' = AnswerOK(call[i])
                         /\ LimiterOK(call[i])' = LimiterOK(call[i])
    BY <1>1 DEF ArrivedOK, AnswerOK, LimiterOK, Public, Vouched, managerVars
  <2>2. QED
    BY <1>1, <2>1 DEF CallInv, CallsOK
<1>5. Numbered'
  <2>1. PICK f : f = [j \in {} |-> 0]
    OBVIOUS
  <2>2. f \in [{} -> Nat]
    BY <2>1
  <2>3. NumberedBy(f)'
    BY <1>1, <2>2 DEF NumberedBy
  <2>4. QED
    BY <2>3 DEF Numbered
<1>6. QED
  BY <1>2, <1>3, <1>4, <1>5 DEF CallInv

LEMMA CallInitInv == Init => CallInv
<1> SUFFICES ASSUME Init PROVE CallInv
  OBVIOUS
<1>1. PICK c \in Configs : /\ conf = c /\ reg = c.entries /\ gen = 1
                           /\ history = <<c.entries>>
  BY DEF Init
<1>2. /\ cache = [s \in StoreIds |-> <<>>] /\ hits = [s \in StoreIds |-> <<>>]
      /\ admitted = {} /\ windows = 0 /\ call = [i \in Calls |-> NewCall]
  BY DEF Init
<1>3. ManagerOK
  <2>1. c.entries \in Registries
    BY ConfigsAssumption DEF Config
  <2>2. QED
    BY <1>1, <1>2, <2>1, BoundsAssumption DEF ManagerOK
<1>4. StoresOK /\ CacheOK
  <2>1. \A s \in StoreIds : DOMAIN hits[s] = {} /\ DOMAIN cache[s] = {}
    BY <1>2
  <2>2. QED
    BY <1>2, <2>1 DEF StoresOK, CacheOK
<1>5. NewCall \in CallRec /\ ArrivedOK(NewCall) /\ AnswerOK(NewCall) /\ NewCall.pc = "idle"
  <2>1. Reply("unknown") \in Answer
    BY ReplyType
  <2>2. NewCall \in CallRec
    BY <2>1 DEF NewCall, CallRec, Labels
  <2>3. QED
    BY <1>1, <2>2 DEF NewCall, ArrivedOK, AnswerOK
<1>6. CallsOK
  BY <1>2, <1>5 DEF CallsOK
<1>7. Numbered
  <2>1. PICK f : f = [j \in {} |-> 0]
    OBVIOUS
  <2>2. f \in [{} -> Nat]
    BY <2>1
  <2>3. NumberedBy(f)
    BY <1>2, <2>2 DEF NumberedBy
  <2>4. QED
    BY <2>3 DEF Numbered
<1>8. QED
  BY <1>3, <1>4, <1>6, <1>7 DEF CallInv

LEMMA CallNextInv == CallInv /\ [Next]_vars => CallInv'
<1> SUFFICES ASSUME CallInv, [Next]_vars PROVE CallInv'
  OBVIOUS
<1>1. CASE \E i \in Calls, r \in Requests : Arrive(i, r)
  BY <1>1, ArriveInv
<1>2. ASSUME NEW i \in Calls, CallStep(i) PROVE CallInv'
  BY <1>2, AuthenticateInv, LookupInv, ReadLimitInv, AllowInv, DispatchInv, CacheGetInv,
     ExecuteInv, CacheSetInv DEF CallStep
<1>3. CASE Rebuild
  BY <1>3, RebuildInv
<1>4. CASE \E f \in Refreshes : Refresh(f.up, f.entries)
  BY <1>4, RefreshInv
<1>5. CASE WindowEnds
  BY <1>5, WindowEndsInv
<1>6. CASE UNCHANGED vars
  <2>1. UNCHANGED <<conf, reg, gen, history, cache, hits, admitted, windows, call>>
    BY <1>6 DEF vars
  <2>2. ManagerOK'
    BY <2>1 DEF CallInv, ManagerOK
  <2>3. CallsOK'
    BY <2>1 DEF CallInv, CallsOK, ArrivedOK, AnswerOK, LimiterOK, Public, Vouched
  <2>4. QED
    BY <2>1, <2>2, <2>3, StoresStay, NumbersStay DEF CallInv
<1>7. QED
  BY <1>1, <1>2, <1>3, <1>4, <1>5, <1>6 DEF Next

LEMMA CallAlways == Spec => []CallInv
BY CallInitInv, CallNextInv, PTL DEF Spec

---------------------------------------------------------------------------
(***************************************************************************)
(* The Manager's state, the caches and counters and the calls keep their   *)
(* types, and no call is dispatched with a registry that was never loaded. *)
(***************************************************************************)
THEOREM CallTypeCorrect == Spec => []TypeOK
<1>1. CallInv => TypeOK
  <2> SUFFICES ASSUME CallInv PROVE TypeOK
    OBVIOUS
  <2>1. /\ conf \in Configs /\ reg \in Registries /\ gen \in 1 .. MaxChanges + 1
        /\ windows \in 0 .. MaxWindows
    BY BoundsAssumption DEF CallInv, ManagerOK
  <2>2. \A s \in StoreIds : \A k \in DOMAIN cache[s] : k \in CacheKeys /\ cache[s][k] \in Answer
    BY DEF CallInv, CacheOK
  <2>3. \A i \in Calls : call[i].ans \in Answer /\ call[i].seen \in 0 .. Len(history)
    BY DEF CallInv, CallsOK, ArrivedOK, CallRec
  <2>4. QED
    BY <2>1, <2>2, <2>3 DEF TypeOK, CacheKeys, CallInv, StoresOK
<1>2. QED
  BY <1>1, CallAlways, PTL

(***************************************************************************)
(* Per-user caches keep users apart, through any reloads and any stores.   *)
(***************************************************************************)
THEOREM UsersKeptApart == Spec => []PerUserIsolation
<1>1. CallInv => PerUserIsolation
  BY DEF CallInv, CallsOK, AnswerOK, PerUserIsolation
<1>2. QED
  BY <1>1, CallAlways, PTL

(***************************************************************************)
(* With a memory store a call is answered out of the configuration it was  *)
(* dispatched with, whatever reloads come while it runs.                   *)
(***************************************************************************)
THEOREM AnswersFromOwnRebuild == Spec => []AnswerOfOwnConfiguration
<1>1. CallInv => AnswerOfOwnConfiguration
  BY DEF CallInv, CallsOK, AnswerOK, AnswerOfOwnConfiguration
<1>2. QED
  BY <1>1, CallAlways, PTL

(***************************************************************************)
(* No cache ever holds an error of the executor or of an upstream.         *)
(***************************************************************************)
THEOREM FailuresNotCached == Spec => []OnlySuccessesCached
<1>1. CallInv => OnlySuccessesCached
  BY DEF CallInv, CacheOK, OnlySuccessesCached
<1>2. QED
  BY <1>1, CallAlways, PTL

(***************************************************************************)
(* No call is dispatched without an identity unless its tool was public    *)
(* when it arrived.                                                        *)
(***************************************************************************)
THEOREM NoBypass == Spec => []BypassOnlyIfPublic
<1>1. CallInv => BypassOnlyIfPublic
  <2> SUFFICES ASSUME CallInv, NEW i \in Calls, call[i].seen > 0, ~call[i].identity
               PROVE  \E n \in call[i].since .. call[i].seen :
                        /\ call[i].req.tool \in DOMAIN history[n]
                        /\ ~history[n][call[i].req.tool].authRequired
    BY DEF BypassOnlyIfPublic
  <2>1. call[i] \in CallRec /\ ArrivedOK(call[i])
    BY DEF CallInv, CallsOK
  <2>2. Public(call[i].req.tool, call[i].since) /\ call[i].since <= call[i].seen
    BY <2>1 DEF ArrivedOK
  <2>3. call[i].since \in call[i].since .. call[i].seen
    BY <2>1, <2>2 DEF CallRec
  <2>4. QED
    BY <2>2, <2>3 DEF Public
<1>2. QED
  BY <1>1, CallAlways, PTL

(***************************************************************************)
(* A token that a call was dispatched with was accepted by the validator   *)
(* of an upstream that a registry in force during the call gives its tool. *)
(***************************************************************************)
THEOREM RightValidator == Spec => []ValidatedForUpstream
<1>1. CallInv => ValidatedForUpstream
  <2> SUFFICES ASSUME CallInv, NEW i \in Calls, call[i].seen > 0, call[i].identity
               PROVE  \E n \in call[i].since .. call[i].seen :
                        call[i].req.token \in Accepted(UpstreamIn(history[n], call[i].req.tool))
    BY DEF ValidatedForUpstream
  <2>1. ArrivedOK(call[i])
    BY DEF CallInv, CallsOK
  <2>2. QED
    BY <2>1 DEF ArrivedOK, Vouched
<1>2. QED
  BY <1>1, CallAlways, PTL

(***************************************************************************)
(* Calls let through with the same key: one store's are as many as have    *)
(* different numbers up to the limit, and there is one store per Rebuild.  *)
(***************************************************************************)
LEMMA NumbersBound ==
  ASSUME CallInv, NEW k, NEW lim \in Limits, \A l \in Limits : l <= lim
  PROVE  /\ Cardinality(AdmittedBy("redis", k)) <= lim
         /\ Cardinality(AdmittedBy("memory", k)) <= lim * gen
<1>1. PICK f : NumberedBy(f)
  BY DEF CallInv, Numbered
<1>2. lim \in Nat /\ gen \in Nat /\ gen >= 1
  BY ConfigsAssumption, BoundsAssumption DEF Limits, Config, CallInv, ManagerOK
<1>3. \A i \in admitted : i \in Calls /\ LimiterOK(call[i]) /\ call[i].lim \in Nat
  BY ConfigsAssumption DEF CallInv, CallsOK, LimiterOK, Limits, Config
<1>4. \A i \in admitted : f[i] \in 1 .. lim
  BY <1>1, <1>2, <1>3 DEF NumberedBy, LimiterOK
<1>5. IsFiniteSet(1 .. lim) /\ Cardinality(1 .. lim) = lim
  BY <1>2, FS_Interval
<1>6. IsFiniteSet(1 .. gen) /\ Cardinality(1 .. gen) = gen
  BY <1>2, FS_Interval
<1>7. Cardinality(AdmittedBy("redis", k)) <= lim
  <2> DEFINE S == AdmittedBy("redis", k)
             h == [i \in S |-> f[i]]
  <2>1. \A i \in S : i \in admitted /\ call[i].key = k /\ call[i].enf = 0
    BY <1>3 DEF AdmittedBy, LimiterOK
  <2> HIDE DEF S
  <2>2. h \in [S -> 1 .. lim]
    BY <1>4, <2>1
  <2>3. ASSUME NEW i \in S, NEW j \in S, h[i] = h[j] PROVE i = j
    BY <1>1, <2>1, <2>3 DEF NumberedBy
  <2>4. h \in Injection(S, 1 .. lim)
    BY <2>2, <2>3 DEF Injection, IsInjective
  <2>5. QED
    BY <1>5, <2>4, FS_Injection DEF S
<1>8. Cardinality(AdmittedBy("memory", k)) <= lim * gen
  <2> DEFINE S == AdmittedBy("memory", k)
             T == (1 .. gen) \X (1 .. lim)
             h == [i \in S |-> <<call[i].enf, f[i]>>]
  <2>1. \A i \in S : i \in admitted /\ call[i].key = k /\ call[i].enf \in 1 .. gen
    BY <1>3 DEF AdmittedBy, LimiterOK
  <2>2. IsFiniteSet(T) /\ Cardinality(T) = gen * lim
    BY <1>5, <1>6, FS_Product
  <2> HIDE DEF S
  <2>3. h \in [S -> T]
    BY <1>4, <2>1
  <2>4. ASSUME NEW i \in S, NEW j \in S, h[i] = h[j] PROVE i = j
    BY <1>1, <2>1, <2>4 DEF NumberedBy
  <2> HIDE DEF T
  <2>5. h \in Injection(S, T)
    BY <2>3, <2>4 DEF Injection, IsInjective
  <2>6. Cardinality(S) <= gen * lim
    BY <2>2, <2>5, FS_Injection
  <2>7. gen * lim = lim * gen
    BY <1>2
  <2>8. QED
    BY <2>6, <2>7 DEF S
<1>9. QED
  BY <1>7, <1>8

(***************************************************************************)
(* In one window a key gets no more calls through than its limit, and with *)
(* memory stores than the limit once for every Rebuild, for any number of  *)
(* calls that race for the limiter while reloads replace it.               *)
(***************************************************************************)
THEOREM LimitsHold == Spec => []LimitHolds
<1>1. CallInv => LimitHolds
  BY NumbersBound DEF LimitHolds
<1>2. QED
  BY <1>1, CallAlways, PTL

=============================================================================
