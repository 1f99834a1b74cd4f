----------------------------- MODULE RuntimePool -----------------------------
(***************************************************************************)
(* Scripts and commands that run on behalf of a call: inbound validators   *)
(* and outbound credential scripts (runtime/js, runtime/lua), which share  *)
(* one bounded pool of runtimes, script tools (upstream/script), which     *)
(* have another, and commands (upstream/command), which have none.         *)
(*                                                                         *)
(* The outbound middleware asks a provider first for raw headers and then  *)
(* for a token.  Each time the provider takes its cache mutex and keeps it *)
(* while it waits for a slot and runs its script.  The JavaScript and the  *)
(* Lua side do the same but for one check: only JavaScript refuses a       *)
(* result without credentials.  Each has its own auth pool, and one is     *)
(* modelled.  The script engines, the semaphore and the processes are      *)
(* external.                                                               *)
(***************************************************************************)
EXTENDS Naturals, FiniteSets

CONSTANTS
    Callers,        \* goroutines that serve calls, one call after the other
    Providers,      \* upstreams whose credentials a script makes
    Cap,            \* capacity of each pool
    MaxOutput,      \* MaxOutput of a command, in chunks
    None

Pools == {"auth", "script"}

Credentials == {"token", "headers"}

\* What a script may return: credentials of a kind, or no error and none.
Results == Credentials \cup {"empty"}

ASSUME CapAssumption == Cap \in [Pools -> Nat \ {0}]    \* NewPool refuses others

ASSUME CallersAssumption == IsFiniteSet(Callers)

ASSUME OutputAssumption == MaxOutput \in Nat \ {0}

ASSUME NoneAssumption == None \notin Callers \cup Results

\* What a call does: validate, then credentials (twice), a script tool or a command.
Stages == {"validate", "raw", "token", "script", "command"}
Targets == Providers \cup {"script", "command"}

ASSUME TargetsAssumption == {"script", "command", None} \cap Providers = {}

VARIABLES
    lang,       \* the language of each provider's script
    gives,      \* what each provider's script may return
    free,       \* slots left in each pool
    mutex,      \* holder of each provider's cache mutex
    cache,      \* provider -> what its script returned; valid: is their expiry still to come?
    pc, stage,  \* where each caller is
    target,     \* the upstream of its call
    out         \* output captured of its command

vars == <<lang, gives, free, mutex, cache, pc, stage, target, out>>

setup == <<lang, gives>>

Init ==
    /\ lang \in [Providers -> {"js", "lua"}]
    /\ gives \in [Providers -> (SUBSET Results) \ {{}}]
    /\ free = Cap
    /\ mutex = [p \in Providers |-> None]
    /\ cache = [p \in Providers |-> [cred |-> None, valid |-> FALSE]]
    /\ pc = [c \in Callers |-> "idle"]
    /\ stage = [c \in Callers |-> "validate"]
    /\ target = [c \in Callers |-> "command"]
    /\ out = [c \in Callers |-> 0]

PoolOfOne(s) == "auth"

PoolOf(s) == IF s = "script" THEN "script" ELSE "auth"

InProvider(c) == stage[c] \in {"raw", "token"}

Unlock(c) == mutex' = IF InProvider(c) THEN [mutex EXCEPT ![target[c]] = None] ELSE mutex

Release(c) == free' = [free EXCEPT ![PoolOf(stage[c])] = @ + 1]

Enter(c, s, l) ==
    /\ stage' = [stage EXCEPT ![c] = s]
    /\ pc' = [pc EXCEPT ![c] = l]

\* The call is answered, or its request to the upstream is on its way.
Finish(c) ==
    /\ Enter(c, "validate", "idle")
    /\ target' = [target EXCEPT ![c] = "command"]
    /\ out' = [out EXCEPT ![c] = 0]

\* After inbound authentication: the executor of the target.
Dispatch(c, t) ==
    \/ t \in Providers /\ Enter(c, "raw", "lock")
    \/ t = "script" /\ Enter(c, "script", "acquire")
    \/ t = "command" /\ Enter(c, "command", "exec")

\* A call comes in, with a validator script or without one.
Begin(c, t) ==
    /\ pc[c] = "idle"
    /\ target' = [target EXCEPT ![c] = t]
    /\ Enter(c, "validate", "acquire") \/ Dispatch(c, t)
    /\ UNCHANGED <<setup, free, mutex, cache, out>>

---------------------------------------------------------------------------
(* The pool *)

Acquire(c) ==
    /\ pc[c] = "acquire" /\ free[PoolOf(stage[c])] > 0
    /\ free' = [free EXCEPT ![PoolOf(stage[c])] = @ - 1]
    /\ pc' = [pc EXCEPT ![c] = "run"]
    /\ UNCHANGED <<setup, mutex, cache, stage, target, out>>

\* The client goes away while its call waits for a slot.
AcquireCancelled(c) ==
    /\ pc[c] = "acquire"
    /\ Unlock(c)
    /\ Finish(c)
    /\ UNCHANGED <<setup, free, cache>>

---------------------------------------------------------------------------
(* Scripts *)

\* ValidateToken: the token is accepted.
ValidateToken(c) ==
    /\ pc[c] = "run" /\ stage[c] = "validate"
    /\ Release(c)
    /\ Dispatch(c, target[c])
    /\ UNCHANGED <<setup, mutex, cache, target, out>>

\* parseOutboundResult refuses a result with neither token nor headers; callLua
\* takes it for an empty token.
Accepts(p, res) == res # "empty" \/ lang[p] = "lua"

\* ensureToken, ensureCredentials: a script that gives no expiry is cached for a
\* second, so the cache is valid, if only for a moment.
CallScript(c, res) ==
    /\ pc[c] = "run" /\ InProvider(c)
    /\ res \in gives[target[c]] /\ Accepts(target[c], res)
    /\ Release(c) /\ Unlock(c)
    /\ cache' = [cache EXCEPT ![target[c]] = [cred |-> res, valid |-> TRUE]]
    /\ pc' = [pc EXCEPT ![c] = "read"]
    /\ UNCHANGED <<setup, stage, target, out>>

\* A script tool returns.
ExecuteScript(c) ==
    /\ pc[c] = "run" /\ stage[c] = "script"
    /\ Release(c)
    /\ Finish(c)
    /\ UNCHANGED <<setup, mutex, cache>>

ScriptFailsNoRelease(c) ==
    /\ pc[c] = "run"
    /\ Unlock(c)
    /\ Finish(c)
    /\ UNCHANGED <<setup, free, cache>>

ScriptFailsClears(c) ==
    /\ pc[c] = "run"
    /\ Release(c) /\ Unlock(c)
    /\ cache' = IF InProvider(c) THEN [cache EXCEPT ![target[c]].cred = None] ELSE cache
    /\ Finish(c)
    /\ UNCHANGED setup

\* A script throws, is interrupted at its timeout, refuses the token or returns
\* what cannot be used: the deferred release runs and the cache stays as it was.
ScriptFails(c) ==
    /\ pc[c] = "run"
    /\ Release(c) /\ Unlock(c)
    /\ Finish(c)
    /\ UNCHANGED <<setup, cache>>

---------------------------------------------------------------------------
(* The provider *)

\* ensureToken, ensureCredentials: the mutex is let go at once when the cache is
\* valid, else kept until the script has run.
EnsureToken(c) ==
    /\ pc[c] = "lock" /\ mutex[target[c]] = None
    /\ IF cache[target[c]].valid
       THEN pc' = [pc EXCEPT ![c] = "read"] /\ UNCHANGED mutex
       ELSE /\ pc' = [pc EXCEPT ![c] = "acquire"]
            /\ mutex' = [mutex EXCEPT ![target[c]] = c]
    /\ UNCHANGED <<setup, free, cache, stage, target, out>>

\* RawHeaders takes the mutex again to read: without headers, Token is next.
RawHeaders(c) ==
    /\ pc[c] = "read" /\ stage[c] = "raw" /\ mutex[target[c]] = None
    /\ IF cache[target[c]].cred = "headers"
       THEN Finish(c)
       ELSE Enter(c, "token", "lock") /\ UNCHANGED <<target, out>>
    /\ UNCHANGED <<setup, free, mutex, cache>>

\* Token takes the mutex again too.  It answers with the empty string when the cache
\* now holds headers, or an empty result.
ReadsToken(c) == pc[c] = "read" /\ stage[c] = "token" /\ mutex[target[c]] = None

Token(c) ==
    /\ ReadsToken(c)
    /\ Finish(c)
    /\ UNCHANGED <<setup, free, mutex, cache>>

\* The expiry of the cached credentials passes.
Expire(p) ==
    /\ cache[p].valid
    /\ cache' = [cache EXCEPT ![p].valid = FALSE]
    /\ UNCHANGED <<setup, free, mutex, pc, stage, target, out>>

---------------------------------------------------------------------------
(* Commands *)

Unlimited(n, m) == n + m

\* limitWriter: what does not fit is dropped, and the child sees no short write.
LimitWriter(n, m) == IF n + m > MaxOutput THEN MaxOutput ELSE n + m

CommandWrites(c, m) ==
    /\ pc[c] = "exec"
    /\ out' = [out EXCEPT ![c] = LimitWriter(@, m)]
    /\ UNCHANGED <<setup, free, mutex, cache, pc, stage, target>>

\* The child ends, is killed at the timeout, or cannot be started.
ExecuteCommand(c) ==
    /\ pc[c] = "exec"
    /\ Finish(c)
    /\ UNCHANGED <<setup, free, mutex, cache>>

---------------------------------------------------------------------------

ScriptEnds(c) ==
    \/ ValidateToken(c)
    \/ \E res \in Results : CallScript(c, res)
    \/ ExecuteScript(c)
    \/ ScriptFails(c)

CallerNext(c) ==
    \/ \E t \in Targets : Begin(c, t)
    \/ Acquire(c) \/ AcquireCancelled(c)
    \/ ScriptEnds(c)
    \/ EnsureToken(c) \/ RawHeaders(c) \/ Token(c)
    \/ \E m \in 1 .. 2 : CommandWrites(c, m)
    \/ ExecuteCommand(c)

Next == (\E c \in Callers : CallerNext(c)) \/ (\E p \in Providers : Expire(p))

\* Nothing is assumed of script tools and commands, whose timeout may be 0.
AuthScriptEnds(c) == stage[c] # "script" /\ ScriptEnds(c)

\* A script of the auth pool ends, at the latest when it is interrupted at its
\* timeout (500 ms when none is configured); the semaphore serves its waiters in
\* order and the mutex does not starve one for ever.  A caller is at one of these
\* steps at a time, so one condition of strong fairness says it of each.
Fairness ==
    \A c \in Callers :
        SF_vars(AuthScriptEnds(c) \/ Acquire(c) \/ EnsureToken(c) \/ RawHeaders(c) \/ Token(c))

Spec == Init /\ [][Next]_vars

FairSpec == Spec /\ Fairness

---------------------------------------------------------------------------

\* The variables hold what their declarations say; the output captured of a
\* command stays within MaxOutput.
PoolTypeOK ==
    /\ lang \in [Providers -> {"js", "lua"}]
    /\ gives \in [Providers -> (SUBSET Results) \ {{}}]
    /\ free \in [Pools -> Nat]
    /\ mutex \in [Providers -> Callers \cup {None}]
    /\ cache \in [Providers -> [cred : Results \cup {None}, valid : BOOLEAN]]
    /\ pc \in [Callers -> {"idle", "acquire", "run", "lock", "read", "exec"}]
    /\ stage \in [Callers -> Stages] /\ target \in [Callers -> Targets]
    /\ out \in [Callers -> 0 .. MaxOutput]

Running(q) == {c \in Callers : pc[c] = "run" /\ PoolOf(stage[c]) = q}

Fetching(p) == {c \in Callers : InProvider(c) /\ target[c] = p /\ pc[c] \in {"acquire", "run"}}

SlotsConserved == \A q \in Pools : free[q] + Cardinality(Running(q)) = Cap[q]

SingleFlight == \A p \in Providers : \A c \in Fetching(p) : mutex[p] = c

\* No slot is lost or returned twice, through errors, timeouts and clients that
\* leave: a pool's slots are those of the scripts that run and those that are free.
\* Calls that find the credentials of an upstream expired run its script one at a
\* time: only the holder of its mutex waits for a slot for it or runs it.
ResourcesAccounted == SlotsConserved /\ SingleFlight

\* The two questions of the middleware may be answered from different runs of the
\* script, with an expiry, an error or another caller's run between them.  A call
\* still carries credentials, unless its script gives tokens at one time and headers
\* at another, or is a Lua script that returns neither.
CredentialsCarried ==
    \A c \in Callers :
        LET p == target[c] IN
        ReadsToken(c) => \/ cache[p].cred = "token"
                         \/ Credentials \subseteq gives[p]
                         \/ lang[p] = "lua" /\ "empty" \in gives[p]

\* Callers do not wait for each other for ever, though the mutex is held while its
\* holder waits for a slot: a call leaves validation and credentials behind, even
\* when script tools never return.
CallersFinish ==
    \A c \in Callers : stage[c] \in {"validate", "raw", "token"} /\ pc[c] # "idle"
                           ~> pc[c] = "idle" \/ stage[c] \in {"script", "command"}
=============================================================================
