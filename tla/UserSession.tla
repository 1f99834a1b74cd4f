----------------------------- MODULE UserSession -----------------------------
(***************************************************************************)
(* The oauth2_user_session strategy: the provider that finds the caller's  *)
(* token for an upstream and refreshes it                                  *)
(* (auth/outbound/oauth2usersession), the callback that stores the token   *)
(* of a new authorization (oauth/callbackmux) and the session stores       *)
(* (session/memory, redis, postgres), through restarts of the proxy.       *)
(*                                                                         *)
(* The authorization server, the browser and golang.org/x/oauth2 are       *)
(* external.  Every call of the store and of the authorization server is   *)
(* a step of its own, and each may fail.                                   *)
(***************************************************************************)
EXTENDS Naturals, FiniteSets, Sequences

CONSTANTS
    Users,          \* subjects of the inbound identity ("" without inbound auth)
    Upstreams,      \* upstreams with this strategy
    RedirectsTo,    \* the upstream whose callback path an upstream's callback_url names
    Calls,          \* calls served at once, each with its background refresh
    None,
    MaxPrompts,     \* bound on authorization URLs in users' hands
    MaxCallbacks,   \* bound on callbacks under way at once
    MaxTokens,      \* bound on the tokens issued
    MaxRestarts     \* bound on restarts of the proxy

ASSUME RedirectsAssumption == RedirectsTo \in [Upstreams -> Upstreams]

ASSUME BoundsAssumption ==
    MaxPrompts \in Nat /\ MaxCallbacks \in Nat /\ MaxTokens \in Nat /\ MaxRestarts \in Nat

ASSUME NoneNotToken == None \notin [asked : Users, up : Upstreams, id : Nat, refresh : Nat]

StoreKinds == {"memory", "redis", "postgres"}

\* Does the authorization server replace a refresh token when it is used, keep
\* it, or never give one?
GrantKinds == {"rotates", "keeps", "never"}

\* Time left: more than 5 minutes; less; less than the 10 s in which
\* golang.org/x/oauth2 takes a token for expired; none.
Ages == <<"fresh", "near", "last", "expired">>

\* The store's keys.  Redis joins the two names with a colon, so that names with
\* colons in them could meet there; the names here have none.
Keys == Users \X Upstreams

\* asked: the subject in the state of the authorization URL it came from; whoever
\* followed the URL granted it, which the token does not say.  up: the upstream
\* that URL was made for; refresh: its refresh token, 0 when it has none.
OAuthToken == [asked : Users, up : Upstreams, id : Nat, refresh : Nat]

\* payload of a signed state and the key that signed it
State == [user : Users, up : Upstreams, key : Nat]

\* A browser comes back to the callback path of upstream at; tok is the token
\* once the code is exchanged.
Callback == [state : State, at : Upstreams, tok : OAuthToken \cup {None}]

VARIABLES
    kind, grants,   \* session_store.provider; what the authorization server does
    key,            \* the key that signs states
    registered,     \* Mux.providers
    store,          \* the session store: <<user, upstream>> -> token
    kept,           \* redis: keys saved without a TTL
    issued, age,    \* tokens issued so far; index in Ages of each
    live,           \* refresh tokens the authorization server honours
    prompts,        \* states in the authorization URLs handed out
    callbacks,      \* callbacks on their way or being handled
    job,            \* doRefresh of each call
    sessions,       \* keys that have been given a refresh token (observation)
    restarts

vars == <<kind, grants, key, registered, store, kept, issued, age, live,
          prompts, callbacks, job, sessions, restarts>>

setup == <<kind, grants>>
serverVars == <<issued, age, live>>
storeVars == <<store, kept, sessions>>

NoJob == [pc |-> "none", user |-> None, up |-> None, tok |-> None]

Init ==
    /\ kind \in StoreKinds /\ grants \in GrantKinds
    /\ key = 0 /\ registered = {}
    /\ store = [k \in Keys |-> None] /\ kept = {} /\ sessions = {}
    /\ issued = 0 /\ age = [i \in 1 .. MaxTokens |-> 1] /\ live = {}
    /\ prompts = {} /\ callbacks = {}
    /\ job = [c \in Calls |-> NoJob]
    /\ restarts = 0

AgeOf(t) == Ages[age[t.id]]

---------------------------------------------------------------------------
(* The session store *)

Load(u, up) == store[<<u, up>>]

\* Save replaces the entry whole.  Redis lets it expire with the access token; a
\* token that has already expired is saved with a TTL of zero, which is none.
Save(u, up, t) ==
    /\ store' = [store EXCEPT ![<<u, up>>] = t]
    /\ kept' = IF kind = "redis" /\ AgeOf(t) = "expired" THEN kept \cup {<<u, up>>} ELSE kept \ {<<u, up>>}
    /\ sessions' = IF t.refresh = 0 THEN sessions ELSE sessions \cup {<<u, up>>}

SaveFails == UNCHANGED storeVars

\* Time passes for one token.  Redis drops the entries whose TTL ends.
ExpireEntries(i) ==
    store' = [k \in Keys |-> IF /\ kind = "redis" /\ k \notin kept /\ store[k] # None
                                /\ Ages[age[i] + 1] = "expired" /\ store[k].id = i
                             THEN None ELSE store[k]]

\* A token that someone still holds: only its age can be observed.
Held(i) == \E t \in {store[k] : k \in Keys} \cup {job[c].tok : c \in Calls}
                         \cup {b.tok : b \in callbacks} : t # None /\ t.id = i

Elapse(i) ==
    /\ i <= issued /\ age[i] < Len(Ages) /\ Held(i)
    /\ age' = [age EXCEPT ![i] = @ + 1]
    /\ ExpireEntries(i)
    /\ UNCHANGED <<setup, key, registered, kept, issued, live, prompts, callbacks, job,
                   sessions, restarts>>

---------------------------------------------------------------------------
(* The authorization server *)

NewToken(u, up) == [asked |-> u, up |-> up, id |-> issued + 1,
                    refresh |-> IF grants = "never" THEN 0 ELSE issued + 1]

Issue(t) ==
    /\ issued < MaxTokens
    /\ issued' = issued + 1
    /\ live' = IF t.refresh = 0 THEN live ELSE live \cup {t.refresh}
    /\ UNCHANGED age

\* A refresh token answers with a new access token; only a server that rotates
\* sends a refresh token with it, and takes the old one out of use.
Refreshed(t) == [asked |-> t.asked, up |-> t.up, id |-> issued + 1,
                 refresh |-> IF grants = "rotates" THEN issued + 1 ELSE 0]

RedeemRefresh(t) ==
    /\ t.refresh \in live /\ issued < MaxTokens
    /\ issued' = issued + 1
    /\ live' = IF grants = "rotates" THEN (live \ {t.refresh}) \cup {issued + 1} ELSE live
    /\ UNCHANGED age

---------------------------------------------------------------------------
(* The provider *)

\* newProvider, in every Rebuild that builds the upstream; a provider is never
\* taken out again.
RegisterProvider(up) ==
    /\ up \notin registered
    /\ registered' = registered \cup {up}
    /\ UNCHANGED <<setup, key, storeVars, serverVars, prompts, callbacks, job, restarts>>

SignedStateAnonymous(u, up) == [user |-> None, up |-> up, key |-> key]

SignedState(u, up) == [user |-> u, up |-> up, key |-> key]

\* What Token does with the token it loads: no token, or an expired one that
\* cannot be refreshed, asks the user; a valid one is handed out, and refreshed in
\* the background when it is near its end; an expired one is refreshed first.
Outcome(t) ==
    CASE t = None -> "prompt"
      [] t # None /\ AgeOf(t) = "fresh" -> "token"
      [] t # None /\ AgeOf(t) \in {"near", "last"} ->
             IF t.refresh = 0 THEN "token" ELSE "background"
      [] t # None /\ AgeOf(t) = "expired" -> IF t.refresh = 0 THEN "prompt" ELSE "sync"

\* The caller gets an authorization URL with a signed state.
AuthURL(u, up) ==
    /\ prompts' = prompts \cup {SignedState(u, up)}
    /\ Cardinality(prompts') <= MaxPrompts

StartRefresh(c, u, up, t) ==
    job' = [job EXCEPT ![c] = [pc |-> "exchange", user |-> u, up |-> up, tok |-> t]]

\* A call asks for its token.  When Load fails, and when a fresh token is handed
\* out, nothing changes.
Token(c, u, up) ==
    LET t == Load(u, up) IN
    /\ job[c].pc = "none" /\ up \in registered
    /\ \/ Outcome(t) = "prompt" /\ AuthURL(u, up) /\ UNCHANGED job
       \/ Outcome(t) = "background" /\ StartRefresh(c, u, up, t) /\ UNCHANGED prompts
       \/ Outcome(t) = "sync" /\ StartRefresh(c, u, up, t) /\ UNCHANGED prompts
    /\ UNCHANGED <<setup, key, registered, storeVars, serverVars, callbacks, restarts>>

TakeNew(old, new) == new

\* The old refresh token stays when the server does not rotate it.
KeepRefresh(old, new) == IF new.refresh = 0 THEN [new EXCEPT !.refresh = old.refresh] ELSE new

\* doRefresh, first half.  A token that is still valid comes back as it is.
RefreshExchange(c) ==
    LET t == job[c].tok IN
    /\ job[c].pc = "exchange"
    /\ \/ /\ AgeOf(t) \in {"fresh", "near"}
          /\ job' = [job EXCEPT ![c].pc = "save"]
          /\ UNCHANGED serverVars
       \/ /\ AgeOf(t) \in {"last", "expired"}
          /\ RedeemRefresh(t)
          /\ job' = [job EXCEPT ![c].pc = "save", ![c].tok = KeepRefresh(t, Refreshed(t))]
    /\ UNCHANGED <<setup, key, registered, storeVars, prompts, callbacks, restarts>>

\* The server refuses or cannot be reached: an error, and the stored token stays.
RefreshFails(c) ==
    /\ job[c].pc = "exchange" /\ AgeOf(job[c].tok) \in {"last", "expired"}
    /\ job' = [job EXCEPT ![c] = NoJob]
    /\ UNCHANGED <<setup, key, registered, storeVars, serverVars, prompts, callbacks, restarts>>

\* Second half.  An error of Save is only logged.
RefreshSave(c) ==
    LET t == job[c].tok IN
    /\ job[c].pc = "save"
    /\ Save(job[c].user, job[c].up, t) \/ SaveFails
    /\ job' = [job EXCEPT ![c] = NoJob]
    /\ UNCHANGED <<setup, key, registered, serverVars, prompts, callbacks, restarts>>

---------------------------------------------------------------------------
(* The callback *)

\* Someone follows an authorization URL, as often as they like, and grants access;
\* the server sends the browser to the configured callback_url.  Nothing ties the
\* browser to the subject of the state.
Authorize(s) ==
    /\ s \in prompts /\ Cardinality(callbacks) < MaxCallbacks
    /\ callbacks' = callbacks \cup {[state |-> s, at |-> RedirectsTo[s.up], tok |-> None]}
    /\ UNCHANGED <<setup, key, registered, storeVars, serverVars, prompts, job, restarts>>

SignatureOnly(b) == b.state.key = key

\* Signed with the present key, for the upstream whose callback this is.
VerifyState(b) == b.state.key = key /\ b.state.up = b.at

\* HandleCallback, first half: the code is exchanged, for a token of whoever
\* granted access, and the state says whose entry it will be.
CallbackExchange(b) ==
    LET t == NewToken(b.state.user, b.state.up) IN
    /\ b \in callbacks /\ b.tok = None
    /\ VerifyState(b) /\ b.at \in registered
    /\ Issue(t)
    /\ callbacks' = (callbacks \ {b}) \cup {[b EXCEPT !.tok = t]}
    /\ UNCHANGED <<setup, key, registered, storeVars, prompts, job, restarts>>

\* The state is refused, the upstream unknown, or the exchange fails.
CallbackFails(b) ==
    /\ b \in callbacks /\ b.tok = None
    /\ callbacks' = callbacks \ {b}
    /\ UNCHANGED <<setup, key, registered, storeVars, serverVars, prompts, job, restarts>>

CallbackSave(b) ==
    /\ b \in callbacks /\ b.tok # None
    /\ Save(b.state.user, b.at, b.tok) \/ SaveFails
    /\ callbacks' = callbacks \ {b}
    /\ UNCHANGED <<setup, key, registered, serverVars, prompts, job, restarts>>

---------------------------------------------------------------------------

\* The key of the states after a restart: the configured one, or a new random one.
ResolveHMACKey == {key, key + 1}

\* The proxy stops and starts again: what it was doing is gone, with the memory
\* store.
Restart ==
    /\ restarts < MaxRestarts
    /\ restarts' = restarts + 1
    /\ key' \in ResolveHMACKey
    /\ registered' = {}
    /\ IF kind = "memory"
       THEN store' = [k \in Keys |-> None] /\ kept' = {} /\ sessions' = {}
       ELSE UNCHANGED storeVars
    /\ callbacks' = {b \in callbacks : b.tok = None}
    /\ job' = [c \in Calls |-> NoJob]
    /\ UNCHANGED <<setup, serverVars, prompts>>

CallNext ==
    \E c \in Calls :
        \/ \E u \in Users, up \in Upstreams : Token(c, u, up)
        \/ RefreshExchange(c) \/ RefreshFails(c) \/ RefreshSave(c)

CallbackNext ==
    \/ \E s \in prompts : Authorize(s)
    \/ \E b \in callbacks : CallbackExchange(b) \/ CallbackFails(b) \/ CallbackSave(b)

Next ==
    \/ \E up \in Upstreams : RegisterProvider(up)
    \/ CallNext
    \/ CallbackNext
    \/ \E i \in 1 .. MaxTokens : Elapse(i)
    \/ Restart

Spec == Init /\ [][Next]_vars

---------------------------------------------------------------------------

\* The variables hold what their declarations say.
SesTypeOK ==
    /\ kind \in StoreKinds /\ grants \in GrantKinds
    /\ key \in Nat /\ registered \subseteq Upstreams
    /\ store \in [Keys -> OAuthToken \cup {None}]
    /\ kept \subseteq Keys /\ sessions \subseteq Keys
    /\ issued \in 0 .. MaxTokens /\ age \in [1 .. MaxTokens -> 1 .. Len(Ages)]
    /\ live \subseteq 1 .. issued
    /\ prompts \subseteq State /\ callbacks \subseteq Callback
    /\ job \in [Calls -> [pc : {"none", "exchange", "save"}, user : Users \cup {None}, up : Upstreams \cup {None},
                          tok : OAuthToken \cup {None}]]
    /\ restarts \in 0 .. MaxRestarts

\* An authorization URL for this user and upstream went to a call of that user.
Prompted(u, up) == \E s \in prompts : s.user = u /\ s.up = up

\* Whatever the order of callbacks, refreshes and restarts, and even when an
\* upstream's callback_url names another upstream: the token Token loads for a call,
\* and the token a refresh hands it, came through an authorization URL that a call
\* of that very user was given for that very upstream.  Who followed the URL is not
\* claimed: HandleCallback cannot tell.
OwnTokenOnly ==
    /\ \A k \in Keys : store[k] # None =>
           store[k].asked = k[1] /\ store[k].up = k[2] /\ Prompted(k[1], k[2])
    /\ \A c \in Calls : job[c].tok # None =>
           /\ job[c].tok.asked = job[c].user /\ job[c].tok.up = job[c].up
           /\ Prompted(job[c].user, job[c].up)

\* A user who has granted a refresh token that the server keeps is not asked
\* again: Token never answers with an authorization URL, whatever refreshes and
\* callbacks run at once, in whatever order they save and whichever saves fail.
\* Not so with the Redis store, which drops the refresh token when the access
\* token expires.
NotAskedAgain ==
    grants = "keeps" /\ kind # "redis" => \A k \in sessions : Outcome(store[k]) # "prompt"
=============================================================================
