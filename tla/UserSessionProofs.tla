-------------------------- MODULE UserSessionProofs --------------------------
(***************************************************************************)
(* Per-user sessions, for any users, upstreams and calls, and any number   *)
(* of tokens and restarts.                                                 *)
(***************************************************************************)
EXTENDS UserSession, TLAPS

(***************************************************************************)
(* A token that the call or the entry of user u and upstream up may hold.  *)
(***************************************************************************)
Sound(t, u, up) ==
  t # None =>
    /\ t \in OAuthToken
    /\ t.id \in 1 .. issued
    /\ t.asked = u /\ t.up = up /\ Prompted(u, up)
    /\ grants = "keeps" => t.refresh # 0

(***************************************************************************)
(* A token moves from a callback or a refresh to the store and from the    *)
(* store to a refresh, so OwnTokenOnly is inductive only together with the *)
(* tokens on their way.  A running refresh has a token and a user; the     *)
(* state of a callback is one that was handed out.                         *)
(***************************************************************************)
TokensSound ==
  /\ \A k \in Keys : Sound(store[k], k[1], k[2])
  /\ \A c \in Calls :
       /\ Sound(job[c].tok, job[c].user, job[c].up)
       /\ job[c].pc # "none" => /\ job[c].tok # None
                                /\ job[c].user \in Users /\ job[c].up \in Upstreams
  /\ \A b \in callbacks : b.state \in prompts /\ Sound(b.tok, b.state.user, b.at)

(* Only Redis, and a restart with the memory store, drop an entry.         *)
SessionsStored == kind # "redis" => \A k \in sessions : store[k] # None

SesInv == SesTypeOK /\ TokensSound /\ SessionsStored

LEMMA SesInitInv == Init => SesInv
<1> SUFFICES ASSUME Init PROVE SesInv
  OBVIOUS
<1> USE DEF Init
<1>1. SesTypeOK
  BY BoundsAssumption DEF SesTypeOK, NoJob, Ages
<1>2. TokensSound /\ SessionsStored
  BY DEF TokensSound, Sound, Prompted, SessionsStored, NoJob
<1>3. QED
  BY <1>1, <1>2 DEF SesInv

(* What Save writes.                                                       *)
LEMMA SaveInv ==
  ASSUME SesInv, NEW u \in Users, NEW up \in Upstreams, NEW t \in OAuthToken,
         Sound(t, u, up), Save(u, up, t) \/ SaveFails
  PROVE  /\ store' \in [Keys -> OAuthToken \cup {None}]
         /\ kept' \subseteq Keys /\ sessions' \subseteq Keys
         /\ \A k \in Keys : Sound(store'[k], k[1], k[2])
         /\ kind # "redis" => \A k \in sessions' : store'[k] # None
<1>1. <<u, up>> \in Keys
  BY DEF Keys
<1>2. CASE SaveFails
  BY <1>2 DEF SaveFails, storeVars, SesInv, SesTypeOK, TokensSound, SessionsStored
<1>3. CASE Save(u, up, t)
  <2>1. /\ store' \in [Keys -> OAuthToken \cup {None}]
        /\ kept' \subseteq Keys /\ sessions' \subseteq Keys
    BY <1>1, <1>3 DEF Save, SesInv, SesTypeOK
  <2>2. \A k \in Keys : store'[k] = IF k = <<u, up>> THEN t ELSE store[k]
    BY <1>3 DEF Save, SesInv, SesTypeOK
  <2>3. \A k \in Keys : Sound(store'[k], k[1], k[2])
    BY <2>2 DEF SesInv, TokensSound
  <2>4. kind # "redis" => \A k \in sessions' : store'[k] # None
    BY <1>3, <2>1, <2>2, NoneNotToken DEF Save, SesInv, SessionsStored, SesTypeOK, OAuthToken
  <2>5. QED
    BY <2>1, <2>3, <2>4
<1>4. QED
  BY <1>2, <1>3

(* Handing out a URL and starting a refresh.                               *)
LEMMA TokenInv ==
  ASSUME SesInv, NEW c \in Calls, NEW u \in Users, NEW up \in Upstreams, Token(c, u, up)
  PROVE  SesInv'
<1> DEFINE t == store[<<u, up>>]
<1> USE DEF Token, Load, setup, storeVars, serverVars
<1>1. <<u, up>> \in Keys /\ t \in OAuthToken \cup {None} /\ Sound(t, u, up)
  BY DEF Keys, SesInv, SesTypeOK, TokensSound
<1>2. CASE Outcome(t) = "prompt" /\ AuthURL(u, up) /\ UNCHANGED job
  <2>1. prompts' \subseteq State /\ prompts \subseteq prompts'
    BY <1>2 DEF AuthURL, SignedState, State, SesInv, SesTypeOK
  <2>2. SesTypeOK' /\ SessionsStored'
    BY <1>2, <2>1 DEF SesInv, SesTypeOK, SessionsStored
  <2>3. ASSUME NEW w, NEW v, Prompted(w, v) PROVE Prompted(w, v)'
    BY <2>1, <2>3 DEF Prompted
  <2>4. TokensSound'
    BY <1>2, <2>1, <2>3 DEF SesInv, TokensSound, Sound
  <2>5. QED
    BY <2>2, <2>4 DEF SesInv
<1>3. CASE Outcome(t) \in {"background", "sync"} /\ StartRefresh(c, u, up, t) /\ UNCHANGED prompts
  <2>1. t # None
    BY <1>3 DEF Outcome
  <2>2. SesTypeOK'
    BY <1>1, <1>3 DEF StartRefresh, SesInv, SesTypeOK
  <2>3. TokensSound' /\ SessionsStored'
    BY <1>1, <1>3, <2>1 DEF StartRefresh, SesInv, SesTypeOK, TokensSound, Sound, Prompted, SessionsStored
  <2>4. QED
    BY <2>2, <2>3 DEF SesInv
<1>4. QED
  BY <1>2, <1>3

(* A refreshed token keeps its user and upstream and, by KeepRefresh, a    *)
(* refresh token.                                                          *)
LEMMA RefreshExchangeInv ==
  ASSUME SesInv, NEW c \in Calls, RefreshExchange(c)
  PROVE  SesInv'
<1> DEFINE t == job[c].tok
<1> USE DEF RefreshExchange, setup, storeVars, serverVars
<1>1. t \in OAuthToken /\ Sound(t, job[c].user, job[c].up)
  BY DEF SesInv, SesTypeOK, TokensSound
<1>2. CASE UNCHANGED serverVars /\ job' = [job EXCEPT ![c].pc = "save"]
  <2>1. SesTypeOK'
    BY <1>2 DEF SesInv, SesTypeOK
  <2>2. TokensSound' /\ SessionsStored'
    BY <1>2 DEF SesInv, SesTypeOK, TokensSound, Sound, Prompted, SessionsStored
  <2>3. QED
    BY <2>1, <2>2 DEF SesInv
<1>3. CASE /\ RedeemRefresh(t)
           /\ job' = [job EXCEPT ![c].pc = "save", ![c].tok = KeepRefresh(t, Refreshed(t))]
  <2> DEFINE n == KeepRefresh(t, Refreshed(t))
  <2>1. issued \in Nat /\ issued' = issued + 1 /\ issued' \in 0 .. MaxTokens
    BY <1>3, BoundsAssumption DEF RedeemRefresh, SesInv, SesTypeOK
  <2>2. /\ n \in OAuthToken /\ n.id = issued + 1 /\ n.asked = t.asked /\ n.up = t.up
        /\ t.refresh # 0 => n.refresh # 0
    <3> DEFINE r == Refreshed(t)
    <3>1. r \in OAuthToken /\ r.id = issued + 1 /\ r.asked = t.asked /\ r.up = t.up
      BY <1>1, <2>1 DEF Refreshed, OAuthToken
    <3>2. n = IF r.refresh = 0 THEN [r EXCEPT !.refresh = t.refresh] ELSE r
      BY DEF KeepRefresh
    <3> HIDE DEF r, n
    <3>3. QED
      BY <1>1, <3>1, <3>2 DEF OAuthToken
  <2>3. live' \subseteq 1 .. issued'
    BY <1>3, <2>1 DEF RedeemRefresh, SesInv, SesTypeOK
  <2>4. SesTypeOK'
    <3>1. job' \in [Calls -> [pc : {"none", "exchange", "save"}, user : Users \cup {None},
                              up : Upstreams \cup {None}, tok : OAuthToken \cup {None}]]
      BY <1>3, <2>2 DEF SesInv, SesTypeOK
    <3>2. QED
      BY <1>3, <2>1, <2>3, <3>1 DEF RedeemRefresh, SesInv, SesTypeOK
  <2>5. TokensSound' /\ SessionsStored'
    BY <1>1, <1>3, <2>1, <2>2 DEF RedeemRefresh, SesInv, SesTypeOK, TokensSound, Sound, Prompted, SessionsStored
  <2>6. QED
    BY <2>4, <2>5 DEF SesInv
<1>4. QED
  BY <1>2, <1>3

LEMMA RefreshFailsInv ==
  ASSUME SesInv, NEW c \in Calls, RefreshFails(c)
  PROVE  SesInv'
BY DEF RefreshFails, NoJob, setup, storeVars, serverVars, SesInv, SesTypeOK, TokensSound, Sound, Prompted,
       SessionsStored

(* Both saves write a sound token under the key it belongs to.             *)
LEMMA RefreshSaveInv ==
  ASSUME SesInv, NEW c \in Calls, RefreshSave(c)
  PROVE  SesInv'
<1> USE DEF RefreshSave, setup, serverVars
<1>1. /\ job[c].user \in Users /\ job[c].up \in Upstreams /\ job[c].tok \in OAuthToken
      /\ Sound(job[c].tok, job[c].user, job[c].up)
  BY DEF SesInv, SesTypeOK, TokensSound
<1>2. /\ store' \in [Keys -> OAuthToken \cup {None}]
      /\ kept' \subseteq Keys /\ sessions' \subseteq Keys
      /\ \A k \in Keys : Sound(store'[k], k[1], k[2])
      /\ kind # "redis" => \A k \in sessions' : store'[k] # None
  BY <1>1, SaveInv
<1>3. SesTypeOK' /\ SessionsStored'
  BY <1>2 DEF NoJob, SesInv, SesTypeOK, SessionsStored
<1>4. TokensSound'
  BY <1>2 DEF NoJob, SesInv, SesTypeOK, TokensSound, Sound, Prompted
<1>5. QED
  BY <1>3, <1>4 DEF SesInv

LEMMA AuthorizeInv ==
  ASSUME SesInv, NEW s \in prompts, Authorize(s)
  PROVE  SesInv'
BY RedirectsAssumption DEF Authorize, setup, storeVars, serverVars, SesInv, SesTypeOK, State,
   Callback, TokensSound, Sound, Prompted, SessionsStored

(* VerifyState: the token of the exchange belongs where it will be saved.  *)
LEMMA CallbackExchangeInv ==
  ASSUME SesInv, NEW b \in callbacks, CallbackExchange(b)
  PROVE  SesInv'
<1> DEFINE t == NewToken(b.state.user, b.state.up)
<1> USE DEF CallbackExchange, VerifyState, Issue, setup, storeVars
<1>1. b \in Callback
  BY DEF SesInv, SesTypeOK
<1>2. issued \in Nat /\ issued' = issued + 1 /\ issued' \in 0 .. MaxTokens
  BY BoundsAssumption DEF SesInv, SesTypeOK
<1>3. t \in OAuthToken /\ t.id = issued + 1 /\ t.asked = b.state.user /\ t.up = b.at
      /\ (grants = "keeps" => t.refresh # 0) /\ t.refresh \in 0 .. issued'
  BY <1>1, <1>2 DEF NewToken, OAuthToken, Callback, State
<1>4. [b EXCEPT !.tok = t] \in Callback
  BY <1>1, <1>3 DEF Callback
<1>5. SesTypeOK'
  BY <1>2, <1>3, <1>4 DEF SesInv, SesTypeOK
<1>6. TokensSound' /\ SessionsStored'
  BY <1>1, <1>2, <1>3 DEF SesInv, SesTypeOK, TokensSound, Sound, Prompted, SessionsStored, Callback
<1>7. QED
  BY <1>5, <1>6 DEF SesInv

LEMMA CallbackFailsInv ==
  ASSUME SesInv, NEW b \in callbacks, CallbackFails(b)
  PROVE  SesInv'
BY DEF CallbackFails, setup, storeVars, serverVars, SesInv, SesTypeOK, TokensSound, Sound, Prompted,
       SessionsStored

LEMMA CallbackSaveInv ==
  ASSUME SesInv, NEW b \in callbacks, CallbackSave(b)
  PROVE  SesInv'
<1> USE DEF CallbackSave, setup, serverVars
<1>1. b \in Callback
  BY DEF SesInv, SesTypeOK
<1>2. /\ b.state.user \in Users /\ b.at \in Upstreams /\ b.tok \in OAuthToken
      /\ Sound(b.tok, b.state.user, b.at)
  BY <1>1 DEF SesInv, TokensSound, Callback, State
<1>3. /\ store' \in [Keys -> OAuthToken \cup {None}]
      /\ kept' \subseteq Keys /\ sessions' \subseteq Keys
      /\ \A k \in Keys : Sound(store'[k], k[1], k[2])
      /\ kind # "redis" => \A k \in sessions' : store'[k] # None
  BY <1>2, SaveInv
<1>4. SesTypeOK' /\ SessionsStored'
  BY <1>3 DEF SesInv, SesTypeOK, SessionsStored
<1>5. TokensSound'
  BY <1>3 DEF SesInv, SesTypeOK, TokensSound, Sound, Prompted
<1>6. QED
  BY <1>4, <1>5 DEF SesInv

(* Time takes an entry from Redis only.                                    *)
LEMMA ElapseInv ==
  ASSUME SesInv, NEW i \in 1 .. MaxTokens, Elapse(i)
  PROVE  SesInv'
<1> USE DEF Elapse, ExpireEntries, setup
<1>1. age' \in [1 .. MaxTokens -> 1 .. Len(Ages)]
  BY BoundsAssumption DEF SesInv, SesTypeOK, Ages
<1>2. \A k \in Keys : store'[k] \in {store[k], None} /\ (kind # "redis" => store'[k] = store[k])
  OBVIOUS
<1>3. store' \in [Keys -> OAuthToken \cup {None}]
  BY DEF SesInv, SesTypeOK
<1>4. SesTypeOK'
  BY <1>1, <1>3 DEF SesInv, SesTypeOK
<1>5. TokensSound' /\ SessionsStored'
  BY <1>2 DEF SesInv, SesTypeOK, TokensSound, Sound, Prompted, SessionsStored
<1>6. QED
  BY <1>4, <1>5 DEF SesInv

LEMMA RestartInv == SesInv /\ Restart => SesInv'
<1> SUFFICES ASSUME SesInv, Restart PROVE SesInv'
  OBVIOUS
<1> USE DEF Restart, setup, serverVars, storeVars
<1>1. SesTypeOK'
  BY BoundsAssumption DEF ResolveHMACKey, NoJob, SesInv, SesTypeOK
<1>2. TokensSound' /\ SessionsStored'
  BY DEF NoJob, SesInv, SesTypeOK, TokensSound, Sound, Prompted, SessionsStored
<1>3. QED
  BY <1>1, <1>2 DEF SesInv

LEMMA SesInvariant == Spec => []SesInv
<1>1. SesInv /\ [Next]_vars => SesInv'
  <2> SUFFICES ASSUME SesInv, [Next]_vars PROVE SesInv'
    OBVIOUS
  <2>1. ASSUME NEW up \in Upstreams, RegisterProvider(up) PROVE SesInv'
    BY <2>1 DEF RegisterProvider, setup, storeVars, serverVars, SesInv, SesTypeOK, TokensSound,
       Sound, Prompted, SessionsStored
  <2>2. CASE CallNext
    BY <2>2, TokenInv, RefreshExchangeInv, RefreshFailsInv, RefreshSaveInv DEF CallNext
  <2>3. CASE CallbackNext
    BY <2>3, AuthorizeInv, CallbackExchangeInv, CallbackFailsInv, CallbackSaveInv DEF CallbackNext
  <2>4. ASSUME NEW i \in 1 .. MaxTokens, Elapse(i) PROVE SesInv'
    BY <2>4, ElapseInv
  <2>5. CASE Restart
    BY <2>5, RestartInv
  <2>6. CASE UNCHANGED vars
    BY <2>6 DEF vars, SesInv, SesTypeOK, TokensSound, Sound, Prompted, SessionsStored
  <2>7. QED
    BY <2>1, <2>2, <2>3, <2>4, <2>5, <2>6 DEF Next
<1>2. QED
  BY <1>1, SesInitInv, PTL DEF Spec

(***************************************************************************)
(* Type correctness of the session stores, the callback mux and the        *)
(* provider of oauth2usersession.go.                                       *)
(***************************************************************************)
THEOREM SesTypeCorrect == Spec => []SesTypeOK
<1>1. SesInv => SesTypeOK
  BY DEF SesInv
<1>2. QED
  BY <1>1, SesInvariant, PTL

(***************************************************************************)
(* Token hands a call only tokens that came through an authorization URL   *)
(* which a call of its own user was given for its own upstream, whatever   *)
(* callback_url the upstreams are configured with.                         *)
(***************************************************************************)
THEOREM SesOwnTokens == Spec => []OwnTokenOnly
<1>1. SesInv => OwnTokenOnly
  BY DEF SesInv, TokensSound, Sound, Prompted, OwnTokenOnly
<1>2. QED
  BY <1>1, SesInvariant, PTL

(***************************************************************************)
(* With a server that keeps refresh tokens, and the memory or the Postgres *)
(* store, a user who has authorized an upstream is not asked again.        *)
(***************************************************************************)
THEOREM SesNotAskedAgain == Spec => []NotAskedAgain
<1>1. SesInv => NotAskedAgain
  <2> SUFFICES ASSUME SesInv, grants = "keeps", kind # "redis", NEW k \in sessions
               PROVE  Outcome(store[k]) # "prompt"
    BY DEF NotAskedAgain
  <2> DEFINE t == store[k]
  <2>1. t # None /\ t.refresh # 0 /\ t.id \in 1 .. MaxTokens
    BY BoundsAssumption DEF SesInv, SessionsStored, SesTypeOK, TokensSound, Sound, Prompted
  <2>2. AgeOf(t) \in {"fresh", "near", "last", "expired"}
    <3>1. age[t.id] \in 1 .. 4
      BY <2>1 DEF SesInv, SesTypeOK, Ages
    <3>2. QED
      BY <3>1 DEF AgeOf, Ages
  <2>3. QED
    BY <2>1, <2>2 DEF Outcome
<1>2. QED
  BY <1>1, SesInvariant, PTL
=============================================================================
