-------------------------- MODULE RuntimePoolProofs --------------------------
(***************************************************************************)
(* The pools and the script credentials, for any number of callers and     *)
(* upstreams and any capacities.                                           *)
(***************************************************************************)
EXTENDS RuntimePool, FiniteSetTheorems, TLAPS

(***************************************************************************)
(* What the stage of a caller says of its target.                          *)
(***************************************************************************)
Stationed ==
  \A c \in Callers :
    /\ InProvider(c) => target[c] \in Providers
    /\ pc[c] \in {"lock", "read"} => InProvider(c)
    /\ pc[c] = "idle" => ~InProvider(c)

(***************************************************************************)
(* The converse of SingleFlight: whoever holds a mutex is waiting for a    *)
(* slot or running the script, so that Unlock never takes it from another. *)
(***************************************************************************)
MutexHeld == \A p \in Providers : mutex[p] # None => mutex[p] \in Fetching(p)

(***************************************************************************)
(* The cache holds what the script gave, and holds something when a caller *)
(* is about to read it; only a Lua script can have left it empty.  A       *)
(* caller asks for the token only after it has seen a result that is not   *)
(* headers.                                                                *)
(***************************************************************************)
CacheSound ==
  /\ \A p \in Providers :
       /\ cache[p].cred \in gives[p] \cup {None}
       /\ cache[p].valid => cache[p].cred # None
       /\ cache[p].cred = "empty" => lang[p] = "lua"
  /\ \A c \in Callers :
       /\ pc[c] = "read" => cache[target[c]].cred # None
       /\ stage[c] = "token" =>
            \/ "token" \in gives[target[c]]
            \/ lang[target[c]] = "lua" /\ "empty" \in gives[target[c]]

PoolInv ==
  /\ PoolTypeOK
  /\ Stationed
  /\ SingleFlight
  /\ MutexHeld
  /\ CacheSound

LEMMA PoolInitInv == Init => PoolInv
<1> SUFFICES ASSUME Init PROVE PoolInv
  OBVIOUS
<1> USE DEF Init
<1>1. PoolTypeOK
  BY CapAssumption, OutputAssumption DEF PoolTypeOK, Stages, Targets, Pools
<1>2. Stationed /\ SingleFlight /\ MutexHeld /\ CacheSound
  BY NoneAssumption DEF Results, Stationed, SingleFlight, MutexHeld, CacheSound, Fetching, InProvider
<1>3. QED
  BY <1>1, <1>2 DEF PoolInv

(* The steps that take no lock and give none back.                         *)
LEMMA BeginInv ==
  ASSUME PoolInv, NEW c \in Callers, NEW t \in Targets, Begin(c, t)
  PROVE  PoolInv'
<1> USE TargetsAssumption DEF setup, PoolInv, Begin, Dispatch, Enter
<1>1. PoolTypeOK'
  BY DEF PoolTypeOK, Stages, Targets
<1>2. Stationed'
  BY DEF Stationed, InProvider, PoolTypeOK, Targets
<1>3. SingleFlight' /\ MutexHeld'
  BY DEF Stationed, SingleFlight, MutexHeld, Fetching, InProvider, PoolTypeOK
<1>4. CacheSound'
  BY DEF CacheSound, PoolTypeOK
<1>5. QED
  BY <1>1, <1>2, <1>3, <1>4

(* A caller takes a slot: it stays in Fetching.                            *)
LEMMA AcquireInv ==
  ASSUME PoolInv, NEW c \in Callers, Acquire(c)
  PROVE  PoolInv'
<1> USE TargetsAssumption, NoneAssumption DEF setup, PoolInv, Acquire
<1>1. PoolTypeOK'
  BY CapAssumption, OutputAssumption DEF PoolTypeOK, Stationed, Stages, Targets, Pools, PoolOf, Release, InProvider
<1>2. Stationed'
  BY DEF Stationed, InProvider, PoolTypeOK, Targets
<1>3. SingleFlight' /\ MutexHeld'
  BY DEF Stationed, SingleFlight, MutexHeld, Fetching, InProvider, PoolTypeOK
<1>4. CacheSound'
  BY DEF CacheSound, PoolTypeOK, Stationed, InProvider, Credentials, Results
<1>5. QED
  BY <1>1, <1>2, <1>3, <1>4

(* The steps that let a mutex go: by SingleFlight it was the caller's own. *)
LEMMA CancelInv ==
  ASSUME PoolInv, NEW c \in Callers, AcquireCancelled(c)
  PROVE  PoolInv'
<1> USE TargetsAssumption, NoneAssumption DEF setup, PoolInv, AcquireCancelled, Unlock, Finish, Enter
<1>1. PoolTypeOK'
  BY CapAssumption, OutputAssumption DEF PoolTypeOK, Stationed, Stages, Targets, Pools, PoolOf, Release, InProvider
<1>2. Stationed'
  BY DEF Stationed, InProvider, PoolTypeOK, Targets
<1>3. SingleFlight' /\ MutexHeld'
  BY DEF Stationed, SingleFlight, MutexHeld, Fetching, InProvider, PoolTypeOK
<1>4. CacheSound'
  BY DEF CacheSound, PoolTypeOK, Stationed, InProvider, Credentials, Results
<1>5. QED
  BY <1>1, <1>2, <1>3, <1>4

(* After validation the caller is in no provider yet.                      *)
LEMMA ValidateInv ==
  ASSUME PoolInv, NEW c \in Callers, ValidateToken(c)
  PROVE  PoolInv'
<1> USE TargetsAssumption, NoneAssumption DEF setup, PoolInv, ValidateToken, Dispatch, Enter
<1>1. PoolTypeOK'
  <2>1. free' \in [Pools -> Nat]
    BY DEF PoolTypeOK, Pools, PoolOf, Release
  <2>2. QED
    BY <2>1 DEF PoolTypeOK, Stages, Targets
<1>2. Stationed'
  BY DEF Stationed, InProvider, PoolTypeOK, Targets
<1>3. SingleFlight' /\ MutexHeld'
  <2>1. SingleFlight'
    BY DEF Stationed, SingleFlight, Fetching, InProvider, PoolTypeOK
  <2>2. MutexHeld'
    BY DEF Stationed, MutexHeld, Fetching, InProvider, PoolTypeOK
  <2>3. QED
    BY <2>1, <2>2
<1>4. CacheSound'
  BY DEF CacheSound, PoolTypeOK, Stationed, InProvider, Credentials, Results
<1>5. QED
  BY <1>1, <1>2, <1>3, <1>4

(* The script of the holder of the mutex has given new credentials.        *)
LEMMA CallScriptInv ==
  ASSUME PoolInv, NEW c \in Callers, NEW res \in Results, CallScript(c, res)
  PROVE  PoolInv'
<1> USE TargetsAssumption, NoneAssumption DEF setup, PoolInv, CallScript, Accepts, Unlock
<1>1. PoolTypeOK'
  BY CapAssumption, OutputAssumption DEF PoolTypeOK, Stationed, Stages, Targets, Pools, PoolOf, Release, InProvider
<1>2. Stationed'
  BY DEF Stationed, InProvider, PoolTypeOK, Targets
<1>3. SingleFlight' /\ MutexHeld'
  BY DEF Stationed, SingleFlight, MutexHeld, Fetching, InProvider, PoolTypeOK
<1>4. CacheSound'
  BY DEF CacheSound, PoolTypeOK, Stationed, InProvider, Credentials, Results
<1>5. QED
  BY <1>1, <1>2, <1>3, <1>4

(* A script tool touches no provider.                                      *)
LEMMA ExecuteScriptInv ==
  ASSUME PoolInv, NEW c \in Callers, ExecuteScript(c)
  PROVE  PoolInv'
<1> USE TargetsAssumption, NoneAssumption DEF setup, PoolInv, ExecuteScript, Finish, Enter
<1>1. PoolTypeOK'
  BY CapAssumption, OutputAssumption DEF PoolTypeOK, Stationed, Stages, Targets, Pools, PoolOf, Release, InProvider
<1>2. Stationed'
  BY DEF Stationed, InProvider, PoolTypeOK, Targets
<1>3. SingleFlight' /\ MutexHeld'
  BY DEF Stationed, SingleFlight, MutexHeld, Fetching, InProvider, PoolTypeOK
<1>4. CacheSound'
  BY DEF CacheSound, PoolTypeOK, Stationed, InProvider, Credentials, Results
<1>5. QED
  BY <1>1, <1>2, <1>3, <1>4

(* A failed script leaves the cache alone.                                 *)
LEMMA ScriptFailsInv ==
  ASSUME PoolInv, NEW c \in Callers, ScriptFails(c)
  PROVE  PoolInv'
<1> USE TargetsAssumption, NoneAssumption DEF setup, PoolInv, ScriptFails, Unlock, Finish, Enter
<1>1. PoolTypeOK'
  BY CapAssumption, OutputAssumption DEF PoolTypeOK, Stationed, Stages, Targets, Pools, PoolOf, Release, InProvider
<1>2. Stationed'
  BY DEF Stationed, InProvider, PoolTypeOK, Targets
<1>3. SingleFlight' /\ MutexHeld'
  BY DEF Stationed, SingleFlight, MutexHeld, Fetching, InProvider, PoolTypeOK
<1>4. CacheSound'
  BY DEF CacheSound, PoolTypeOK, Stationed, InProvider, Credentials, Results
<1>5. QED
  BY <1>1, <1>2, <1>3, <1>4

(* A caller takes a free mutex, or finds the cache valid.                  *)
LEMMA EnsureTokenInv ==
  ASSUME PoolInv, NEW c \in Callers, EnsureToken(c)
  PROVE  PoolInv'
<1> USE TargetsAssumption, NoneAssumption DEF setup, PoolInv, EnsureToken
<1>1. PoolTypeOK'
  BY CapAssumption, OutputAssumption DEF PoolTypeOK, Stationed, Stages, Targets, Pools, PoolOf, Release, InProvider
<1>2. Stationed'
  BY DEF Stationed, InProvider, PoolTypeOK, Targets
<1>3. SingleFlight' /\ MutexHeld'
  <2>1. SingleFlight'
    BY DEF Stationed, SingleFlight, Fetching, InProvider, PoolTypeOK
  <2>2. MutexHeld'
    BY DEF Stationed, MutexHeld, Fetching, InProvider, PoolTypeOK
  <2>3. QED
    BY <2>1, <2>2
<1>4. CacheSound'
  BY DEF CacheSound, PoolTypeOK, Stationed, InProvider, Credentials, Results
<1>5. QED
  BY <1>1, <1>2, <1>3, <1>4

(* Without headers, what the caller has read is a token, or an empty       *)
(* result of a Lua script.                                                 *)
LEMMA RawHeadersInv ==
  ASSUME PoolInv, NEW c \in Callers, RawHeaders(c)
  PROVE  PoolInv'
<1> USE TargetsAssumption, NoneAssumption DEF setup, PoolInv, RawHeaders, Finish, Enter
<1>1. PoolTypeOK'
  <2>1. CASE cache[target[c]].cred = "headers"
    <3>1. out' \in [Callers -> 0 .. MaxOutput]
      BY <2>1, OutputAssumption DEF PoolTypeOK
    <3>2. QED
      BY <2>1, <3>1 DEF PoolTypeOK, Stages, Targets
  <2>2. CASE cache[target[c]].cred # "headers"
    BY <2>2 DEF PoolTypeOK, Stages, Targets
  <2>3. QED
    BY <2>1, <2>2
<1>2. Stationed'
  BY DEF Stationed, InProvider, PoolTypeOK, Targets
<1>3. SingleFlight' /\ MutexHeld'
  <2>1. SingleFlight'
    BY DEF Stationed, SingleFlight, Fetching, InProvider, PoolTypeOK
  <2>2. MutexHeld'
    BY DEF Stationed, MutexHeld, Fetching, InProvider, PoolTypeOK
  <2>3. QED
    BY <2>1, <2>2
<1>4. CacheSound'
  BY DEF CacheSound, PoolTypeOK, Stationed, InProvider, Credentials, Results
<1>5. QED
  BY <1>1, <1>2, <1>3, <1>4

(* The request goes out.                                                   *)
LEMMA TokenInv ==
  ASSUME PoolInv, NEW c \in Callers, Token(c)
  PROVE  PoolInv'
<1> USE TargetsAssumption, NoneAssumption DEF setup, PoolInv, Token, ReadsToken, Finish, Enter
<1>1. PoolTypeOK'
  BY CapAssumption, OutputAssumption DEF PoolTypeOK, Stationed, Stages, Targets, Pools, PoolOf, Release, InProvider
<1>2. Stationed'
  BY DEF Stationed, InProvider, PoolTypeOK, Targets
<1>3. SingleFlight' /\ MutexHeld'
  BY DEF Stationed, SingleFlight, MutexHeld, Fetching, InProvider, PoolTypeOK
<1>4. CacheSound'
  BY DEF CacheSound, PoolTypeOK, Stationed, InProvider, Credentials, Results
<1>5. QED
  BY <1>1, <1>2, <1>3, <1>4

(* Commands use neither pool nor cache.                                    *)
LEMMA CommandInv ==
  ASSUME PoolInv, NEW c \in Callers, (\E m \in 1 .. 2 : CommandWrites(c, m)) \/ ExecuteCommand(c)
  PROVE  PoolInv'
<1> USE TargetsAssumption, NoneAssumption DEF setup, PoolInv, CommandWrites, ExecuteCommand, LimitWriter, Finish, Enter
<1>1. PoolTypeOK'
  <2>1. ASSUME NEW m \in 1 .. 2, CommandWrites(c, m) PROVE PoolTypeOK'
    <3>1. LimitWriter(out[c], m) \in 0 .. MaxOutput
      BY OutputAssumption DEF PoolTypeOK
    <3>2. QED
      BY <2>1, <3>1 DEF PoolTypeOK
  <2>2. CASE ExecuteCommand(c)
    BY <2>2, OutputAssumption DEF PoolTypeOK, Stages, Targets
  <2>3. QED
    BY <2>1, <2>2
<1>2. Stationed'
  BY DEF Stationed, InProvider, PoolTypeOK, Targets
<1>3. SingleFlight' /\ MutexHeld'
  BY DEF Stationed, SingleFlight, MutexHeld, Fetching, InProvider, PoolTypeOK
<1>4. CacheSound'
  BY DEF CacheSound, PoolTypeOK, Stationed, InProvider, Credentials, Results
<1>5. QED
  BY <1>1, <1>2, <1>3, <1>4

LEMMA PoolNextInv == PoolInv /\ [Next]_vars => PoolInv'
<1> SUFFICES ASSUME PoolInv, [Next]_vars PROVE PoolInv'
  OBVIOUS
<1>1. ASSUME NEW c \in Callers, CallerNext(c) PROVE PoolInv'
  BY <1>1, BeginInv, AcquireInv, CancelInv, ValidateInv, CallScriptInv, ExecuteScriptInv,
     ScriptFailsInv, EnsureTokenInv, RawHeadersInv, TokenInv, CommandInv
     DEF CallerNext, ScriptEnds
<1>2. ASSUME NEW p \in Providers, Expire(p) PROVE PoolInv'
  <2> USE <1>2 DEF Expire, setup, PoolInv
  <2>1. PoolTypeOK'
    BY DEF PoolTypeOK
  <2>2. Stationed' /\ SingleFlight' /\ MutexHeld'
    BY DEF Stationed, SingleFlight, MutexHeld, Fetching, InProvider
  <2>3. CacheSound'
    BY DEF CacheSound, PoolTypeOK
  <2>4. QED
    BY <2>1, <2>2, <2>3
<1>3. CASE UNCHANGED vars
  BY <1>3 DEF vars, PoolInv, PoolTypeOK, Stationed, SingleFlight, MutexHeld, CacheSound,
     Fetching, InProvider
<1>4. QED
  BY <1>1, <1>2, <1>3 DEF Next

LEMMA PoolInvariant == Spec => []PoolInv
BY PoolInitInv, PoolNextInv, PTL DEF Spec

(***************************************************************************)
(* The slots.                                                              *)
(***************************************************************************)
LEMMA RunningFinite ==
  ASSUME NEW q
  PROVE  IsFiniteSet(Running(q)) /\ IsFiniteSet(Running(q))'
BY CallersAssumption, FS_Subset DEF Running

(* A caller starts to run: its pool has one slot less and one script more. *)
LEMMA SlotTaken ==
  ASSUME PoolTypeOK, SlotsConserved, NEW c \in Callers, Acquire(c)
  PROVE  SlotsConserved'
<1> SUFFICES ASSUME NEW q \in Pools PROVE (free[q] + Cardinality(Running(q)) = Cap[q])'
  BY DEF SlotsConserved
<1>1. Cardinality(Running(q)) \in Nat /\ free[q] \in Nat
  BY RunningFinite, FS_CardinalityType DEF PoolTypeOK
<1>2. CASE q = PoolOf(stage[c])
  <2>1. c \notin Running(q) /\ Running(q)' = Running(q) \cup {c}
    BY <1>2 DEF Acquire, Running, PoolTypeOK
  <2>2. Cardinality(Running(q)') = Cardinality(Running(q)) + 1
    BY <2>1, RunningFinite, FS_AddElement
  <2>3. free[q]' = free[q] - 1
    BY <1>2 DEF Acquire, PoolTypeOK
  <2>4. QED
    BY <1>1, <2>2, <2>3 DEF SlotsConserved
<1>3. CASE q # PoolOf(stage[c])
  <2>1. Running(q)' = Running(q) /\ free[q]' = free[q]
    BY <1>3 DEF Acquire, Running, PoolTypeOK
  <2>2. QED
    BY <2>1 DEF SlotsConserved
<1>4. QED
  BY <1>2, <1>3

(* A script ends, well or not: the slot comes back.                        *)
LEMMA SlotReturned ==
  ASSUME PoolTypeOK, SlotsConserved, NEW c \in Callers, ScriptEnds(c)
  PROVE  SlotsConserved'
<1> SUFFICES ASSUME NEW q \in Pools PROVE (free[q] + Cardinality(Running(q)) = Cap[q])'
  BY DEF SlotsConserved
<1> USE DEF ScriptEnds, ValidateToken, CallScript, ExecuteScript, ScriptFails, Release,
            Dispatch, Finish, Enter
<1>1. Cardinality(Running(q)) \in Nat /\ free[q] \in Nat
  BY RunningFinite, FS_CardinalityType DEF PoolTypeOK
<1>2. pc[c] = "run" /\ pc'[c] # "run" /\ \A d \in Callers \ {c} : pc'[d] = pc[d] /\ stage'[d] = stage[d]
  BY DEF PoolTypeOK
<1>3. CASE q = PoolOf(stage[c])
  <2>1. c \in Running(q) /\ Running(q)' = Running(q) \ {c}
    BY <1>2, <1>3 DEF Running
  <2>2. Cardinality(Running(q)') = Cardinality(Running(q)) - 1
    BY <2>1, RunningFinite, FS_RemoveElement
  <2>3. free[q]' = free[q] + 1
    BY <1>3 DEF PoolTypeOK
  <2>4. QED
    BY <1>1, <2>2, <2>3 DEF SlotsConserved
<1>4. CASE q # PoolOf(stage[c])
  <2>1. Running(q)' = Running(q)
    BY <1>2, <1>4 DEF Running
  <2>2. free[q]' = free[q]
    BY <1>4 DEF PoolTypeOK
  <2>3. QED
    BY <2>1, <2>2 DEF SlotsConserved
<1>5. QED
  BY <1>3, <1>4

(* No other step starts or ends a script.                                  *)
LEMMA SlotsUntouched ==
  ASSUME PoolTypeOK, SlotsConserved, NEW c \in Callers,
         \/ \E t \in Targets : Begin(c, t)
         \/ AcquireCancelled(c) \/ EnsureToken(c) \/ RawHeaders(c) \/ Token(c)
         \/ \E m \in 1 .. 2 : CommandWrites(c, m)
         \/ ExecuteCommand(c)
  PROVE  SlotsConserved'
<1> USE DEF Begin, AcquireCancelled, EnsureToken, RawHeaders, Token, ReadsToken, CommandWrites,
            ExecuteCommand, Dispatch, Finish, Enter
<1>1. free' = free
  OBVIOUS
<1>2. pc[c] # "run" /\ pc'[c] # "run" /\ \A d \in Callers \ {c} : pc'[d] = pc[d] /\ stage'[d] = stage[d]
  BY DEF PoolTypeOK
<1>3. \A q \in Pools : Running(q)' = Running(q)
  BY <1>2 DEF Running
<1>4. QED
  BY <1>1, <1>3 DEF SlotsConserved

LEMMA SlotsInv == Spec => []SlotsConserved
<1>1. Init => SlotsConserved
  <2> SUFFICES ASSUME Init, NEW q \in Pools PROVE free[q] + Cardinality(Running(q)) = Cap[q]
    BY DEF SlotsConserved
  <2>1. Running(q) = {}
    BY DEF Init, Running
  <2>2. QED
    BY <2>1, CapAssumption, FS_EmptySet DEF Init
<1>2. PoolTypeOK /\ SlotsConserved /\ [Next]_vars => SlotsConserved'
  <2> SUFFICES ASSUME PoolTypeOK, SlotsConserved, [Next]_vars PROVE SlotsConserved'
    OBVIOUS
  <2>1. ASSUME NEW c \in Callers, CallerNext(c) PROVE SlotsConserved'
    BY <2>1, SlotTaken, SlotReturned, SlotsUntouched DEF CallerNext
  <2>2. ASSUME NEW p \in Providers, Expire(p) PROVE SlotsConserved'
    BY <2>2 DEF Expire, SlotsConserved, Running
  <2>3. CASE UNCHANGED vars
    BY <2>3 DEF vars, SlotsConserved, Running
  <2>4. QED
    BY <2>1, <2>2, <2>3 DEF Next
<1>3. PoolInv => PoolTypeOK
  BY DEF PoolInv
<1>4. QED
  BY <1>1, <1>2, <1>3, PoolInvariant, PTL DEF Spec

(***************************************************************************)
(* Type correctness of the pools, the provider caches and the callers of   *)
(* runtime/pool.go, runtime/js and runtime/lua.                            *)
(***************************************************************************)
THEOREM PoolTypeCorrect == Spec => []PoolTypeOK
<1>1. PoolInv => PoolTypeOK
  BY DEF PoolInv
<1>2. QED
  BY <1>1, PoolInvariant, PTL

(***************************************************************************)
(* Slots are neither lost nor returned twice, and the script of an         *)
(* upstream has one caller at a time, for every number of callers.         *)
(***************************************************************************)
THEOREM PoolAccounted == Spec => []ResourcesAccounted
<1>1. PoolInv => SingleFlight
  BY DEF PoolInv
<1>2. QED
  BY <1>1, PoolInvariant, SlotsInv, PTL DEF ResourcesAccounted

(***************************************************************************)
(* RawHeaders and Token, asked one after the other, never leave a call     *)
(* without credentials unless its script gives both kinds, or is a Lua     *)
(* script that returns neither.                                            *)
(***************************************************************************)
THEOREM PoolCredentials == Spec => []CredentialsCarried
<1>1. PoolInv => CredentialsCarried
  BY NoneAssumption DEF PoolInv, PoolTypeOK, CacheSound, Stationed, InProvider, CredentialsCarried, Results, ReadsToken, Credentials
<1>2. QED
  BY <1>1, PoolInvariant, PTL
=============================================================================
