---------------------------- MODULE BreakerProofs ----------------------------
(***************************************************************************)
(* The circuit breaker, for any number of concurrent calls, any thresholds *)
(* and any bound on the counts.                                            *)
(***************************************************************************)
EXTENDS Breaker, FiniteSetTheorems, TLAPS

(***************************************************************************)
(* The inductive invariant.  CountsExact is inductive because a call       *)
(* enters the present generation only when admitted and leaves it with its *)
(* result; SingleProbe needs that the count and the set of calls of the    *)
(* generation agree on being empty, and both need the types.               *)
(***************************************************************************)
BrkInv == BrkTypeOK /\ CountsExact /\ SingleProbe

(* Cardinalities of the sets of calls.                                     *)
LEMMA CallSets ==
  ASSUME BrkTypeOK
  PROVE  /\ Cardinality(current) \in Nat
         /\ \A c \in Calls \ current :
              Cardinality(current \cup {c}) = Cardinality(current) + 1
         /\ \A c \in current :
              Cardinality(current \ {c}) = Cardinality(current) - 1
         /\ \A c : Cardinality({c}) = 1
         /\ Cardinality({}) = 0
<1>1. IsFiniteSet(current)
  BY BreakerConstants, FS_Subset DEF BrkTypeOK
<1>2. QED
  BY <1>1, FS_CardinalityType, FS_AddElement, FS_RemoveElement, FS_Singleton, FS_EmptySet

LEMMA BrkInitInv == BrkInit => BrkInv
<1> SUFFICES ASSUME BrkInit PROVE BrkInv
  OBVIOUS
<1>1. Cardinality({}) = 0
  BY FS_EmptySet
<1>2. CountsExact
  BY <1>1 DEF BrkInit, CountsExact
<1>3. BrkTypeOK /\ SingleProbe
  BY DEF BrkInit, BrkTypeOK, States, SingleProbe
<1>4. QED
  BY <1>2, <1>3 DEF BrkInv

(* setState starts a generation with nothing counted.                      *)
LEMMA NewGeneration ==
  ASSUME NEW s \in States, SetState(s, {}), running' \in SUBSET Calls,
         healthy' \in BOOLEAN
  PROVE  BrkInv'
<1>1. Cardinality({}) = 0
  BY FS_EmptySet
<1>2. CountsExact'
  BY <1>1 DEF SetState, CountsExact
<1>3. BrkTypeOK' /\ SingleProbe'
  BY DEF SetState, BrkTypeOK, SingleProbe
<1>4. QED
  BY <1>2, <1>3 DEF BrkInv

(* beforeRequest.                                                          *)
LEMMA BeginInv ==
  ASSUME BrkInv, NEW c \in Calls, Begin(c)
  PROVE  BrkInv'
<1> USE DEF BrkInv
<1>1. c \notin running /\ running' = running \cup {c} /\ UNCHANGED healthy
  BY DEF Begin
<1>2. CASE BeginInState(c)
  <2>1. BrkTypeOK'
    BY <1>1, <1>2 DEF BeginInState, BrkTypeOK
  <2>2. CountsExact'
    <3>1. c \in Calls \ current
      BY <1>1 DEF BrkTypeOK
    <3>2. Cardinality(current') = Cardinality(current) + 1
      BY <1>2, <3>1, CallSets DEF BeginInState
    <3>3. QED
      BY <1>2, <3>2, CallSets DEF BeginInState, CountsExact, BrkTypeOK
  <2>3. SingleProbe'
    <3>1. SUFFICES ASSUME state' = "halfOpen"
                   PROVE  current' = {c} /\ requests' = 1
      BY DEF SingleProbe
    <3>2. requests < 1 /\ state = "halfOpen"
      BY <1>2, <3>1 DEF BeginInState, Admit
    <3>3. requests = 0
      BY <3>2 DEF BrkTypeOK
    <3>4. QED
      BY <1>2, <3>2, <3>3 DEF BeginInState, SingleProbe
  <2>4. QED
    BY <2>1, <2>2, <2>3
<1>3. CASE BeginRecovering(c)
  <2>1. BrkTypeOK'
    BY <1>1, <1>3 DEF BeginRecovering, BrkTypeOK, States
  <2>2. CountsExact'
    <3>1. Cardinality({c}) = 1
      BY CallSets
    <3>2. QED
      BY <1>3, <3>1 DEF BeginRecovering, CountsExact
  <2>3. SingleProbe'
    BY <1>3 DEF BeginRecovering, SingleProbe
  <2>4. QED
    BY <2>1, <2>2, <2>3
<1>4. QED
  BY <1>2, <1>3 DEF Begin

(* A result of the present generation is counted in the closed state.      *)
LEMMA CountedInv ==
  ASSUME BrkInv, NEW c \in current, state = "closed",
         \/ successes' = successes + 1 /\ failures' = failures
         \/ failures' = failures + 1 /\ successes' = successes,
         current' = current \ {c}, running' = running \ {c},
         UNCHANGED <<state, requests, elapsed, healthy>>
  PROVE  BrkInv'
<1> USE DEF BrkInv
<1>1. BrkTypeOK'
  BY DEF BrkTypeOK
<1>2. CountsExact'
  BY CallSets DEF BrkTypeOK, CountsExact
<1>3. SingleProbe'
  BY DEF SingleProbe
<1>4. QED
  BY <1>1, <1>2, <1>3

(* afterRequest.                                                           *)
LEMMA FinishInv ==
  ASSUME BrkInv, NEW c \in Calls, Finish(c)
  PROVE  BrkInv'
<1>1. running' = running \ {c} /\ UNCHANGED healthy
  BY DEF Finish
<1>2. PICK ok \in BOOLEAN : After(c, ok)
  BY DEF Finish
<1>3. running' \in SUBSET Calls /\ healthy' \in BOOLEAN
  BY <1>1 DEF BrkInv, BrkTypeOK
<1>4. CASE Late(c)
  <2>1. CASE SetState("halfOpen", {})
    BY <1>3, <2>1, NewGeneration DEF States
  <2>2. CASE ~SetState("halfOpen", {})
    BY <1>1, <1>4, <2>2 DEF Late, BrkInv, BrkTypeOK, CountsExact, SingleProbe
  <2>3. QED
    BY <2>1, <2>2
<1>5. CASE c \in current /\ Succeed(c)
  <2>1. CASE state = "closed"
    BY <1>1, <1>5, <2>1, CountedInv DEF Succeed
  <2>2. CASE SetState("closed", {})
    BY <1>3, <2>2, NewGeneration DEF States
  <2>3. QED
    BY <1>5, <2>1, <2>2 DEF Succeed
<1>6. CASE c \in current /\ Fail(c)
  <2>1. CASE SetState("open", {})
    BY <1>3, <2>1, NewGeneration DEF States
  <2>2. CASE ~SetState("open", {})
    BY <1>1, <1>6, <2>2, CountedInv DEF Fail
  <2>3. QED
    BY <2>1, <2>2
<1>7. QED
  BY <1>2, <1>4, <1>5, <1>6 DEF After

LEMMA BrkNextInv == BrkInv /\ [BrkNext]_brkVars => BrkInv'
<1> SUFFICES ASSUME BrkInv, [BrkNext]_brkVars PROVE BrkInv'
  OBVIOUS
<1>1. ASSUME NEW c \in Calls, Begin(c) PROVE BrkInv'
  BY <1>1, BeginInv
<1>2. ASSUME NEW c \in Calls, Finish(c) PROVE BrkInv'
  BY <1>2, FinishInv
<1>3. CASE IsOpen
  BY <1>3, NewGeneration DEF IsOpen, BrkInv, BrkTypeOK, States
<1>4. CASE Elapse
  BY <1>4 DEF Elapse, BrkInv, BrkTypeOK, CountsExact, SingleProbe
<1>5. CASE UpstreamChanges
  BY <1>5 DEF UpstreamChanges, BrkInv, BrkTypeOK, CountsExact, SingleProbe
<1>6. CASE UNCHANGED brkVars
  BY <1>6 DEF brkVars, BrkInv, BrkTypeOK, CountsExact, SingleProbe
<1>7. QED
  BY <1>1, <1>2, <1>3, <1>4, <1>5, <1>6 DEF BrkNext

LEMMA BrkInvHolds == BrkSpec => []BrkInv
BY BrkInitInv, BrkNextInv, PTL DEF BrkSpec

(***************************************************************************)
(* The counts ReadyToTrip judges by are exactly the results of the present *)
(* generation: no late answer of an earlier one is among them.             *)
(***************************************************************************)
THEOREM CountsAlwaysExact == BrkSpec => []CountsExact
<1>1. BrkInv => CountsExact
  BY DEF BrkInv
<1>2. QED
  BY <1>1, BrkInvHolds, PTL

(* However many calls race for it, one test request is out at a time.      *)
THEOREM OneProbe == BrkSpec => []SingleProbe
<1>1. BrkInv => SingleProbe
  BY DEF BrkInv
<1>2. QED
  BY <1>1, BrkInvHolds, PTL

(* The state of the breaker keeps its type.                                *)
THEOREM BreakerTypeCorrect == BrkSpec => []BrkTypeOK
<1>1. BrkInv => BrkTypeOK
  BY DEF BrkInv
<1>2. QED
  BY <1>1, BrkInvHolds, PTL

-------------------------------------------------------------------------------
(* While open, calls fail immediately without reaching the upstream.       *)
THEOREM OpenRefuses == BrkSpec => NoCallWhileOpen
<1>1. [BrkNext]_brkVars =>
        [state = "open" /\ ~elapsed => running' \subseteq running]_brkVars
  <2> SUFFICES ASSUME [BrkNext]_brkVars, state = "open", ~elapsed
               PROVE  running' \subseteq running
    OBVIOUS
  <2>1. ASSUME NEW c \in Calls, Begin(c) PROVE FALSE
    BY <2>1 DEF Begin, BeginInState, Admit, BeginRecovering, Recovering
  <2>2. ASSUME NEW c \in Calls, Finish(c) PROVE running' \subseteq running
    BY <2>2 DEF Finish
  <2>3. QED
    BY <2>1, <2>2 DEF BrkNext, IsOpen, Elapse, UpstreamChanges, brkVars
<1>2. QED
  BY <1>1, PTL DEF BrkSpec, NoCallWhileOpen

-------------------------------------------------------------------------------
(***************************************************************************)
(* Step simulation: under the mapping of Contract every step of the        *)
(* breaker is a step of BreakerContract or leaves its variables alone.     *)
(***************************************************************************)
Probing == state = "halfOpen" /\ current # {}

ContractStep ==
  \/ state = "closed" /\ state' = "open" /\ ~Probing'
  \/ state = "open" /\ state' = "halfOpen"
  \/ state = "halfOpen" /\ ~Probing /\ Probing' /\ state' = state
  \/ state = "halfOpen" /\ Probing /\ state' \in {"closed", "open"} /\ ~Probing'
  \/ state' = state /\ (Probing' <=> Probing)

LEMMA StepSimulation == BrkInv /\ [BrkNext]_brkVars => ContractStep
<1> SUFFICES ASSUME BrkInv, [BrkNext]_brkVars PROVE ContractStep
  OBVIOUS
<1>1. ASSUME NEW c \in Calls, Begin(c) PROVE ContractStep
  <2>1. CASE BeginRecovering(c)
    BY <2>1 DEF BeginRecovering, Recovering, ContractStep
  <2>2. CASE BeginInState(c) /\ state = "closed"
    BY <2>2 DEF BeginInState, ContractStep, Probing
  <2>3. CASE BeginInState(c) /\ state = "halfOpen"
    <3>1. requests < 1
      BY <2>3 DEF BeginInState, Admit
    <3>2. current = {}
      BY <2>3, <3>1 DEF BrkInv, BrkTypeOK, SingleProbe
    <3>3. QED
      BY <2>3, <3>2 DEF BeginInState, ContractStep, Probing
  <2>4. QED
    BY <1>1, <2>1, <2>2, <2>3 DEF Begin, BeginInState, Admit
<1>2. ASSUME NEW c \in Calls, Finish(c) PROVE ContractStep
  <2>1. PICK ok \in BOOLEAN : After(c, ok)
    BY <1>2 DEF Finish
  <2>2. CASE Late(c)
    BY <2>2 DEF Late, Recovering, SetState, ContractStep, Probing
  <2>3. CASE c \in current /\ Succeed(c)
    BY <2>3 DEF Succeed, SetState, ContractStep, Probing
  <2>4. CASE c \in current /\ Fail(c)
    BY <2>4 DEF Fail, SetState, ContractStep, Probing
  <2>5. QED
    BY <2>1, <2>2, <2>3, <2>4 DEF After
<1>3. CASE IsOpen
  BY <1>3 DEF IsOpen, Recovering, SetState, ContractStep
<1>4. CASE Elapse \/ UpstreamChanges \/ UNCHANGED brkVars
  BY <1>4 DEF Elapse, UpstreamChanges, brkVars, ContractStep, Probing
<1>5. QED
  BY <1>1, <1>2, <1>3, <1>4 DEF BrkNext

(***************************************************************************)
(* The breaker implements the contract of its package comment: late        *)
(* results never move it, and only the test request ends the half-open     *)
(* state.                                                                  *)
(***************************************************************************)
THEOREM BreakerImplementsContract == BrkSpec => ImplementsContract
<1>1. BrkInit => Contract!ContractInit
  BY DEF BrkInit, Contract!ContractInit
<1>2. ContractStep => [Contract!ContractNext]_(Contract!contractVars)
  BY DEF ContractStep, Probing, Contract!ContractNext, Contract!contractVars,
         Contract!Trip, Contract!FallbackOver, Contract!Probe, Contract!ProbeReturns
<1>3. QED
  BY <1>1, <1>2, StepSimulation, BrkInvHolds, PTL
     DEF BrkSpec, ImplementsContract, Contract!ContractSpec

===============================================================================
