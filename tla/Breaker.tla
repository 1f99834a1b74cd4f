------------------------------- MODULE Breaker -------------------------------
(***************************************************************************)
(* pkg/upstream/circuitbreaker/breaker.go and the breaker-wrapped dispatch *)
(* of pkg/upstream/http/executor.go: concurrent tool calls of one upstream *)
(* through one gobreaker circuit breaker.                                  *)
(*                                                                         *)
(* gobreaker (external) guards each of its steps with its own mutex:       *)
(* beforeRequest, afterRequest and State are one action each.  It numbers  *)
(* generations; a call's result counts only in the generation it started   *)
(* in.  Only equality of generations matters, so a call carries a flag     *)
(* that a change of generation clears.  No Interval is configured: counts  *)
(* of the closed state are cleared by a change of state only.              *)
(***************************************************************************)
EXTENDS Naturals, FiniteSets

CONSTANTS Calls,          \* tool calls in flight at the same time
          MinRequests,    \* min_requests
          ThresholdPct,   \* threshold, in percent
          MaxCounted      \* bound: requests counted in one closed generation

ASSUME BreakerConstants ==
  /\ IsFiniteSet(Calls)
  /\ MinRequests \in Nat
  /\ ThresholdPct \in 0..100
  /\ MaxCounted \in Nat \ {0}

VARIABLES state,          \* gobreaker's state
          requests, successes, failures,   \* counts of this generation
          elapsed,        \* the open state's timeout has passed
          running,        \* calls inside the wrapped function
          current,        \* calls whose generation is the present one
          healthy         \* the upstream answers every call below 500

brkVars == <<state, requests, successes, failures, elapsed, running, current,
             healthy>>

States == {"closed", "open", "halfOpen"}

BrkTypeOK ==
  /\ state \in States
  /\ requests \in Nat /\ successes \in Nat /\ failures \in Nat
  /\ elapsed \in BOOLEAN
  /\ running \in SUBSET Calls
  /\ current \in SUBSET running
  /\ healthy \in BOOLEAN

(* circuitbreaker.New                                                      *)
BrkInit ==
  /\ state = "closed"
  /\ requests = 0 /\ successes = 0 /\ failures = 0
  /\ elapsed = FALSE
  /\ running = {} /\ current = {}
  /\ healthy = TRUE

(* ReadyToTrip, on the counts with the failure just added.                 *)
ReadyToTrip(reqs, fails) ==
  /\ reqs >= MinRequests
  /\ fails * 100 >= ThresholdPct * reqs

(* currentState: an open breaker whose timeout has passed is half-open.    *)
Recovering == state = "open" /\ elapsed

(* setState: a new generation.                                             *)
SetState(s, cur) ==
  /\ state' = s
  /\ requests' = 0 /\ successes' = 0 /\ failures' = 0
  /\ elapsed' = FALSE
  /\ current' = cur

-------------------------------------------------------------------------------
(***************************************************************************)
(* beforeRequest: refused while open, and while half-open once the one     *)
(* test request is out.  A refused call answers openCircuitResult and      *)
(* leaves no trace.                                                        *)
(***************************************************************************)
AdmitAllHalfOpen ==
  \/ state = "closed" /\ requests < MaxCounted
  \/ state = "halfOpen" /\ requests < MaxCounted

Admit ==
  \/ state = "closed" /\ requests < MaxCounted
  \/ state = "halfOpen" /\ requests < 1

BeginInState(c) ==
  /\ Admit
  /\ requests' = requests + 1
  /\ current' = current \cup {c}
  /\ UNCHANGED <<state, successes, failures, elapsed>>

BeginRecovering(c) ==
  /\ Recovering
  /\ state' = "halfOpen"
  /\ requests' = 1 /\ successes' = 0 /\ failures' = 0
  /\ elapsed' = FALSE
  /\ current' = {c}

Begin(c) ==
  /\ c \notin running
  /\ running' = running \cup {c}
  /\ BeginInState(c) \/ BeginRecovering(c)
  /\ UNCHANGED healthy

(***************************************************************************)
(* afterRequest.  A dispatch error (network, timeout, client gone) and a   *)
(* status of 500 or more count as failures; every other answer, also one   *)
(* the tool reports as an error, is a success.  A healthy upstream's calls *)
(* succeed; otherwise either may happen.  A result of an earlier           *)
(* generation is dropped, but like every step it moves an open breaker     *)
(* whose timeout has passed to half-open.                                  *)
(***************************************************************************)
Late(c) ==
  /\ c \notin current
  /\ \/ Recovering /\ SetState("halfOpen", {})
     \/ /\ ~Recovering
        /\ UNCHANGED <<state, requests, successes, failures, elapsed, current>>

(* The present generation: an open breaker admits nothing, so nothing of   *)
(* its generation comes back.                                              *)
SucceedUncounted(c) ==
  /\ state \in {"closed", "halfOpen"}
  /\ UNCHANGED <<state, requests, successes, failures, elapsed, current>>

Succeed(c) ==
  \/ /\ state = "closed"
     /\ successes' = successes + 1
     /\ current' = current \ {c}
     /\ UNCHANGED <<state, requests, failures, elapsed>>
  \/ state = "halfOpen" /\ SetState("closed", {})

Fail(c) ==
  \/ /\ state = "closed"
     /\ ~ReadyToTrip(requests, failures + 1)
     /\ failures' = failures + 1
     /\ current' = current \ {c}
     /\ UNCHANGED <<state, requests, successes, elapsed>>
  \/ /\ state = "closed"
     /\ ReadyToTrip(requests, failures + 1)
     /\ SetState("open", {})
  \/ state = "halfOpen" /\ SetState("open", {})

AfterAnyGeneration(c, ok) ==
  \/ state = "open" /\ UNCHANGED <<state, requests, successes, failures,
                                   elapsed, current>>
  \/ ok /\ Succeed(c)
  \/ ~ok /\ Fail(c)

After(c, ok) ==
  \/ Late(c)
  \/ c \in current /\ ok /\ Succeed(c)
  \/ c \in current /\ ~ok /\ Fail(c)

Finish(c) ==
  /\ c \in running
  /\ running' = running \ {c}
  /\ \E ok \in BOOLEAN : (healthy => ok) /\ After(c, ok)
  /\ UNCHANGED healthy

(* IsOpen (readiness probe): State() moves an open breaker on as well.     *)
IsOpen ==
  /\ Recovering
  /\ SetState("halfOpen", {})
  /\ UNCHANGED <<running, healthy>>

(* fallback_duration passes.                                               *)
Elapse ==
  /\ state = "open" /\ ~elapsed
  /\ elapsed' = TRUE
  /\ UNCHANGED <<state, requests, successes, failures, running, current, healthy>>

UpstreamChanges ==
  /\ healthy' = ~healthy
  /\ UNCHANGED <<state, requests, successes, failures, elapsed, running, current>>

BrkNext ==
  \/ \E c \in Calls : Begin(c) \/ Finish(c)
  \/ IsOpen \/ Elapse \/ UpstreamChanges

BrkSpec == BrkInit /\ [][BrkNext]_brkVars

(***************************************************************************)
(* Time passes; a call that was sent returns (client timeouts); clients    *)
(* keep calling.                                                           *)
(***************************************************************************)
BrkFairSpec ==
  /\ BrkSpec
  /\ WF_brkVars(Elapse)
  /\ \A c \in Calls : WF_brkVars(Finish(c))
  /\ WF_brkVars(\E c \in Calls : Begin(c))

-------------------------------------------------------------------------------
(***************************************************************************)
(* Every request counted in this generation is accounted for: it succeeded *)
(* or failed in this generation, or is still out.  A result of an earlier  *)
(* generation never leaks into the counts the breaker trips on.            *)
(***************************************************************************)
CountsExact == requests = successes + failures + Cardinality(current)

(***************************************************************************)
(* Half-open: at most one test request is out ("allows one test request    *)
(* through"), however many calls wait for the moment the timeout passes.   *)
(***************************************************************************)
SingleProbe ==
  state = "halfOpen" =>
    /\ \A c, d \in current : c = d
    /\ requests = 0 <=> current = {}

(* "While open, calls fail immediately without reaching the upstream."     *)
NoCallWhileOpen ==
  [][state = "open" /\ ~elapsed => running' \subseteq running]_brkVars

(***************************************************************************)
(* The breaker keeps the promise of BreakerContract: only the test         *)
(* request's own result ends the half-open state, and no late result moves *)
(* the breaker.                                                            *)
(***************************************************************************)
Contract == INSTANCE BreakerContract WITH
  phase <- state,
  probing <- state = "halfOpen" /\ current # {}

ImplementsContract == Contract!ContractSpec

(***************************************************************************)
(* Once the upstream is well for good, the breaker closes: it does not get *)
(* stuck open or half-open.                                                *)
(***************************************************************************)
HealthyUpstreamCloses == <>[]healthy => <>[](state = "closed")

===============================================================================
