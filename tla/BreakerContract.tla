--------------------------- MODULE BreakerContract ---------------------------
(***************************************************************************)
(* What pkg/upstream/circuitbreaker promises (its package comment): closed *)
(* until it trips; while open nothing reaches the upstream; after the      *)
(* fallback duration it is half-open and lets one test request through,    *)
(* whose success closes the circuit and whose failure reopens it.  Nothing *)
(* else moves it.                                                          *)
(***************************************************************************)
VARIABLES phase,      \* "closed", "open" or "halfOpen"
          probing     \* the test request is out

contractVars == <<phase, probing>>

ContractInit == phase = "closed" /\ probing = FALSE

Trip == phase = "closed" /\ phase' = "open" /\ probing' = FALSE

FallbackOver == phase = "open" /\ phase' = "halfOpen" /\ probing' \in BOOLEAN

Probe == phase = "halfOpen" /\ ~probing /\ probing' = TRUE /\ phase' = phase

ProbeReturns ==
  /\ phase = "halfOpen" /\ probing
  /\ phase' \in {"closed", "open"}
  /\ probing' = FALSE

ContractNext == Trip \/ FallbackOver \/ Probe \/ ProbeReturns

ContractSpec == ContractInit /\ [][ContractNext]_contractVars
===============================================================================
