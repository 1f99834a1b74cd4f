------------------------------ MODULE MCBreaker ------------------------------
(***************************************************************************)
(* Three calls at once: one can be the test request, one a late result of  *)
(* an earlier generation and one waiting for admission.                    *)
(***************************************************************************)
EXTENDS Breaker
===============================================================================
