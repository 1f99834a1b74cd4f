---------------------------- MODULE MCRuntimePool ----------------------------
(***************************************************************************)
(* Three callers for one slot in the auth pool and one in the script pool: *)
(* one caller can run a script while one waits for its slot with the mutex *)
(* in hand and one waits for the mutex.                                    *)
(***************************************************************************)
EXTENDS RuntimePool

MCCap == [q \in Pools |-> 1]
=============================================================================
