---------------------------- MODULE MCUserSession ----------------------------
(***************************************************************************)
(* Two users and two upstreams; the callback_url of the second was copied  *)
(* from the first.  Two calls at once, so that two refreshes of one token  *)
(* and a callback can meet.                                                *)
(***************************************************************************)
EXTENDS UserSession, TLC

CONSTANTS u1, u2, c1, c2

MCUpstreams == {"a", "b"}
MCRedirectsTo == [up \in MCUpstreams |-> "a"]
Symmetry == Permutations({u1, u2}) \cup Permutations({c1, c2})
=============================================================================
