--------------------------- MODULE MCCallPipeline ---------------------------
(***************************************************************************)
(* Two tools of two upstreams, two callers with a subject, and three       *)
(* configurations: a shared cache in Redis, a per-user cache in the same   *)
(* Redis, and a per-user cache in memory that makes the first tool public  *)
(* and does not know the second.                                           *)
(***************************************************************************)
EXTENDS CallPipeline, TLC

CONSTANTS t1, t2, g1, u1, u2, alice, bob

MCTools == {t1, t2}
MCGroups == {g1}
MCUpstreams == {u1, u2}
MCSubjects == {alice, bob}

Ask(t, tok) == [tool |-> t, group |-> g1, token |-> tok, args |-> "a", client |-> "n"]

MCRequests == {Ask(t1, alice), Ask(t1, bob), Ask(t2, "key"), Ask(t2, alice)}

E(u, auth, rl, ca) ==
    [up |-> u, authRequired |-> auth, rateLimit |-> rl, cache |-> ca, groups |-> MCGroups]

Both(perUser, st, rlst) ==
    [entries |-> (t1 :> E(u1, TRUE, "rl", "c")) @@ (t2 :> E(u2, TRUE, None, "c")),
     store |-> st, perUser |-> ("c" :> perUser), limit |-> 1, rlStore |-> rlst, source |-> "user"]

Narrow ==
    [entries |-> (t1 :> E(u1, FALSE, "rl", "c")), store |-> "memory",
     perUser |-> ("c" :> TRUE), limit |-> 1, rlStore |-> "memory", source |-> "ip"]

MCConfigs == {Both(FALSE, "redis", "redis"), Both(TRUE, "redis", "redis"), Narrow}

\* A refresh brings the first upstream's tool back without its policies (see
\* SpecRefresh); the refresher may also remove the second upstream's tool.
MCRefreshes == {[up |-> u1, entries |-> t1 :> E(u1, TRUE, None, None)],
                [up |-> u2, entries |-> <<>>]}

\* The second upstream has a validator of its own, which accepts API keys only.
MCAccepted(u) == IF u = u2 THEN {"key"} ELSE MCSubjects \cup {"key"}
=============================================================================
