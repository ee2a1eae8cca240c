----------------------------- MODULE MCScoreApi -----------------------------
(* Two replicas, as in ops/k8s/api-deployment.yaml.  A bucket holds one    *)
(* token and earns half a token per tick.  Of t1 there are a token that    *)
(* may do everything, one that expires after the first tick, and one on    *)
(* which the verifier raises something else than AuthError; t2 may read.   *)
EXTENDS ScoreApi

MCKeys == Replicas \X {"t1"}
MCCapacity == [k \in MCKeys |-> 2]
MCRefill == [k \in MCKeys |-> 1]

Token(defect, tenant, scopes, exp) ==
    [defect |-> defect, tenant |-> tenant, scopes |-> scopes, exp |-> exp]
MCPoller == Token("none", "t1", {"score:write", "records:read", "audit:read"}, MaxTime)
MCTokens == {MCPoller,
             Token("none", "t1", {"score:write"}, 0),
             Token("header not an object", "t1", {}, MaxTime),
             Token("none", "t2", {"records:read", "audit:read"}, MaxTime)}

MCDeployment == [development |-> FALSE, allow_hs256 |-> TRUE, metrics_token |-> TRUE]

MCAhead == [w \in {"w1", "w2"} |-> IF w = "w1" THEN 1 ELSE 0]

Load(j, p, u, w) == [jobs |-> j, polls |-> p, upserts |-> u, windows |-> w]
MCLoads == {Load(3, 0, 0, 1), Load(2, 2, 0, 0), Load(0, 0, 2, 0)}

(* No step depends on the last response or the last answer of a limiter;   *)
(* what is said of them is said of the steps that give them.               *)
MCView == <<now, known, tokens, updated, start, granted, storeVars, load, api, poll>>

\* The replicas run the same code.
Symmetry == Permutations(Replicas)
=============================================================================
