------------------------------ MODULE MCExecutor ------------------------------
(***************************************************************************)
(* The executor on small instances: one request with every fault, and      *)
(* three requests that meet in the cooldowns of one provider.              *)
(***************************************************************************)
EXTENDS Executor, TLC

CONSTANTS p1, p2, claude, openai, global, tuned

RouteTo(provider, position, retries) ==
    [clientType |-> claude, project |-> global, provider |-> provider,
     position |-> position, enabled |-> TRUE, maxRetries |-> retries]

MCRoutes == {"first", "second"}
MCRoute == [first |-> RouteTo(p1, 1, 1), second |-> RouteTo(p2, 2, 0)]

MCType == [r \in Requests |-> claude]
MCProject == [r \in Requests |-> global]
MCStrategies == [project \in {} |-> "priority"]

(* Three requests: two of one client type, one of them in a project with a *)
(* route of its own, and one of another type on the same provider. The     *)
(* second provider of the global routes is not deployed.                   *)
MCSharedRoutes == {"first", "second", "own", "other"}
MCSharedRoute ==
    [first  |-> RouteTo(p1, 1, 0),
     second |-> RouteTo(p2, 1, 0),
     own    |-> [RouteTo(p1, 1, 1) EXCEPT !.project = tuned],
     other  |-> [RouteTo(p1, 1, 0) EXCEPT !.clientType = openai]]
MCSharedType == [r1 |-> claude, r2 |-> claude, r3 |-> openai]
MCSharedProject == [r1 |-> global, r2 |-> tuned, r3 |-> global]
MCSharedStrategies == (global :> "weighted_random")

Success == [kind |-> "ok", retryable |-> FALSE, scope |-> AllTypes,
            ahead |-> FALSE, async |-> FALSE, wrote |-> TRUE]
Error(retryable, async, wrote) ==
    [kind |-> "error", retryable |-> retryable, scope |-> AllTypes,
     ahead |-> TRUE, async |-> async, wrote |-> wrote]

Quota   == Error(TRUE, TRUE, FALSE)   \* antigravity's 429, quota looked up
Refused == Error(FALSE, FALSE, FALSE) \* a 4xx
Broken  == Error(TRUE, FALSE, TRUE)   \* an SSE error event, forwarded
Panic   == [Success EXCEPT !.kind = "panic", !.wrote = FALSE]

MCOutcomes == {Success, Quota, Refused, Panic}
MCSharedOutcomes == {Success, Quota}
MCWriting == {Success, Broken}
===============================================================================
