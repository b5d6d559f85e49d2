-------------------------- MODULE AntigravityAdapter --------------------------
(***************************************************************************)
(* Concurrent calls of one antigravity provider's Execute: the access      *)
(* token they share, the fallback from the production endpoint to the      *)
(* daily one, the retry after a refused token or a refused signature, and  *)
(* the quota query that an exhausted endpoint starts in the background.    *)
(* What happens to an answer is the subject of ClaudeStream.               *)
(***************************************************************************)
EXTENDS Naturals, FiniteSets, FiniteSetsExt

CONSTANTS
    Calls,      \* calls of Execute with a Claude request
    MaxTokens   \* bound: access tokens issued

ASSUME CallsAssumption == IsFiniteSet(Calls)
ASSUME TokensAssumption == MaxTokens \in Nat \ {0}

VARIABLES
    cache,      \* tokenCache: a token, or NoToken
    age,        \* of each token: fresh, stale (the cache drops it a minute
                \* before it ends), or revoked, which the cache cannot see
    issued,     \* the number of tokens issued
    call,       \* the locals of each call
    quota       \* the background query of each call and endpoint

vars == <<cache, age, issued, call, quota>>

NoToken == 0
Prod == 1
Daily == 2
Endpoints == {Prod, Daily}
Tokens == 1 .. MaxTokens

(* What an endpoint answers: a refused signature (400sig), an exhausted    *)
(* quota with its reset time (429ts) or without one (429), and so on.      *)
Statuses == {"ok", "no connection", "400sig", "404", "429ts", "429", "500"}

IsRetryableStatusCode(st) == st \in {"429ts", "429", "500"}
ShouldTryNextEndpoint(st) == st \in {"429ts", "429", "404", "500"}

NoOutcome == [kind |-> "none", limit |-> "none", chan |-> 0]
Outcome(kind, limit, chan) == [kind |-> kind, limit |-> limit, chan |-> chan]

(* `refused` are the tokens that were answered 401. *)
NewCall == [pc |-> "token", then |-> "send", endpoint |-> Prod,
            token |-> NoToken, retried |-> FALSE, last |-> "none",
            refused |-> {}, outcome |-> NoOutcome]

Init ==
    /\ cache = NoToken
    /\ age = [t \in Tokens |-> "fresh"]
    /\ issued = 0
    /\ call = [c \in Calls |-> NewCall]
    /\ quota = [c \in Calls |-> [e \in Endpoints |-> "none"]]

Goto(c, pc) == call' = [call EXCEPT ![c].pc = pc]

(* The locals end with the call; what it did and returned is kept. *)
Finish(l, o) == [l EXCEPT !.pc = "done", !.outcome = o, !.token = NoToken,
                          !.refused = {}, !.then = "send", !.endpoint = Prod]

Return(c, o) == call' = [call EXCEPT ![c] = Finish(@, o)]

-----------------------------------------------------------------------------
(* getAccessToken: the cache is read, the token refreshed and the cache    *)
(* written in three steps, of which each holds the lock by itself.         *)

(* Mutant of CacheUsable: an emptied cache is taken for a token. *)
CacheUnexpired == cache \notin {t \in Tokens : age[t] = "stale"}

CacheUsable == cache \in {t \in Tokens : age[t] # "stale"}

TakeCached(c) ==
    /\ call[c].pc = "token"
    /\ CacheUsable
    /\ call' = [call EXCEPT ![c].token = cache, ![c].pc = call[c].then]
    /\ UNCHANGED <<cache, age, issued, quota>>

StartRefresh(c) ==
    /\ call[c].pc = "token"
    /\ ~CacheUsable
    /\ Goto(c, "refresh")
    /\ UNCHANGED <<cache, age, issued, quota>>

Refreshed(c) ==
    /\ call[c].pc = "refresh"
    /\ issued < MaxTokens
    /\ issued' = issued + 1
    /\ call' = [call EXCEPT ![c].token = issued + 1, ![c].pc = "cache"]
    /\ UNCHANGED <<cache, age, quota>>

(* Mutant of RefreshFails: the token is asked for again. *)
RefreshRetried(c) ==
    /\ call[c].pc = "refresh"
    /\ Goto(c, "token")
    /\ UNCHANGED <<cache, age, issued, quota>>

RefreshFails(c) ==
    /\ call[c].pc = "refresh"
    /\ Return(c, Outcome("retryable", "none", 0))
    /\ UNCHANGED <<cache, age, issued, quota>>

CacheToken(c) ==
    /\ call[c].pc = "cache"
    /\ cache' = call[c].token
    /\ Goto(c, call[c].then)
    /\ UNCHANGED <<age, issued, quota>>

-----------------------------------------------------------------------------
(* One request to the endpoint the loop is at, and what follows from its   *)
(* answer. upstreamBody was built before the loop and is not built again.  *)

HasNextEndpoint(c) == call[c].endpoint = Prod

Sent(c, st) == [call[c] EXCEPT !.last = st]

NextEndpoint(l) == [l EXCEPT !.endpoint = Daily, !.pc = "send", !.last = "none"]

(* The status error, with the limit read from a 429 and its channel. *)
StatusError(c, st) ==
    Outcome(IF IsRetryableStatusCode(st) THEN "retryable" ELSE "final",
            CASE st = "429ts" -> "until reset" [] st = "429" -> "a minute"
              [] OTHER -> "none",
            IF st = "429" THEN call[c].endpoint ELSE 0)

(* Mutant of QueriedQuota: the query is only begun for the first endpoint. *)
QueriedQuotaLast(c, st) ==
    IF st = "429" /\ HasNextEndpoint(c)
    THEN [quota EXCEPT ![c][call[c].endpoint] = "asked"] ELSE quota

QueriedQuota(c, st) ==
    IF st = "429" THEN [quota EXCEPT ![c][call[c].endpoint] = "asked"] ELSE quota

(* A stale token may have a last minute left. *)
Accepted(t) == age[t] # "revoked"
Refusable(t) == age[t] # "fresh"

(* Mutant of Refuse: the cached token is not discarded. *)
RefuseKeepingCache(c) ==
    /\ call[c].pc = "send"
    /\ Refusable(call[c].token)
    /\ call' = [call EXCEPT ![c] = [Sent(c, "401") EXCEPT
                    !.refused = @ \cup {call[c].token},
                    !.pc = "token", !.then = "resend"]]
    /\ UNCHANGED <<cache, age, issued, quota>>

(* 401 to the first request of an endpoint: the shared cache is emptied,   *)
(* whatever token it holds by now, and a token is taken anew.              *)
Refuse(c) ==
    /\ call[c].pc = "send"
    /\ Refusable(call[c].token)
    /\ call' = [call EXCEPT ![c] = [Sent(c, "401") EXCEPT
                    !.refused = @ \cup {call[c].token},
                    !.pc = "token", !.then = "resend"]]
    /\ cache' = NoToken
    /\ UNCHANGED <<age, issued, quota>>

(* A second 401 is an error like any other status. *)
RefuseAgain(c) ==
    /\ call[c].pc = "resend"
    /\ Refusable(call[c].token)
    /\ call' = [call EXCEPT ![c] =
                    Finish([Sent(c, "401") EXCEPT !.refused = @ \cup {call[c].token}],
                           Outcome("final", "none", 0))]
    /\ UNCHANGED <<cache, age, issued, quota>>

AfterAnswer(c, st) ==
    LET l == Sent(c, st)
    IN  CASE st = "ok" -> [l EXCEPT !.pc = "respond"]
          [] st = "no connection" ->
                IF HasNextEndpoint(c) THEN NextEndpoint(l)
                ELSE Finish(l, Outcome("retryable", "none", 0))
          [] st = "400sig" /\ ~l.retried -> [l EXCEPT !.pc = "strip"]
          [] ShouldTryNextEndpoint(st) /\ HasNextEndpoint(c) -> NextEndpoint(l)
          [] OTHER -> Finish(l, StatusError(c, st))

Answer(c) ==
    /\ call[c].pc \in {"send", "resend"}
    /\ \E st \in Statuses :
          /\ st = "no connection" \/ Accepted(call[c].token)
          /\ call' = [call EXCEPT ![c] = AfterAnswer(c, st)]
          /\ quota' = QueriedQuota(c, st)
    /\ UNCHANGED <<cache, age, issued>>

(* After a refused signature the request body is stripped of its thinking, *)
(* and the loop goes on to the next endpoint with the body it had, or ends *)
(* with the error it has.                                                  *)
StripThinking(c) ==
    /\ call[c].pc = "strip"
    /\ call' = [call EXCEPT ![c] =
            LET l == [call[c] EXCEPT !.retried = TRUE]
            IN  IF HasNextEndpoint(c) THEN NextEndpoint(l)
                ELSE Finish(l, StatusError(c, "400sig"))]
    /\ UNCHANGED <<cache, age, issued, quota>>

(* The client leaves during the pause before the retry. *)
LeavesWhileStripping(c) ==
    /\ call[c].pc = "strip"
    /\ call' = [call EXCEPT ![c] =
            Finish([call[c] EXCEPT !.retried = TRUE],
                   Outcome("client disconnected", "none", 0))]
    /\ UNCHANGED <<cache, age, issued, quota>>

(* The response handlers: a success, a client that left, a response that   *)
(* could not be read before anything was written, or one that could not be *)
(* converted.                                                              *)
Respond(c) ==
    /\ call[c].pc = "respond"
    /\ \/ Return(c, Outcome("success", "none", 0))
       \/ Return(c, Outcome("retryable", "none", 0))
       \/ Return(c, Outcome("final", "none", 0))
       \/ Return(c, Outcome("client disconnected", "none", 0))
    /\ UNCHANGED <<cache, age, issued, quota>>

-----------------------------------------------------------------------------
(* The background query: one value is sent on a channel with room for it.  *)

Minute == 0

(* Of a model: its remaining quota in thousandths and its reset time.      *)
Percentage(thousandths) == (thousandths * 100) \div 1000

EarliestReset(models) ==
    LET zero == {m.reset : m \in {x \in models : Percentage(x.left) = 0
                                                   /\ x.reset # Minute}}
    IN  IF zero = {} THEN Minute ELSE Min(zero)

Models == {[left |-> 0, reset |-> Minute], [left |-> 9, reset |-> 2],
           [left |-> 500, reset |-> 1]}

(* A failed query, and a forbidden one, which has no models, give a minute. *)
Update(models) == IF EarliestReset(models) = Minute THEN "a minute" ELSE "reset"

(* A value for an error that was not returned is never received. *)
QuotaAnswers(c, e) ==
    /\ quota[c][e] = "asked"
    /\ \E models \in SUBSET Models :
          quota' = [quota EXCEPT ![c][e] =
                IF call[c].pc = "done" /\ call[c].outcome.chan # e THEN "none"
                ELSE Update(models)]
    /\ UNCHANGED <<cache, age, issued, call>>

-----------------------------------------------------------------------------
(* The upstream. *)

Expire(t) ==
    /\ t <= issued
    /\ age[t] = "fresh"
    /\ age' = [age EXCEPT ![t] = "stale"]
    /\ UNCHANGED <<cache, issued, call, quota>>

Revoke(t) ==
    /\ t <= issued
    /\ age[t] = "fresh"
    /\ age' = [age EXCEPT ![t] = "revoked"]
    /\ UNCHANGED <<cache, issued, call, quota>>

Returned ==
    /\ \A c \in Calls : call[c].pc = "done"
    /\ \A c \in Calls, e \in Endpoints : quota[c][e] # "asked"
    /\ UNCHANGED vars

Step(c) ==
    \/ TakeCached(c) \/ StartRefresh(c) \/ Refreshed(c) \/ RefreshFails(c)
    \/ CacheToken(c) \/ Refuse(c) \/ RefuseAgain(c) \/ Answer(c)
    \/ StripThinking(c) \/ LeavesWhileStripping(c) \/ Respond(c)

Next ==
    \/ \E c \in Calls :
          Step(c) \/ \E e \in Endpoints : QuotaAnswers(c, e)
    \/ \E t \in Tokens : Expire(t) \/ Revoke(t)
    \/ Returned

(* Every wait of a call is bounded: 15 s for a refresh, 600 s for a        *)
(* request, 10 s for each request of a quota query.                        *)
Fairness ==
    /\ \A c \in Calls : WF_vars(Step(c))
    /\ WF_vars(\E c \in Calls, e \in Endpoints : QuotaAnswers(c, e))

Spec == Init /\ [][Next]_vars /\ Fairness

-----------------------------------------------------------------------------
(* The state stays within its types. *)
TypeInvariant ==
    /\ cache \in Tokens \cup {NoToken} /\ cache <= issued
    /\ issued <= MaxTokens
    /\ \A c \in Calls :
        /\ call[c].pc \in {"token", "refresh", "cache", "send", "resend",
                           "strip", "respond", "done"}
        /\ call[c].token <= issued
        /\ call[c].pc \in {"send", "resend"} => call[c].token # NoToken
        /\ \A e \in Endpoints :
              quota[c][e] \in {"none", "asked", "a minute", "reset"}

(* No call sends a token that was refused to it, although other calls      *)
(* refresh, cache and discard tokens meanwhile.                            *)
RefusedTokenNotSent ==
    \A c \in Calls : call[c].pc \in {"send", "resend"} =>
        call[c].token \notin call[c].refused

(* A call's outcome is that of its last answer: an exhausted quota cools   *)
(* the provider, and a limit without a reset time comes with the channel   *)
(* of a query that was begun for that endpoint.                            *)
OutcomeOfLast ==
    \A c \in Calls : LET l == call[c] IN l.pc = "done" =>
        /\ l.outcome.kind = "success" => l.last = "ok"
        /\ l.outcome.limit = "until reset" <=> l.last = "429ts"
        /\ l.outcome.limit = "a minute" <=> l.last = "429"
        /\ l.outcome.chan # 0 <=> l.last = "429"
        /\ l.outcome.chan # 0 => quota[c][l.outcome.chan] # "none"
        /\ l.last \in {"429", "429ts", "500"} => l.outcome.kind = "retryable"

(* Every call returns, and every query that a returned error waits for is  *)
(* answered.                                                               *)
CallsReturn ==
    <>(\A c \in Calls : /\ call[c].pc = "done"
                        /\ \A e \in Endpoints : quota[c][e] # "asked")
=============================================================================
