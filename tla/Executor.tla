------------------------------- MODULE Executor -------------------------------
(***************************************************************************)
(* internal/executor with the matching of internal/router: a request's way *)
(* over its matched routes, the attempts and retries on each, the audit    *)
(* rows it leaves in the database, and what it tells the cooldown manager. *)
(*                                                                         *)
(* The requests run side by side and meet in the cooldowns: one request's  *)
(* failure takes a provider away from the others' matching.  Of the        *)
(* cooldown manager (CooldownService.tla) only whether a key is cooling is *)
(* kept, so deadlines lapse at any time.                                   *)
(*                                                                         *)
(* A step ends where the code writes to the database, touches the cooldown *)
(* manager, waits, or looks at the client's context: a client may leave,   *)
(* and the process may crash, between any two steps.  At most MaxDbErrors  *)
(* writes are refused, which the code ignores; at most MaxCrashes crashes. *)
(***************************************************************************)
EXTENDS Integers, Sequences, FiniteSets

CONSTANTS
    Requests,
    Type,         \* request -> its client type
    Project,      \* request -> its session's project
    Providers,
    ClientTypes,
    AllTypes,     \* the empty client type
    Global,       \* project 0
    Routes,
    Route,        \* route -> [clientType, project, provider, position, enabled, maxRetries]
    Strategies,   \* project -> routing strategy; not every project has one
    Deployed,     \* providers that exist and have an adapter
    Timed,        \* providers whose adapter's HTTP client has a timeout
    Outcomes,     \* what an adapter's Execute may come back with
    MaxCrashes,
    MaxDbErrors

VARIABLES
    up,
    cooling,      \* keys <<provider, clientType>> that are in cooldown
    updates,      \* key -> number of goroutines that wait for its quota answer
    pc,
    gone,         \* the request's context is done: its client left
    candidates,   \* routes Match has sorted and not yet looked at
    matched,      \* MatchedRoutes so far
    routeIdx,     \* routes tried so far, the current one included
    attempt,      \* retries made on the current route
    status,       \* proxyReq.Status
    row,          \* the status column of its row, "none" when there is no row
    attempts,     \* its attempts: [route, outcome, status, row]
    crashes,
    dbErrors

progress == <<candidates, matched, routeIdx, attempt>>
audit    == <<status, row, attempts>>
gate     == <<cooling, updates>>
bounds   == <<crashes, dbErrors>>
vars     == <<up, gate, pc, gone, progress, audit, bounds>>

Keys == Providers \X (ClientTypes \cup {AllTypes})
Final == {"COMPLETED", "FAILED", "CANCELLED"}
Statuses == Final \cup {"IN_PROGRESS"}
Active == {"matching", "route", "attempt", "create", "call", "upstream", "answered",
           "completed", "failed", "wait", "defer", "deferAttempt"}
NoOutcome == [kind |-> "none", retryable |-> FALSE, scope |-> AllTypes,
              ahead |-> FALSE, async |-> FALSE, wrote |-> FALSE]

Attempts == [route : Routes, outcome : Outcomes \cup {NoOutcome},
             status : Statuses, row : Statuses \cup {"none"}]

ASSUME RoutesAssumption ==
    /\ AllTypes \notin ClientTypes
    /\ IsFiniteSet(Routes)
    /\ Type \in [Requests -> ClientTypes]
    /\ Route \in [Routes -> [clientType : ClientTypes, project : {Project[r] : r \in Requests} \cup {Global},
                             provider : Providers, position : Nat,
                             enabled : BOOLEAN, maxRetries : Nat]]
    /\ Deployed \subseteq Providers
    /\ Timed \subseteq Providers
    /\ MaxCrashes \in Nat
    /\ MaxDbErrors \in Nat

ASSUME OutcomesAssumption ==
    Outcomes \subseteq [kind : {"ok", "error", "panic"}, retryable : BOOLEAN,
                        scope : ClientTypes \cup {AllTypes}, ahead : BOOLEAN,
                        async : BOOLEAN, wrote : BOOLEAN]

-------------------------------------------------------------------------------
TypeOK ==
    /\ up \in BOOLEAN
    /\ cooling \subseteq Keys
    /\ updates \in [Keys -> Nat]
    /\ pc \in [Requests -> Active \cup {"idle", "returned", "dead"}]
    /\ gone \in [Requests -> BOOLEAN]
    /\ candidates \in [Requests -> Seq(Routes)]
    /\ matched \in [Requests -> Seq(Routes)]
    /\ routeIdx \in [Requests -> Nat]
    /\ attempt \in [Requests -> Nat]
    /\ status \in [Requests -> Statuses \cup {"none"}]
    /\ row \in [Requests -> Statuses \cup {"none"}]
    /\ attempts \in [Requests -> Seq(Attempts)]
    /\ crashes \in 0..MaxCrashes
    /\ dbErrors \in 0..MaxDbErrors

Init ==
    /\ up = TRUE
    /\ cooling = {}
    /\ updates = [key \in Keys |-> 0]
    /\ pc = [r \in Requests |-> "idle"]
    /\ gone = [r \in Requests |-> FALSE]
    /\ candidates = [r \in Requests |-> <<>>]
    /\ matched = [r \in Requests |-> <<>>]
    /\ routeIdx = [r \in Requests |-> 0]
    /\ attempt = [r \in Requests |-> 0]
    /\ status = [r \in Requests |-> "none"]
    /\ row = [r \in Requests |-> "none"]
    /\ attempts = [r \in Requests |-> <<>>]
    /\ crashes = 0
    /\ dbErrors = 0

-------------------------------------------------------------------------------
(* A write to the database, or its refusal. An UPDATE of a row that was    *)
(* never created finds nothing.                                            *)
Refusals == IF dbErrors < MaxDbErrors THEN BOOLEAN ELSE {FALSE}

Count(refused) == dbErrors' = IF refused THEN dbErrors + 1 ELSE dbErrors

Created(value, refused) == IF refused THEN "none" ELSE value

Updated(old, value, refused) == IF refused \/ old = "none" THEN old ELSE value

GoTo(r, label) == pc' = [pc EXCEPT ![r] = label]

SetStatus(r, new, refused) ==
    /\ status' = [status EXCEPT ![r] = new]
    /\ row' = [row EXCEPT ![r] = Updated(@, new, refused)]
    /\ Count(refused)

Last(r) == attempts[r][Len(attempts[r])]

(* currentAttempt is not nil exactly while it is IN_PROGRESS.              *)
CurrentAttempt(r) == attempts[r] # <<>> /\ Last(r).status = "IN_PROGRESS"

(* Mutant of SetAttempt: the row is not updated.                           *)
SetAttemptInMemory(r, new, refused) ==
    /\ attempts' = [attempts EXCEPT ![r][Len(attempts[r])] = [@ EXCEPT !.status = new]]
    /\ Count(refused)

SetAttempt(r, new, refused) ==
    /\ attempts' = [attempts EXCEPT ![r][Len(attempts[r])] =
                       [@ EXCEPT !.status = new, !.row = Updated(Last(r).row, new, refused)]]
    /\ Count(refused)

-------------------------------------------------------------------------------
(* Router.Match: the project's own routes if it has any, else the global   *)
(* ones, in the strategy's order. The sort by position is not stable.      *)
Enabled(r) == {route \in Routes : Route[route].enabled /\ Route[route].clientType = Type[r]}

ProjectRoutes(r) ==
    {route \in Enabled(r) : Project[r] # Global /\ Route[route].project = Project[r]}

Filtered(r) ==
    IF ProjectRoutes(r) # {}
      THEN ProjectRoutes(r)
      ELSE {route \in Enabled(r) : Route[route].project = Global}

Strategy(project) ==
    IF project \in DOMAIN Strategies THEN Strategies[project]
    ELSE IF Global \in DOMAIN Strategies THEN Strategies[Global]
    ELSE "priority"

Orders(r) ==
    {order \in [1..Cardinality(Filtered(r)) -> Filtered(r)] :
        /\ \A route \in Filtered(r) : \E i \in DOMAIN order : order[i] = route
        /\ Strategy(Project[r]) # "weighted_random" =>
              \A i, j \in DOMAIN order :
                  i < j => Route[order[i]].position <= Route[order[j]].position}

Match(r) ==
    /\ up
    /\ pc[r] = "idle"
    /\ IF Filtered(r) = {}
         THEN /\ GoTo(r, "returned")
              /\ UNCHANGED candidates
         ELSE /\ GoTo(r, "matching")
              /\ \E order \in Orders(r) : candidates' = [candidates EXCEPT ![r] = order]
    /\ UNCHANGED <<up, gate, gone, matched, routeIdx, attempt, audit, bounds>>

IsInCooldown(provider, clientType) ==
    <<provider, AllTypes>> \in cooling \/ <<provider, clientType>> \in cooling

(* The cooldown manager is asked route by route, each time under its lock. *)
MatchRoute(r) ==
    /\ pc[r] = "matching"
    /\ candidates[r] # <<>>
    /\ LET route == Head(candidates[r])
           provider == Route[route].provider
           taken == provider \in Deployed /\ ~IsInCooldown(provider, Type[r])
       IN  matched' = IF taken THEN [matched EXCEPT ![r] = Append(@, route)] ELSE matched
    /\ candidates' = [candidates EXCEPT ![r] = Tail(@)]
    /\ UNCHANGED <<up, gate, pc, gone, routeIdx, attempt, audit, bounds>>

(* Nothing matched: Execute returns before there is a record.              *)
NoRoutes(r) ==
    /\ pc[r] = "matching"
    /\ candidates[r] = <<>> /\ matched[r] = <<>>
    /\ GoTo(r, "returned")
    /\ UNCHANGED <<up, gate, gone, progress, audit, bounds>>

CreateRequest(r) ==
    /\ pc[r] = "matching"
    /\ candidates[r] = <<>> /\ matched[r] # <<>>
    /\ \E refused \in Refusals :
          /\ status' = [status EXCEPT ![r] = "IN_PROGRESS"]
          /\ row' = [row EXCEPT ![r] = Created("IN_PROGRESS", refused)]
          /\ Count(refused)
    /\ GoTo(r, "route")
    /\ UNCHANGED <<up, gate, gone, progress, attempts, crashes>>

-------------------------------------------------------------------------------
CurrentRoute(r) == matched[r][routeIdx[r]]

NextRoute(r) ==
    /\ pc[r] = "route"
    /\ routeIdx[r] < Len(matched[r])
    /\ IF gone[r]
         THEN /\ GoTo(r, "defer")
              /\ UNCHANGED <<routeIdx, attempt>>
         ELSE /\ GoTo(r, "attempt")
              /\ routeIdx' = [routeIdx EXCEPT ![r] = @ + 1]
              /\ attempt' = [attempt EXCEPT ![r] = 0]
    /\ UNCHANGED <<up, gate, gone, candidates, matched, audit, bounds>>

(* All routes exhausted.                                                   *)
FailRequest(r) ==
    /\ pc[r] = "route"
    /\ routeIdx[r] = Len(matched[r])
    /\ \E refused \in Refusals : SetStatus(r, "FAILED", refused)
    /\ GoTo(r, "defer")
    /\ UNCHANGED <<up, gate, gone, progress, attempts, crashes>>

(* The context is looked at, the attempt's row is created, the adapter is  *)
(* called: a client may leave, or the process crash, between any two.      *)
CheckContext(r) ==
    /\ pc[r] = "attempt"
    /\ GoTo(r, IF gone[r] THEN "defer" ELSE "create")
    /\ UNCHANGED <<up, gate, gone, progress, audit, bounds>>

CreateAttempt(r) ==
    /\ pc[r] = "create"
    /\ \E refused \in Refusals :
          /\ attempts' = [attempts EXCEPT ![r] = Append(@,
                [route |-> CurrentRoute(r), outcome |-> NoOutcome,
                 status |-> "IN_PROGRESS", row |-> Created("IN_PROGRESS", refused)])]
          /\ Count(refused)
    /\ GoTo(r, "call")
    /\ UNCHANGED <<up, gate, gone, progress, status, row, crashes>>

CallAdapter(r) ==
    /\ pc[r] = "call"
    /\ GoTo(r, "upstream")
    /\ UNCHANGED <<up, gate, gone, progress, audit, bounds>>

(* ProviderAdapter.Execute comes back. An error that names a client type   *)
(* names the request's. A panic unwinds into the deferred function.        *)
Answer(r, outcome) ==
    /\ pc[r] = "upstream"
    /\ outcome.scope \in {AllTypes, Type[r]}
    /\ attempts' = [attempts EXCEPT ![r][Len(attempts[r])].outcome = outcome]
    /\ GoTo(r, IF outcome.kind = "panic" THEN "defer" ELSE "answered")
    /\ UNCHANGED <<up, gate, gone, progress, status, row, bounds>>

CompleteAttempt(r) ==
    /\ pc[r] = "answered"
    /\ Last(r).outcome.kind = "ok"
    /\ \E refused \in Refusals : SetAttempt(r, "COMPLETED", refused)
    /\ GoTo(r, "completed")
    /\ UNCHANGED <<up, gate, gone, progress, status, row, crashes>>

(* RecordSuccess forgives failure counts and ends no cooldown.             *)
CompleteRequest(r) ==
    /\ pc[r] = "completed"
    /\ \E refused \in Refusals : SetStatus(r, "COMPLETED", refused)
    /\ GoTo(r, "defer")
    /\ UNCHANGED <<up, gate, gone, progress, attempts, crashes>>

FailAttempt(r) ==
    /\ pc[r] = "answered"
    /\ Last(r).outcome.kind = "error"
    /\ \E refused \in Refusals :
          SetAttempt(r, IF gone[r] THEN "CANCELLED" ELSE "FAILED", refused)
    /\ GoTo(r, "failed")
    /\ UNCHANGED <<up, gate, gone, progress, status, row, crashes>>

-------------------------------------------------------------------------------
(* The client type of an error, or the request's when it names none.       *)
CooldownKey(r) ==
    LET scope == Last(r).outcome.scope
    IN  <<Route[CurrentRoute(r)].provider, IF scope = AllTypes THEN Type[r] ELSE scope>>

(* Any deadline replaces the one before: one that is already past ends the *)
(* cooldown.                                                               *)
SetCooldown(key, ahead) ==
    cooling' = IF ahead THEN cooling \cup {key} ELSE cooling \ {key}

handleCooldown(r) ==
    /\ SetCooldown(CooldownKey(r), Last(r).outcome.ahead)
    /\ updates' = IF Last(r).outcome.async
                    THEN [updates EXCEPT ![CooldownKey(r)] = @ + 1]
                    ELSE updates

(* Mutant of MayRetry: the last retry is not made.                         *)
MayRetryOnceLess(r) ==
    /\ Last(r).outcome.retryable
    /\ attempt[r] + 1 < Route[CurrentRoute(r)].maxRetries

MayRetry(r) ==
    /\ Last(r).outcome.retryable
    /\ attempt[r] < Route[CurrentRoute(r)].maxRetries

(* Mutant of Judge: the cooldown is recorded before the context is looked  *)
(* at.                                                                     *)
JudgeHastily(r) ==
    /\ pc[r] = "failed"
    /\ handleCooldown(r)
    /\ GoTo(r, IF gone[r] THEN "defer" ELSE IF MayRetry(r) THEN "wait" ELSE "route")
    /\ UNCHANGED <<up, gone, progress, audit, bounds>>

Judge(r) ==
    /\ pc[r] = "failed"
    /\ IF gone[r]
         THEN /\ GoTo(r, "defer")
              /\ UNCHANGED gate
         ELSE /\ handleCooldown(r)
              /\ GoTo(r, IF MayRetry(r) THEN "wait" ELSE "route")
    /\ UNCHANGED <<up, gone, progress, audit, bounds>>

(* The backoff's select: its timer, or the client leaving, whichever Go    *)
(* picks when both are ready.                                              *)
Retry(r) ==
    /\ pc[r] = "wait"
    /\ attempt' = [attempt EXCEPT ![r] = @ + 1]
    /\ GoTo(r, "attempt")
    /\ UNCHANGED <<up, gate, gone, candidates, matched, routeIdx, audit, bounds>>

StopWaiting(r) ==
    /\ pc[r] = "wait"
    /\ gone[r]
    /\ GoTo(r, "defer")
    /\ UNCHANGED <<up, gate, gone, progress, audit, bounds>>

(* Mutant of DeferRequest: it trusts the loops to have settled the request.*)
DeferRequestTrusting(r) ==
    /\ pc[r] = "defer"
    /\ GoTo(r, "deferAttempt")
    /\ UNCHANGED <<up, gate, gone, progress, audit, bounds>>

(* The deferred function, which runs on every way out of Execute.          *)
DeferRequest(r) ==
    /\ pc[r] = "defer"
    /\ IF status[r] = "IN_PROGRESS"
         THEN \E refused \in Refusals :
                 SetStatus(r, IF gone[r] THEN "CANCELLED" ELSE "FAILED", refused)
         ELSE UNCHANGED <<status, row, dbErrors>>
    /\ GoTo(r, "deferAttempt")
    /\ UNCHANGED <<up, gate, gone, progress, attempts, crashes>>

(* Mutant of DeferAttempt: the attempt a panic left open stays open.       *)
DeferAttemptForgotten(r) ==
    /\ pc[r] = "deferAttempt"
    /\ GoTo(r, "returned")
    /\ UNCHANGED <<up, gate, gone, progress, audit, bounds>>

DeferAttempt(r) ==
    /\ pc[r] = "deferAttempt"
    /\ IF CurrentAttempt(r)
         THEN \E refused \in Refusals :
                 SetAttempt(r, IF gone[r] THEN "CANCELLED" ELSE "FAILED", refused)
         ELSE UNCHANGED <<attempts, dbErrors>>
    /\ GoTo(r, "returned")
    /\ UNCHANGED <<up, gate, gone, progress, status, row, crashes>>

-------------------------------------------------------------------------------
(* The client closes its connection, or its patience ends.                 *)
Disconnect(r) ==
    /\ pc[r] \in Active
    /\ ~gone[r]
    /\ gone' = [gone EXCEPT ![r] = TRUE]
    /\ UNCHANGED <<up, gate, pc, progress, audit, bounds>>

(* handleAsyncCooldownUpdate: the quota answer, or 15 seconds without one. *)
DeliverUpdate(key, ahead) ==
    /\ updates[key] > 0
    /\ updates' = [updates EXCEPT ![key] = @ - 1]
    /\ SetCooldown(key, ahead)
    /\ UNCHANGED <<up, pc, gone, progress, audit, bounds>>

(* Mutant of TimeOutUpdate: a wait ends that never began.                  *)
TimeOutUpdateUnstarted(key) ==
    /\ updates' = [updates EXCEPT ![key] = @ - 1]
    /\ UNCHANGED <<up, cooling, pc, gone, progress, audit, bounds>>

TimeOutUpdate(key) ==
    /\ updates[key] > 0
    /\ updates' = [updates EXCEPT ![key] = @ - 1]
    /\ UNCHANGED <<up, cooling, pc, gone, progress, audit, bounds>>

Lapse(key) ==
    /\ key \in cooling
    /\ cooling' = cooling \ {key}
    /\ UNCHANGED <<up, updates, pc, gone, progress, audit, bounds>>

(* The administrator clears a provider's cooldowns.                        *)
Release(provider) ==
    /\ \E key \in cooling : key[1] = provider
    /\ cooling' = {key \in cooling : key[1] # provider}
    /\ UNCHANGED <<up, updates, pc, gone, progress, audit, bounds>>

Crash ==
    /\ up
    /\ crashes < MaxCrashes
    /\ up' = FALSE
    /\ crashes' = crashes + 1
    /\ pc' = [r \in Requests |-> IF pc[r] \in Active THEN "dead" ELSE pc[r]]
    /\ updates' = [key \in Keys |-> 0]
    /\ UNCHANGED <<cooling, gone, progress, audit, dbErrors>>

(* The next process finds some cooldowns lapsed or lost, and closes the    *)
(* request rows of the instance before it.                                 *)
MarkStaleAsFailed ==
    row' = [r \in Requests |-> IF row[r] = "IN_PROGRESS" THEN "FAILED" ELSE row[r]]

Restart ==
    /\ ~up
    /\ up' = TRUE
    /\ cooling' \in SUBSET cooling
    /\ MarkStaleAsFailed
    /\ UNCHANGED <<updates, pc, gone, progress, status, attempts, bounds>>

-------------------------------------------------------------------------------
(* Steps the code takes by itself once it is at their label.               *)
Step(r) ==
    \/ MatchRoute(r) \/ NoRoutes(r) \/ CreateRequest(r)
    \/ NextRoute(r) \/ FailRequest(r)
    \/ CheckContext(r) \/ CreateAttempt(r) \/ CallAdapter(r)
    \/ CompleteAttempt(r) \/ CompleteRequest(r) \/ FailAttempt(r)
    \/ Judge(r) \/ Retry(r) \/ StopWaiting(r)
    \/ DeferRequest(r) \/ DeferAttempt(r)

Return(r) == \E outcome \in Outcomes : Answer(r, outcome)

Next ==
    \/ \E r \in Requests : Match(r) \/ Step(r) \/ Return(r) \/ Disconnect(r)
    \/ \E key \in Keys :
          \/ \E ahead \in BOOLEAN : DeliverUpdate(key, ahead)
          \/ TimeOutUpdate(key)
          \/ Lapse(key)
    \/ \E provider \in Providers : Release(provider)
    \/ Crash
    \/ Restart

Spec == Init /\ [][Next]_vars

(* The scheduler runs every goroutine, timers fire, and a process that     *)
(* died is started again.  An HTTP client with a timeout comes back, and   *)
(* so does any once the request's context is done, which it carries.       *)
CodeRuns ==
    /\ \A r \in Requests :
          /\ WF_vars(Step(r))
          /\ WF_vars(pc[r] = "upstream" /\ Route[CurrentRoute(r)].provider \in Timed /\ Return(r))
          /\ WF_vars(gone[r] /\ Return(r))
    /\ WF_vars(Restart)

(* Upstreams answer or clients lose patience.                              *)
Patience == \A r \in Requests : WF_vars(pc[r] = "upstream" /\ (Return(r) \/ Disconnect(r)))

FairSpec == Spec /\ CodeRuns /\ Patience

-------------------------------------------------------------------------------
(* What the audit tables show of all this.                                 *)
Lifecycle == INSTANCE RequestLifecycle WITH
    status  <- row,
    trail   <- [r \in Requests |-> [i \in DOMAIN attempts[r] |-> attempts[r][i].row]],
    running <- {r \in Requests : pc[r] \in Active},
    trusted <- dbErrors = 0

ImplementsLifecycle == Lifecycle!LifecycleSpec

(* Whatever way Execute is left - success, exhaustion, the client leaving  *)
(* between any two checks, a panic - nothing stays IN_PROGRESS, success    *)
(* means its last attempt's success, and the rows say what memory said.    *)
AuditSettled ==
    \A r \in Requests : pc[r] = "returned" /\ status[r] # "none" =>
        /\ status[r] \in Final
        /\ status[r] = "COMPLETED" <=> attempts[r] # <<>> /\ Last(r).outcome.kind = "ok"
        /\ \A i \in DOMAIN attempts[r] : attempts[r][i].status \in Final
        /\ dbErrors = 0 =>
              /\ row[r] = status[r]
              /\ \A i \in DOMAIN attempts[r] : attempts[r][i].row = attempts[r][i].status

(* A failed request tried every route it matched, each until an error that *)
(* is not retryable or until its retries were used up, and no further.     *)
TriesOn(r, route) == {i \in DOMAIN attempts[r] : attempts[r][i].route = route}

NoRouteGivenUpEarly ==
    \A r \in Requests : \A n \in DOMAIN matched[r] :
        LET route == matched[r][n]
            tries == TriesOn(r, route)
            limit == Route[route].maxRetries + 1
        IN  /\ Cardinality(tries) <= limit
            /\ \A i, j \in tries : i < j => attempts[r][i].outcome.retryable
            /\ \/ routeIdx[r] <= n /\ status[r] # "FAILED"
               \/ Cardinality(tries) = limit
               \/ \E i \in tries : ~attempts[r][i].outcome.retryable
               \/ attempts[r] # <<>> /\ Last(r).outcome.kind = "panic"

(* A provider cools for a client type only because an attempt of a request *)
(* of that type failed while its client was there: a client that leaves    *)
(* costs no provider its turn, and no late quota answer outlives that.     *)
CoolingIsEarned ==
    \A key \in cooling : \E r \in Requests : \E i \in DOMAIN attempts[r] :
        /\ Type[r] = key[2]
        /\ Route[attempts[r][i].route].provider = key[1]
        /\ attempts[r][i].status = "FAILED"

(* Every request comes to an end, and so does its row, across a crash too: *)
(* the retries are bounded, waits end, and the next process buries what    *)
(* the last one left.                                                      *)
RequestsSettle ==
    \A r \in Requests :
        /\ pc[r] \in Active ~> pc[r] \in {"returned", "dead"}
        /\ row[r] = "IN_PROGRESS" ~> row[r] # "IN_PROGRESS" \/ dbErrors > 0

-------------------------------------------------------------------------------
(* design.md:38: an attempt that has written to the client is the last.    *)
WrittenIsNotRetried ==
    \A r \in Requests : \A i \in DOMAIN attempts[r] :
        attempts[r][i].outcome.wrote => i = Len(attempts[r])

===============================================================================
