---------------------------- MODULE ExecutorProofs ----------------------------
(***************************************************************************)
(* Theorems about the executor, for any requests, routes, providers and    *)
(* client types, any outcomes and any number of crashes and refused        *)
(* writes: its types, its cooldowns, its audit trail and its retries.      *)
(***************************************************************************)
EXTENDS Executor, FunctionTheorems, SequenceTheorems, FiniteSetTheorems, TLAPS

(* A request of the key's client type failed at the key's provider.        *)
Earned(key) ==
    \E r \in Requests : \E i \in DOMAIN attempts[r] :
        /\ Type[r] = key[2]
        /\ Route[attempts[r][i].route].provider = key[1]
        /\ attempts[r][i].status = "FAILED"

(* Where a request is in the loops agrees with what it has matched, tried  *)
(* and recorded.                                                           *)
Positioned(r) ==
    /\ routeIdx[r] <= Len(matched[r])
    /\ pc[r] \in {"attempt", "create", "call", "upstream", "answered", "completed",
                "failed", "wait"} =>
          routeIdx[r] >= 1

Tried(r) ==
    pc[r] \in {"call", "upstream", "answered", "completed", "failed", "wait"} =>
        /\ attempts[r] # <<>>
        /\ Last(r).route = CurrentRoute(r)
        /\ pc[r] \in {"call", "upstream", "answered"} => Last(r).status = "IN_PROGRESS"
        /\ pc[r] \notin {"call", "upstream"} => Last(r).outcome.scope \in {AllTypes, Type[r]}
        /\ pc[r] = "failed" /\ ~gone[r] => Last(r).status = "FAILED"

Recorded(r) ==
    /\ pc[r] \in {"idle", "matching"} => status[r] = "none"
    /\ pc[r] \in Active \ {"matching"} => status[r] # "none"

RequestInv(r) == Positioned(r) /\ Tried(r) /\ Recorded(r)

(* Both what cools and what a pending quota answer may yet cool is earned. *)
GateInv ==
    /\ \A key \in cooling : Earned(key)
    /\ \A key \in Keys : updates[key] > 0 => Earned(key)

IInv == TypeOK /\ (\A r \in Requests : RequestInv(r)) /\ GateInv

(* An attempt keeps its route, and one that failed has failed for good.    *)
Kept ==
    \A r \in Requests : \A i \in DOMAIN attempts[r] :
        /\ i \in DOMAIN attempts'[r]
        /\ attempts'[r][i].route = attempts[r][i].route
        /\ attempts[r][i].status = "FAILED" => attempts'[r][i].status = "FAILED"

-------------------------------------------------------------------------------
(* Replacing the last element of a sequence.                               *)
LEMMA LastReplaced ==
  ASSUME NEW S, NEW s \in Seq(S), s # <<>>, NEW e \in S
  PROVE  /\ [s EXCEPT ![Len(s)] = e] \in Seq(S)
         /\ Len([s EXCEPT ![Len(s)] = e]) = Len(s)
         /\ [s EXCEPT ![Len(s)] = e][Len(s)] = e
         /\ \A i \in 1..(Len(s) - 1) : [s EXCEPT ![Len(s)] = e][i] = s[i]
OBVIOUS

(* One more element at the end of a sequence.                              *)
LEMMA OneMore ==
  ASSUME NEW S, NEW s \in Seq(S), NEW e \in S
  PROVE  /\ Append(s, e) \in Seq(S)
         /\ Len(Append(s, e)) = Len(s) + 1
         /\ Append(s, e)[Len(s) + 1] = e
         /\ \A i \in 1..Len(s) : Append(s, e)[i] = s[i]
         /\ Append(s, e) # <<>>
OBVIOUS

-------------------------------------------------------------------------------
(* What the constants' assumptions say of a route and of an outcome.       *)
LEMMA RouteType ==
  ASSUME NEW route \in Routes
  PROVE  /\ Route[route].provider \in Providers
         /\ Route[route].clientType \in ClientTypes
BY RoutesAssumption

LEMMA OutcomeType ==
  ASSUME NEW outcome \in Outcomes \cup {NoOutcome}
  PROVE  outcome.scope \in ClientTypes \cup {AllTypes}
BY OutcomesAssumption DEF NoOutcome

(* A write's refusal is counted within its bound.                          *)
LEMMA CountType ==
  ASSUME TypeOK, NEW refused \in Refusals, Count(refused)
  PROVE  dbErrors' \in 0..MaxDbErrors
<1>1. dbErrors \in Nat /\ dbErrors <= MaxDbErrors
  BY RoutesAssumption DEF TypeOK
<1>2. CASE refused
  <2>1. dbErrors < MaxDbErrors
    BY <1>2 DEF Refusals
  <2> QED
    BY <1>1, <1>2, <2>1, RoutesAssumption DEF Count
<1>3. CASE ~refused
  BY <1>1, <1>3, RoutesAssumption DEF Count
<1> QED
  BY <1>2, <1>3

LEMMA RowType ==
  ASSUME NEW new \in Statuses, NEW old \in Statuses \cup {"none"}, NEW refused
  PROVE  /\ Created(new, refused) \in Statuses \cup {"none"}
         /\ Updated(old, new, refused) \in Statuses \cup {"none"}
BY DEF Created, Updated

(* The strategy's order is a sequence of the routes that passed the filter,*)
(* and none of them is missing.                                            *)
LEMMA OrdersType ==
  ASSUME NEW r \in Requests, NEW order \in Orders(r)
  PROVE  /\ order \in Seq(Routes)
         /\ \A route \in Filtered(r) : \E i \in DOMAIN order : order[i] = route
<1>1. Filtered(r) \in SUBSET Routes
  BY DEF Filtered, ProjectRoutes, Enabled
<1>2. Cardinality(Filtered(r)) \in Nat
  BY <1>1, FS_Subset, FS_CardinalityType, RoutesAssumption
<1>3. order \in [1..Cardinality(Filtered(r)) -> Routes]
  BY <1>1 DEF Orders
<1>4. order \in Seq(Routes)
  BY <1>2, <1>3
<1> QED
  BY <1>4 DEF Orders

-------------------------------------------------------------------------------
(* Rewriting a request's last attempt: the trail keeps its length, its     *)
(* routes and its failures, and no other trail changes.                    *)
LEMMA Rewritten ==
  ASSUME TypeOK, NEW r \in Requests, attempts[r] # <<>>, NEW e \in Attempts,
         e.route = Last(r).route,
         Last(r).status = "FAILED" => e.status = "FAILED",
         attempts' = [attempts EXCEPT ![r][Len(attempts[r])] = e]
  PROVE  /\ attempts' \in [Requests -> Seq(Attempts)]
         /\ attempts'[r] # <<>>
         /\ Last(r)' = e
         /\ Kept
         /\ \A s \in Requests : Len(attempts'[s]) = Len(attempts[s])
         /\ \A s \in Requests \ {r} : attempts'[s] = attempts[s]
<1> DEFINE n == Len(attempts[r])
<1>1. attempts \in [Requests -> Seq(Attempts)]
  BY DEF TypeOK
<1>2. attempts[r] \in Seq(Attempts)
  BY <1>1
<1>3. n \in Nat \ {0}
  BY <1>2
<1>4. attempts'[r] = [attempts[r] EXCEPT ![n] = e]
  BY <1>1
<1>5. \A s \in Requests \ {r} : attempts'[s] = attempts[s]
  BY <1>1
<1>6. /\ attempts'[r] \in Seq(Attempts)
      /\ Len(attempts'[r]) = n
      /\ attempts'[r][n] = e
      /\ \A i \in 1..(n - 1) : attempts'[r][i] = attempts[r][i]
  BY <1>2, <1>4, LastReplaced
<1>7. attempts' \in [Requests -> Seq(Attempts)]
  BY <1>1, <1>5, <1>6
<1>8. Kept
  <2>1. ASSUME NEW i \in DOMAIN attempts[r]
        PROVE  /\ i \in DOMAIN attempts'[r]
               /\ attempts'[r][i].route = attempts[r][i].route
               /\ attempts[r][i].status = "FAILED" => attempts'[r][i].status = "FAILED"
    <3>1. i \in 1..n /\ i \in DOMAIN attempts'[r]
      BY <1>2, <1>6, <2>1
    <3>2. CASE i = n
      BY <1>6, <3>1, <3>2 DEF Last
    <3>3. CASE i # n
      <4>1. i \in 1..(n - 1)
        BY <1>3, <3>1, <3>3
      <4> QED
        BY <1>6, <3>1, <4>1
    <3> QED
      BY <3>2, <3>3
  <2> QED
    BY <1>5, <2>1 DEF Kept
<1>9. attempts'[r] # <<>>
  BY <1>3, <1>6
<1>10. Last(r)' = e
  BY <1>6 DEF Last
<1>11. \A s \in Requests : Len(attempts'[s]) = Len(attempts[s])
  BY <1>5, <1>6
<1> QED
  BY <1>5, <1>7, <1>8, <1>9, <1>10, <1>11

(* The same of a change of its status, while it is the current attempt.    *)
LEMMA StatusSet ==
  ASSUME TypeOK, NEW r \in Requests, CurrentAttempt(r), NEW new \in Statuses,
         NEW refused, SetAttempt(r, new, refused)
  PROVE  /\ attempts' \in [Requests -> Seq(Attempts)]
         /\ attempts'[r] # <<>>
         /\ Last(r)'.status = new
         /\ Last(r)'.route = Last(r).route
         /\ Last(r)'.outcome = Last(r).outcome
         /\ Kept
         /\ \A s \in Requests : Len(attempts'[s]) = Len(attempts[s])
         /\ \A s \in Requests \ {r} : attempts'[s] = attempts[s]
<1> DEFINE e == [Last(r) EXCEPT !.status = new, !.row = Updated(Last(r).row, new, refused)]
<1>1. attempts \in [Requests -> Seq(Attempts)] /\ attempts[r] # <<>>
  BY DEF TypeOK, CurrentAttempt
<1>2. Last(r) \in Attempts
  BY <1>1 DEF Last
<1>3. Updated(Last(r).row, new, refused) \in Statuses \cup {"none"}
  BY <1>2, RowType DEF Attempts
<1>4. e \in Attempts
  BY <1>2, <1>3 DEF Attempts
<1>5. e.route = Last(r).route /\ e.status = new /\ e.outcome = Last(r).outcome
  BY <1>2 DEF Attempts
<1>6. attempts' = [attempts EXCEPT ![r][Len(attempts[r])] = e]
  BY <1>1 DEF SetAttempt, Last
<1>7. Last(r).status # "FAILED"
  BY DEF CurrentAttempt
<1> HIDE DEF e
<1> QED
  BY <1>1, <1>4, <1>5, <1>6, <1>7, Rewritten
(* An adapter's answer keeps the status of the attempt it answers.         *)
LEMMA Answered ==
  ASSUME IInv, NEW r \in Requests, NEW outcome \in Outcomes, Answer(r, outcome)
  PROVE  /\ attempts' \in [Requests -> Seq(Attempts)]
         /\ attempts'[r] # <<>>
         /\ Last(r)'.status = Last(r).status
         /\ Last(r)'.route = Last(r).route
         /\ Last(r)'.outcome = outcome
         /\ Kept
         /\ \A s \in Requests : Len(attempts'[s]) = Len(attempts[s])
         /\ \A s \in Requests \ {r} : attempts'[s] = attempts[s]
<1> DEFINE e == [Last(r) EXCEPT !.outcome = outcome]
<1>1. attempts \in [Requests -> Seq(Attempts)] /\ attempts[r] # <<>>
  BY DEF IInv, TypeOK, RequestInv, Tried, Answer
<1>2. Last(r) \in Attempts
  BY <1>1 DEF Last
<1>3. e \in Attempts
  BY <1>2 DEF Attempts
<1>4. e.route = Last(r).route /\ e.status = Last(r).status /\ e.outcome = outcome
  BY <1>2 DEF Attempts
<1>5. attempts' = [attempts EXCEPT ![r][Len(attempts[r])] = e]
  BY <1>1 DEF Answer, Last
<1> HIDE DEF e
<1> QED
  BY <1>1, <1>3, <1>4, <1>5, Rewritten DEF IInv

(* The current route is one of the matched ones.                           *)
LEMMA CurrentRouteType ==
  ASSUME TypeOK, NEW r \in Requests, Positioned(r),
         pc[r] \in {"attempt", "create", "call", "upstream", "answered", "completed",
                "failed", "wait"}
  PROVE  CurrentRoute(r) \in Routes
<1>1. matched[r] \in Seq(Routes) /\ routeIdx[r] \in Nat
  BY DEF TypeOK
<1>2. routeIdx[r] \in 1..Len(matched[r])
  BY <1>1 DEF Positioned
<1> QED
  BY <1>1, <1>2 DEF CurrentRoute

(* A new attempt on the current route leaves the ones before it alone.     *)
LEMMA Started ==
  ASSUME IInv, NEW r \in Requests, pc[r] = "create", NEW refused,
         attempts' = [attempts EXCEPT ![r] = Append(@,
             [route |-> CurrentRoute(r), outcome |-> NoOutcome,
              status |-> "IN_PROGRESS", row |-> Created("IN_PROGRESS", refused)])]
  PROVE  /\ attempts' \in [Requests -> Seq(Attempts)]
         /\ attempts'[r] # <<>>
         /\ Last(r)'.status = "IN_PROGRESS"
         /\ Last(r)'.route = CurrentRoute(r)
         /\ Kept
         /\ \A s \in Requests \ {r} : attempts'[s] = attempts[s]
<1> DEFINE e == [route |-> CurrentRoute(r), outcome |-> NoOutcome,
                 status |-> "IN_PROGRESS", row |-> Created("IN_PROGRESS", refused)]
<1>1. attempts \in [Requests -> Seq(Attempts)] /\ attempts[r] \in Seq(Attempts)
  BY DEF IInv, TypeOK
<1>2. CurrentRoute(r) \in Routes
  BY CurrentRouteType DEF IInv, RequestInv
<1>3. Created("IN_PROGRESS", refused) \in Statuses \cup {"none"}
  BY RowType DEF Statuses
<1>4. e \in Attempts
  BY <1>2, <1>3 DEF Attempts, Statuses
<1>5. attempts'[r] = Append(attempts[r], e)
  BY <1>1
<1>6. \A s \in Requests \ {r} : attempts'[s] = attempts[s]
  BY <1>1
<1>7. e.route = CurrentRoute(r) /\ e.status = "IN_PROGRESS"
  OBVIOUS
<1> HIDE DEF e
<1>8. /\ attempts'[r] \in Seq(Attempts)
      /\ Len(attempts'[r]) = Len(attempts[r]) + 1
      /\ attempts'[r][Len(attempts[r]) + 1] = e
      /\ \A i \in 1..Len(attempts[r]) : attempts'[r][i] = attempts[r][i]
      /\ attempts'[r] # <<>>
  BY <1>1, <1>4, <1>5, OneMore
<1>9. attempts' \in [Requests -> Seq(Attempts)]
  <2>1. DOMAIN attempts' = Requests /\ attempts' = [s \in Requests |-> attempts'[s]]
    BY <1>1
  <2> QED
    BY <1>1, <1>6, <1>8, <2>1
<1>10. Last(r)' = e
  BY <1>8 DEF Last
<1>11. Kept
  <2>1. ASSUME NEW i \in DOMAIN attempts[r]
        PROVE  i \in DOMAIN attempts'[r] /\ attempts'[r][i] = attempts[r][i]
    BY <1>1, <1>8, <2>1
  <2> QED
    BY <1>6, <2>1 DEF Kept
<1> QED
  BY <1>6, <1>7, <1>8, <1>9, <1>10, <1>11
(* An attempt's error is about a key of the request's client type, whether *)
(* it names it or not.                                                     *)
LEMMA CooldownKeyType ==
  ASSUME IInv, NEW r \in Requests, pc[r] = "failed"
  PROVE  /\ CooldownKey(r) = <<Route[Last(r).route].provider, Type[r]>>
         /\ CooldownKey(r) \in Keys
<1>1. Last(r).route = CurrentRoute(r) /\ Last(r).outcome.scope \in {AllTypes, Type[r]}
  BY DEF IInv, RequestInv, Tried
<1>2. CooldownKey(r) = <<Route[Last(r).route].provider, Type[r]>>
  BY <1>1 DEF CooldownKey
<1>3. CurrentRoute(r) \in Routes
  BY CurrentRouteType DEF IInv, RequestInv
<1>4. Type[r] \in ClientTypes
  BY RoutesAssumption
<1> QED
  BY <1>1, <1>2, <1>3, <1>4, RouteType DEF Keys

-------------------------------------------------------------------------------
(* Every step keeps the types.                                             *)
LEMMA StepType ==
  ASSUME IInv, NEW r \in Requests, Step(r)
  PROVE  TypeOK'
<1> USE DEF IInv, progress, audit, gate, bounds
<1>1. CASE MatchRoute(r)
  <2>1. candidates[r] \in Seq(Routes) /\ candidates[r] # <<>> /\ matched[r] \in Seq(Routes)
    BY <1>1 DEF MatchRoute, TypeOK
  <2>2. Head(candidates[r]) \in Routes /\ Tail(candidates[r]) \in Seq(Routes)
    BY <2>1, HeadTailProperties
  <2>3. Append(matched[r], Head(candidates[r])) \in Seq(Routes)
    BY <2>1, <2>2, OneMore
  <2>4. candidates' \in [Requests -> Seq(Routes)] /\ matched' \in [Requests -> Seq(Routes)]
    BY <1>1, <2>2, <2>3 DEF MatchRoute, TypeOK
  <2> QED
    BY <1>1, <2>4 DEF MatchRoute, TypeOK
<1>2. CASE NoRoutes(r)
  BY <1>2 DEF NoRoutes, GoTo, TypeOK
<1>3. CASE CreateRequest(r)
  <2>1. PICK refused \in Refusals :
            /\ status' = [status EXCEPT ![r] = "IN_PROGRESS"]
            /\ row' = [row EXCEPT ![r] = Created("IN_PROGRESS", refused)]
            /\ Count(refused)
    BY <1>3 DEF CreateRequest
  <2>2. dbErrors' \in 0..MaxDbErrors
    BY <2>1, CountType
  <2>3. Created("IN_PROGRESS", refused) \in Statuses \cup {"none"}
    BY RowType DEF Statuses
  <2>4. /\ status' \in [Requests -> Statuses \cup {"none"}]
        /\ row' \in [Requests -> Statuses \cup {"none"}]
    BY <2>1, <2>3 DEF TypeOK, Statuses
  <2>5. pc' \in [Requests -> Active \cup {"idle", "returned", "dead"}]
    BY <1>3 DEF CreateRequest, GoTo, TypeOK, Active
  <2> QED
    BY <1>3, <2>2, <2>4, <2>5 DEF CreateRequest, TypeOK
<1>4. CASE NextRoute(r)
  <2>1. pc' \in [Requests -> Active \cup {"idle", "returned", "dead"}]
    BY <1>4 DEF NextRoute, GoTo, TypeOK, Active
  <2>2. routeIdx[r] + 1 \in Nat
    BY DEF TypeOK
  <2>3. routeIdx' \in [Requests -> Nat] /\ attempt' \in [Requests -> Nat]
    BY <1>4, <2>2, SMTT(60) DEF NextRoute, TypeOK
  <2> QED
    BY <1>4, <2>1, <2>3 DEF NextRoute, TypeOK
<1>5. ASSUME NEW new \in Statuses, NEW refused \in Refusals, SetStatus(r, new, refused)
      PROVE  /\ status' \in [Requests -> Statuses \cup {"none"}]
             /\ row' \in [Requests -> Statuses \cup {"none"}]
             /\ dbErrors' \in 0..MaxDbErrors
  <2>1. dbErrors' \in 0..MaxDbErrors
    BY <1>5, CountType DEF SetStatus
  <2>2. Updated(row[r], new, refused) \in Statuses \cup {"none"}
    BY RowType DEF TypeOK
  <2> QED
    BY <1>5, <2>1, <2>2 DEF SetStatus, TypeOK
<1>6. CASE FailRequest(r)
  <2>1. PICK refused \in Refusals : SetStatus(r, "FAILED", refused)
    BY <1>6 DEF FailRequest
  <2>2. "FAILED" \in Statuses
    BY DEF Statuses, Final
  <2>3. pc' \in [Requests -> Active \cup {"idle", "returned", "dead"}]
    BY <1>6 DEF FailRequest, GoTo, TypeOK, Active
  <2> QED
    BY <1>5, <1>6, <2>1, <2>2, <2>3 DEF FailRequest, TypeOK
<1>7. CASE CreateAttempt(r)
  <2>1. pc' \in [Requests -> Active \cup {"idle", "returned", "dead"}]
    BY <1>7 DEF CreateAttempt, GoTo, TypeOK, Active
  <2>2. PICK refused \in Refusals :
            /\ attempts' = [attempts EXCEPT ![r] = Append(@,
                  [route |-> CurrentRoute(r), outcome |-> NoOutcome,
                   status |-> "IN_PROGRESS", row |-> Created("IN_PROGRESS", refused)])]
            /\ Count(refused)
    BY <1>7 DEF CreateAttempt
  <2>3. dbErrors' \in 0..MaxDbErrors
    BY <2>2, CountType
  <2>4. attempts' \in [Requests -> Seq(Attempts)]
    BY <1>7, <2>2, Started DEF CreateAttempt
  <2> QED
    BY <1>7, <2>1, <2>3, <2>4 DEF CreateAttempt, TypeOK
<1>19. CASE CheckContext(r) \/ CallAdapter(r)
  <2>1. pc' \in [Requests -> Active \cup {"idle", "returned", "dead"}]
    BY <1>19 DEF CheckContext, CallAdapter, GoTo, TypeOK, Active
  <2> QED
    BY <1>19, <2>1 DEF CheckContext, CallAdapter, TypeOK
<1>8. ASSUME NEW new \in Statuses, NEW refused \in Refusals, SetAttempt(r, new, refused),
             CurrentAttempt(r)
      PROVE  /\ attempts' \in [Requests -> Seq(Attempts)]
             /\ dbErrors' \in 0..MaxDbErrors
  BY <1>8, StatusSet, CountType DEF SetAttempt
<1>9. {"COMPLETED", "CANCELLED", "FAILED"} \subseteq Statuses
  BY DEF Statuses, Final
<1>10. pc[r] = "answered" => CurrentAttempt(r)
  BY DEF RequestInv, Tried, CurrentAttempt
<1>11. CASE CompleteAttempt(r)
  <2>1. PICK refused \in Refusals : SetAttempt(r, "COMPLETED", refused)
    BY <1>11 DEF CompleteAttempt
  <2>2. pc' \in [Requests -> Active \cup {"idle", "returned", "dead"}]
    BY <1>11 DEF CompleteAttempt, GoTo, TypeOK, Active
  <2>3. attempts' \in [Requests -> Seq(Attempts)] /\ dbErrors' \in 0..MaxDbErrors
    BY <1>8, <1>9, <1>10, <1>11, <2>1 DEF CompleteAttempt
  <2> QED
    BY <1>11, <2>2, <2>3 DEF CompleteAttempt, TypeOK
<1>12. CASE CompleteRequest(r)
  <2>1. PICK refused \in Refusals : SetStatus(r, "COMPLETED", refused)
    BY <1>12 DEF CompleteRequest
  <2>2. pc' \in [Requests -> Active \cup {"idle", "returned", "dead"}]
    BY <1>12 DEF CompleteRequest, GoTo, TypeOK, Active
  <2> QED
    BY <1>5, <1>9, <1>12, <2>1, <2>2 DEF CompleteRequest, TypeOK
<1>13. CASE FailAttempt(r)
  <2>1. PICK refused \in Refusals :
            SetAttempt(r, IF gone[r] THEN "CANCELLED" ELSE "FAILED", refused)
    BY <1>13 DEF FailAttempt
  <2>2. pc' \in [Requests -> Active \cup {"idle", "returned", "dead"}]
    BY <1>13 DEF FailAttempt, GoTo, TypeOK, Active
  <2>3. (IF gone[r] THEN "CANCELLED" ELSE "FAILED") \in Statuses
    BY <1>9
  <2>4. attempts' \in [Requests -> Seq(Attempts)] /\ dbErrors' \in 0..MaxDbErrors
    BY <1>8, <1>10, <1>13, <2>1, <2>3 DEF FailAttempt
  <2> QED
    BY <1>13, <2>2, <2>4 DEF FailAttempt, TypeOK
<1>14. CASE Judge(r)
  <2>1. pc' \in [Requests -> Active \cup {"idle", "returned", "dead"}]
    BY <1>14 DEF Judge, GoTo, TypeOK, Active
  <2>2. CASE gone[r]
    BY <1>14, <2>1, <2>2 DEF Judge, TypeOK
  <2>3. CASE ~gone[r]
    <3>1. CooldownKey(r) \in Keys
      BY <1>14, CooldownKeyType DEF Judge
    <3>2. handleCooldown(r)
      BY <1>14, <2>3 DEF Judge
    <3>3. cooling' \subseteq Keys
      BY <3>1, <3>2 DEF handleCooldown, SetCooldown, TypeOK
    <3>4. updates' \in [Keys -> Nat]
      <4>1. updates[CooldownKey(r)] + 1 \in Nat
        BY <3>1 DEF TypeOK
      <4>2. \/ updates' = [updates EXCEPT ![CooldownKey(r)] = updates[CooldownKey(r)] + 1]
            \/ updates' = updates
        BY <3>2 DEF handleCooldown
      <4> QED
        BY <4>1, <4>2 DEF TypeOK
    <3> QED
      BY <1>14, <2>1, <3>3, <3>4 DEF Judge, TypeOK
  <2> QED
    BY <2>2, <2>3
<1>15. CASE Retry(r)
  <2>1. pc' \in [Requests -> Active \cup {"idle", "returned", "dead"}]
    BY <1>15 DEF Retry, GoTo, TypeOK, Active
  <2>2. attempt[r] + 1 \in Nat
    BY DEF TypeOK
  <2>3. attempt' \in [Requests -> Nat]
    BY <1>15, <2>2 DEF Retry, TypeOK
  <2> QED
    BY <1>15, <2>1, <2>3 DEF Retry, TypeOK
<1>16. CASE StopWaiting(r)
  <2>1. pc' \in [Requests -> Active \cup {"idle", "returned", "dead"}]
    BY <1>16 DEF StopWaiting, GoTo, TypeOK, Active
  <2> QED
    BY <1>16, <2>1 DEF StopWaiting, TypeOK
<1>17. CASE DeferRequest(r)
  <2>1. pc' \in [Requests -> Active \cup {"idle", "returned", "dead"}]
    BY <1>17 DEF DeferRequest, GoTo, TypeOK, Active
  <2>2. CASE status[r] = "IN_PROGRESS"
    <3>1. PICK refused \in Refusals :
              SetStatus(r, IF gone[r] THEN "CANCELLED" ELSE "FAILED", refused)
      BY <1>17, <2>2 DEF DeferRequest
    <3>2. (IF gone[r] THEN "CANCELLED" ELSE "FAILED") \in Statuses
      BY <1>9
    <3> QED
      BY <1>5, <1>17, <2>1, <3>1, <3>2 DEF DeferRequest, TypeOK
  <2>3. CASE status[r] # "IN_PROGRESS"
    BY <1>17, <2>1, <2>3 DEF DeferRequest, TypeOK
  <2> QED
    BY <2>2, <2>3
<1>18. CASE DeferAttempt(r)
  <2>1. pc' \in [Requests -> Active \cup {"idle", "returned", "dead"}]
    BY <1>18 DEF DeferAttempt, GoTo, TypeOK, Active
  <2>2. CASE CurrentAttempt(r)
    <3>1. PICK refused \in Refusals :
              SetAttempt(r, IF gone[r] THEN "CANCELLED" ELSE "FAILED", refused)
      BY <1>18, <2>2 DEF DeferAttempt
    <3>2. (IF gone[r] THEN "CANCELLED" ELSE "FAILED") \in Statuses
      BY <1>9
    <3>3. attempts' \in [Requests -> Seq(Attempts)] /\ dbErrors' \in 0..MaxDbErrors
      BY <1>8, <2>2, <3>1, <3>2
    <3> QED
      BY <1>18, <2>1, <3>3 DEF DeferAttempt, TypeOK
  <2>3. CASE ~CurrentAttempt(r)
    BY <1>18, <2>1, <2>3 DEF DeferAttempt, TypeOK
  <2> QED
    BY <2>2, <2>3
<1> QED
  BY <1>1, <1>2, <1>3, <1>4, <1>6, <1>7, <1>11, <1>12, <1>13, <1>14, <1>15, <1>16,
     <1>17, <1>18, <1>19 DEF Step

LEMMA NextType ==
  ASSUME IInv, [Next]_vars
  PROVE  TypeOK'
<1> USE DEF IInv, progress, audit, gate, bounds
<1>1. ASSUME NEW r \in Requests, Match(r)
      PROVE  TypeOK'
  <2>1. pc' \in [Requests -> Active \cup {"idle", "returned", "dead"}]
    BY <1>1, ZenonT(60) DEF Match, GoTo, TypeOK, Active
  <2>2. candidates' \in [Requests -> Seq(Routes)]
    <3>1. CASE Filtered(r) = {}
      BY <1>1, <3>1 DEF Match, TypeOK
    <3>2. CASE Filtered(r) # {}
      <4>1. PICK order \in Orders(r) : candidates' = [candidates EXCEPT ![r] = order]
        BY <1>1, <3>2 DEF Match
      <4>2. order \in Seq(Routes)
        BY OrdersType
      <4> QED
        BY <4>1, <4>2 DEF TypeOK
    <3> QED
      BY <3>1, <3>2
  <2> QED
    BY <1>1, <2>1, <2>2 DEF Match, TypeOK
<1>2. ASSUME NEW r \in Requests, Return(r)
      PROVE  TypeOK'
  <2>1. PICK outcome \in Outcomes : Answer(r, outcome)
    BY <1>2 DEF Return
  <2>2. attempts' \in [Requests -> Seq(Attempts)]
    BY <2>1, Answered
  <2>3. pc' \in [Requests -> Active \cup {"idle", "returned", "dead"}]
    BY <2>1 DEF Answer, GoTo, TypeOK, Active
  <2> QED
    BY <2>1, <2>2, <2>3 DEF Answer, TypeOK
<1>3. ASSUME NEW r \in Requests, Disconnect(r)
      PROVE  TypeOK'
  BY <1>3 DEF Disconnect, TypeOK
<1>4. ASSUME NEW key \in Keys, updates[key] > 0,
             updates' = [updates EXCEPT ![key] = @ - 1]
      PROVE  updates' \in [Keys -> Nat]
  <2>1. updates[key] - 1 \in Nat
    BY <1>4 DEF TypeOK
  <2> QED
    BY <1>4, <2>1 DEF TypeOK
<1>5. ASSUME NEW key \in Keys, NEW ahead \in BOOLEAN, DeliverUpdate(key, ahead)
      PROVE  TypeOK'
  <2>1. updates' \in [Keys -> Nat]
    BY <1>4, <1>5 DEF DeliverUpdate
  <2>2. cooling' \subseteq Keys
    BY <1>5 DEF DeliverUpdate, SetCooldown, TypeOK
  <2> QED
    BY <1>5, <2>1, <2>2 DEF DeliverUpdate, TypeOK
<1>6. ASSUME NEW key \in Keys, TimeOutUpdate(key)
      PROVE  TypeOK'
  <2>1. updates' \in [Keys -> Nat]
    BY <1>4, <1>6 DEF TimeOutUpdate
  <2> QED
    BY <1>6, <2>1 DEF TimeOutUpdate, TypeOK
<1>7. ASSUME NEW key \in Keys, Lapse(key)
      PROVE  TypeOK'
  BY <1>7 DEF Lapse, TypeOK
<1>8. ASSUME NEW provider \in Providers, Release(provider)
      PROVE  TypeOK'
  BY <1>8 DEF Release, TypeOK
<1>9. CASE Crash
  <2>1. pc' \in [Requests -> Active \cup {"idle", "returned", "dead"}]
    BY <1>9 DEF Crash, TypeOK
  <2>2. crashes' \in 0..MaxCrashes
    BY <1>9, RoutesAssumption DEF Crash, TypeOK
  <2>3. updates' \in [Keys -> Nat]
    BY <1>9 DEF Crash
  <2> QED
    BY <1>9, <2>1, <2>2, <2>3 DEF Crash, TypeOK
<1>10. CASE Restart
  <2>1. row' \in [Requests -> Statuses \cup {"none"}]
    BY <1>10 DEF Restart, MarkStaleAsFailed, TypeOK, Statuses, Final
  <2>2. cooling' \subseteq Keys
    BY <1>10 DEF Restart, TypeOK
  <2> QED
    BY <1>10, <2>1, <2>2 DEF Restart, TypeOK
<1>11. CASE UNCHANGED vars
  BY <1>11 DEF vars, TypeOK
<1> QED
  BY <1>1, <1>2, <1>3, <1>5, <1>6, <1>7, <1>8, <1>9, <1>10, <1>11, StepType DEF Next

-------------------------------------------------------------------------------
(* Every step keeps the trails.                                            *)
LEMMA NextTrail ==
  ASSUME IInv, [Next]_vars
  PROVE  Kept
<1> USE DEF IInv, progress, audit, gate, bounds
<1>1. CASE UNCHANGED attempts
  BY <1>1 DEF Kept
<1>2. ASSUME NEW r \in Requests, CreateAttempt(r)
      PROVE  Kept
  BY <1>2, Started DEF CreateAttempt
<1>3. ASSUME NEW r \in Requests, Return(r)
      PROVE  Kept
  BY <1>3, Answered DEF Return
<1>4. ASSUME NEW r \in Requests, CompleteAttempt(r)
      PROVE  Kept
  <2>1. CurrentAttempt(r)
    BY <1>4 DEF CompleteAttempt, RequestInv, Tried, CurrentAttempt
  <2>2. \E refused : SetAttempt(r, "COMPLETED", refused)
    BY <1>4 DEF CompleteAttempt
  <2>3. "COMPLETED" \in Statuses
    BY DEF Statuses, Final
  <2> QED
    BY <2>1, <2>2, <2>3, StatusSet
<1>5. ASSUME NEW r \in Requests, FailAttempt(r)
      PROVE  Kept
  <2>1. CurrentAttempt(r)
    BY <1>5 DEF FailAttempt, RequestInv, Tried, CurrentAttempt
  <2>2. \E refused : SetAttempt(r, IF gone[r] THEN "CANCELLED" ELSE "FAILED", refused)
    BY <1>5 DEF FailAttempt
  <2>3. (IF gone[r] THEN "CANCELLED" ELSE "FAILED") \in Statuses
    BY DEF Statuses, Final
  <2> QED
    BY <2>1, <2>2, <2>3, StatusSet
<1>6. ASSUME NEW r \in Requests, DeferAttempt(r)
      PROVE  Kept
  <2>1. CASE CurrentAttempt(r)
    <3>1. \E refused : SetAttempt(r, IF gone[r] THEN "CANCELLED" ELSE "FAILED", refused)
      BY <1>6, <2>1 DEF DeferAttempt
    <3>2. (IF gone[r] THEN "CANCELLED" ELSE "FAILED") \in Statuses
      BY DEF Statuses, Final
    <3> QED
      BY <2>1, <3>1, <3>2, StatusSet
  <2>2. CASE ~CurrentAttempt(r)
    BY <1>1, <1>6, <2>2 DEF DeferAttempt
  <2> QED
    BY <2>1, <2>2
<1>7. ASSUME NEW r \in Requests, Match(r) \/ Disconnect(r)
      PROVE  UNCHANGED attempts
  BY <1>7 DEF Match, Disconnect
<1>8. ASSUME NEW r \in Requests,
             \/ MatchRoute(r) \/ NoRoutes(r) \/ CreateRequest(r)
             \/ NextRoute(r) \/ FailRequest(r) \/ CompleteRequest(r)
             \/ CheckContext(r) \/ CallAdapter(r)
             \/ Judge(r) \/ Retry(r) \/ StopWaiting(r) \/ DeferRequest(r)
      PROVE  UNCHANGED attempts
  BY <1>8 DEF MatchRoute, NoRoutes, CreateRequest, NextRoute, FailRequest, CompleteRequest,
              CheckContext, CallAdapter, Judge, Retry, StopWaiting, DeferRequest
<1>9. ASSUME NEW key \in Keys,
             \/ \E ahead \in BOOLEAN : DeliverUpdate(key, ahead)
             \/ TimeOutUpdate(key) \/ Lapse(key)
      PROVE  UNCHANGED attempts
  BY <1>9 DEF DeliverUpdate, TimeOutUpdate, Lapse
<1>10. ASSUME NEW provider \in Providers, Release(provider)
       PROVE  UNCHANGED attempts
  BY <1>10 DEF Release
<1>11. CASE Crash \/ Restart \/ UNCHANGED vars
  BY <1>1, <1>11 DEF Crash, Restart, vars
<1> QED
  <2>1. ASSUME NEW r \in Requests, Step(r)
        PROVE  Kept
    BY <1>1, <1>2, <1>4, <1>5, <1>6, <1>8, <2>1 DEF Step
  <2> QED
    BY <1>1, <1>3, <1>7, <1>9, <1>10, <1>11, <2>1 DEF Next

-------------------------------------------------------------------------------
(* What is earned stays earned.                                            *)
LEMMA EarnedKept ==
  ASSUME Kept, NEW key, Earned(key)
  PROVE  Earned(key)'
BY DEF Kept, Earned

(* A step that leaves a request where it is, or whose client leaves.       *)
Same(r) ==
    /\ pc'[r] = pc[r]
    /\ gone[r] => gone'[r]
    /\ candidates'[r] = candidates[r]
    /\ matched'[r] = matched[r]
    /\ routeIdx'[r] = routeIdx[r]
    /\ status'[r] = status[r]
    /\ attempts'[r] = attempts[r]

LEMMA SameInv ==
  ASSUME Kept, NEW r \in Requests, RequestInv(r), Same(r)
  PROVE  RequestInv(r)'
<1> USE DEF RequestInv, Same
<1>1. Positioned(r)'
  BY DEF Positioned
<1>2. Tried(r)'
  BY DEF Tried, Last, CurrentRoute
<1>3. Recorded(r)'
  BY DEF Recorded
<1> QED
  BY <1>1, <1>2, <1>3

(* A request's steps leave the others where they are.                      *)
LEMMA OthersSame ==
  ASSUME IInv, NEW r \in Requests, NEW s \in Requests \ {r},
         Match(r) \/ Step(r) \/ Return(r) \/ Disconnect(r)
  PROVE  Same(s)
<1> USE DEF IInv, TypeOK, Same, GoTo, progress, audit, gate, bounds
<1>1. CASE Match(r)
  BY <1>1 DEF Match
<1>2. CASE MatchRoute(r) \/ NoRoutes(r) \/ CreateRequest(r)
  BY <1>2 DEF MatchRoute, NoRoutes, CreateRequest
<1>3. CASE NextRoute(r)
  BY <1>3 DEF NextRoute
<1>4. CASE FailRequest(r) \/ CompleteRequest(r)
  BY <1>4 DEF FailRequest, CompleteRequest, SetStatus
<1>5. CASE CheckContext(r) \/ CreateAttempt(r) \/ CallAdapter(r)
  BY <1>5 DEF CheckContext, CreateAttempt, CallAdapter
<1>6. CASE CompleteAttempt(r) \/ FailAttempt(r)
  BY <1>6 DEF CompleteAttempt, FailAttempt, SetAttempt
<1>7. CASE Judge(r)
  BY <1>7 DEF Judge
<1>8. CASE Retry(r) \/ StopWaiting(r)
  BY <1>8 DEF Retry, StopWaiting
<1>9. CASE DeferRequest(r)
  BY <1>9 DEF DeferRequest, SetStatus
<1>10. CASE DeferAttempt(r)
  BY <1>10 DEF DeferAttempt, SetAttempt
<1>11. CASE Return(r)
  BY <1>11 DEF Return, Answer
<1>12. CASE Disconnect(r)
  BY <1>12 DEF Disconnect
<1> QED
  BY <1>1, <1>2, <1>3, <1>4, <1>5, <1>6, <1>7, <1>8, <1>9, <1>10, <1>11, <1>12 DEF Step

-------------------------------------------------------------------------------
(* Matching takes routes up, and takes none yet.                           *)
LEMMA MatchInv ==
  ASSUME IInv, NEW r \in Requests, Match(r)
  PROVE  RequestInv(r)'
<1> USE DEF IInv, RequestInv, GoTo, progress, audit, gate, bounds
<1>1. CASE Filtered(r) = {}
  <2>1. pc'[r] = "returned" /\ UNCHANGED <<candidates, matched, routeIdx, status, attempts>>
    BY <1>1 DEF Match, TypeOK
  <2> QED
    BY <1>1, <2>1 DEF Positioned, Tried, Recorded, Active
<1>2. CASE Filtered(r) # {}
  <2>1. pc'[r] = "matching" /\ UNCHANGED <<matched, routeIdx, status, attempts>>
    BY <1>2 DEF Match, TypeOK
  <2>2. status[r] = "none"
    BY DEF Match, Recorded
  <2> QED
    BY <2>1, <2>2 DEF Positioned, Tried, Recorded
<1> QED
  BY <1>1, <1>2

LEMMA MatchRouteInv ==
  ASSUME IInv, NEW r \in Requests, MatchRoute(r)
  PROVE  RequestInv(r)'
<1> DEFINE route == Head(candidates[r])
           taken == Route[route].provider \in Deployed
                      /\ ~IsInCooldown(Route[route].provider, Type[r])
<1> USE DEF IInv, RequestInv, progress, audit, gate, bounds
<1>1. /\ candidates[r] \in Seq(Routes) /\ candidates[r] # <<>>
      /\ matched[r] \in Seq(Routes) /\ routeIdx[r] \in Nat
  BY DEF MatchRoute, TypeOK
<1>2. /\ candidates'[r] = Tail(candidates[r])
      /\ matched'[r] = IF taken THEN Append(matched[r], route) ELSE matched[r]
      /\ pc'[r] = "matching"
      /\ UNCHANGED <<routeIdx, status, attempts>>
  BY DEF MatchRoute, TypeOK
<1>3. route \in Routes /\ Tail(candidates[r]) \in Seq(Routes)
  BY <1>1, HeadTailProperties
<1>4. /\ Append(matched[r], route) # <<>>
      /\ Len(Append(matched[r], route)) = Len(matched[r]) + 1
      /\ Len(matched[r]) \in Nat
  BY <1>1, <1>3, OneMore
<1>5. Positioned(r)'
  BY <1>1, <1>2, <1>4 DEF Positioned
<1>6. Tried(r)' /\ Recorded(r)'
  BY <1>2 DEF Tried, Recorded, MatchRoute
<1> QED
  BY <1>5, <1>6

(* The loops' own steps keep their place, their record and the trail in    *)
(* agreement.                                                              *)
LEMMA StepInv ==
  ASSUME IInv, TypeOK', Kept, NEW r \in Requests, Step(r)
  PROVE  RequestInv(r)'
<1> USE DEF IInv, RequestInv, GoTo, progress, audit, gate, bounds
<1>1. CASE MatchRoute(r)
  BY <1>1, MatchRouteInv
<1>2. CASE NoRoutes(r)
  <2>1. pc'[r] = "returned"
        /\ UNCHANGED <<candidates, matched, routeIdx, status, attempts>>
    BY <1>2 DEF NoRoutes, TypeOK
  <2> QED
    BY <2>1 DEF Positioned, Tried, Recorded, Active
<1>3. CASE CreateRequest(r)
  <2>1. /\ pc'[r] = "route" /\ status'[r] = "IN_PROGRESS"
        /\ UNCHANGED <<candidates, matched, routeIdx, attempts>>
    BY <1>3 DEF CreateRequest, TypeOK
  <2> QED
    BY <2>1 DEF Positioned, Tried, Recorded
<1>4. CASE NextRoute(r)
  <2>1. CASE gone[r]
    <3>1. pc'[r] = "defer"
          /\ UNCHANGED <<candidates, matched, routeIdx, status, attempts>>
      BY <1>4, <2>1 DEF NextRoute, TypeOK
    <3> QED
      BY <1>4, <3>1 DEF NextRoute, Positioned, Tried, Recorded, Active
  <2>2. CASE ~gone[r]
    <3>1. /\ pc'[r] = "attempt" /\ routeIdx'[r] = routeIdx[r] + 1
          /\ UNCHANGED <<candidates, matched, status, attempts>>
      BY <1>4, <2>2 DEF NextRoute, TypeOK
    <3>2. routeIdx[r] \in Nat /\ Len(matched[r]) \in Nat /\ routeIdx[r] < Len(matched[r])
      BY <1>4 DEF NextRoute, TypeOK
    <3>3. Positioned(r)'
      BY <3>1, <3>2 DEF Positioned
    <3> QED
      BY <1>4, <3>1, <3>3 DEF NextRoute, Tried, Recorded, Active
  <2> QED
    BY <2>1, <2>2
<1>5. CASE FailRequest(r)
  <2>1. /\ pc'[r] = "defer" /\ status'[r] = "FAILED"
        /\ UNCHANGED <<candidates, matched, routeIdx, attempts>>
    BY <1>5 DEF FailRequest, SetStatus, TypeOK
  <2> QED
    BY <2>1 DEF Positioned, Tried, Recorded
<1>6. CASE CreateAttempt(r)
  <2>1. /\ pc[r] = "create" /\ pc'[r] = "call"
        /\ UNCHANGED <<candidates, matched, routeIdx, status>>
    BY <1>6 DEF CreateAttempt, TypeOK
  <2>2. /\ attempts'[r] # <<>>
        /\ Last(r)'.status = "IN_PROGRESS"
        /\ Last(r)'.route = CurrentRoute(r)
    BY <1>6, Started DEF CreateAttempt
  <2>3. Tried(r)'
    BY <2>1, <2>2 DEF Tried, CurrentRoute
  <2> QED
    BY <2>1, <2>3 DEF Positioned, Recorded, Active
<1>15. CASE CheckContext(r)
  <2>1. /\ pc[r] = "attempt" /\ pc'[r] \in {"defer", "create"}
        /\ UNCHANGED <<candidates, matched, routeIdx, status, attempts>>
    BY <1>15 DEF CheckContext, TypeOK
  <2> QED
    BY <2>1 DEF Positioned, Tried, Recorded, Active
<1>16. CASE CallAdapter(r)
  <2>1. /\ pc[r] = "call" /\ pc'[r] = "upstream"
        /\ UNCHANGED <<candidates, matched, routeIdx, status, attempts>>
    BY <1>16 DEF CallAdapter, TypeOK
  <2>2. Tried(r)'
    BY <2>1 DEF Tried, Last, CurrentRoute
  <2> QED
    BY <2>1, <2>2 DEF Positioned, Recorded, Active
<1>7. CASE CompleteAttempt(r)
  <2>1. /\ pc[r] = "answered" /\ pc'[r] = "completed"
        /\ UNCHANGED <<gone, candidates, matched, routeIdx, status>>
    BY <1>7 DEF CompleteAttempt, TypeOK
  <2>2. CurrentAttempt(r) /\ "COMPLETED" \in Statuses
    BY <2>1 DEF Tried, CurrentAttempt, Statuses, Final
  <2>3. /\ attempts'[r] # <<>>
        /\ Last(r)'.route = Last(r).route
        /\ Last(r)'.outcome = Last(r).outcome
    BY <1>7, <2>2, StatusSet DEF CompleteAttempt
  <2>4. Tried(r)'
    BY <2>1, <2>3 DEF Tried, CurrentRoute
  <2> QED
    BY <2>1, <2>4 DEF Positioned, Recorded, Active
<1>8. CASE CompleteRequest(r)
  <2>1. /\ pc'[r] = "defer" /\ status'[r] = "COMPLETED"
        /\ UNCHANGED <<candidates, matched, routeIdx, attempts>>
    BY <1>8 DEF CompleteRequest, SetStatus, TypeOK
  <2> QED
    BY <2>1 DEF Positioned, Tried, Recorded
<1>9. CASE FailAttempt(r)
  <2> DEFINE new == IF gone[r] THEN "CANCELLED" ELSE "FAILED"
  <2>1. /\ pc[r] = "answered" /\ pc'[r] = "failed"
        /\ UNCHANGED <<gone, candidates, matched, routeIdx, status>>
    BY <1>9 DEF FailAttempt, TypeOK
  <2>2. CurrentAttempt(r) /\ new \in Statuses
    BY <2>1 DEF Tried, CurrentAttempt, Statuses, Final
  <2>3. \E refused : SetAttempt(r, new, refused)
    BY <1>9 DEF FailAttempt
  <2> HIDE DEF new
  <2>4. /\ attempts'[r] # <<>>
        /\ Last(r)'.status = new
        /\ Last(r)'.route = Last(r).route
        /\ Last(r)'.outcome = Last(r).outcome
    BY <2>2, <2>3, StatusSet
  <2>5. Tried(r)'
    BY <2>1, <2>4 DEF Tried, CurrentRoute, new
  <2> QED
    BY <2>1, <2>5 DEF Positioned, Recorded, Active
<1>10. CASE Judge(r)
  <2>1. /\ pc[r] = "failed" /\ pc'[r] \in {"defer", "wait", "route"}
        /\ UNCHANGED <<gone, candidates, matched, routeIdx, status, attempts>>
    BY <1>10 DEF Judge, TypeOK
  <2>2. Tried(r)'
    BY <2>1 DEF Tried, Last, CurrentRoute
  <2> QED
    BY <2>1, <2>2 DEF Positioned, Recorded, Active
<1>11. CASE Retry(r)
  <2>1. /\ pc[r] = "wait" /\ pc'[r] = "attempt"
        /\ UNCHANGED <<candidates, matched, routeIdx, status, attempts>>
    BY <1>11 DEF Retry, TypeOK
  <2> QED
    BY <2>1 DEF Positioned, Tried, Recorded, Active
<1>12. CASE StopWaiting(r)
  <2>1. /\ pc[r] = "wait" /\ pc'[r] = "defer"
        /\ UNCHANGED <<candidates, matched, routeIdx, status, attempts>>
    BY <1>12 DEF StopWaiting, TypeOK
  <2> QED
    BY <2>1 DEF Positioned, Tried, Recorded, Active
<1>13. CASE DeferRequest(r)
  <2>1. /\ pc[r] = "defer" /\ pc'[r] = "deferAttempt"
        /\ UNCHANGED <<candidates, matched, routeIdx, attempts>>
    BY <1>13 DEF DeferRequest, TypeOK
  <2>2. status[r] # "none"
    BY <2>1 DEF Recorded, Active
  <2>3. status'[r] # "none"
    BY <1>13, <2>2 DEF DeferRequest, SetStatus, TypeOK
  <2> QED
    BY <2>1, <2>3 DEF Positioned, Tried, Recorded
<1>14. CASE DeferAttempt(r)
  <2>1. /\ pc[r] = "deferAttempt" /\ pc'[r] = "returned"
        /\ UNCHANGED <<candidates, matched, routeIdx, status>>
    BY <1>14 DEF DeferAttempt, TypeOK
  <2>2. status'[r] # "none"
    BY <2>1 DEF Recorded, Active
  <2> QED
    BY <2>1, <2>2 DEF Positioned, Tried, Recorded, Active
<1> QED
  BY <1>1, <1>2, <1>3, <1>4, <1>5, <1>6, <1>7, <1>8, <1>9, <1>10, <1>11, <1>12, <1>13,
     <1>14, <1>15, <1>16 DEF Step

LEMMA NextRequests ==
  ASSUME IInv, [Next]_vars, TypeOK', Kept
  PROVE  \A r \in Requests : RequestInv(r)'
<1> USE DEF progress, audit, gate, bounds
<1>1. ASSUME NEW r \in Requests, Match(r) \/ Step(r) \/ Return(r) \/ Disconnect(r),
             NEW s \in Requests
      PROVE  RequestInv(s)'
  <2>1. CASE s # r
    BY <1>1, <2>1, OthersSame, SameInv DEF IInv
  <2>2. CASE Match(r) /\ s = r
    BY <2>2, MatchInv
  <2>3. CASE Step(r) /\ s = r
    BY <2>3, StepInv
  <2>4. CASE Return(r) /\ s = r
    <3>1. PICK outcome \in Outcomes : Answer(r, outcome)
      BY <2>4 DEF Return
    <3>2. /\ pc[r] = "upstream" /\ pc'[r] \in {"defer", "answered"}
          /\ outcome.scope \in {AllTypes, Type[r]}
          /\ UNCHANGED <<gone, candidates, matched, routeIdx, status>>
      BY <3>1 DEF Answer, GoTo, IInv, TypeOK
    <3>3. /\ attempts'[r] # <<>>
          /\ Last(r)'.status = Last(r).status
          /\ Last(r)'.route = Last(r).route
          /\ Last(r)'.outcome = outcome
      BY <3>1, Answered
    <3>4. Tried(r) /\ Positioned(r) /\ Recorded(r)
      BY DEF IInv, RequestInv
    <3>5. Tried(r)'
      BY <3>2, <3>3, <3>4 DEF Tried, CurrentRoute
    <3>6. Positioned(r)' /\ Recorded(r)'
      BY <3>2, <3>4 DEF Positioned, Recorded, Active
    <3> QED
      BY <2>4, <3>5, <3>6 DEF RequestInv
  <2>5. CASE Disconnect(r) /\ s = r
    <3>1. Same(r)
      BY <2>5 DEF Disconnect, Same, IInv, TypeOK
    <3> QED
      BY <2>5, <3>1, SameInv DEF IInv
  <2> QED
    BY <1>1, <2>1, <2>2, <2>3, <2>4, <2>5
<1>2. ASSUME NEW s \in Requests,
             UNCHANGED <<pc, gone, candidates, matched, routeIdx, status, attempts>>
      PROVE  RequestInv(s)'
  <2>1. Same(s)
    BY <1>2 DEF Same
  <2> QED
    BY <2>1, SameInv DEF IInv
<1>3. ASSUME NEW key \in Keys,
             \/ \E ahead \in BOOLEAN : DeliverUpdate(key, ahead)
             \/ TimeOutUpdate(key) \/ Lapse(key)
      PROVE  \A s \in Requests : RequestInv(s)'
  BY <1>2, <1>3 DEF DeliverUpdate, TimeOutUpdate, Lapse
<1>4. ASSUME NEW provider \in Providers, Release(provider)
      PROVE  \A s \in Requests : RequestInv(s)'
  BY <1>2, <1>4 DEF Release
<1>5. CASE Restart \/ UNCHANGED vars
  BY <1>2, <1>5 DEF Restart, vars
<1>6. ASSUME Crash, NEW s \in Requests
      PROVE  RequestInv(s)'
  <2>1. UNCHANGED <<gone, candidates, matched, routeIdx, status, attempts>>
    BY <1>6 DEF Crash
  <2>2. CASE pc[s] \in Active
    <3>1. pc'[s] = "dead"
      BY <1>6, <2>2 DEF Crash
    <3> QED
      BY <2>1, <3>1 DEF IInv, RequestInv, Positioned, Tried, Recorded, Active
  <2>3. CASE pc[s] \notin Active
    <3>1. Same(s)
      BY <1>6, <2>1, <2>3 DEF Crash, Same
    <3> QED
      BY <3>1, SameInv DEF IInv
  <2> QED
    BY <2>2, <2>3
<1> QED
  BY <1>1, <1>3, <1>4, <1>5, <1>6 DEF Next

-------------------------------------------------------------------------------
(* A step earns what it closes before it closes it.                        *)
LEMMA NextGate ==
  ASSUME IInv, [Next]_vars, Kept
  PROVE  GateInv'
<1> USE DEF progress, audit, gate, bounds
<1>1. ASSUME NEW key \in Keys, Earned(key),
             cooling' \subseteq cooling \cup {key},
             \A other \in Keys : updates'[other] > 0 => updates[other] > 0 \/ other = key
      PROVE  GateInv'
  BY <1>1, EarnedKept DEF IInv, GateInv
<1>2. ASSUME cooling' \subseteq cooling,
             \A key \in Keys : updates'[key] > 0 => updates[key] > 0
      PROVE  GateInv'
  BY <1>2, EarnedKept DEF IInv, GateInv
<1>3. ASSUME NEW r \in Requests, Judge(r)
      PROVE  GateInv'
  <2>1. CASE gone[r]
    BY <1>2, <1>3, <2>1 DEF Judge
  <2>2. CASE ~gone[r]
    <3>1. pc[r] = "failed" /\ handleCooldown(r)
      BY <1>3, <2>2 DEF Judge
    <3>2. attempts[r] # <<>> /\ Last(r).status = "FAILED"
      BY <2>2, <3>1 DEF IInv, RequestInv, Tried
    <3>3. attempts[r] \in Seq(Attempts)
      BY DEF IInv, TypeOK
    <3>4. Len(attempts[r]) \in DOMAIN attempts[r]
      BY <3>2, <3>3
    <3>5. PICK key \in Keys : key = CooldownKey(r)
                              /\ key = <<Route[Last(r).route].provider, Type[r]>>
      BY <3>1, CooldownKeyType
    <3>6. Earned(key)
      BY <3>2, <3>4, <3>5 DEF Earned, Last
    <3>7. cooling' \subseteq cooling \cup {key}
      BY <3>1, <3>5 DEF handleCooldown, SetCooldown
    <3>8. \A other \in Keys : updates'[other] > 0 => updates[other] > 0 \/ other = key
      BY <3>1, <3>5 DEF handleCooldown, IInv, TypeOK
    <3> QED
      BY <1>1, <3>6, <3>7, <3>8
  <2> QED
    BY <2>1, <2>2
<1>4. ASSUME NEW key \in Keys, NEW ahead \in BOOLEAN, DeliverUpdate(key, ahead)
      PROVE  GateInv'
  <2>1. Earned(key)
    BY <1>4 DEF DeliverUpdate, IInv, GateInv
  <2>2. cooling' \subseteq cooling \cup {key}
    BY <1>4 DEF DeliverUpdate, SetCooldown
  <2>3. \A other \in Keys : updates'[other] > 0 => updates[other] > 0 \/ other = key
    BY <1>4 DEF DeliverUpdate, IInv, TypeOK
  <2> QED
    BY <1>1, <2>1, <2>2, <2>3
<1>5. ASSUME NEW key \in Keys, TimeOutUpdate(key)
      PROVE  GateInv'
  <2>1. \A other \in Keys : updates'[other] > 0 => updates[other] > 0
    BY <1>5 DEF TimeOutUpdate, IInv, TypeOK
  <2> QED
    BY <1>2, <1>5, <2>1 DEF TimeOutUpdate
<1>6. ASSUME NEW key \in Keys, Lapse(key)
      PROVE  GateInv'
  BY <1>2, <1>6 DEF Lapse
<1>7. ASSUME NEW provider \in Providers, Release(provider)
      PROVE  GateInv'
  BY <1>2, <1>7 DEF Release
<1>8. CASE Crash
  BY <1>2, <1>8 DEF Crash
<1>9. CASE Restart
  BY <1>2, <1>9 DEF Restart
<1>10. CASE UNCHANGED gate
  BY <1>2, <1>10
<1>11. ASSUME NEW r \in Requests, Match(r) \/ Return(r) \/ Disconnect(r)
       PROVE  UNCHANGED gate
  BY <1>11 DEF Match, Return, Answer, Disconnect
<1>12. ASSUME NEW r \in Requests,
              \/ MatchRoute(r) \/ NoRoutes(r) \/ CreateRequest(r)
              \/ NextRoute(r) \/ FailRequest(r)
              \/ CheckContext(r) \/ CreateAttempt(r) \/ CallAdapter(r)
              \/ CompleteAttempt(r) \/ CompleteRequest(r) \/ FailAttempt(r)
              \/ Retry(r) \/ StopWaiting(r) \/ DeferRequest(r) \/ DeferAttempt(r)
       PROVE  UNCHANGED gate
  BY <1>12 DEF MatchRoute, NoRoutes, CreateRequest, NextRoute, FailRequest, CheckContext,
               CreateAttempt, CallAdapter, CompleteAttempt, CompleteRequest, FailAttempt, Retry, StopWaiting,
               DeferRequest, DeferAttempt
<1>13. CASE UNCHANGED vars
  BY <1>10, <1>13 DEF vars
<1> QED
  <2>1. ASSUME NEW r \in Requests, Step(r)
        PROVE  GateInv'
    BY <1>3, <1>10, <1>12, <2>1 DEF Step
  <2> QED
    BY <1>4, <1>5, <1>6, <1>7, <1>8, <1>9, <1>10, <1>11, <1>13, <2>1 DEF Next

-------------------------------------------------------------------------------
(* In the beginning nothing is matched, tried, cooling or awaited.         *)
LEMMA InitInv ==
  ASSUME Init
  PROVE  IInv
<1>1. TypeOK
  BY RoutesAssumption DEF Init, TypeOK, Active, Attempts
<1>2. ASSUME NEW r \in Requests
      PROVE  RequestInv(r)
  <2>1. pc[r] = "idle" /\ routeIdx[r] = 0 /\ matched[r] = <<>> /\ status[r] = "none"
    BY DEF Init
  <2> QED
    BY <2>1 DEF RequestInv, Positioned, Tried, Recorded, Active
<1>3. GateInv
  BY DEF Init, GateInv
<1> QED
  BY <1>1, <1>2, <1>3 DEF IInv

LEMMA NextInv ==
  ASSUME IInv, [Next]_vars
  PROVE  IInv'
BY NextType, NextTrail, NextRequests, NextGate DEF IInv

(* The inductive invariant: where each request is in Execute's loops agrees *)
(* with what it matched and recorded, and every cooldown was paid for.      *)
THEOREM Invariant == Spec => []IInv
<1>1. Init => IInv
  BY InitInv
<1>2. IInv /\ [Next]_vars => IInv'
  BY NextInv
<1> QED
  BY <1>1, <1>2, PTL DEF Spec

(* Every variable keeps its type: no index leaves the routes matched, and  *)
(* no more quota answers arrive than handleAsyncCooldownUpdate waits for.  *)
THEOREM TypeCorrect == Spec => []TypeOK
<1>1. IInv => TypeOK
  BY DEF IInv
<1> QED
  BY <1>1, Invariant, PTL

(* handleCooldown and its late quota answers close a provider to a client  *)
(* type only after an attempt of a request of that type failed there.      *)
THEOREM CooldownsAreEarned == Spec => []CoolingIsEarned
<1>1. IInv => CoolingIsEarned
  BY DEF IInv, GateInv, Earned, CoolingIsEarned
<1> QED
  BY <1>1, Invariant, PTL

-------------------------------------------------------------------------------
(* The trail: every way out of Execute settles the audit rows, and they    *)
(* live the life RequestLifecycle promises their readers.                  *)

(* An attempt with a verdict that sent the request on; one without; one    *)
(* that a panic unwound; one that succeeded.                               *)
Ended(try) == try.status \in {"FAILED", "CANCELLED"} /\ try.outcome.kind = "error"
Retired(r) == attempts[r] = <<>> \/ Ended(Last(r))
Pending(r) == attempts[r] # <<>> /\ Last(r).status = "IN_PROGRESS"
Panicked(r) == attempts[r] # <<>> /\ Last(r).outcome.kind = "panic"
Won(r) == /\ attempts[r] # <<>>
          /\ Last(r).status = "COMPLETED" /\ Last(r).outcome.kind = "ok"

(* Only the last attempt may be without a verdict, or have won.            *)
Trail(r) ==
    \A i \in DOMAIN attempts[r] : i < Len(attempts[r]) => Ended(attempts[r][i])

(* What a request's status and its last attempt say, place by place.       *)
Lost(r) == status[r] \in {"CANCELLED", "FAILED"}

Verdict(r) ==
    /\ pc[r] \in {"idle", "matching"} => attempts[r] = <<>> /\ status[r] = "none"
    /\ pc[r] \in {"route", "attempt", "create", "call", "upstream", "answered",
                  "completed", "failed", "wait"} => status[r] = "IN_PROGRESS"
    /\ pc[r] \in {"route", "attempt", "create", "failed", "wait"} => Retired(r)
    /\ pc[r] \in {"call", "upstream", "answered"} => Pending(r)
    /\ pc[r] = "answered" => Last(r).outcome.kind \in {"ok", "error"}
    /\ pc[r] = "completed" => Won(r)
    /\ pc[r] = "defer" =>
          \/ status[r] \in {"IN_PROGRESS", "FAILED"} /\ Retired(r)
          \/ status[r] = "IN_PROGRESS" /\ Panicked(r) /\ Pending(r)
          \/ status[r] = "COMPLETED" /\ Won(r)
    /\ pc[r] = "deferAttempt" =>
          \/ Lost(r) /\ (Retired(r) \/ (Panicked(r) /\ Pending(r)))
          \/ status[r] = "COMPLETED" /\ Won(r)
    /\ pc[r] = "returned" =>
          \/ status[r] = "none" /\ attempts[r] = <<>>
          \/ /\ Lost(r)
             /\ \/ Retired(r)
                \/ Panicked(r) /\ Last(r).status \in {"FAILED", "CANCELLED"}
          \/ status[r] = "COMPLETED" /\ Won(r)

(* Until a write is refused the rows say what memory says, save those of a *)
(* request a crash cut off, which the next process closes.                 *)
AttemptsWritten(r) ==
    dbErrors = 0 =>
        \A i \in DOMAIN attempts[r] : attempts[r][i].row = attempts[r][i].status

RequestWritten(r) == dbErrors = 0 /\ pc[r] # "dead" => row[r] = status[r]

AuditInv(r) == Trail(r) /\ Verdict(r) /\ AttemptsWritten(r) /\ RequestWritten(r)

DownIsIdle == ~up => \A r \in Requests : pc[r] \notin Active

AInv == IInv /\ DownIsIdle /\ \A r \in Requests : AuditInv(r)

-------------------------------------------------------------------------------
(* Nothing is promised after a refusal, so a step that matters has none.   *)
LEMMA Unrefused ==
  ASSUME TypeOK, NEW refused \in Refusals, Count(refused), dbErrors' = 0
  PROVE  dbErrors = 0 /\ ~refused
<1>1. dbErrors \in Nat
  BY RoutesAssumption DEF TypeOK
<1> QED
  BY <1>1 DEF Refusals, Count

(* The rows of an attempt and a request after a write that was not refused.*)
LEMMA Writes ==
  ASSUME NEW old, NEW new
  PROVE  /\ Created(new, FALSE) = new
         /\ old # "none" => Updated(old, new, FALSE) = new
BY DEF Created, Updated

(* What a change of the last attempt leaves of a trail.                    *)
LastBecomes(r, e) ==
    /\ attempts'[r] # <<>>
    /\ attempts'[r] \in Seq(Attempts)
    /\ Len(attempts'[r]) = Len(attempts[r])
    /\ \A i \in 1..(Len(attempts[r]) - 1) : attempts'[r][i] = attempts[r][i]
    /\ attempts'[r][Len(attempts[r])] = e

LEMMA Replaced ==
  ASSUME TypeOK, NEW r \in Requests, attempts[r] # <<>>, NEW e \in Attempts,
         attempts' = [attempts EXCEPT ![r][Len(attempts[r])] = e]
  PROVE  LastBecomes(r, e)
<1>1. attempts \in [Requests -> Seq(Attempts)] /\ attempts[r] \in Seq(Attempts)
  BY DEF TypeOK
<1>2. attempts'[r] = [attempts[r] EXCEPT ![Len(attempts[r])] = e]
  BY <1>1
<1>3. Len(attempts[r]) \in Nat \ {0}
  BY <1>1
<1> QED
  BY <1>1, <1>2, <1>3, LastReplaced DEF LastBecomes

LEMMA SetAttemptEffect ==
  ASSUME TypeOK, NEW r \in Requests, attempts[r] # <<>>, NEW new \in Statuses,
         NEW refused, SetAttempt(r, new, refused)
  PROVE  /\ Last(r) \in Attempts
         /\ LastBecomes(r, [Last(r) EXCEPT !.status = new,
                                !.row = Updated(Last(r).row, new, refused)])
<1>1. attempts \in [Requests -> Seq(Attempts)]
  BY DEF TypeOK
<1>2. Last(r) \in Attempts
  BY <1>1 DEF Last
<1>3. Updated(Last(r).row, new, refused) \in Statuses \cup {"none"}
  BY <1>2, RowType DEF Attempts
<1> DEFINE e == [Last(r) EXCEPT !.status = new, !.row = Updated(Last(r).row, new, refused)]
<1>4. e \in Attempts
  BY <1>2, <1>3 DEF Attempts
<1>5. attempts' = [attempts EXCEPT ![r][Len(attempts[r])] = e]
  BY <1>1 DEF SetAttempt, Last
<1> HIDE DEF e
<1> QED
  BY <1>2, <1>4, <1>5, Replaced DEF e

LEMMA AnswerEffect ==
  ASSUME TypeOK, NEW r \in Requests, attempts[r] # <<>>,
         NEW outcome \in Outcomes, Answer(r, outcome)
  PROVE  /\ Last(r) \in Attempts
         /\ LastBecomes(r, [Last(r) EXCEPT !.outcome = outcome])
<1>1. attempts \in [Requests -> Seq(Attempts)]
  BY DEF TypeOK
<1>2. Last(r) \in Attempts
  BY <1>1 DEF Last
<1> DEFINE e == [Last(r) EXCEPT !.outcome = outcome]
<1>3. e \in Attempts
  BY <1>2 DEF Attempts
<1>4. attempts' = [attempts EXCEPT ![r][Len(attempts[r])] = e]
  BY <1>1 DEF Answer, Last
<1> HIDE DEF e
<1> QED
  BY <1>2, <1>3, <1>4, Replaced DEF e

(* A new attempt stands behind the ones before it.                         *)
LEMMA StartEffect ==
  ASSUME TypeOK, NEW r \in Requests, NEW e,
         attempts' = [attempts EXCEPT ![r] = Append(@, e)]
  PROVE  /\ attempts'[r] = Append(attempts[r], e)
         /\ Len(attempts'[r]) = Len(attempts[r]) + 1
         /\ attempts'[r] # <<>>
         /\ DOMAIN attempts'[r] = 1..(Len(attempts[r]) + 1)
         /\ \A i \in DOMAIN attempts[r] : attempts'[r][i] = attempts[r][i]
         /\ attempts'[r][Len(attempts[r]) + 1] = e
<1>1. attempts \in [Requests -> Seq(Attempts)] /\ attempts[r] \in Seq(Attempts)
  BY DEF TypeOK
<1>2. attempts'[r] = Append(attempts[r], e)
  BY <1>1
<1> QED
  BY <1>1, <1>2

LEMMA TrailKept ==
  ASSUME TypeOK, NEW r \in Requests, attempts[r] # <<>>, Trail(r), NEW e, LastBecomes(r, e)
  PROVE  Trail(r)' /\ Last(r)' = e
<1>1. attempts[r] \in Seq(Attempts)
  BY DEF TypeOK
<1>2. DOMAIN attempts'[r] = DOMAIN attempts[r] /\ DOMAIN attempts[r] = 1..Len(attempts[r])
  BY <1>1 DEF LastBecomes
<1>3. Len(attempts[r]) \in Nat \ {0}
  BY <1>1
<1>4. Trail(r)'
  BY <1>2, <1>3 DEF Trail, LastBecomes
<1> QED
  BY <1>4 DEF LastBecomes, Last

LEMMA AttemptsWrittenKept ==
  ASSUME TypeOK, NEW r \in Requests, attempts[r] # <<>>, AttemptsWritten(r),
         NEW e, LastBecomes(r, e),
         dbErrors' = 0 => dbErrors = 0 /\ e.row = e.status
  PROVE  AttemptsWritten(r)'
<1>1. attempts[r] \in Seq(Attempts)
  BY DEF TypeOK
<1>2. DOMAIN attempts'[r] = DOMAIN attempts[r] /\ DOMAIN attempts[r] = 1..Len(attempts[r])
  BY <1>1 DEF LastBecomes
<1>3. Len(attempts[r]) \in Nat \ {0}
  BY <1>1
<1>4. SUFFICES ASSUME dbErrors' = 0, NEW i \in DOMAIN attempts[r]
               PROVE  attempts'[r][i].row = attempts'[r][i].status
  BY <1>2 DEF AttemptsWritten
<1>5. CASE i = Len(attempts[r])
  BY <1>4, <1>5 DEF LastBecomes
<1>6. CASE i # Len(attempts[r])
  <2>1. attempts'[r][i] = attempts[r][i]
    BY <1>2, <1>3, <1>4, <1>6 DEF LastBecomes
  <2> QED
    BY <1>4, <2>1 DEF AttemptsWritten
<1> QED
  BY <1>5, <1>6

(* A verdict on the pending attempt, written down when the database takes  *)
(* it.                                                                     *)
LEMMA AttemptJudged ==
  ASSUME TypeOK, NEW r \in Requests, Pending(r), Trail(r), AttemptsWritten(r),
         NEW new \in Final, NEW refused \in Refusals, SetAttempt(r, new, refused)
  PROVE  /\ Trail(r)' /\ AttemptsWritten(r)'
         /\ attempts'[r] # <<>>
         /\ Last(r)'.status = new
         /\ Last(r)'.outcome = Last(r).outcome
         /\ LastBecomes(r, Last(r)')
         /\ dbErrors' = 0 => Last(r)'.row = new
<1> DEFINE e == [Last(r) EXCEPT !.status = new, !.row = Updated(Last(r).row, new, refused)]
<1>1. attempts[r] # <<>> /\ attempts[r] \in Seq(Attempts)
  BY DEF Pending, TypeOK
<1>2. new \in Statuses
  BY DEF Statuses
<1>3. Last(r) \in Attempts /\ LastBecomes(r, e)
  BY <1>1, <1>2, SetAttemptEffect
<1>4. e.status = new /\ e.outcome = Last(r).outcome /\ e.row = Updated(Last(r).row, new, refused)
  BY <1>3 DEF Attempts
<1> HIDE DEF e
<1>5. dbErrors' = 0 => dbErrors = 0 /\ e.row = new
  <2>1. SUFFICES ASSUME dbErrors' = 0 PROVE dbErrors = 0 /\ e.row = new
    OBVIOUS
  <2>2. dbErrors = 0 /\ ~refused
    BY <2>1, Unrefused DEF SetAttempt
  <2>3. Len(attempts[r]) \in DOMAIN attempts[r]
    BY <1>1
  <2>4. Last(r).row = "IN_PROGRESS"
    BY <2>2, <2>3 DEF AttemptsWritten, Pending, Last
  <2> QED
    BY <1>4, <2>2, <2>4, Writes DEF Updated
<1>6. Trail(r)' /\ Last(r)' = e
  BY <1>1, <1>3, TrailKept
<1>7. AttemptsWritten(r)'
  BY <1>1, <1>3, <1>4, <1>5, AttemptsWrittenKept
<1>8. attempts'[r] # <<>>
  BY <1>3 DEF LastBecomes
<1> QED
  BY <1>3, <1>4, <1>5, <1>6, <1>7, <1>8

-------------------------------------------------------------------------------
(* A step that leaves a request's places and rows alone.                   *)
Settled(r) ==
    /\ pc'[r] = pc[r]
    /\ status'[r] = status[r]
    /\ row'[r] = row[r]
    /\ attempts'[r] = attempts[r]
    /\ dbErrors' = 0 => dbErrors = 0

LEMMA AuditSame ==
  ASSUME NEW r \in Requests, AuditInv(r), Settled(r)
  PROVE  AuditInv(r)'
<1> USE DEF AuditInv, Settled
<1>1. Trail(r)'
  BY DEF Trail, Ended
<1>2. Verdict(r)'
  BY DEF Verdict, Lost, Retired, Ended, Pending, Panicked, Won, Last
<1>3. AttemptsWritten(r)' /\ RequestWritten(r)'
  BY DEF AttemptsWritten, RequestWritten
<1> QED
  BY <1>1, <1>2, <1>3

(* Only the place of a request changes.                                    *)
LEMMA AuditMoves ==
  ASSUME NEW r \in Requests, AuditInv(r), pc[r] # "dead",
         UNCHANGED <<status, row, attempts, dbErrors>>, Verdict(r)'
  PROVE  AuditInv(r)'
<1>1. Trail(r)'
  BY DEF AuditInv, Trail, Ended
<1>2. AttemptsWritten(r)' /\ RequestWritten(r)'
  BY DEF AuditInv, AttemptsWritten, RequestWritten
<1> QED
  BY <1>1, <1>2 DEF AuditInv

(* A new verdict on the request, written down when the database takes it.  *)
LEMMA RequestJudged ==
  ASSUME TypeOK, NEW r \in Requests, AuditInv(r), pc[r] # "dead",
         status[r] # "none", NEW new \in Final, NEW refused \in Refusals,
         SetStatus(r, new, refused), UNCHANGED attempts, Verdict(r)'
  PROVE  /\ AuditInv(r)'
         /\ dbErrors' = 0 => dbErrors = 0 /\ row[r] = status[r] /\ row'[r] = new
<1>1. status'[r] = new /\ row'[r] = Updated(row[r], new, refused)
  BY DEF SetStatus, TypeOK
<1>2. dbErrors' = 0 => dbErrors = 0 /\ row[r] = status[r] /\ row'[r] = new
  <2>1. SUFFICES ASSUME dbErrors' = 0
                 PROVE  dbErrors = 0 /\ row[r] = status[r] /\ row'[r] = new
    OBVIOUS
  <2>2. dbErrors = 0 /\ ~refused
    BY <2>1, Unrefused DEF SetStatus
  <2>3. row[r] = status[r]
    BY <2>2 DEF AuditInv, RequestWritten
  <2> QED
    BY <1>1, <2>2, <2>3 DEF Updated
<1>3. Trail(r)' /\ AttemptsWritten(r)'
  BY <1>2 DEF AuditInv, Trail, Ended, AttemptsWritten
<1>4. RequestWritten(r)'
  BY <1>1, <1>2 DEF RequestWritten
<1> QED
  BY <1>2, <1>3, <1>4 DEF AuditInv

(* A request's own steps keep its trail, its verdict and its rows.         *)
LEMMA StepAudit ==
  ASSUME AInv, NEW r \in Requests, Match(r) \/ Step(r) \/ Return(r)
  PROVE  AuditInv(r)'
<1> USE DEF progress, audit, gate, bounds
<1>1. TypeOK /\ AuditInv(r) /\ Verdict(r) /\ RequestInv(r)
  BY DEF AInv, IInv, AuditInv
<1>2. pc \in [Requests -> Active \cup {"idle", "returned", "dead"}]
  BY <1>1 DEF TypeOK
<1>3. ASSUME UNCHANGED <<status, row, attempts, dbErrors>>, pc[r] # "dead",
             \/ pc[r] = "idle" /\ pc'[r] \in {"returned", "matching"}
             \/ pc[r] = "matching" /\ pc'[r] \in {"returned", "matching"}
             \/ pc[r] = "route" /\ pc'[r] \in {"attempt", "defer"}
             \/ pc[r] = "failed" /\ pc'[r] \in {"defer", "wait", "route"}
             \/ pc[r] = "wait" /\ pc'[r] \in {"attempt", "defer"}
             \/ pc[r] = "attempt" /\ pc'[r] \in {"defer", "create"}
             \/ pc[r] = "call" /\ pc'[r] = "upstream"
             \/ pc[r] = "deferAttempt" /\ pc'[r] = "returned" /\ ~Pending(r)
      PROVE  AuditInv(r)'
  <2>1. Verdict(r)'
    BY <1>1, <1>3 DEF Verdict, Lost, Retired, Ended, Pending, Panicked, Won, Last
  <2> QED
    BY <1>1, <1>3, <2>1, AuditMoves
<1>4. CASE Match(r)
  BY <1>2, <1>3, <1>4 DEF Match, GoTo
<1>5. CASE MatchRoute(r) \/ NoRoutes(r)
  BY <1>2, <1>3, <1>5 DEF MatchRoute, NoRoutes, GoTo
<1>6. CASE CreateRequest(r)
  <2>1. PICK refused \in Refusals :
            /\ status' = [status EXCEPT ![r] = "IN_PROGRESS"]
            /\ row' = [row EXCEPT ![r] = Created("IN_PROGRESS", refused)]
            /\ Count(refused)
    BY <1>6 DEF CreateRequest
  <2>2. /\ pc[r] = "matching" /\ pc'[r] = "route" /\ UNCHANGED attempts
        /\ status'[r] = "IN_PROGRESS" /\ row'[r] = Created("IN_PROGRESS", refused)
    BY <1>1, <1>2, <1>6, <2>1 DEF CreateRequest, GoTo, TypeOK
  <2>3. attempts'[r] = <<>>
    BY <1>1, <2>2 DEF Verdict
  <2>4. dbErrors' = 0 => row'[r] = status'[r]
    BY <1>1, <2>1, <2>2, Unrefused, Writes DEF Created
  <2>5. Verdict(r)'
    BY <2>2, <2>3 DEF Verdict, Retired
  <2>6. Trail(r)' /\ AttemptsWritten(r)' /\ RequestWritten(r)'
    BY <2>3, <2>4 DEF Trail, AttemptsWritten, RequestWritten
  <2> QED
    BY <2>5, <2>6 DEF AuditInv
<1>7. CASE NextRoute(r)
  BY <1>2, <1>3, <1>7 DEF NextRoute, GoTo
<1>8. CASE FailRequest(r)
  <2>1. PICK refused \in Refusals : SetStatus(r, "FAILED", refused)
    BY <1>8 DEF FailRequest
  <2>2. /\ pc[r] = "route" /\ pc'[r] = "defer" /\ UNCHANGED attempts
        /\ status'[r] = "FAILED"
    BY <1>1, <1>2, <1>8, <2>1 DEF FailRequest, SetStatus, GoTo, TypeOK
  <2>3. Verdict(r)'
    BY <1>1, <2>2 DEF Verdict, Retired, Ended, Last
  <2> QED
    BY <1>1, <2>1, <2>2, <2>3, RequestJudged DEF Verdict, Final
<1>9. CASE CreateAttempt(r)
  <2>1. PICK refused \in Refusals :
            /\ attempts' = [attempts EXCEPT ![r] = Append(@,
                  [route |-> CurrentRoute(r), outcome |-> NoOutcome,
                   status |-> "IN_PROGRESS", row |-> Created("IN_PROGRESS", refused)])]
            /\ Count(refused)
    BY <1>9 DEF CreateAttempt
  <2> DEFINE e == [route |-> CurrentRoute(r), outcome |-> NoOutcome,
                   status |-> "IN_PROGRESS", row |-> Created("IN_PROGRESS", refused)]
  <2>2. e.status = "IN_PROGRESS" /\ e.row = Created("IN_PROGRESS", refused)
    OBVIOUS
  <2> HIDE DEF e
  <2>3. attempts' = [attempts EXCEPT ![r] = Append(@, e)]
    BY <2>1 DEF e
  <2>4. /\ Len(attempts'[r]) = Len(attempts[r]) + 1
        /\ attempts'[r] # <<>>
        /\ DOMAIN attempts'[r] = 1..(Len(attempts[r]) + 1)
        /\ \A i \in DOMAIN attempts[r] : attempts'[r][i] = attempts[r][i]
        /\ attempts'[r][Len(attempts[r]) + 1] = e
    BY <1>1, <2>3, StartEffect
  <2>5. attempts[r] \in Seq(Attempts) /\ DOMAIN attempts[r] = 1..Len(attempts[r])
    BY <1>1 DEF TypeOK
  <2>6. Len(attempts[r]) \in Nat
    BY <2>5
  <2>7. /\ pc[r] = "create" /\ pc'[r] = "call"
        /\ UNCHANGED <<status, row>>
    BY <1>2, <1>9 DEF CreateAttempt, GoTo
  <2>8. Verdict(r)'
    BY <1>1, <2>2, <2>4, <2>7 DEF Verdict, Pending, Last
  <2>9. \A i \in DOMAIN attempts[r] : Ended(attempts[r][i])
    <3>1. ASSUME NEW i \in DOMAIN attempts[r], i = Len(attempts[r])
          PROVE  Ended(attempts[r][i])
      <4>1. attempts[r] # <<>>
        BY <2>5, <3>1
      <4> QED
        BY <1>1, <2>7, <3>1, <4>1 DEF Verdict, Retired, Last
    <3>2. ASSUME NEW i \in DOMAIN attempts[r], i # Len(attempts[r])
          PROVE  Ended(attempts[r][i])
      BY <1>1, <2>5, <2>6, <3>2 DEF AuditInv, Trail
    <3> QED
      BY <3>1, <3>2
  <2>10. Trail(r)'
    <3>1. SUFFICES ASSUME NEW i \in DOMAIN attempts'[r], i < Len(attempts'[r])
                   PROVE  Ended(attempts'[r][i])
      BY DEF Trail, Ended
    <3>2. i \in DOMAIN attempts[r]
      BY <2>4, <2>5, <2>6, <3>1
    <3> QED
      BY <2>4, <2>9, <3>2 DEF Ended
  <2>11. dbErrors' = 0 => dbErrors = 0 /\ e.row = e.status
    BY <1>1, <2>1, <2>2, Unrefused, Writes DEF Created
  <2>12. AttemptsWritten(r)'
    <3>1. SUFFICES ASSUME dbErrors' = 0, NEW i \in DOMAIN attempts'[r]
                   PROVE  attempts'[r][i].row = attempts'[r][i].status
      BY DEF AttemptsWritten
    <3>2. CASE i \in DOMAIN attempts[r]
      BY <1>1, <2>4, <2>11, <3>1, <3>2 DEF AuditInv, AttemptsWritten
    <3>3. CASE i = Len(attempts[r]) + 1
      BY <2>4, <2>11, <3>1, <3>3
    <3> QED
      BY <2>4, <2>5, <2>6, <3>1, <3>2, <3>3
  <2>13. RequestWritten(r)'
    BY <1>1, <2>7, <2>11 DEF AuditInv, RequestWritten
  <2> QED
    BY <2>8, <2>10, <2>12, <2>13 DEF AuditInv
<1>18. CASE CheckContext(r) \/ CallAdapter(r)
  BY <1>2, <1>3, <1>18 DEF CheckContext, CallAdapter, GoTo
<1>10. CASE Return(r)
  <2>1. PICK outcome \in Outcomes : Answer(r, outcome)
    BY <1>10 DEF Return
  <2>2. /\ pc[r] = "upstream" /\ UNCHANGED <<status, row, dbErrors>>
        /\ pc'[r] = IF outcome.kind = "panic" THEN "defer" ELSE "answered"
    BY <1>2, <2>1 DEF Answer, GoTo
  <2>3. attempts[r] # <<>> /\ Pending(r)
    BY <1>1, <2>2 DEF Verdict, Pending
  <2> DEFINE e == [Last(r) EXCEPT !.outcome = outcome]
  <2>4. Last(r) \in Attempts /\ LastBecomes(r, e)
    BY <1>1, <2>1, <2>3, AnswerEffect
  <2>5. e.outcome = outcome /\ e.status = Last(r).status /\ e.row = Last(r).row
    BY <2>4 DEF Attempts
  <2> HIDE DEF e
  <2>6. Trail(r)' /\ Last(r)' = e /\ attempts'[r] # <<>>
    BY <1>1, <2>3, <2>4, TrailKept DEF AuditInv, LastBecomes
  <2>7. dbErrors = 0 => Last(r).row = Last(r).status
    <3>1. attempts[r] \in Seq(Attempts)
      BY <1>1 DEF TypeOK
    <3>2. Len(attempts[r]) \in DOMAIN attempts[r]
      BY <2>3, <3>1
    <3> QED
      BY <1>1, <3>2 DEF AuditInv, AttemptsWritten, Last
  <2>8. AttemptsWritten(r)'
    BY <1>1, <2>2, <2>3, <2>4, <2>5, <2>7, AttemptsWrittenKept DEF AuditInv
  <2>9. outcome.kind \in {"ok", "error", "panic"}
    BY OutcomesAssumption
  <2>10. Verdict(r)'
    BY <1>1, <2>2, <2>3, <2>5, <2>6, <2>9 DEF Verdict, Pending, Panicked
  <2>11. RequestWritten(r)'
    BY <1>1, <2>2 DEF AuditInv, RequestWritten
  <2> QED
    BY <2>6, <2>8, <2>10, <2>11 DEF AuditInv
<1>11. ASSUME NEW new \in Final, NEW refused \in Refusals, SetAttempt(r, new, refused),
              Pending(r), pc[r] # "dead", UNCHANGED <<status, row>>,
              Last(r)'.status = new /\ Last(r)'.outcome = Last(r).outcome
                /\ attempts'[r] # <<>> => Verdict(r)'
       PROVE  AuditInv(r)'
  <2>1. /\ Trail(r)' /\ AttemptsWritten(r)' /\ attempts'[r] # <<>>
        /\ Last(r)'.status = new /\ Last(r)'.outcome = Last(r).outcome
    BY <1>1, <1>11, AttemptJudged DEF AuditInv
  <2>2. dbErrors' = 0 => dbErrors = 0
    BY <1>1, <1>11, Unrefused DEF SetAttempt
  <2>3. RequestWritten(r)'
    BY <1>1, <1>11, <2>2 DEF AuditInv, RequestWritten
  <2> QED
    BY <1>11, <2>1, <2>3 DEF AuditInv
<1>12. CASE CompleteAttempt(r)
  <2>1. PICK refused \in Refusals : SetAttempt(r, "COMPLETED", refused)
    BY <1>12 DEF CompleteAttempt
  <2>2. /\ pc[r] = "answered" /\ pc'[r] = "completed" /\ UNCHANGED <<status, row>>
        /\ Last(r).outcome.kind = "ok"
    BY <1>2, <1>12 DEF CompleteAttempt, GoTo
  <2>3. Pending(r) /\ status[r] = "IN_PROGRESS"
    BY <1>1, <2>2 DEF Verdict
  <2>4. ASSUME Last(r)'.status = "COMPLETED", Last(r)'.outcome = Last(r).outcome,
               attempts'[r] # <<>>
        PROVE  Verdict(r)'
    BY <2>2, <2>3, <2>4 DEF Verdict, Won
  <2> QED
    BY <1>11, <2>1, <2>2, <2>3, <2>4 DEF Final
<1>13. CASE CompleteRequest(r)
  <2>1. PICK refused \in Refusals : SetStatus(r, "COMPLETED", refused)
    BY <1>13 DEF CompleteRequest
  <2>2. /\ pc[r] = "completed" /\ pc'[r] = "defer" /\ UNCHANGED attempts
        /\ status'[r] = "COMPLETED"
    BY <1>1, <1>2, <1>13, <2>1 DEF CompleteRequest, SetStatus, GoTo, TypeOK
  <2>3. Verdict(r)'
    BY <1>1, <2>2 DEF Verdict, Won, Last
  <2> QED
    BY <1>1, <2>1, <2>2, <2>3, RequestJudged DEF Verdict, Final
<1>14. CASE FailAttempt(r)
  <2> DEFINE new == IF gone[r] THEN "CANCELLED" ELSE "FAILED"
  <2>1. PICK refused \in Refusals : SetAttempt(r, new, refused)
    BY <1>14 DEF FailAttempt
  <2>2. /\ pc[r] = "answered" /\ pc'[r] = "failed" /\ UNCHANGED <<status, row>>
        /\ Last(r).outcome.kind = "error"
    BY <1>2, <1>14 DEF FailAttempt, GoTo
  <2>3. Pending(r) /\ status[r] = "IN_PROGRESS"
    BY <1>1, <2>2 DEF Verdict
  <2>4. new \in {"FAILED", "CANCELLED"}
    OBVIOUS
  <2> HIDE DEF new
  <2>5. ASSUME Last(r)'.status = new, Last(r)'.outcome = Last(r).outcome,
               attempts'[r] # <<>>
        PROVE  Verdict(r)'
    BY <2>2, <2>3, <2>4, <2>5 DEF Verdict, Retired, Ended
  <2> QED
    BY <1>11, <2>1, <2>2, <2>3, <2>4, <2>5 DEF Final
<1>15. CASE Judge(r) \/ Retry(r) \/ StopWaiting(r)
  BY <1>2, <1>3, <1>15 DEF Judge, Retry, StopWaiting, GoTo
<1>16. CASE DeferRequest(r)
  <2>1. pc[r] = "defer" /\ pc'[r] = "deferAttempt" /\ UNCHANGED attempts
    BY <1>2, <1>16 DEF DeferRequest, GoTo
  <2>2. CASE status[r] = "IN_PROGRESS"
    <3> DEFINE new == IF gone[r] THEN "CANCELLED" ELSE "FAILED"
    <3>1. PICK refused \in Refusals : SetStatus(r, new, refused)
      BY <1>16, <2>2 DEF DeferRequest
    <3>2. new \in {"CANCELLED", "FAILED"}
      OBVIOUS
    <3> HIDE DEF new
    <3>3. status'[r] = new
      BY <1>1, <3>1 DEF SetStatus, TypeOK
    <3>4. Verdict(r)'
      BY <1>1, <2>1, <2>2, <3>2, <3>3 DEF Verdict, Lost, Retired, Ended, Panicked, Pending, Last
    <3> QED
      BY <1>1, <2>1, <2>2, <3>1, <3>2, <3>4, RequestJudged DEF Final
  <2>3. CASE status[r] # "IN_PROGRESS"
    <3>1. UNCHANGED <<status, row, attempts, dbErrors>>
      BY <1>16, <2>3 DEF DeferRequest
    <3>2. Verdict(r)'
      BY <1>1, <2>1, <2>3, <3>1 DEF Verdict, Lost, Retired, Ended, Panicked, Pending, Won, Last
    <3> QED
      BY <1>1, <2>1, <3>1, <3>2, AuditMoves
  <2> QED
    BY <2>2, <2>3
<1>17. CASE DeferAttempt(r)
  <2>1. pc[r] = "deferAttempt" /\ pc'[r] = "returned" /\ UNCHANGED <<status, row>>
    BY <1>2, <1>17 DEF DeferAttempt, GoTo
  <2>2. CASE Pending(r)
    <3> DEFINE new == IF gone[r] THEN "CANCELLED" ELSE "FAILED"
    <3>1. PICK refused \in Refusals : SetAttempt(r, new, refused)
      BY <1>17, <2>2 DEF DeferAttempt, Pending, CurrentAttempt
    <3>2. new \in {"CANCELLED", "FAILED"}
      OBVIOUS
    <3> HIDE DEF new
    <3>3. Lost(r) /\ Panicked(r)
      BY <1>1, <2>1, <2>2 DEF Verdict, Pending, Retired, Ended, Won
    <3>4. ASSUME Last(r)'.status = new, Last(r)'.outcome = Last(r).outcome,
                 attempts'[r] # <<>>
          PROVE  Verdict(r)'
      BY <2>1, <3>2, <3>3, <3>4 DEF Verdict, Lost, Panicked
    <3> QED
      BY <1>11, <2>1, <2>2, <3>1, <3>2, <3>4 DEF Final
  <2>3. CASE ~Pending(r)
    <3>1. UNCHANGED <<status, row, attempts, dbErrors>>
      BY <1>17, <2>3 DEF DeferAttempt, Pending, CurrentAttempt
    <3> QED
      BY <1>3, <2>1, <2>3, <3>1
  <2> QED
    BY <2>2, <2>3
<1> QED
  BY <1>4, <1>5, <1>6, <1>7, <1>8, <1>9, <1>10, <1>12, <1>13, <1>14, <1>15, <1>16, <1>17,
     <1>18 DEF Step

(* Once refused, a write stays refused.                                    *)
LEMMA RefusalsCount ==
  ASSUME TypeOK, [Next]_vars
  PROVE  dbErrors' = 0 => dbErrors = 0
<1> USE DEF progress, audit, gate, bounds
<1>1. dbErrors \in Nat
  BY RoutesAssumption DEF TypeOK
<1>2. ASSUME NEW refused, Count(refused)
      PROVE  dbErrors' = 0 => dbErrors = 0
  BY <1>1, <1>2 DEF Count
<1>3. ASSUME NEW r \in Requests, Match(r) \/ Return(r) \/ Disconnect(r)
      PROVE  UNCHANGED dbErrors
  BY <1>3, ZenonT(60) DEF Match, Return, Answer, Disconnect
<1>4. ASSUME NEW r \in Requests,
             \/ MatchRoute(r) \/ NoRoutes(r) \/ NextRoute(r)
             \/ CheckContext(r) \/ CallAdapter(r)
             \/ Judge(r) \/ Retry(r) \/ StopWaiting(r)
      PROVE  UNCHANGED dbErrors
  BY <1>4 DEF MatchRoute, NoRoutes, NextRoute, CheckContext, CallAdapter, Judge, Retry, StopWaiting
<1>5. ASSUME NEW r \in Requests,
             \/ CreateRequest(r) \/ FailRequest(r) \/ CreateAttempt(r)
             \/ CompleteAttempt(r) \/ CompleteRequest(r) \/ FailAttempt(r)
             \/ DeferRequest(r) \/ DeferAttempt(r)
      PROVE  dbErrors' = 0 => dbErrors = 0
  BY <1>2, <1>5, ZenonT(60) DEF CreateRequest, FailRequest, CreateAttempt, CompleteAttempt, CompleteRequest,
                    FailAttempt, DeferRequest, DeferAttempt, SetStatus, SetAttempt
<1>6. ASSUME NEW key \in Keys,
             \/ \E ahead \in BOOLEAN : DeliverUpdate(key, ahead)
             \/ TimeOutUpdate(key) \/ Lapse(key)
      PROVE  UNCHANGED dbErrors
  BY <1>6 DEF DeliverUpdate, TimeOutUpdate, Lapse
<1>7. ASSUME NEW provider \in Providers, Release(provider)
      PROVE  UNCHANGED dbErrors
  BY <1>7 DEF Release
<1>8. CASE Crash \/ Restart \/ UNCHANGED vars
  BY <1>8 DEF Crash, Restart, vars
<1> QED
  BY <1>3, <1>4, <1>5, <1>6, <1>7, <1>8 DEF Next, Step

(* A request's steps touch no other request's rows.                        *)
LEMMA OthersRows ==
  ASSUME TypeOK, NEW r \in Requests, NEW s \in Requests \ {r},
         Match(r) \/ Step(r) \/ Return(r) \/ Disconnect(r)
  PROVE  row'[s] = row[s]
<1> USE DEF TypeOK, progress, audit, gate, bounds
<1>1. CASE CreateRequest(r)
  BY <1>1 DEF CreateRequest
<1>2. CASE FailRequest(r) \/ CompleteRequest(r) \/ DeferRequest(r)
  BY <1>2 DEF FailRequest, CompleteRequest, DeferRequest, SetStatus
<1>3. ASSUME \/ Match(r) \/ Return(r) \/ Disconnect(r)
             \/ MatchRoute(r) \/ NoRoutes(r) \/ NextRoute(r)
             \/ CheckContext(r) \/ CreateAttempt(r) \/ CallAdapter(r)
             \/ CompleteAttempt(r) \/ FailAttempt(r)
             \/ Judge(r) \/ Retry(r) \/ StopWaiting(r) \/ DeferAttempt(r)
      PROVE  UNCHANGED row
  BY <1>3 DEF Match, Return, Answer, Disconnect, MatchRoute, NoRoutes, NextRoute, CheckContext,
              CreateAttempt, CallAdapter, CompleteAttempt, FailAttempt, Judge, Retry, StopWaiting, DeferAttempt
<1> QED
  BY <1>1, <1>2, <1>3 DEF Step

(* Nobody matches, and nobody goes on, while the process is down.          *)
LEMMA NextDown ==
  ASSUME AInv, [Next]_vars
  PROVE  DownIsIdle'
<1> USE DEF AInv, IInv, TypeOK, DownIsIdle, progress, audit, gate, bounds
<1>1. CASE UNCHANGED <<up, pc>>
  BY <1>1
<1>2. ASSUME NEW r \in Requests, Match(r) \/ Step(r) \/ Return(r)
      PROVE  up' /\ up
  <2>1. up' = up
    BY <1>2 DEF Match, Step, Return, Answer, MatchRoute, NoRoutes, CreateRequest, NextRoute,
                FailRequest, CheckContext, CreateAttempt, CallAdapter, CompleteAttempt, CompleteRequest, FailAttempt, Judge,
                Retry, StopWaiting, DeferRequest, DeferAttempt
  <2>2. up \/ pc[r] \in Active
    BY <1>2 DEF Match, Step, Return, Answer, MatchRoute, NoRoutes, CreateRequest, NextRoute,
                FailRequest, CheckContext, CreateAttempt, CallAdapter, CompleteAttempt, CompleteRequest, FailAttempt, Judge,
                Retry, StopWaiting, DeferRequest, DeferAttempt, Active
  <2> QED
    BY <2>1, <2>2
<1>3. ASSUME NEW r \in Requests, Disconnect(r)
      PROVE  UNCHANGED <<up, pc>>
  BY <1>3 DEF Disconnect
<1>4. ASSUME NEW key \in Keys,
             \/ \E ahead \in BOOLEAN : DeliverUpdate(key, ahead)
             \/ TimeOutUpdate(key) \/ Lapse(key)
      PROVE  UNCHANGED <<up, pc>>
  BY <1>4 DEF DeliverUpdate, TimeOutUpdate, Lapse
<1>5. ASSUME NEW provider \in Providers, Release(provider)
      PROVE  UNCHANGED <<up, pc>>
  BY <1>5 DEF Release
<1>6. CASE Crash
  BY <1>6 DEF Crash, Active
<1>7. CASE Restart
  BY <1>7 DEF Restart
<1>8. CASE UNCHANGED vars
  BY <1>1, <1>8 DEF vars
<1> QED
  BY <1>1, <1>2, <1>3, <1>4, <1>5, <1>6, <1>7, <1>8 DEF Next

(* Every step keeps every request's trail, verdict and rows.               *)
LEMMA NextAudit ==
  ASSUME AInv, [Next]_vars, NEW s \in Requests
  PROVE  AuditInv(s)'
<1> USE DEF progress, audit, gate, bounds
<1>1. TypeOK /\ AuditInv(s) /\ DownIsIdle
  BY DEF AInv, IInv
<1>2. dbErrors' = 0 => dbErrors = 0
  BY <1>1, RefusalsCount
<1>3. ASSUME UNCHANGED <<pc, status, row, attempts>>
      PROVE  AuditInv(s)'
  BY <1>1, <1>2, <1>3, AuditSame DEF Settled
<1>4. ASSUME NEW r \in Requests, Match(r) \/ Step(r) \/ Return(r) \/ Disconnect(r)
      PROVE  AuditInv(s)'
  <2>1. CASE s # r
    <3>1. Same(s)
      BY <1>4, <2>1, OthersSame DEF AInv
    <3>2. row'[s] = row[s]
      BY <1>1, <1>4, <2>1, OthersRows
    <3> QED
      BY <1>1, <1>2, <3>1, <3>2, AuditSame DEF Same, Settled
  <2>2. CASE s = r /\ Disconnect(r)
    BY <1>3, <2>2 DEF Disconnect
  <2>3. CASE s = r /\ (Match(r) \/ Step(r) \/ Return(r))
    BY <2>3, StepAudit
  <2> QED
    BY <1>4, <2>1, <2>2, <2>3
<1>5. ASSUME NEW key \in Keys,
             \/ \E ahead \in BOOLEAN : DeliverUpdate(key, ahead)
             \/ TimeOutUpdate(key) \/ Lapse(key)
      PROVE  AuditInv(s)'
  BY <1>3, <1>5 DEF DeliverUpdate, TimeOutUpdate, Lapse
<1>6. ASSUME NEW provider \in Providers, Release(provider)
      PROVE  AuditInv(s)'
  BY <1>3, <1>6 DEF Release
<1>7. CASE Crash
  <2>1. UNCHANGED <<status, row, attempts, dbErrors>>
    BY <1>7 DEF Crash
  <2>2. CASE pc[s] \in Active
    <3>1. pc'[s] = "dead"
      BY <1>7, <2>2 DEF Crash
    <3> QED
      BY <1>1, <2>1, <3>1 DEF AuditInv, Trail, Ended, Verdict, AttemptsWritten, RequestWritten
  <2>3. CASE pc[s] \notin Active
    <3>1. pc'[s] = pc[s]
      BY <1>7, <2>3 DEF Crash
    <3> QED
      BY <1>1, <2>1, <3>1, AuditSame DEF Settled
  <2> QED
    BY <2>2, <2>3
<1>8. CASE Restart
  <2>1. UNCHANGED <<pc, status, attempts, dbErrors>>
    BY <1>8 DEF Restart
  <2>2. CASE dbErrors' = 0 /\ pc[s] # "dead"
    <3>1. pc[s] \in {"idle", "returned"}
      BY <1>1, <1>8, <2>2 DEF Restart, DownIsIdle, TypeOK
    <3>2. row[s] = status[s] /\ status[s] # "IN_PROGRESS"
      BY <1>1, <2>1, <2>2, <3>1 DEF AuditInv, RequestWritten, Verdict, Lost
    <3>3. row'[s] = row[s]
      BY <1>8, <3>2 DEF Restart, MarkStaleAsFailed
    <3> QED
      BY <1>1, <2>1, <3>3, AuditSame DEF Settled
  <2>3. CASE ~(dbErrors' = 0 /\ pc[s] # "dead")
    <3>1. RequestWritten(s)'
      BY <2>1, <2>3 DEF RequestWritten
    <3>2. Trail(s)' /\ Verdict(s)' /\ AttemptsWritten(s)'
      BY <1>1, <2>1 DEF AuditInv, Trail, Verdict, Lost, Retired, Ended, Pending, Panicked, Won,
                        Last, AttemptsWritten
    <3> QED
      BY <3>1, <3>2 DEF AuditInv
  <2> QED
    BY <2>2, <2>3
<1>9. CASE UNCHANGED vars
  BY <1>3, <1>9 DEF vars
<1> QED
  BY <1>4, <1>5, <1>6, <1>7, <1>8, <1>9 DEF Next

LEMMA AuditInit ==
  ASSUME Init
  PROVE  AInv
<1>1. ASSUME NEW r \in Requests
      PROVE  AuditInv(r)
  BY DEF Init, AuditInv, Trail, Verdict, AttemptsWritten, RequestWritten
<1>2. DownIsIdle
  BY DEF Init, DownIsIdle
<1> QED
  BY <1>1, <1>2, InitInv DEF AInv

(* The inductive invariant of the audit rows: place by place in Execute,   *)
(* what the request's status and its attempts say, in memory and, until a  *)
(* write is refused, in the tables.                                        *)
THEOREM AuditInvariant == Spec => []AInv
<1>1. Init => AInv
  BY AuditInit
<1>2. AInv /\ [Next]_vars => AInv'
  BY NextInv, NextDown, NextAudit DEF AInv
<1> QED
  BY <1>1, <1>2, PTL DEF Spec

(* However Execute is left, by a success, with its routes used up, by a    *)
(* client that leaves or by a panic, its deferred function has settled the *)
(* request and every attempt, and a success is the last attempt's.         *)
THEOREM EveryExitSettles == Spec => []AuditSettled
<1>1. AInv => AuditSettled
  <2>1. SUFFICES ASSUME AInv, NEW r \in Requests, pc[r] = "returned", status[r] # "none"
                 PROVE  /\ status[r] \in Final
                        /\ status[r] = "COMPLETED"
                              <=> attempts[r] # <<>> /\ Last(r).outcome.kind = "ok"
                        /\ \A i \in DOMAIN attempts[r] : attempts[r][i].status \in Final
                        /\ dbErrors = 0 =>
                              /\ row[r] = status[r]
                              /\ \A i \in DOMAIN attempts[r] :
                                    attempts[r][i].row = attempts[r][i].status
    BY DEF AuditSettled
  <2>2. Trail(r) /\ Verdict(r) /\ AttemptsWritten(r) /\ RequestWritten(r)
    BY <2>1 DEF AInv, AuditInv
  <2>3. \/ Lost(r) /\ (Retired(r) \/ (Panicked(r) /\ Last(r).status \in {"FAILED", "CANCELLED"}))
        \/ status[r] = "COMPLETED" /\ Won(r)
    BY <2>1, <2>2 DEF Verdict
  <2>4. status[r] \in Final
    BY <2>3 DEF Lost, Final
  <2>5. status[r] = "COMPLETED" <=> attempts[r] # <<>> /\ Last(r).outcome.kind = "ok"
    BY <2>3 DEF Lost, Retired, Ended, Panicked, Won
  <2>6. ASSUME NEW i \in DOMAIN attempts[r]
        PROVE  attempts[r][i].status \in Final
    <3>1. attempts[r] \in Seq(Attempts)
      BY <2>1 DEF AInv, IInv, TypeOK
    <3>2. attempts[r] # <<>> /\ (i = Len(attempts[r]) \/ i < Len(attempts[r]))
      BY <2>6, <3>1
    <3>3. CASE i < Len(attempts[r])
      BY <2>2, <3>3 DEF Trail, Ended, Final
    <3>4. CASE i = Len(attempts[r])
      BY <2>3, <3>2, <3>4 DEF Retired, Ended, Panicked, Won, Last, Final
    <3> QED
      BY <3>2, <3>3, <3>4
  <2> QED
    BY <2>1, <2>2, <2>4, <2>5, <2>6 DEF AttemptsWritten, RequestWritten
<1> QED
  BY <1>1, AuditInvariant, PTL

-------------------------------------------------------------------------------
(* The executor implements RequestLifecycle: every step of it is a step of *)
(* the audit trail's life, or leaves the audit trail alone.                *)

(* What the refinement mapping substitutes for trail and running.          *)
Rows == [r \in Requests |-> [i \in DOMAIN attempts[r] |-> attempts[r][i].row]]
Running == {r \in Requests : pc[r] \in Active}

(* Where nothing has been refused, the rows tell an open and a won trail.  *)
LEMMA TrailRead ==
  ASSUME TypeOK, NEW r \in Requests, AuditInv(r), dbErrors = 0
  PROVE  /\ Lifecycle!Open(r) <=> Pending(r)
         /\ Lifecycle!Won(r) <=> attempts[r] # <<>> /\ Last(r).status = "COMPLETED"
<1> DEFINE n == Len(attempts[r])
<1>1. attempts[r] \in Seq(Attempts)
  BY DEF TypeOK
<1>2. n \in Nat /\ DOMAIN attempts[r] = 1..n /\ (attempts[r] # <<>> => n \in 1..n)
  BY <1>1
<1>3. Rows[r] = [i \in 1..n |-> attempts[r][i].row]
  BY <1>2 DEF Rows
<1>4. \A i \in 1..n : Rows[r][i] = attempts[r][i].status
  BY <1>2, <1>3 DEF AuditInv, AttemptsWritten
<1>5. DOMAIN Rows[r] = 1..n /\ Len(Rows[r]) = n
  BY <1>2, <1>3
<1>6. Rows[r] = <<>> <=> attempts[r] = <<>>
  BY <1>1, <1>2, <1>3
<1>7. Lifecycle!Open(r) <=> \E i \in 1..n : attempts[r][i].status = "IN_PROGRESS"
  BY <1>4, <1>5 DEF Lifecycle!Open, Rows
<1>8. \A i \in 1..n : attempts[r][i].status = "IN_PROGRESS" => i = n
  BY <1>2 DEF AuditInv, Trail, Ended
<1>9. Lifecycle!Open(r) <=> Pending(r)
  BY <1>2, <1>7, <1>8 DEF Pending, Last
<1>10. Lifecycle!Won(r) <=> Rows[r] # <<>> /\ Rows[r][Len(Rows[r])] = "COMPLETED"
  BY DEF Lifecycle!Won, Rows
<1>11. Lifecycle!Won(r) <=> attempts[r] # <<>> /\ Last(r).status = "COMPLETED"
  BY <1>2, <1>4, <1>5, <1>6, <1>10 DEF Last
<1> QED
  BY <1>9, <1>11

(* A new attempt is a new row at the end of the request's trail.           *)
LEMMA RowAdded ==
  ASSUME TypeOK, NEW r \in Requests, NEW e, attempts' = [attempts EXCEPT ![r] = Append(@, e)]
  PROVE  Rows' = [Rows EXCEPT ![r] = Append(@, e.row)]
<1> DEFINE n == Len(attempts[r])
<1>1. attempts \in [Requests -> Seq(Attempts)] /\ attempts[r] \in Seq(Attempts)
  BY DEF TypeOK
<1>2. n \in Nat /\ DOMAIN attempts[r] = 1..n
  BY <1>1
<1>3. /\ DOMAIN attempts'[r] = 1..(n + 1)
      /\ \A i \in 1..n : attempts'[r][i] = attempts[r][i]
      /\ attempts'[r][n + 1] = e
  BY <1>2, StartEffect, ZenonT(60)
<1>4. Rows[r] = [i \in 1..n |-> attempts[r][i].row]
  BY <1>2 DEF Rows
<1>5. Rows'[r] = [i \in 1..(n + 1) |-> attempts'[r][i].row]
  BY <1>3 DEF Rows
<1>6. Append(Rows[r], e.row)
          = [i \in 1..(n + 1) |-> IF i = n + 1 THEN e.row ELSE Rows[r][i]]
  BY <1>2, <1>4
<1>7. \A i \in 1..(n + 1) :
          attempts'[r][i].row = IF i = n + 1 THEN e.row ELSE Rows[r][i]
  BY <1>2, <1>3, <1>4
<1>8. Rows'[r] = Append(Rows[r], e.row)
  BY <1>5, <1>6, <1>7
<1>9. \A s \in Requests \ {r} : Rows'[s] = Rows[s]
  BY <1>1 DEF Rows
<1> QED
  BY <1>8, <1>9 DEF Rows

(* A change of the last attempt is a change of the trail's last row.       *)
LEMMA RowChanged ==
  ASSUME TypeOK, NEW r \in Requests, attempts[r] # <<>>, NEW e, LastBecomes(r, e),
         \A s \in Requests \ {r} : attempts'[s] = attempts[s]
  PROVE  /\ Rows' = [Rows EXCEPT ![r][Len(Rows[r])] = e.row]
         /\ e.row = Last(r).row => Rows' = Rows
<1> DEFINE n == Len(attempts[r])
<1>1. attempts[r] \in Seq(Attempts) /\ attempts'[r] \in Seq(Attempts)
  BY DEF TypeOK, LastBecomes
<1>2. n \in Nat \ {0} /\ DOMAIN attempts[r] = 1..n /\ DOMAIN attempts'[r] = 1..n
  BY <1>1 DEF LastBecomes
<1>3. Rows[r] = [i \in 1..n |-> attempts[r][i].row]
  BY <1>2 DEF Rows
<1>4. Rows'[r] = [i \in 1..n |-> attempts'[r][i].row]
  BY <1>2 DEF Rows
<1>5. \A i \in 1..n : attempts'[r][i] = IF i = n THEN e ELSE attempts[r][i]
  BY <1>2 DEF LastBecomes
<1>6. Len(Rows[r]) = n
  BY <1>2, <1>3
<1>7. Rows'[r] = [Rows[r] EXCEPT ![n] = e.row]
  BY <1>2, <1>3, <1>4, <1>5, SMTT(60)
<1>8. \A s \in Requests \ {r} : Rows'[s] = Rows[s]
  BY DEF Rows
<1>9. Rows' = [Rows EXCEPT ![r] = [Rows[r] EXCEPT ![n] = e.row]]
  BY <1>7, <1>8 DEF Rows
<1>10. ASSUME e.row = Last(r).row
       PROVE  Rows' = Rows
  <2>1. Rows'[r] = Rows[r]
    BY <1>2, <1>3, <1>4, <1>5, <1>10 DEF Last
  <2> QED
    BY <1>8, <2>1 DEF Rows
<1> QED
  BY <1>6, <1>9, <1>10

(* Whom the process works on after a request has moved.                    *)
LEMMA RunningMoves ==
  ASSUME TypeOK, NEW r \in Requests, NEW label, GoTo(r, label)
  PROVE  /\ label \in Active => Running' = Running \cup {r}
         /\ label \notin Active => Running' = Running \ {r}
         /\ r \in Running <=> pc[r] \in Active
BY DEF TypeOK, GoTo, Running

LEMMA RowsSame ==
  ASSUME UNCHANGED attempts
  PROVE  Rows' = Rows
BY DEF Rows

(* A step inside Execute that writes nothing is none of the audit's.       *)
LEMMA Unseen ==
  ASSUME AInv, UNCHANGED <<row, dbErrors>>, Rows' = Rows, Running' = Running
  PROVE  UNCHANGED Lifecycle!lvars
BY DEF Lifecycle!lvars, Rows, Running

LEMMA SilentSteps ==
  ASSUME AInv, NEW r \in Requests,
         \/ MatchRoute(r) \/ NextRoute(r) \/ Judge(r) \/ Retry(r) \/ StopWaiting(r)
         \/ CheckContext(r) \/ CallAdapter(r)
  PROVE  UNCHANGED Lifecycle!lvars
<1> USE DEF progress, audit, gate, bounds
<1>1. TypeOK
  BY DEF AInv, IInv
<1>2. UNCHANGED <<row, attempts, dbErrors>>
  BY DEF MatchRoute, NextRoute, Judge, Retry, StopWaiting, CheckContext, CallAdapter
<1>3. pc[r] \in Active /\ \E label \in Active : pc' = pc \/ GoTo(r, label)
  BY DEF MatchRoute, NextRoute, Judge, Retry, StopWaiting, CheckContext, CallAdapter, Active
<1>4. Running' = Running
  BY <1>1, <1>3, RunningMoves DEF Running
<1> QED
  BY <1>2, <1>4, RowsSame, Unseen

(* An answer changes what is known of the attempt, and not yet its row.    *)
LEMMA AnswerSilent ==
  ASSUME AInv, NEW r \in Requests, NEW outcome \in Outcomes, Answer(r, outcome)
  PROVE  UNCHANGED Lifecycle!lvars
<1> USE DEF progress, audit, gate, bounds
<1>1. TypeOK /\ Verdict(r)
  BY DEF AInv, IInv, AuditInv
<1>2. attempts[r] # <<>> /\ pc[r] \in Active
  BY <1>1 DEF Answer, Verdict, Pending, Active
<1> DEFINE e == [Last(r) EXCEPT !.outcome = outcome]
<1>3. Last(r) \in Attempts /\ LastBecomes(r, e)
  BY <1>1, <1>2, AnswerEffect
<1>4. e.row = Last(r).row
  BY <1>3 DEF Attempts
<1>5. \A s \in Requests \ {r} : attempts'[s] = attempts[s]
  BY <1>1 DEF Answer, TypeOK
<1> HIDE DEF e
<1>6. Rows' = Rows
  BY <1>1, <1>2, <1>3, <1>4, <1>5, RowChanged
<1>7. \E label \in Active : GoTo(r, label)
  BY DEF Answer, Active
<1>8. Running' = Running
  BY <1>1, <1>2, <1>7, RunningMoves
<1> QED
  BY <1>6, <1>8, Unseen DEF Answer

(* Entering and leaving Execute without a record.                          *)
LEMMA MatchStarts ==
  ASSUME AInv, NEW r \in Requests, Match(r), dbErrors = 0
  PROVE  Lifecycle!Start(r) \/ UNCHANGED Lifecycle!lvars
<1> USE DEF progress, audit, gate, bounds
<1>1. TypeOK /\ pc[r] = "idle"
  BY DEF AInv, IInv, Match
<1>2. row[r] = "none" /\ r \notin Running
  BY <1>1 DEF AInv, AuditInv, Verdict, RequestWritten, Running, Active
<1>3. UNCHANGED <<row, attempts, dbErrors>> /\ Rows' = Rows
  BY RowsSame DEF Match
<1>4. CASE GoTo(r, "returned")
  <2>1. Running' = Running
    BY <1>1, <1>2, <1>4, RunningMoves DEF Active
  <2> QED
    BY <1>3, <2>1, Unseen
<1>5. CASE GoTo(r, "matching")
  <2>1. Running' = Running \cup {r}
    BY <1>1, <1>5, RunningMoves DEF Active
  <2>2. Lifecycle!Start(r)
    BY <1>2, <1>3, <2>1 DEF Lifecycle!Start, Rows, Running
  <2> QED
    BY <2>2
<1> QED
  BY <1>4, <1>5 DEF Match

LEMMA NoRoutesLeaves ==
  ASSUME AInv, NEW r \in Requests, NoRoutes(r), dbErrors = 0
  PROVE  Lifecycle!Leave(r)
<1> USE DEF progress, audit, gate, bounds
<1>1. TypeOK /\ AuditInv(r) /\ pc[r] = "matching"
  BY DEF AInv, IInv, NoRoutes
<1>2. row[r] = "none" /\ attempts[r] = <<>> /\ r \in Running
  BY <1>1 DEF AuditInv, Verdict, RequestWritten, Running, Active
<1>3. ~Lifecycle!Open(r)
  BY <1>1, <1>2, TrailRead DEF Pending
<1>4. Running' = Running \ {r}
  BY <1>1, RunningMoves DEF NoRoutes, Active
<1>5. UNCHANGED <<row, attempts, dbErrors>> /\ Rows' = Rows
  BY RowsSame DEF NoRoutes
<1> QED
  BY <1>2, <1>3, <1>4, <1>5 DEF Lifecycle!Leave, Rows, Running

(* The record of the request, and each of its attempts'.                   *)
LEMMA CreateRecords ==
  ASSUME AInv, NEW r \in Requests, CreateRequest(r), dbErrors' = 0
  PROVE  Lifecycle!Record(r)
<1> USE DEF progress, audit, gate, bounds
<1>1. TypeOK /\ AuditInv(r) /\ pc[r] = "matching" /\ UNCHANGED attempts
  BY DEF AInv, IInv, CreateRequest
<1>2. PICK refused \in Refusals :
          row' = [row EXCEPT ![r] = Created("IN_PROGRESS", refused)] /\ Count(refused)
  BY DEF CreateRequest
<1>3. dbErrors = 0 /\ ~refused
  BY <1>1, <1>2, Unrefused
<1>4. row' = [row EXCEPT ![r] = "IN_PROGRESS"]
  BY <1>2, <1>3 DEF Created
<1>5. row[r] = "none" /\ r \in Running
  BY <1>1, <1>3 DEF AuditInv, Verdict, RequestWritten, Running, Active
<1>6. Running' = Running
  BY <1>1, <1>5, RunningMoves, ZenonT(60) DEF CreateRequest, Active
<1> QED
  BY <1>1, <1>3, <1>4, <1>5, <1>6, RowsSame DEF Lifecycle!Record, Rows, Running

LEMMA StartBegins ==
  ASSUME AInv, NEW r \in Requests, CreateAttempt(r), dbErrors' = 0
  PROVE  Lifecycle!Begin(r)
<1> USE DEF progress, audit, gate, bounds
<1>1. TypeOK /\ AuditInv(r) /\ pc[r] = "create" /\ GoTo(r, "call") /\ UNCHANGED row
  BY DEF AInv, IInv, CreateAttempt
<1>2. PICK refused \in Refusals :
          /\ attempts' = [attempts EXCEPT ![r] = Append(@,
                [route |-> CurrentRoute(r), outcome |-> NoOutcome,
                 status |-> "IN_PROGRESS", row |-> Created("IN_PROGRESS", refused)])]
          /\ Count(refused)
  BY DEF CreateAttempt
<1>3. dbErrors = 0 /\ ~refused
  BY <1>1, <1>2, Unrefused
<1> DEFINE e == [route |-> CurrentRoute(r), outcome |-> NoOutcome,
                 status |-> "IN_PROGRESS", row |-> Created("IN_PROGRESS", refused)]
<1>4. e.row = "IN_PROGRESS"
  BY <1>3 DEF Created
<1>5. attempts' = [attempts EXCEPT ![r] = Append(@, e)]
  BY <1>2
<1> HIDE DEF e
<1>6. Rows' = [Rows EXCEPT ![r] = Append(@, "IN_PROGRESS")]
  BY <1>1, <1>4, <1>5, RowAdded
<1>7. row[r] = "IN_PROGRESS" /\ r \in Running /\ Retired(r)
  BY <1>1, <1>3 DEF AuditInv, Verdict, RequestWritten, Running, Active
<1>8. ~Lifecycle!Open(r) /\ ~Lifecycle!Won(r)
  BY <1>1, <1>3, <1>7, TrailRead DEF Retired, Ended, Pending
<1>9. Running' = Running
  BY <1>1, <1>7, RunningMoves DEF Active
<1> QED
  BY <1>1, <1>3, <1>6, <1>7, <1>8, <1>9 DEF Lifecycle!Begin, Rows, Running

(* A verdict on the pending attempt, where the request goes on or is let go.*)
LEMMA VerdictEnds ==
  ASSUME AInv, NEW r \in Requests, Pending(r), pc[r] \in Active, NEW new \in Final,
         NEW refused \in Refusals, SetAttempt(r, new, refused), UNCHANGED row, dbErrors' = 0,
         NEW label, GoTo(r, label), label \in Active \/ row[r] # "IN_PROGRESS"
  PROVE  Lifecycle!End(r)
<1>1. TypeOK /\ AuditInv(r) /\ attempts[r] # <<>>
  BY DEF AInv, IInv, Pending
<1>2. dbErrors = 0
  BY <1>1, Unrefused DEF SetAttempt
<1>3. LastBecomes(r, Last(r)') /\ Last(r)'.row = new
  BY <1>1, AttemptJudged DEF AuditInv
<1>4. \A s \in Requests \ {r} : attempts'[s] = attempts[s]
  BY <1>1 DEF SetAttempt, TypeOK
<1>5. PICK e : e = Last(r)'
  OBVIOUS
<1>6. Rows' = [Rows EXCEPT ![r][Len(Rows[r])] = new]
  BY <1>1, <1>3, <1>4, <1>5, RowChanged
<1>7. Lifecycle!Open(r)
  BY <1>1, <1>2, TrailRead
<1>8. r \in Running /\ (Running' = Running \/ (row[r] # "IN_PROGRESS" /\ Running' = Running \ {r}))
  BY <1>1, RunningMoves
<1>9. new \in Lifecycle!Final
  BY DEF Final, Lifecycle!Final
<1> QED
  BY <1>2, <1>6, <1>7, <1>8, <1>9 DEF Lifecycle!End, Rows, Running

LEMMA AttemptsEnd ==
  ASSUME AInv, NEW r \in Requests, dbErrors' = 0,
         CompleteAttempt(r) \/ FailAttempt(r) \/ DeferAttempt(r)
  PROVE  Lifecycle!End(r) \/ Lifecycle!Leave(r)
<1> USE DEF progress, audit, gate, bounds
<1>1. TypeOK /\ AuditInv(r) /\ Verdict(r) /\ RequestWritten(r)
  BY DEF AInv, IInv, AuditInv
<1>2. CASE CompleteAttempt(r)
  <2>1. PICK refused \in Refusals : SetAttempt(r, "COMPLETED", refused)
    BY <1>2 DEF CompleteAttempt
  <2>2. Pending(r) /\ pc[r] \in Active /\ GoTo(r, "completed") /\ UNCHANGED row
    BY <1>1, <1>2 DEF CompleteAttempt, Verdict, Active
  <2>3. "completed" \in Active /\ "COMPLETED" \in Final
    BY DEF Active, Final
  <2> QED
    BY <2>1, <2>2, <2>3, VerdictEnds
<1>3. CASE FailAttempt(r)
  <2> DEFINE new == IF gone[r] THEN "CANCELLED" ELSE "FAILED"
  <2>1. PICK refused \in Refusals : SetAttempt(r, new, refused)
    BY <1>3 DEF FailAttempt
  <2>2. Pending(r) /\ pc[r] \in Active /\ GoTo(r, "failed") /\ UNCHANGED row
    BY <1>1, <1>3 DEF FailAttempt, Verdict, Active
  <2>3. "failed" \in Active /\ new \in Final
    BY DEF Active, Final
  <2> HIDE DEF new
  <2> QED
    BY <2>1, <2>2, <2>3, VerdictEnds
<1>4. CASE DeferAttempt(r)
  <2>1. pc[r] = "deferAttempt" /\ GoTo(r, "returned") /\ UNCHANGED row
    BY <1>4 DEF DeferAttempt
  <2>2. pc[r] \in Active /\ "returned" \notin Active
    BY <2>1 DEF Active
  <2>3. CASE Pending(r)
    <3> DEFINE new == IF gone[r] THEN "CANCELLED" ELSE "FAILED"
    <3>1. PICK refused \in Refusals : SetAttempt(r, new, refused)
      BY <1>4, <2>3 DEF DeferAttempt, Pending, CurrentAttempt
    <3>2. new \in Final
      BY DEF Final
    <3> HIDE DEF new
    <3>3. dbErrors = 0
      BY <1>1, <3>1, Unrefused DEF SetAttempt
    <3>4. row[r] # "IN_PROGRESS"
      BY <1>1, <2>1, <3>3 DEF Verdict, RequestWritten, Lost
    <3> QED
      BY <2>1, <2>2, <2>3, <3>1, <3>2, <3>4, VerdictEnds
  <2>4. CASE ~Pending(r)
    <3>1. UNCHANGED <<row, attempts, dbErrors>> /\ dbErrors = 0
      BY <1>4, <2>4 DEF DeferAttempt, Pending, CurrentAttempt
    <3>2. row[r] # "IN_PROGRESS"
      BY <1>1, <2>1, <3>1 DEF Verdict, RequestWritten, Lost
    <3>3. ~Lifecycle!Open(r)
      BY <1>1, <2>4, <3>1, TrailRead
    <3>4. r \in Running /\ Running' = Running \ {r}
      BY <1>1, <2>1, <2>2, RunningMoves
    <3> QED
      BY <3>1, <3>2, <3>3, <3>4, RowsSame DEF Lifecycle!Leave, Rows, Running
  <2> QED
    BY <2>3, <2>4
<1> QED
  BY <1>2, <1>3, <1>4

(* The request's own verdict is a success exactly when its last attempt's  *)
(* is.                                                                     *)
LEMMA VerdictSettles ==
  ASSUME AInv, NEW r \in Requests, pc[r] \in Active, status[r] = "IN_PROGRESS",
         NEW new \in Final, NEW refused \in Refusals, SetStatus(r, new, refused),
         UNCHANGED attempts, dbErrors' = 0, NEW label \in Active, GoTo(r, label),
         (attempts[r] # <<>> /\ Last(r).status = "COMPLETED") <=> new = "COMPLETED"
  PROVE  Lifecycle!Settle(r)
<1>1. TypeOK /\ AuditInv(r)
  BY DEF AInv, IInv
<1>2. dbErrors = 0 /\ ~refused
  BY <1>1, Unrefused DEF SetStatus
<1>3. row[r] = "IN_PROGRESS" /\ r \in Running
  BY <1>1, <1>2, RunningMoves DEF AuditInv, RequestWritten, Active
<1>4. row' = [row EXCEPT ![r] = new]
  BY <1>1, <1>2, <1>3 DEF SetStatus, Updated, TypeOK
<1>5. Lifecycle!Won(r) <=> new = "COMPLETED"
  BY <1>1, <1>2, TrailRead
<1>6. Running' = Running
  BY <1>1, <1>3, RunningMoves
<1>7. new \in Lifecycle!Final
  BY DEF Final, Lifecycle!Final
<1> QED
  BY <1>2, <1>3, <1>4, <1>5, <1>6, <1>7, RowsSame DEF Lifecycle!Settle, Rows, Running

LEMMA RequestsAreSettled ==
  ASSUME AInv, NEW r \in Requests, dbErrors' = 0,
         FailRequest(r) \/ CompleteRequest(r) \/ DeferRequest(r)
  PROVE  Lifecycle!Settle(r) \/ UNCHANGED Lifecycle!lvars
<1> USE DEF progress, audit, gate, bounds
<1>1. TypeOK /\ AuditInv(r) /\ Verdict(r)
  BY DEF AInv, IInv, AuditInv
<1>2. "defer" \in Active /\ "deferAttempt" \in Active
  BY DEF Active
<1>3. CASE FailRequest(r)
  <2>1. PICK refused \in Refusals : SetStatus(r, "FAILED", refused)
    BY <1>3 DEF FailRequest
  <2>2. pc[r] = "route" /\ GoTo(r, "defer") /\ UNCHANGED attempts
    BY <1>3 DEF FailRequest
  <2>3. pc[r] \in Active /\ status[r] = "IN_PROGRESS" /\ Retired(r)
    BY <1>1, <2>2 DEF Verdict, Active
  <2> QED
    BY <1>2, <2>1, <2>2, <2>3, VerdictSettles DEF Retired, Ended, Final
<1>4. CASE CompleteRequest(r)
  <2>1. PICK refused \in Refusals : SetStatus(r, "COMPLETED", refused)
    BY <1>4 DEF CompleteRequest
  <2>2. pc[r] = "completed" /\ GoTo(r, "defer") /\ UNCHANGED attempts
    BY <1>4 DEF CompleteRequest
  <2>3. pc[r] \in Active /\ status[r] = "IN_PROGRESS" /\ Won(r)
    BY <1>1, <2>2 DEF Verdict, Active
  <2> QED
    BY <1>2, <2>1, <2>2, <2>3, VerdictSettles DEF Won, Final
<1>5. CASE DeferRequest(r)
  <2>1. pc[r] = "defer" /\ GoTo(r, "deferAttempt") /\ UNCHANGED attempts
    BY <1>5 DEF DeferRequest
  <2>2. CASE status[r] = "IN_PROGRESS"
    <3> DEFINE new == IF gone[r] THEN "CANCELLED" ELSE "FAILED"
    <3>1. PICK refused \in Refusals : SetStatus(r, new, refused)
      BY <1>5, <2>2 DEF DeferRequest
    <3>2. new \in Final /\ new # "COMPLETED"
      BY DEF Final
    <3> HIDE DEF new
    <3>3. Retired(r) \/ Pending(r)
      BY <1>1, <2>1, <2>2 DEF Verdict
    <3> QED
      BY <1>2, <2>1, <2>2, <3>1, <3>2, <3>3, VerdictSettles DEF Retired, Ended, Pending
  <2>3. CASE status[r] # "IN_PROGRESS"
    <3>1. UNCHANGED <<row, dbErrors>>
      BY <1>5, <2>3 DEF DeferRequest
    <3>2. Running' = Running
      BY <1>1, <1>2, <2>1, RunningMoves
    <3> QED
      BY <2>1, <3>1, <3>2, RowsSame, Unseen
  <2> QED
    BY <2>2, <2>3
<1> QED
  BY <1>3, <1>4, <1>5

-------------------------------------------------------------------------------
(* A crash lets go of every request, and the next process buries what the  *)
(* last one left while nobody works.                                       *)
LEMMA CrashAndRestart ==
  ASSUME AInv, Crash \/ Restart, dbErrors' = 0
  PROVE  Lifecycle!Die \/ Lifecycle!Bury
<1> USE DEF progress, audit, gate, bounds
<1>1. UNCHANGED <<attempts, dbErrors>> /\ Rows' = Rows
  BY RowsSame DEF Crash, Restart
<1>2. CASE Crash
  <2>1. Running' = {}
    BY <1>2 DEF Crash, Running, Active
  <2> QED
    BY <1>1, <1>2, <2>1 DEF Crash, Lifecycle!Die, Rows, Running
<1>3. CASE Restart
  <2>1. Running = {} /\ Running' = Running
    BY <1>3 DEF Restart, AInv, DownIsIdle, Running
  <2> QED
    BY <1>1, <1>3, <2>1 DEF Restart, MarkStaleAsFailed, Lifecycle!Bury, Rows, Running
<1> QED
  BY <1>2, <1>3

(* Every step is one of the audit trail's, or none of its business.        *)
LEMMA StepLives ==
  ASSUME AInv, [Next]_vars
  PROVE  [Lifecycle!LifecycleNext]_(Lifecycle!lvars)
<1> USE DEF progress, audit, gate, bounds
<1>1. TypeOK
  BY DEF AInv, IInv
<1>2. CASE dbErrors' # 0
  BY <1>2 DEF Lifecycle!LifecycleNext, Lifecycle!Degrade
<1>3. CASE dbErrors' = 0
  <2>1. dbErrors = 0
    BY <1>1, <1>3, RefusalsCount
  <2>2. ASSUME NEW r \in Requests, Match(r) \/ Step(r) \/ Return(r)
        PROVE  [Lifecycle!LifecycleNext]_(Lifecycle!lvars)
    <3>1. CASE Match(r)
      BY <2>1, <3>1, MatchStarts DEF Lifecycle!LifecycleNext
    <3>2. CASE \/ MatchRoute(r) \/ NextRoute(r) \/ Judge(r) \/ Retry(r) \/ StopWaiting(r)
               \/ CheckContext(r) \/ CallAdapter(r)
      BY <3>2, SilentSteps
    <3>3. CASE NoRoutes(r)
      BY <2>1, <3>3, NoRoutesLeaves DEF Lifecycle!LifecycleNext
    <3>4. CASE CreateRequest(r)
      BY <1>3, <3>4, CreateRecords DEF Lifecycle!LifecycleNext
    <3>5. CASE CreateAttempt(r)
      BY <1>3, <3>5, StartBegins DEF Lifecycle!LifecycleNext
    <3>6. CASE CompleteAttempt(r) \/ FailAttempt(r) \/ DeferAttempt(r)
      BY <1>3, <3>6, AttemptsEnd DEF Lifecycle!LifecycleNext
    <3>7. CASE FailRequest(r) \/ CompleteRequest(r) \/ DeferRequest(r)
      BY <1>3, <3>7, RequestsAreSettled DEF Lifecycle!LifecycleNext
    <3>8. CASE Return(r)
      BY <3>8, AnswerSilent DEF Return
    <3> QED
      BY <2>2, <3>1, <3>2, <3>3, <3>4, <3>5, <3>6, <3>7, <3>8 DEF Step
  <2>3. ASSUME UNCHANGED <<pc, row, attempts, dbErrors>>
        PROVE  UNCHANGED Lifecycle!lvars
    BY <2>3, RowsSame, Unseen DEF Running
  <2>4. ASSUME NEW r \in Requests, Disconnect(r)
        PROVE  UNCHANGED Lifecycle!lvars
    BY <2>3, <2>4 DEF Disconnect
  <2>5. ASSUME NEW key \in Keys,
               \/ \E ahead \in BOOLEAN : DeliverUpdate(key, ahead)
               \/ TimeOutUpdate(key) \/ Lapse(key)
        PROVE  UNCHANGED Lifecycle!lvars
    BY <2>3, <2>5 DEF DeliverUpdate, TimeOutUpdate, Lapse
  <2>6. ASSUME NEW provider \in Providers, Release(provider)
        PROVE  UNCHANGED Lifecycle!lvars
    BY <2>3, <2>6 DEF Release
  <2>7. CASE Crash \/ Restart
    BY <1>3, <2>7, CrashAndRestart DEF Lifecycle!LifecycleNext
  <2>8. CASE UNCHANGED vars
    BY <2>3, <2>8 DEF vars
  <2> QED
    BY <2>2, <2>4, <2>5, <2>6, <2>7, <2>8 DEF Next
<1> QED
  BY <1>2, <1>3

(* The rows Execute, its deferred function and MarkStaleAsFailed write     *)
(* live the life RequestLifecycle promises their readers: attempts follow  *)
(* one another, each with one verdict, none after a success; the request   *)
(* has one verdict, its last attempt's; nothing is let go unsettled; what  *)
(* a crash cut off is buried.  All of it until a write is refused.         *)
THEOREM TheTrailLives == Spec => ImplementsLifecycle
<1>1. Init => Lifecycle!LifecycleInit
  <2>1. SUFFICES ASSUME Init PROVE Lifecycle!LifecycleInit
    OBVIOUS
  <2>2. Running = {} /\ Rows = [r \in Requests |-> <<>>]
    BY <2>1 DEF Init, Running, Rows, Active
  <2> QED
    BY <2>1, <2>2 DEF Init, Lifecycle!LifecycleInit, Rows, Running
<1>2. AInv /\ [Next]_vars => [Lifecycle!LifecycleNext]_(Lifecycle!lvars)
  BY StepLives
<1> QED
  BY <1>1, <1>2, AuditInvariant, PTL DEF Spec, ImplementsLifecycle, Lifecycle!LifecycleSpec

-------------------------------------------------------------------------------
(* The loops over routes and retries.                                      *)

(* The attempts on the n-th matched route, and whether they are all it     *)
(* gets.                                                                   *)
Tries(r, n) == TriesOn(r, matched[r][n])
Limit(r, n) == Route[matched[r][n]].maxRetries + 1

Spent(r, n) ==
    \/ Cardinality(Tries(r, n)) = Limit(r, n)
    \/ \E i \in Tries(r, n) : ~attempts[r][i].outcome.retryable

(* Match lists no route twice, in whatever order.                          *)
Unrepeated(s) == \A i, j \in DOMAIN s : s[i] = s[j] => i = j

Distinct(r) ==
    /\ pc[r] = "idle" => matched[r] = <<>>
    /\ Unrepeated(matched[r])
    /\ pc[r] = "matching" =>
          /\ Unrepeated(candidates[r])
          /\ \A i \in DOMAIN matched[r] : \A j \in DOMAIN candidates[r] :
                matched[r][i] # candidates[r][j]

(* One route after another is used up, and one attempt after another on    *)
(* each; only a retryable error is followed by one more.                   *)
InTurn(r) ==
    /\ pc[r] \in {"idle", "matching"} => routeIdx[r] = 0
    /\ \A n \in DOMAIN matched[r] :
          /\ n < routeIdx[r] => Spent(r, n)
          /\ n > routeIdx[r] => Tries(r, n) = {}
          /\ Cardinality(Tries(r, n)) <= Limit(r, n)
          /\ \A i, j \in Tries(r, n) : i < j => attempts[r][i].outcome.retryable

(* What the retry counter of the current route counts.                     *)
Counted(r) ==
    LET n == routeIdx[r]
    IN  /\ pc[r] \in {"attempt", "create"} =>
              /\ Cardinality(Tries(r, n)) = attempt[r]
              /\ attempt[r] < Limit(r, n)
              /\ \A i \in Tries(r, n) : attempts[r][i].outcome.retryable
        /\ pc[r] \in {"call", "upstream", "answered", "completed", "failed", "wait"} =>
              Cardinality(Tries(r, n)) = attempt[r] + 1
        /\ pc[r] = "wait" =>
              attempt[r] + 1 < Limit(r, n) /\ Last(r).outcome.retryable
        /\ pc[r] = "route" /\ n > 0 => Spent(r, n)

(* Failure is for those whose routes are used up, and for the panicked.    *)
Exhausted(r) ==
    /\ pc[r] = "defer" /\ status[r] = "IN_PROGRESS" => gone[r] \/ Panicked(r)
    /\ status[r] = "FAILED" =>
          Panicked(r) \/ \A n \in DOMAIN matched[r] : Spent(r, n)

RetryInv(r) == Distinct(r) /\ InTurn(r) /\ Counted(r) /\ Exhausted(r)

RInv == AInv /\ \A r \in Requests : RetryInv(r)

-------------------------------------------------------------------------------
(* An order of as many routes as passed the filter, with none missing,     *)
(* repeats none.                                                           *)
LEMMA OrdersUnrepeated ==
  ASSUME NEW r \in Requests, NEW order \in Orders(r)
  PROVE  Unrepeated(order)
<1> DEFINE n == Cardinality(Filtered(r))
<1>1. Filtered(r) \in SUBSET Routes
  BY DEF Filtered, ProjectRoutes, Enabled
<1>2. n \in Nat
  BY <1>1, FS_Subset, FS_CardinalityType, RoutesAssumption
<1>3. IsFiniteSet(1..n) /\ Cardinality(1..n) = n
  BY <1>2, FS_Interval
<1>4. /\ order \in [1..n -> Filtered(r)]
      /\ \A route \in Filtered(r) : \E i \in 1..n : order[i] = route
  BY DEF Orders
<1>5. order \in Surjection(1..n, Filtered(r))
  BY <1>4, Fun_IsSurj
<1>6. order \in Injection(1..n, Filtered(r))
  BY <1>3, <1>5, FS_SurjSameCardinalityImpliesInj
<1>7. \A i, j \in 1..n : order[i] = order[j] => i = j
  BY <1>6, Fun_InjectionProperties
<1>8. DOMAIN order = 1..n
  BY <1>4
<1> QED
  BY <1>7, <1>8 DEF Unrepeated

(* There are only so many attempts.                                        *)
LEMMA TriesFinite ==
  ASSUME TypeOK, NEW r \in Requests, NEW n
  PROVE  /\ Tries(r, n) \subseteq 1..Len(attempts[r])
         /\ IsFiniteSet(Tries(r, n))
         /\ Cardinality(Tries(r, n)) \in Nat
<1>1. attempts[r] \in Seq(Attempts)
  BY DEF TypeOK
<1>2. Len(attempts[r]) \in Nat /\ DOMAIN attempts[r] = 1..Len(attempts[r])
  BY <1>1
<1>3. Tries(r, n) \subseteq 1..Len(attempts[r])
  BY <1>2 DEF Tries, TriesOn
<1>4. IsFiniteSet(1..Len(attempts[r]))
  BY <1>2, FS_Interval
<1> QED
  BY <1>3, <1>4, FS_Subset, FS_CardinalityType

LEMMA LimitType ==
  ASSUME TypeOK, NEW r \in Requests, NEW n \in DOMAIN matched[r]
  PROVE  Limit(r, n) \in Nat \ {0}
<1>1. matched[r] \in Seq(Routes)
  BY DEF TypeOK
<1>2. matched[r][n] \in Routes
  BY <1>1
<1>3. Route[matched[r][n]].maxRetries \in Nat
  BY <1>2, RoutesAssumption
<1> QED
  BY <1>3 DEF Limit

(* A step that adds no attempt and changes no outcome.                     *)
SameTries(r) ==
    /\ matched'[r] = matched[r]
    /\ DOMAIN attempts'[r] = DOMAIN attempts[r]
    /\ Len(attempts'[r]) = Len(attempts[r])
    /\ attempts[r] # <<>> => Len(attempts[r]) \in DOMAIN attempts[r]
    /\ attempts'[r] = <<>> <=> attempts[r] = <<>>
    /\ \A i \in DOMAIN attempts[r] :
          /\ attempts'[r][i].route = attempts[r][i].route
          /\ attempts'[r][i].outcome = attempts[r][i].outcome

LEMMA TriesKept ==
  ASSUME NEW r \in Requests, SameTries(r)
  PROVE  /\ \A n : /\ Tries(r, n)' = Tries(r, n)
                   /\ Limit(r, n)' = Limit(r, n)
                   /\ Spent(r, n)' <=> Spent(r, n)
                   /\ Tries(r, n) \subseteq DOMAIN attempts[r]
         /\ attempts[r] # <<>> => Last(r)'.outcome = Last(r).outcome
         /\ Panicked(r)' <=> Panicked(r)
<1>1. ASSUME NEW n
      PROVE  /\ Tries(r, n)' = Tries(r, n) /\ Limit(r, n)' = Limit(r, n)
             /\ Tries(r, n) \subseteq DOMAIN attempts[r]
  BY DEF SameTries, Tries, TriesOn, Limit
<1>2. ASSUME NEW n
      PROVE  Spent(r, n)' <=> Spent(r, n)
  BY <1>1 DEF Spent, SameTries
<1>3. attempts[r] # <<>> => Last(r)'.outcome = Last(r).outcome
  BY DEF SameTries, Last
<1>4. Panicked(r)' <=> Panicked(r)
  BY <1>3 DEF Panicked, SameTries
<1> QED
  BY <1>1, <1>2, <1>3, <1>4

LEMMA InTurnKept ==
  ASSUME NEW r \in Requests, InTurn(r), SameTries(r), routeIdx'[r] = routeIdx[r],
         pc'[r] \in {"idle", "matching"} => pc[r] \in {"idle", "matching"}
  PROVE  InTurn(r)'
<1>1. /\ matched'[r] = matched[r]
      /\ \A i \in DOMAIN attempts[r] : attempts'[r][i].outcome = attempts[r][i].outcome
  BY DEF SameTries
<1> QED
  BY <1>1, TriesKept DEF InTurn

(* Once matching is over, nothing is matched.                              *)
LEMMA DistinctKept ==
  ASSUME NEW r \in Requests, Distinct(r), matched'[r] = matched[r],
         pc'[r] = "idle" => pc[r] = "idle",
         pc'[r] = "matching" => pc[r] = "matching" /\ candidates'[r] = candidates[r]
  PROVE  Distinct(r)'
BY DEF Distinct, Unrepeated

LEMMA RetrySame ==
  ASSUME NEW r \in Requests, TypeOK, RetryInv(r), Same(r), attempt'[r] = attempt[r]
  PROVE  RetryInv(r)'
<1>1. attempts[r] \in Seq(Attempts)
  BY DEF TypeOK
<1>2. SameTries(r)
  BY <1>1 DEF SameTries, Same
<1>3. Distinct(r)' /\ InTurn(r)'
  BY <1>2, InTurnKept, DistinctKept DEF RetryInv, Same
<1>4. Counted(r)'
  <2>1. Last(r)' = Last(r) /\ routeIdx'[r] = routeIdx[r] /\ pc'[r] = pc[r]
    BY DEF Same, Last
  <2>2. attempts'[r] = attempts[r]
    BY DEF Same
  <2> QED
    BY <1>2, <2>1, <2>2, TriesKept DEF RetryInv, Counted
<1>5. Exhausted(r)'
  BY <1>2, TriesKept DEF RetryInv, Exhausted, Same
<1> QED
  BY <1>3, <1>4, <1>5 DEF RetryInv

-------------------------------------------------------------------------------
LEMMA MatchRetry ==
  ASSUME RInv, NEW r \in Requests, Match(r)
  PROVE  RetryInv(r)'
<1> USE DEF progress, audit, gate, bounds
<1>1. TypeOK /\ RetryInv(r) /\ Verdict(r) /\ pc[r] = "idle"
  BY DEF RInv, AInv, IInv, AuditInv, Match
<1>2. /\ UNCHANGED <<gone, matched, routeIdx, attempt, status, attempts>>
      /\ pc'[r] \in {"returned", "matching"}
  BY <1>1 DEF Match, GoTo, TypeOK
<1>3. attempts[r] = <<>> /\ status[r] = "none"
  BY <1>1 DEF Verdict
<1>4. SameTries(r)
  BY <1>2, <1>3 DEF SameTries
<1>5. InTurn(r)'
  BY <1>1, <1>2, <1>4, InTurnKept DEF RetryInv
<1>6. Counted(r)' /\ Exhausted(r)'
  BY <1>2, <1>3 DEF Counted, Exhausted
<1>7. Distinct(r)'
  <2>1. CASE pc'[r] = "returned"
    BY <1>1, <1>2, <2>1, DistinctKept DEF RetryInv
  <2>2. CASE pc'[r] = "matching"
    <3>1. \E order \in Orders(r) : candidates'[r] = order
      BY <1>1, <1>2, <2>2 DEF Match, GoTo, TypeOK
    <3>2. Unrepeated(candidates'[r])
      BY <3>1, OrdersUnrepeated
    <3>3. matched'[r] = <<>>
      BY <1>1, <1>2 DEF RetryInv, Distinct
    <3> QED
      BY <3>2, <3>3 DEF Distinct, Unrepeated
  <2> QED
    BY <1>2, <2>1, <2>2
<1> QED
  BY <1>5, <1>6, <1>7 DEF RetryInv

LEMMA MatchRouteRetry ==
  ASSUME RInv, NEW r \in Requests, MatchRoute(r)
  PROVE  RetryInv(r)'
<1> USE DEF progress, audit, gate, bounds
<1> DEFINE c == candidates[r]
           m == matched[r]
<1>1. TypeOK /\ RetryInv(r) /\ Verdict(r) /\ pc[r] = "matching"
  BY DEF RInv, AInv, IInv, AuditInv, MatchRoute
<1>2. UNCHANGED <<pc, gone, routeIdx, attempt, status, attempts>>
  BY DEF MatchRoute
<1>3. attempts[r] = <<>> /\ status[r] = "none" /\ routeIdx[r] = 0
  BY <1>1 DEF Verdict, RetryInv, InTurn
<1>4. c \in Seq(Routes) /\ c # <<>> /\ m \in Seq(Routes)
  BY <1>1 DEF MatchRoute, TypeOK
<1>5. /\ candidates'[r] = Tail(c)
      /\ matched'[r] = m \/ matched'[r] = Append(m, Head(c))
  BY <1>1 DEF MatchRoute, TypeOK
<1>6. /\ Unrepeated(m) /\ Unrepeated(c)
      /\ \A i \in DOMAIN m : \A j \in DOMAIN c : m[i] # c[j]
  BY <1>1 DEF RetryInv, Distinct
<1>7. /\ 1 \in DOMAIN c /\ Head(c) = c[1]
      /\ DOMAIN Tail(c) = 1..(Len(c) - 1)
      /\ \A i \in DOMAIN Tail(c) :
            i \in Int /\ i + 1 \in DOMAIN c /\ i + 1 # 1 /\ Tail(c)[i] = c[i + 1]
  BY <1>4
<1>8. Unrepeated(Tail(c)) /\ \A i \in DOMAIN Tail(c) : Tail(c)[i] # Head(c)
  <2>1. ASSUME NEW i \in DOMAIN Tail(c), NEW j \in DOMAIN Tail(c), Tail(c)[i] = Tail(c)[j]
        PROVE  i = j
    <3>1. i \in Int /\ j \in Int
      BY <1>7
    <3>2. i + 1 = j + 1
      BY <1>6, <1>7, <2>1 DEF Unrepeated
    <3> QED
      BY <3>1, <3>2
  <2>2. ASSUME NEW i \in DOMAIN Tail(c)
        PROVE  Tail(c)[i] # Head(c)
    BY <1>6, <1>7 DEF Unrepeated
  <2> QED
    BY <2>1, <2>2 DEF Unrepeated
<1>9. matched'[r] \in Seq(Routes)
  <2>1. Head(c) \in Routes
    BY <1>4, <1>7
  <2> QED
    BY <1>4, <1>5, <2>1, OneMore
<1>10. Distinct(r)'
  <2>1. CASE matched'[r] = m
    BY <1>1, <1>2, <1>5, <1>6, <1>7, <1>8, <2>1 DEF Distinct
  <2>2. CASE matched'[r] = Append(m, Head(c))
    <3>1. /\ DOMAIN matched'[r] = 1..(Len(m) + 1) /\ DOMAIN m = 1..Len(m)
          /\ \A i \in 1..Len(m) : matched'[r][i] = m[i]
          /\ matched'[r][Len(m) + 1] = c[1]
      BY <1>4, <1>7, <2>2
    <3>2. \A i \in 1..(Len(m) + 1) : i \in 1..Len(m) \/ i = Len(m) + 1
      BY <1>4
    <3>3. Unrepeated(matched'[r])
      BY <1>6, <1>7, <3>1, <3>2 DEF Unrepeated
    <3>4. \A i \in DOMAIN matched'[r] : \A j \in DOMAIN Tail(c) : matched'[r][i] # Tail(c)[j]
      BY <1>6, <1>7, <1>8, <3>1, <3>2
    <3> QED
      BY <1>1, <1>2, <1>5, <1>8, <3>3, <3>4 DEF Distinct
  <2> QED
    BY <1>5, <2>1, <2>2
<1>11. InTurn(r)'
  <2>1. ASSUME NEW n \in DOMAIN matched'[r]
        PROVE  /\ Tries(r, n)' = {} /\ ~(n < routeIdx'[r])
               /\ Cardinality(Tries(r, n)') <= Limit(r, n)'
    <3>1. Tries(r, n)' = {}
      BY <1>2, <1>3 DEF Tries, TriesOn
    <3>2. matched'[r][n] \in Routes /\ n \in Nat
      BY <1>9, <2>1
    <3>3. Limit(r, n)' \in Nat
      BY <3>2, RoutesAssumption DEF Limit
    <3>4. Cardinality({}) = 0
      BY FS_EmptySet
    <3> QED
      BY <1>2, <1>3, <3>1, <3>2, <3>3, <3>4
  <2>2. routeIdx'[r] = 0
    BY <1>2, <1>3
  <2> QED
    BY <2>1, <2>2 DEF InTurn
<1>12. Counted(r)' /\ Exhausted(r)'
  BY <1>1, <1>2, <1>3 DEF Counted, Exhausted
<1> QED
  BY <1>10, <1>11, <1>12 DEF RetryInv

LEMMA NextRouteRetry ==
  ASSUME RInv, NEW r \in Requests, NextRoute(r)
  PROVE  RetryInv(r)'
<1> USE DEF progress, audit, gate, bounds
<1> DEFINE k == routeIdx[r]
<1>1. TypeOK /\ RetryInv(r) /\ Verdict(r) /\ pc[r] = "route" /\ Positioned(r)
  BY DEF RInv, AInv, IInv, RequestInv, AuditInv, NextRoute
<1>2. /\ UNCHANGED <<gone, candidates, matched, status, attempts>>
      /\ status[r] = "IN_PROGRESS"
  BY <1>1 DEF NextRoute, Verdict
<1>3. SameTries(r)
  BY <1>1, <1>2 DEF SameTries, TypeOK
<1>4. Distinct(r)'
  BY <1>1, <1>2, DistinctKept DEF RetryInv, NextRoute, GoTo, TypeOK
<1>5. CASE gone[r]
  <2>1. pc'[r] = "defer" /\ UNCHANGED <<routeIdx, attempt>>
    BY <1>1, <1>5 DEF NextRoute, GoTo, TypeOK
  <2>2. InTurn(r)'
    BY <1>1, <1>3, <2>1, InTurnKept DEF RetryInv
  <2>3. Counted(r)' /\ Exhausted(r)'
    BY <1>2, <1>5, <2>1 DEF Counted, Exhausted
  <2> QED
    BY <1>4, <2>2, <2>3 DEF RetryInv
<1>6. CASE ~gone[r]
  <2>1. pc'[r] = "attempt" /\ routeIdx'[r] = k + 1 /\ attempt'[r] = 0
    BY <1>1, <1>6 DEF NextRoute, GoTo, TypeOK
  <2>2. matched[r] \in Seq(Routes) /\ k \in Nat /\ k < Len(matched[r])
    BY <1>1 DEF NextRoute, TypeOK
  <2>3. DOMAIN matched[r] = 1..Len(matched[r]) /\ k + 1 \in DOMAIN matched[r]
    BY <2>2
  <2>4. ASSUME NEW n \in DOMAIN matched[r]
        PROVE  /\ n < k + 1 => Spent(r, n)
               /\ n > k + 1 => Tries(r, n) = {}
    <3>1. n \in Nat \ {0}
      BY <2>2, <2>3
    <3>2. n < k + 1 => n < k \/ (n = k /\ k > 0)
      BY <2>2, <3>1
    <3>3. n > k + 1 => n > k
      BY <2>2, <3>1
    <3> QED
      BY <1>1, <2>4, <3>2, <3>3 DEF RetryInv, InTurn, Counted
  <2>5. InTurn(r)'
    <3>1. \A n \in DOMAIN matched[r] :
              /\ Cardinality(Tries(r, n)) <= Limit(r, n)
              /\ \A i, j \in Tries(r, n) : i < j => attempts[r][i].outcome.retryable
      BY <1>1 DEF RetryInv, InTurn
    <3> QED
      BY <1>2, <1>3, <2>1, <2>4, <3>1, TriesKept DEF InTurn
  <2>6. Tries(r, k + 1) = {} /\ Limit(r, k + 1) \in Nat \ {0}
    <3>1. k + 1 > k
      BY <2>2
    <3> QED
      BY <1>1, <2>3, <3>1, LimitType DEF RetryInv, InTurn
  <2>7. Counted(r)'
    <3>1. PICK n : n = k + 1
      OBVIOUS
    <3>2. Tries(r, n)' = {} /\ Limit(r, n)' \in Nat \ {0} /\ routeIdx'[r] = n
      BY <1>3, <2>1, <2>6, <3>1, TriesKept
    <3>3. Cardinality(Tries(r, n)') = 0
      BY <3>2, FS_EmptySet
    <3> QED
      BY <2>1, <3>2, <3>3 DEF Counted
  <2>8. Exhausted(r)'
    BY <1>2, <2>1 DEF Exhausted
  <2> QED
    BY <1>4, <2>5, <2>7, <2>8 DEF RetryInv
<1> QED
  BY <1>5, <1>6

(* A new attempt is one more on the current route, and on no other.        *)
LEMMA StartRetry ==
  ASSUME RInv, NEW r \in Requests, CreateAttempt(r)
  PROVE  RetryInv(r)'
<1> USE DEF progress, audit, gate, bounds
<1> DEFINE k == routeIdx[r]
           l == Len(attempts[r]) + 1
<1>1. TypeOK /\ RetryInv(r) /\ Verdict(r) /\ pc[r] = "create" /\ Positioned(r)
  BY DEF RInv, AInv, IInv, RequestInv, AuditInv, CreateAttempt
<1>2. /\ UNCHANGED <<gone, candidates, matched, routeIdx, attempt, status>>
      /\ status[r] = "IN_PROGRESS" /\ pc'[r] = "call"
  BY <1>1 DEF CreateAttempt, GoTo, Verdict, TypeOK
<1>3. Distinct(r)'
  BY <1>1, <1>2, DistinctKept DEF RetryInv
<1>4. pc'[r] = "call"
  BY <1>1 DEF CreateAttempt, GoTo, TypeOK
<1>5. PICK refused \in Refusals :
          attempts' = [attempts EXCEPT ![r] = Append(@,
              [route |-> CurrentRoute(r), outcome |-> NoOutcome,
               status |-> "IN_PROGRESS", row |-> Created("IN_PROGRESS", refused)])]
  BY DEF CreateAttempt
<1> DEFINE e == [route |-> CurrentRoute(r), outcome |-> NoOutcome,
                 status |-> "IN_PROGRESS", row |-> Created("IN_PROGRESS", refused)]
<1>6. e.route = matched[r][k]
  BY DEF CurrentRoute
<1>7. attempts' = [attempts EXCEPT ![r] = Append(@, e)]
  BY <1>5
<1> HIDE DEF e
<1>8. /\ attempts[r] \in Seq(Attempts) /\ l \in Nat
      /\ DOMAIN attempts[r] = 1..Len(attempts[r]) /\ l \notin DOMAIN attempts[r]
      /\ DOMAIN attempts'[r] = DOMAIN attempts[r] \cup {l}
      /\ \A i \in DOMAIN attempts[r] : i \in Nat /\ i < l /\ attempts'[r][i] = attempts[r][i]
      /\ attempts'[r][l] = e
  <2>1. attempts[r] \in Seq(Attempts)
    BY <1>1 DEF TypeOK
  <2>2. Len(attempts[r]) \in Nat /\ DOMAIN attempts[r] = 1..Len(attempts[r])
    BY <2>1
  <2>3. /\ DOMAIN attempts'[r] = 1..l
        /\ \A i \in DOMAIN attempts[r] : attempts'[r][i] = attempts[r][i]
        /\ attempts'[r][l] = e
    BY <1>1, <1>7, StartEffect
  <2> QED
    BY <2>1, <2>2, <2>3
<1>9. k \in DOMAIN matched[r] /\ \A n \in DOMAIN matched[r] : n \in Nat
  <2>1. matched[r] \in Seq(Routes) /\ k \in Nat /\ k >= 1 /\ k <= Len(matched[r])
    BY <1>1 DEF Positioned, TypeOK
  <2> QED
    BY <2>1
<1>10. ASSUME NEW n \in DOMAIN matched[r], n # k
      PROVE  matched[r][n] # matched[r][k] /\ Tries(r, n)' = Tries(r, n)
  <2>1. matched[r][n] # matched[r][k]
    BY <1>1, <1>9, <1>10 DEF RetryInv, Distinct, Unrepeated
  <2> QED
    BY <1>2, <1>6, <1>8, <2>1 DEF Tries, TriesOn
<1>11. Tries(r, k)' = Tries(r, k) \cup {l} /\ l \notin Tries(r, k)
  BY <1>2, <1>6, <1>8 DEF Tries, TriesOn
<1>12. Cardinality(Tries(r, k)') = attempt[r] + 1
  <2>1. Cardinality(Tries(r, k)) = attempt[r]
    BY <1>1 DEF RetryInv, Counted
  <2> QED
    BY <1>1, <1>11, <2>1, TriesFinite, FS_AddElement
<1>13. attempt[r] < Limit(r, k) /\ attempt[r] \in Nat /\ Limit(r, k) \in Nat
  BY <1>1, <1>9, LimitType DEF RetryInv, Counted, TypeOK
<1>14. Counted(r)'
  BY <1>2, <1>4, <1>12 DEF Counted
<1>15. Exhausted(r)'
  BY <1>2, <1>4 DEF Exhausted
<1>16. ASSUME NEW n \in DOMAIN matched[r]
       PROVE  /\ n < k => Spent(r, n)'
              /\ n > k => Tries(r, n)' = {}
              /\ Cardinality(Tries(r, n)') <= Limit(r, n)'
              /\ \A i, j \in Tries(r, n)' : i < j => attempts'[r][i].outcome.retryable
  <2>1. Limit(r, n)' = Limit(r, n)
    BY <1>2 DEF Limit
  <2>2. /\ n < k => Spent(r, n)
        /\ n > k => Tries(r, n) = {}
        /\ Cardinality(Tries(r, n)) <= Limit(r, n)
        /\ \A i, j \in Tries(r, n) : i < j => attempts[r][i].outcome.retryable
    BY <1>1 DEF RetryInv, InTurn
  <2>3. Tries(r, n) \subseteq DOMAIN attempts[r]
    BY DEF Tries, TriesOn
  <2>4. CASE n # k
    <3>1. Tries(r, n)' = Tries(r, n)
      BY <1>10, <2>4
    <3>2. Spent(r, n) => Spent(r, n)'
      BY <1>8, <2>1, <2>3, <3>1 DEF Spent
    <3> QED
      BY <1>8, <2>1, <2>2, <2>3, <3>1, <3>2
  <2>5. CASE n = k
    <3>1. \A i \in Tries(r, k) : attempts[r][i].outcome.retryable
      BY <1>1 DEF RetryInv, Counted
    <3>2. \A i, j \in Tries(r, k)' : i < j => i \in Tries(r, k)
      BY <1>8, <1>11, <2>3, <2>5
    <3>3. \A i, j \in Tries(r, n)' : i < j => attempts'[r][i].outcome.retryable
      BY <1>2, <1>8, <2>3, <2>5, <3>1, <3>2
    <3>4. Cardinality(Tries(r, n)') <= Limit(r, n)'
      BY <1>2, <1>12, <1>13, <2>1, <2>5
    <3>5. ~(n < k) /\ ~(n > k)
      BY <1>9, <2>5
    <3> QED
      BY <3>3, <3>4, <3>5
  <2> QED
    BY <2>4, <2>5
<1>17. InTurn(r)'
  BY <1>2, <1>16 DEF InTurn
<1> QED
  BY <1>3, <1>14, <1>15, <1>17 DEF RetryInv
(* An answer is the last attempt's, which is on the current route.         *)
LEMMA AnswerRetry ==
  ASSUME RInv, NEW r \in Requests, NEW outcome \in Outcomes, Answer(r, outcome)
  PROVE  RetryInv(r)'
<1> USE DEF progress, audit, gate, bounds
<1> DEFINE k == routeIdx[r]
           l == Len(attempts[r])
           e == [Last(r) EXCEPT !.outcome = outcome]
<1>1. TypeOK /\ RetryInv(r) /\ Verdict(r) /\ pc[r] = "upstream" /\ Positioned(r) /\ Tried(r)
  BY DEF RInv, AInv, IInv, RequestInv, AuditInv, Answer
<1>2. /\ UNCHANGED <<gone, candidates, matched, routeIdx, attempt, status>>
      /\ status[r] = "IN_PROGRESS"
      /\ pc'[r] = IF outcome.kind = "panic" THEN "defer" ELSE "answered"
  BY <1>1 DEF Answer, GoTo, Verdict, TypeOK
<1>3. attempts[r] # <<>> /\ Last(r).route = matched[r][k]
  BY <1>1 DEF Tried, CurrentRoute
<1>4. Last(r) \in Attempts /\ LastBecomes(r, e)
  BY <1>1, <1>3, AnswerEffect
<1>5. e.route = matched[r][k] /\ e.outcome = outcome
  BY <1>3, <1>4 DEF Attempts
<1> HIDE DEF e
<1>6. /\ l \in Nat /\ l \in DOMAIN attempts[r] /\ DOMAIN attempts'[r] = DOMAIN attempts[r]
      /\ attempts[r][l].route = matched[r][k] /\ attempts'[r][l] = e
      /\ \A i \in DOMAIN attempts[r] : i \in Nat /\ i <= l
      /\ \A i \in DOMAIN attempts[r] : i # l => attempts'[r][i] = attempts[r][i]
      /\ attempts'[r] # <<>> /\ Len(attempts'[r]) = l
  <2>1. attempts[r] \in Seq(Attempts) /\ attempts'[r] \in Seq(Attempts)
    BY <1>1, <1>4 DEF TypeOK, LastBecomes
  <2>2. l \in Nat \ {0} /\ DOMAIN attempts[r] = 1..l
    BY <1>3, <2>1
  <2>3. \A i \in DOMAIN attempts[r] : i # l => i \in 1..(l - 1)
    BY <2>2
  <2> QED
    BY <1>3, <1>4, <2>1, <2>2, <2>3 DEF LastBecomes, Last
<1>7. \A n : Tries(r, n)' = Tries(r, n) /\ Limit(r, n)' = Limit(r, n)
  BY <1>2, <1>5, <1>6 DEF Tries, TriesOn, Limit
<1>8. Distinct(r)'
  BY <1>1, <1>2, DistinctKept DEF RetryInv
<1>9. \A n : Tries(r, n) \subseteq DOMAIN attempts[r]
  BY DEF Tries, TriesOn
<1>10. ASSUME NEW n \in DOMAIN matched[r], n < k, Spent(r, n)
       PROVE  Spent(r, n)'
  <2>1. k \in DOMAIN matched[r] /\ n # k
    <3>1. matched[r] \in Seq(Routes) /\ k \in Nat /\ k >= 1 /\ k <= Len(matched[r])
      BY <1>1 DEF Positioned, TypeOK
    <3> QED
      BY <1>10, <3>1
  <2>2. matched[r][n] # matched[r][k]
    BY <1>1, <2>1 DEF RetryInv, Distinct, Unrepeated
  <2>3. l \notin Tries(r, n)
    BY <1>6, <2>2 DEF Tries, TriesOn
  <2> QED
    BY <1>6, <1>7, <1>9, <1>10, <2>3 DEF Spent
<1>11. ASSUME NEW n \in DOMAIN matched[r]
       PROVE  \A i, j \in Tries(r, n) : i < j => attempts'[r][i].outcome.retryable
  <2>1. ASSUME NEW i \in Tries(r, n), NEW j \in Tries(r, n), i < j
        PROVE  attempts'[r][i].outcome.retryable
    <3>1. attempts[r][i].outcome.retryable
      BY <1>1, <2>1 DEF RetryInv, InTurn
    <3>2. i # l
      BY <1>6, <1>9, <2>1
    <3> QED
      BY <1>6, <1>9, <3>1, <3>2
  <2> QED
    BY <2>1
<1>12. InTurn(r)'
  <2>1. \A n \in DOMAIN matched[r] :
            /\ n < k => Spent(r, n)
            /\ n > k => Tries(r, n) = {}
            /\ Cardinality(Tries(r, n)) <= Limit(r, n)
    BY <1>1 DEF RetryInv, InTurn
  <2> QED
    BY <1>2, <1>7, <1>10, <1>11, <2>1 DEF InTurn
<1>13. Counted(r)'
  <2>1. PICK n : n = k
    OBVIOUS
  <2>2. Cardinality(Tries(r, n)') = attempt'[r] + 1 /\ routeIdx'[r] = n
    BY <1>1, <1>2, <1>7, <2>1 DEF RetryInv, Counted
  <2> QED
    BY <1>2, <2>2 DEF Counted
<1>14. Exhausted(r)'
  BY <1>2, <1>5, <1>6 DEF Exhausted, Panicked, Last
<1> QED
  BY <1>8, <1>12, <1>13, <1>14 DEF RetryInv

(* A verdict on an attempt is none on its outcome.                         *)
LEMMA VerdictTries ==
  ASSUME TypeOK, NEW r \in Requests, attempts[r] # <<>>, NEW new \in Statuses,
         NEW refused, SetAttempt(r, new, refused), matched'[r] = matched[r]
  PROVE  SameTries(r)
<1> DEFINE l == Len(attempts[r])
           e == [Last(r) EXCEPT !.status = new, !.row = Updated(Last(r).row, new, refused)]
<1>1. Last(r) \in Attempts /\ LastBecomes(r, e)
  BY SetAttemptEffect
<1>2. e.route = Last(r).route /\ e.outcome = Last(r).outcome
  BY <1>1 DEF Attempts
<1> HIDE DEF e
<1>3. attempts[r] \in Seq(Attempts) /\ attempts'[r] \in Seq(Attempts)
  BY <1>1 DEF TypeOK, LastBecomes
<1>4. l \in Nat \ {0} /\ DOMAIN attempts[r] = 1..l
  BY <1>3
<1>5. \A i \in DOMAIN attempts[r] : i # l => i \in 1..(l - 1)
  BY <1>4
<1> QED
  BY <1>1, <1>2, <1>3, <1>4, <1>5 DEF SameTries, LastBecomes, Last

(* The steps of the loops that neither try a route nor count a retry.      *)
LEMMA LoopRetry ==
  ASSUME RInv, NEW r \in Requests,
         \/ NoRoutes(r) \/ CreateRequest(r) \/ FailRequest(r)
         \/ CheckContext(r) \/ CallAdapter(r)
         \/ CompleteAttempt(r) \/ CompleteRequest(r) \/ FailAttempt(r)
         \/ Judge(r) \/ StopWaiting(r) \/ DeferRequest(r) \/ DeferAttempt(r)
  PROVE  RetryInv(r)'
<1> USE DEF progress, audit, gate, bounds
<1>1. /\ TypeOK /\ RetryInv(r) /\ Verdict(r) /\ Positioned(r) /\ Tried(r)
      /\ attempts[r] \in Seq(Attempts)
  BY DEF RInv, AInv, IInv, RequestInv, AuditInv, TypeOK
<1>2. /\ UNCHANGED <<gone, candidates, matched, routeIdx, attempt>>
      /\ pc'[r] \notin {"idle", "matching"}
  BY <1>1 DEF NoRoutes, CreateRequest, FailRequest, CheckContext, CallAdapter,
              CompleteAttempt, CompleteRequest, FailAttempt, Judge, StopWaiting,
              DeferRequest, DeferAttempt, GoTo, TypeOK
<1>3. UNCHANGED attempts => SameTries(r)
  BY <1>1, <1>2 DEF SameTries
<1>4. ASSUME SameTries(r), Counted(r)', Exhausted(r)'
      PROVE  RetryInv(r)'
  BY <1>1, <1>2, <1>4, InTurnKept, DistinctKept DEF RetryInv
<1>5. CASE NoRoutes(r)
  <2>1. pc'[r] = "returned" /\ status'[r] = "none" /\ UNCHANGED attempts
    BY <1>1, <1>5 DEF NoRoutes, GoTo, Verdict, TypeOK
  <2> QED
    BY <1>3, <1>4, <2>1 DEF Counted, Exhausted
<1>6. CASE CreateRequest(r)
  <2>1. /\ pc[r] = "matching" /\ pc'[r] = "route" /\ status'[r] = "IN_PROGRESS"
        /\ UNCHANGED attempts
    BY <1>1, <1>6 DEF CreateRequest, GoTo, TypeOK
  <2>2. routeIdx'[r] = 0
    BY <1>1, <1>2, <2>1 DEF RetryInv, InTurn
  <2> QED
    BY <1>3, <1>4, <2>1, <2>2 DEF Counted, Exhausted
<1>7. CASE FailRequest(r)
  <2>1. /\ pc[r] = "route" /\ pc'[r] = "defer" /\ status'[r] = "FAILED"
        /\ UNCHANGED attempts /\ routeIdx[r] = Len(matched[r])
    BY <1>1, <1>7 DEF FailRequest, SetStatus, GoTo, TypeOK
  <2>2. ASSUME NEW n \in DOMAIN matched[r]
        PROVE  Spent(r, n)'
    <3>1. n < routeIdx[r] \/ (n = routeIdx[r] /\ routeIdx[r] > 0)
      BY <1>1, <2>1, <2>2 DEF TypeOK
    <3>2. Spent(r, n)
      BY <1>1, <2>1, <3>1 DEF RetryInv, InTurn, Counted
    <3> QED
      BY <1>3, <2>1, <3>2, TriesKept
  <2> QED
    BY <1>2, <1>3, <1>4, <2>1, <2>2 DEF Counted, Exhausted
<1>8. CASE CompleteAttempt(r) \/ FailAttempt(r)
  <2>1. /\ pc[r] = "answered" /\ pc'[r] \in {"completed", "failed"} /\ UNCHANGED status
        /\ attempts[r] # <<>> /\ status[r] = "IN_PROGRESS"
    BY <1>1, <1>8 DEF CompleteAttempt, FailAttempt, GoTo, Verdict, Pending, TypeOK
  <2>2. SameTries(r)
    BY <1>1, <1>2, <1>8, <2>1, VerdictTries
       DEF CompleteAttempt, FailAttempt, Statuses, Final
  <2>3. Counted(r)'
    <3>1. PICK n : n = routeIdx[r]
      OBVIOUS
    <3>2. Cardinality(Tries(r, n)') = attempt'[r] + 1 /\ routeIdx'[r] = n
      BY <1>1, <1>2, <2>1, <2>2, <3>1, TriesKept DEF RetryInv, Counted
    <3> QED
      BY <2>1, <3>2 DEF Counted
  <2> QED
    BY <1>4, <2>1, <2>2, <2>3 DEF Exhausted
<1>9. CASE CompleteRequest(r)
  <2>1. pc'[r] = "defer" /\ status'[r] = "COMPLETED" /\ UNCHANGED attempts
    BY <1>1, <1>9 DEF CompleteRequest, SetStatus, GoTo, TypeOK
  <2> QED
    BY <1>3, <1>4, <2>1 DEF Counted, Exhausted
<1>10. CASE Judge(r)
  <2>1. pc[r] = "failed" /\ status[r] = "IN_PROGRESS" /\ UNCHANGED <<status, attempts>>
    BY <1>1, <1>10 DEF Judge, Verdict
  <2>2. CASE gone[r]
    <3>1. pc'[r] = "defer"
      BY <1>1, <1>10, <2>2 DEF Judge, GoTo, TypeOK
    <3> QED
      BY <1>2, <1>3, <1>4, <2>1, <2>2, <3>1 DEF Counted, Exhausted
  <2>3. CASE ~gone[r]
    <3>1. PICK n : n = routeIdx[r]
      OBVIOUS
    <3>2. /\ pc'[r] = IF MayRetry(r) THEN "wait" ELSE "route"
          /\ routeIdx'[r] = n /\ n \in DOMAIN matched[r]
      <4>1. matched[r] \in Seq(Routes) /\ n \in Nat /\ n >= 1 /\ n <= Len(matched[r])
        BY <1>1, <2>1, <3>1 DEF Positioned, TypeOK
      <4> QED
        BY <1>1, <1>2, <1>10, <2>3, <3>1, <4>1 DEF Judge, GoTo, TypeOK
    <3>3. /\ Limit(r, n) = Route[CurrentRoute(r)].maxRetries + 1
          /\ Route[CurrentRoute(r)].maxRetries \in Nat /\ attempt[r] \in Nat
      <4>1. CurrentRoute(r) \in Routes
        BY <1>1, <2>1, CurrentRouteType
      <4> QED
        BY <1>1, <3>1, <4>1, RoutesAssumption DEF Limit, CurrentRoute, TypeOK
    <3>4. /\ Cardinality(Tries(r, n)) = attempt[r] + 1
          /\ Cardinality(Tries(r, n)) <= Limit(r, n)
      BY <1>1, <2>1, <3>1, <3>2 DEF RetryInv, Counted, InTurn
    <3>5. /\ Tries(r, n)' = Tries(r, n) /\ Limit(r, n)' = Limit(r, n)
          /\ Last(r)' = Last(r) /\ (Spent(r, n)' <=> Spent(r, n))
      BY <1>3, <2>1, TriesKept DEF Last
    <3>6. CASE MayRetry(r)
      <4>1. attempt[r] + 1 < Limit(r, n) /\ Last(r).outcome.retryable
        BY <3>3, <3>6 DEF MayRetry
      <4>2. Counted(r)'
        <5>1. /\ Cardinality(Tries(r, n)') = attempt'[r] + 1
              /\ attempt'[r] + 1 < Limit(r, n)' /\ Last(r)'.outcome.retryable
          BY <1>2, <3>4, <3>5, <4>1
        <5>2. pc'[r] = "wait" /\ routeIdx'[r] = n
          BY <3>2, <3>6
        <5> QED
          BY <5>1, <5>2 DEF Counted
      <4> QED
        BY <1>3, <1>4, <2>1, <3>2, <3>6, <4>2 DEF Exhausted
    <3>7. CASE ~MayRetry(r)
      <4>1. Len(attempts[r]) \in Tries(r, n)
        BY <1>1, <2>1, <3>1 DEF Tried, Tries, TriesOn, Last, CurrentRoute
      <4>2. Spent(r, n)
        BY <3>3, <3>4, <3>7, <4>1 DEF MayRetry, Spent, Last
      <4>3. Counted(r)'
        BY <3>2, <3>5, <3>7, <4>2 DEF Counted
      <4> QED
        BY <1>3, <1>4, <2>1, <3>2, <3>7, <4>3 DEF Exhausted
    <3> QED
      BY <3>6, <3>7
  <2> QED
    BY <2>2, <2>3
<1>11. CASE StopWaiting(r)
  <2>1. /\ pc'[r] = "defer" /\ gone[r] /\ status[r] = "IN_PROGRESS"
        /\ UNCHANGED <<status, attempts>>
    BY <1>1, <1>11 DEF StopWaiting, GoTo, Verdict, TypeOK
  <2> QED
    BY <1>2, <1>3, <1>4, <2>1 DEF Counted, Exhausted
<1>12. CASE DeferRequest(r)
  <2>1. pc[r] = "defer" /\ pc'[r] = "deferAttempt" /\ UNCHANGED attempts
    BY <1>1, <1>12 DEF DeferRequest, GoTo, TypeOK
  <2>2. /\ status[r] = "IN_PROGRESS" /\ gone[r] => status'[r] = "CANCELLED"
        /\ status[r] # "IN_PROGRESS" => status'[r] = status[r]
    BY <1>1, <1>12 DEF DeferRequest, SetStatus, TypeOK
  <2>3. Exhausted(r)'
    BY <1>1, <1>2, <1>3, <2>1, <2>2, TriesKept DEF RetryInv, Exhausted
  <2> QED
    BY <1>3, <1>4, <2>1, <2>3 DEF Counted
<1>13. CASE DeferAttempt(r)
  <2>1. pc'[r] = "returned" /\ UNCHANGED status
    BY <1>1, <1>13 DEF DeferAttempt, GoTo, TypeOK
  <2>2. SameTries(r)
    BY <1>1, <1>2, <1>3, <1>13, VerdictTries DEF DeferAttempt, CurrentAttempt, Statuses, Final
  <2>3. Exhausted(r)'
    BY <1>1, <1>2, <2>1, <2>2, TriesKept DEF RetryInv, Exhausted
  <2> QED
    BY <1>4, <2>1, <2>2, <2>3 DEF Counted
<1>14. CASE CheckContext(r)
  <2>1. /\ pc[r] = "attempt" /\ pc'[r] = (IF gone[r] THEN "defer" ELSE "create")
        /\ status[r] = "IN_PROGRESS" /\ UNCHANGED <<status, attempts>>
    BY <1>1, <1>14 DEF CheckContext, GoTo, Verdict, TypeOK
  <2>2. PICK n : n = routeIdx[r]
    OBVIOUS
  <2>3. /\ Tries(r, n)' = Tries(r, n) /\ Limit(r, n)' = Limit(r, n)
        /\ routeIdx'[r] = n /\ attempt'[r] = attempt[r]
    BY <1>2, <1>3, <2>1, <2>2, TriesKept
  <2>4. Counted(r)'
    BY <1>1, <2>1, <2>2, <2>3 DEF RetryInv, Counted
  <2> QED
    BY <1>2, <1>3, <1>4, <2>1, <2>4 DEF Exhausted
<1>15. CASE CallAdapter(r)
  <2>1. /\ pc[r] = "call" /\ pc'[r] = "upstream"
        /\ status[r] = "IN_PROGRESS" /\ UNCHANGED <<status, attempts>>
    BY <1>1, <1>15 DEF CallAdapter, GoTo, Verdict, TypeOK
  <2>2. PICK n : n = routeIdx[r]
    OBVIOUS
  <2>3. /\ Tries(r, n)' = Tries(r, n)
        /\ routeIdx'[r] = n /\ attempt'[r] = attempt[r]
    BY <1>2, <1>3, <2>1, <2>2, TriesKept
  <2>4. Counted(r)'
    BY <1>1, <2>1, <2>2, <2>3 DEF RetryInv, Counted
  <2> QED
    BY <1>3, <1>4, <2>1, <2>4 DEF Exhausted
<1> QED
  BY <1>5, <1>6, <1>7, <1>8, <1>9, <1>10, <1>11, <1>12, <1>13, <1>14, <1>15

(* One more retry, of an attempt that may be.                              *)
LEMMA RetryRetry ==
  ASSUME RInv, NEW r \in Requests, Retry(r)
  PROVE  RetryInv(r)'
<1> USE DEF progress, audit, gate, bounds
<1> DEFINE l == Len(attempts[r])
<1>1. /\ TypeOK /\ RetryInv(r) /\ Verdict(r) /\ Positioned(r) /\ Tried(r) /\ pc[r] = "wait"
      /\ attempts[r] \in Seq(Attempts)
  BY DEF RInv, AInv, IInv, RequestInv, AuditInv, TypeOK, Retry
<1>2. /\ UNCHANGED <<gone, candidates, matched, routeIdx, status, attempts>>
      /\ pc'[r] = "attempt" /\ attempt'[r] = attempt[r] + 1 /\ status[r] = "IN_PROGRESS"
  BY <1>1 DEF Retry, GoTo, Verdict, TypeOK
<1>3. SameTries(r)
  BY <1>1, <1>2 DEF SameTries
<1>4. PICK n : n = routeIdx[r]
  OBVIOUS
<1>5. n \in DOMAIN matched[r]
  <2>1. matched[r] \in Seq(Routes) /\ n \in Nat /\ n >= 1 /\ n <= Len(matched[r])
    BY <1>1, <1>4 DEF Positioned, TypeOK
  <2> QED
    BY <2>1
<1>6. /\ Cardinality(Tries(r, n)) = attempt[r] + 1
      /\ attempt[r] + 1 < Limit(r, n) /\ Last(r).outcome.retryable
  BY <1>1, <1>4 DEF RetryInv, Counted
<1>7. l \in Tries(r, n) /\ \A i \in Tries(r, n) : i = l \/ i < l
  BY <1>1, <1>4 DEF Tried, Tries, TriesOn, Last, CurrentRoute
<1>8. \A i \in Tries(r, n) : attempts[r][i].outcome.retryable
  BY <1>1, <1>5, <1>6, <1>7 DEF RetryInv, InTurn, Last
<1>9. Counted(r)'
  <2>1. /\ Tries(r, n)' = Tries(r, n) /\ Limit(r, n)' = Limit(r, n) /\ routeIdx'[r] = n
        /\ Cardinality(Tries(r, n)') = attempt'[r] /\ attempt'[r] < Limit(r, n)'
        /\ \A i \in Tries(r, n)' : attempts'[r][i].outcome.retryable
    BY <1>2, <1>3, <1>4, <1>6, <1>8, TriesKept
  <2> QED
    BY <1>2, <2>1 DEF Counted
<1>10. Exhausted(r)'
  BY <1>2 DEF Exhausted
<1> QED
  BY <1>1, <1>2, <1>3, <1>9, <1>10, InTurnKept, DistinctKept DEF RetryInv

-------------------------------------------------------------------------------
(* The retry counter is the request's own.                                 *)
LEMMA OthersAttempt ==
  ASSUME TypeOK, NEW r \in Requests, NEW s \in Requests \ {r},
         Match(r) \/ Step(r) \/ Return(r) \/ Disconnect(r)
  PROVE  attempt'[s] = attempt[s]
<1> USE DEF TypeOK, progress, audit, gate, bounds
<1>1. CASE NextRoute(r) \/ Retry(r)
  BY <1>1 DEF NextRoute, Retry
<1>2. ASSUME \/ Match(r) \/ Return(r) \/ Disconnect(r)
             \/ MatchRoute(r) \/ NoRoutes(r) \/ CreateRequest(r) \/ FailRequest(r)
             \/ CheckContext(r) \/ CreateAttempt(r) \/ CallAdapter(r)
             \/ CompleteAttempt(r) \/ CompleteRequest(r) \/ FailAttempt(r)
             \/ Judge(r) \/ StopWaiting(r) \/ DeferRequest(r) \/ DeferAttempt(r)
      PROVE  UNCHANGED attempt
  BY <1>2 DEF Match, Return, Answer, Disconnect, MatchRoute, NoRoutes, CreateRequest,
              FailRequest, CheckContext, CreateAttempt, CallAdapter, CompleteAttempt,
              CompleteRequest, FailAttempt,
              Judge, StopWaiting, DeferRequest, DeferAttempt
<1> QED
  BY <1>1, <1>2 DEF Step

(* Every step keeps every request's loops in turn.                         *)
LEMMA NextRetry ==
  ASSUME RInv, [Next]_vars, NEW s \in Requests
  PROVE  RetryInv(s)'
<1> USE DEF progress, audit, gate, bounds
<1>1. TypeOK /\ RetryInv(s) /\ IInv
  BY DEF RInv, AInv, IInv
<1>2. ASSUME UNCHANGED <<pc, candidates, matched, routeIdx, attempt, status, attempts>>,
             gone[s] => gone'[s]
      PROVE  RetryInv(s)'
  BY <1>1, <1>2, RetrySame DEF Same
<1>3. ASSUME NEW r \in Requests, Match(r) \/ Step(r) \/ Return(r) \/ Disconnect(r)
      PROVE  RetryInv(s)'
  <2>1. CASE s # r
    BY <1>1, <1>3, <2>1, OthersSame, OthersAttempt, RetrySame
  <2>2. CASE s = r /\ Disconnect(r)
    BY <1>1, <1>2, <2>2 DEF Disconnect, TypeOK
  <2>3. CASE s = r /\ Match(r)
    BY <2>3, MatchRetry
  <2>4. CASE s = r /\ Return(r)
    BY <2>4, AnswerRetry DEF Return
  <2>5. CASE s = r /\ Step(r)
    BY <2>5, MatchRouteRetry, NextRouteRetry, StartRetry, RetryRetry, LoopRetry DEF Step
  <2> QED
    BY <1>3, <2>1, <2>2, <2>3, <2>4, <2>5
<1>4. ASSUME NEW key \in Keys,
             \/ \E ahead \in BOOLEAN : DeliverUpdate(key, ahead)
             \/ TimeOutUpdate(key) \/ Lapse(key)
      PROVE  RetryInv(s)'
  BY <1>2, <1>4 DEF DeliverUpdate, TimeOutUpdate, Lapse
<1>5. ASSUME NEW provider \in Providers, Release(provider)
      PROVE  RetryInv(s)'
  BY <1>2, <1>5 DEF Release
<1>6. CASE Crash
  <2>1. UNCHANGED <<gone, candidates, matched, routeIdx, attempt, status, attempts>>
    BY <1>6 DEF Crash
  <2>2. CASE pc[s] \in Active
    <3>1. pc'[s] = "dead"
      BY <1>6, <2>2 DEF Crash
    <3>2. SameTries(s)
      BY <1>1, <2>1 DEF SameTries, TypeOK
    <3>3. Distinct(s)' /\ InTurn(s)'
      BY <1>1, <2>1, <3>1, <3>2, DistinctKept, InTurnKept DEF RetryInv
    <3>4. Exhausted(s)'
      BY <1>1, <2>1, <3>1, <3>2, TriesKept DEF RetryInv, Exhausted
    <3>5. Counted(s)'
      BY <3>1 DEF Counted
    <3> QED
      BY <3>3, <3>4, <3>5 DEF RetryInv
  <2>3. CASE pc[s] \notin Active
    <3>1. pc'[s] = pc[s]
      BY <1>6, <2>3 DEF Crash
    <3> QED
      BY <1>1, <2>1, <3>1, RetrySame DEF Same
  <2> QED
    BY <2>2, <2>3
<1>7. CASE Restart \/ UNCHANGED vars
  BY <1>2, <1>7 DEF Restart, vars
<1> QED
  BY <1>3, <1>4, <1>5, <1>6, <1>7 DEF Next

LEMMA RetryInit ==
  ASSUME Init
  PROVE  RInv
<1>1. ASSUME NEW r \in Requests
      PROVE  RetryInv(r)
  <2>1. /\ pc[r] = "idle" /\ matched[r] = <<>> /\ routeIdx[r] = 0
        /\ status[r] = "none" /\ attempts[r] = <<>>
    BY DEF Init
  <2> QED
    BY <2>1 DEF RetryInv, Distinct, Unrepeated, InTurn, Counted, Exhausted
<1> QED
  BY <1>1, AuditInit DEF RInv

(* The inductive invariant of the loops: the routes before the current one *)
(* are used up, those after it untouched, and the retry counter counts the *)
(* attempts on it.                                                         *)
THEOREM RetryInvariant == Spec => []RInv
<1>1. Init => RInv
  BY RetryInit
<1>2. RInv /\ [Next]_vars => RInv'
  BY NextInv, NextDown, NextAudit, NextRetry DEF RInv, AInv
<1> QED
  BY <1>1, <1>2, PTL DEF Spec

(* Execute fails a request only when each route Match gave it was tried    *)
(* until an error that is not retryable or until its retries were used up; *)
(* and it tries none once more, whichever order they came in.              *)
THEOREM EveryRouteHasItsTries == Spec => []NoRouteGivenUpEarly
<1>1. RInv => NoRouteGivenUpEarly
  <2>1. SUFFICES ASSUME RInv, NEW r \in Requests, NEW n \in DOMAIN matched[r]
        PROVE  /\ Cardinality(Tries(r, n)) <= Limit(r, n)
               /\ \A i, j \in Tries(r, n) : i < j => attempts[r][i].outcome.retryable
               /\ \/ routeIdx[r] <= n /\ status[r] # "FAILED"
                  \/ Spent(r, n)
                  \/ Panicked(r)
    BY DEF NoRouteGivenUpEarly, Tries, Limit, Spent, Panicked
  <2>2. RetryInv(r) /\ TypeOK
    BY <2>1 DEF RInv, AInv, IInv
  <2>3. n < routeIdx[r] \/ routeIdx[r] <= n
    BY <2>1, <2>2 DEF TypeOK
  <2> QED
    BY <2>1, <2>2, <2>3 DEF RetryInv, InTurn, Exhausted
<1> QED
  BY <1>1, RetryInvariant, PTL
===============================================================================
