-------------------------- MODULE AntigravityProofs --------------------------
(***************************************************************************)
(* Theorems about concurrent calls of one antigravity provider, for any    *)
(* number of calls and of tokens.                                          *)
(***************************************************************************)
EXTENDS AntigravityAdapter, TLAPS

-------------------------------------------------------------------------------
(* The locals of a call, and what each of its steps has of them.           *)
Ages == {"fresh", "stale", "revoked"}

Pcs == {"token", "refresh", "cache", "send", "resend", "strip", "respond", "done"}

Outcomes ==
    [kind  : {"none", "success", "retryable", "final", "client disconnected"},
     limit : {"none", "until reset", "a minute"},
     chan  : Endpoints \cup {0}]

Locals ==
    [pc : Pcs, then : {"send", "resend"}, endpoint : Endpoints,
     token : Tokens \cup {NoToken}, retried : BOOLEAN,
     last : Statuses \cup {"none", "401"}, refused : SUBSET Tokens,
     outcome : Outcomes]

Types ==
    /\ cache \in Tokens \cup {NoToken}
    /\ age \in [Tokens -> Ages]
    /\ issued \in Nat /\ issued <= MaxTokens
    /\ call \in [Calls -> Locals]
    /\ quota \in [Calls -> [Endpoints -> {"none", "asked", "a minute", "reset"}]]

(* A call that has the token of its next request at hand.                  *)
Holds(c) == call[c].pc \in {"cache", "send", "resend", "strip"}

(* Only issued tokens are about.                                           *)
Issued ==
    /\ cache <= issued
    /\ \A c \in Calls : /\ call[c].token <= issued
                        /\ \A t \in call[c].refused : t <= issued
                        /\ Holds(c) => call[c].token # NoToken

(* A token on its way to the cache is known to nobody else.                *)
Private ==
    \A c \in Calls : call[c].pc = "cache" =>
        /\ cache # call[c].token
        /\ \A d \in Calls : d # c /\ Holds(d) => call[d].token # call[c].token

(* A token refused to a call is not in the cache, is not going there, and  *)
(* is not the one the call holds.                                          *)
Discarded ==
    \A c \in Calls : \A t \in call[c].refused :
        /\ cache # t
        /\ \A d \in Calls : call[d].pc = "cache" => call[d].token # t
        /\ Holds(c) => call[c].token # t

TInv == Types /\ Issued /\ Private /\ Discarded

LEMMA InitTInv == Init => TInv
BY TokensAssumption
DEF Init, TInv, Types, Issued, Private, Discarded, NewCall, NoOutcome, NoToken, Locals,
    Outcomes, Pcs, Ages, Endpoints, Prod, Daily, Statuses, Holds, Tokens

-------------------------------------------------------------------------------
(* What a step of one call has to show: it changes only that call's locals *)
(* and the shared cache, and the new ones fit what the others hold.        *)
Ready(l) == l.pc \in {"cache", "send", "resend", "strip"}

Fits(c, l, shared, number) ==
    /\ l.token <= number
    /\ \A t \in l.refused : t <= number
    /\ Ready(l) => l.token # NoToken
    /\ l.pc = "cache" =>
          /\ shared # l.token
          /\ \A d \in Calls \ {c} : /\ Holds(d) => call[d].token # l.token
                                    /\ l.token \notin call[d].refused
    /\ \A t \in l.refused :
          /\ shared # t
          /\ \A d \in Calls \ {c} : call[d].pc = "cache" => call[d].token # t
          /\ Ready(l) => l.token # t
    /\ \A d \in Calls \ {c} :
          /\ shared \notin call[d].refused
          /\ call[d].pc = "cache" =>
                shared # call[d].token /\ (Ready(l) => l.token # call[d].token)

(* Tokens are numbers from one on.                                         *)
LEMMA LocalsNumbers ==
  ASSUME Types, NEW c \in Calls
  PROVE  /\ issued \in Nat
         /\ call[c].token \in Nat
         /\ call[c].refused \subseteq Nat
         /\ NoToken \notin call[c].refused
<1>1. issued \in Nat
  BY DEF Types
<1>2. call[c] \in Locals
  BY DEF Types
<1>3. call[c].token \in Tokens \cup {0} /\ call[c].refused \subseteq Tokens
  BY <1>2 DEF Locals, NoToken
<1>4. Tokens \subseteq Nat /\ 0 \notin Tokens /\ 0 \in Nat
  BY TokensAssumption DEF Tokens
<1> QED
  BY <1>1, <1>3, <1>4 DEF NoToken

LEMMA StepTInv ==
  ASSUME TInv, Types', NEW c \in Calls, NEW l, call' = [call EXCEPT ![c] = l],
         issued <= issued', cache' <= issued', Fits(c, l, cache', issued')
  PROVE  TInv'
<1>2. /\ call'[c] = l
      /\ \A d \in Calls \ {c} : call'[d] = call[d]
      /\ Ready(l) <=> Holds(c)'
      /\ \A d \in Calls \ {c} : Holds(d)' <=> Holds(d)
  BY DEF TInv, Types, Ready, Holds
<1>3. \A d \in Calls : call[d].token \in Nat /\ call[d].refused \subseteq Nat
  BY LocalsNumbers DEF TInv
<1>4. Issued'
  <2> SUFFICES ASSUME NEW d \in Calls
               PROVE  /\ call'[d].token <= issued'
                      /\ \A t \in call'[d].refused : t <= issued'
                      /\ Holds(d)' => call'[d].token # NoToken
    BY DEF Issued
  <2>1. CASE d = c
    BY <1>2, <2>1 DEF Fits
  <2>2. CASE d # c
    <3>1. call'[d] = call[d] /\ (Holds(d)' <=> Holds(d))
      BY <1>2, <2>2
    <3>2. /\ call[d].token <= issued
          /\ \A t \in call[d].refused : t <= issued
          /\ Holds(d) => call[d].token # NoToken
      BY DEF TInv, Issued
    <3>3. issued \in Nat /\ issued' \in Nat
      BY DEF TInv, Types
    <3>4. \A t \in call[d].refused : t <= issued'
      BY <1>3, <3>2, <3>3
    <3>5. call[d].token <= issued'
      BY <1>3, <3>2, <3>3
    <3> QED
      BY <3>1, <3>2, <3>4, <3>5
  <2> QED
    BY <2>1, <2>2
<1>5. Private'
  <2> SUFFICES ASSUME NEW b \in Calls, call'[b].pc = "cache",
                      NEW d \in Calls, d # b
               PROVE  /\ cache' # call'[b].token
                      /\ Holds(d)' => call'[d].token # call'[b].token
    <3>1. \A b \in Calls : call'[b].pc = "cache" => cache' # call'[b].token
      BY <1>2 DEF Fits
    <3> QED
      BY <3>1 DEF Private
  <2>1. CASE b = c
    BY <1>2, <2>1 DEF Fits
  <2>2. CASE d = c
    BY <1>2, <2>2 DEF Fits
  <2>3. CASE b # c /\ d # c
    <3>1. call'[b] = call[b] /\ call'[d] = call[d] /\ (Holds(d)' <=> Holds(d))
      BY <1>2, <2>3
    <3>2. cache' # call[b].token
      BY <2>3, <3>1 DEF Fits
    <3>3. Holds(d) => call[d].token # call[b].token
      BY <3>1 DEF TInv, Private
    <3> QED
      BY <3>1, <3>2, <3>3
  <2> QED
    BY <2>1, <2>2, <2>3
<1>6. Discarded'
  <2> SUFFICES ASSUME NEW b \in Calls, NEW t \in call'[b].refused
               PROVE  /\ cache' # t
                      /\ \A d \in Calls : call'[d].pc = "cache" => call'[d].token # t
                      /\ Holds(b)' => call'[b].token # t
    BY DEF Discarded
  <2>1. CASE b = c
    <3>1. call'[c].pc = "cache" => call'[c].token # t
      BY <1>2, <2>1 DEF Fits, Ready
    <3> QED
      BY <1>2, <2>1, <3>1 DEF Fits
  <2>2. CASE b # c
    <3>1. call'[b] = call[b] /\ t \in call[b].refused
      BY <1>2, <2>2
    <3>2. call'[c].pc = "cache" => call'[c].token # t
      BY <1>2, <2>2, <3>1 DEF Fits
    <3> QED
      BY <1>2, <2>2, <3>1, <3>2 DEF Fits, TInv, Discarded
  <2> QED
    BY <2>1, <2>2
<1> QED
  BY <1>4, <1>5, <1>6 DEF TInv

(* A call that only comes to hold the cached token, or one it held before, *)
(* or none, fits as long as the cache keeps its token or loses it.         *)
LEMMA SameTokenTInv ==
  ASSUME TInv, Types', NEW c \in Calls, NEW l, call' = [call EXCEPT ![c] = l],
         issued' = issued, cache' \in {cache, NoToken},
         l.token <= issued, l.refused \subseteq call[c].refused,
         l.pc # "cache",
         \/ ~Ready(l)
         \/ l.token = cache /\ cache # NoToken
         \/ l.token = call[c].token /\ Holds(c)
  PROVE  TInv'
<1>1. Types /\ Issued /\ Private /\ Discarded
  BY DEF TInv
<1>2. issued \in Nat /\ \A d \in Calls : NoToken \notin call[d].refused
  BY <1>1, LocalsNumbers
<1>3. /\ cache' <= issued'
      /\ issued <= issued'
      /\ \A t \in l.refused : t <= issued'
  BY <1>1, <1>2 DEF Issued, NoToken
<1>4. Fits(c, l, cache', issued')
  BY <1>1, <1>2, <1>3 DEF Fits, Private, Discarded, Issued, Ready, Holds
<1> QED
  BY <1>3, <1>4, StepTInv

(* New locals of one call keep the types.                                  *)
LEMMA CallType ==
  ASSUME Types, NEW c \in Calls, NEW l \in Locals, call' = [call EXCEPT ![c] = l]
  PROVE  call' \in [Calls -> Locals]
BY DEF Types

(* Locals with another token, or at another place.                         *)
Moved(x, t, pc) == [x EXCEPT !.token = t, !.pc = pc]

LEMMA MovedType ==
  ASSUME NEW x \in Locals, NEW t \in Tokens \cup {NoToken}, NEW pc \in Pcs
  PROVE  /\ Moved(x, t, pc) \in Locals
         /\ Moved(x, t, pc).token = t
         /\ Moved(x, t, pc).pc = pc
         /\ Moved(x, t, pc).refused = x.refused
BY DEF Locals, Moved

LEMMA LocalsOf ==
  ASSUME Types, NEW c \in Calls
  PROVE  call[c] \in Locals
BY DEF Types

(* A call that has returned has its outcome and nothing else at hand.      *)
LEMMA FinishType ==
  ASSUME NEW l \in Locals, NEW o \in Outcomes
  PROVE  /\ Finish(l, o) \in Locals
         /\ Finish(l, o).pc = "done"
         /\ Finish(l, o).token = 0
         /\ Finish(l, o).refused = {}
         /\ Finish(l, o).outcome = o
         /\ Finish(l, o).last = l.last
BY DEF Finish, Locals, Pcs, Endpoints, NoToken

LEMMA OutcomeType ==
  ASSUME NEW kind \in {"none", "success", "retryable", "final", "client disconnected"}
  PROVE  Outcome(kind, "none", 0) \in Outcomes
BY DEF Outcome, Outcomes

LEMMA StatusErrorType ==
  ASSUME Types, NEW c \in Calls, NEW st
  PROVE  StatusError(c, st) \in Outcomes
<1>1. call[c].endpoint \in Endpoints
  BY LocalsOf DEF Locals
<1> QED
  BY <1>1 DEF StatusError, Outcome, Outcomes

LEMMA NextEndpointType ==
  ASSUME NEW l \in Locals
  PROVE  /\ NextEndpoint(l) \in Locals
         /\ NextEndpoint(l).pc = "send"
         /\ NextEndpoint(l).token = l.token
         /\ NextEndpoint(l).refused = l.refused
         /\ NextEndpoint(l).last = "none"
BY DEF NextEndpoint, Locals, Pcs, Endpoints, Statuses

LEMMA SentType ==
  ASSUME Types, NEW c \in Calls, NEW st \in Statuses \cup {"401"}
  PROVE  /\ Sent(c, st) \in Locals
         /\ Sent(c, st).last = st
         /\ Sent(c, st).pc = call[c].pc
         /\ Sent(c, st).token = call[c].token
         /\ Sent(c, st).refused = call[c].refused
BY LocalsOf DEF Sent, Locals

(* A call that returns keeps the invariant, whatever it returns.           *)
LEMMA FinishTInv ==
  ASSUME TInv, NEW c \in Calls, NEW l \in Locals, NEW o \in Outcomes,
         call' = [call EXCEPT ![c] = Finish(l, o)], UNCHANGED <<cache, age, issued, quota>>
  PROVE  TInv'
<1>1. PICK f \in Locals : /\ f = Finish(l, o) /\ f.pc = "done"
                          /\ f.token = 0 /\ f.refused = {}
  BY FinishType
<1>2. call' = [call EXCEPT ![c] = f]
  BY <1>1
<1>3. Types /\ issued \in Nat
  BY DEF TInv, Types
<1>4. Types'
  BY <1>2, <1>3, CallType DEF Types
<1>5. f.token <= issued /\ f.refused \subseteq call[c].refused /\ f.pc # "cache" /\ ~Ready(f)
  BY <1>1, <1>3 DEF Ready
<1> QED
  BY <1>2, <1>4, <1>5, SameTokenTInv

LEMMA TakeCachedTInv ==
  ASSUME TInv, NEW c \in Calls, TakeCached(c)
  PROVE  TInv'
<1>1. Types /\ call[c] \in Locals
  BY LocalsOf DEF TInv
<1>2. cache \in Tokens
  BY DEF TakeCached, CacheUsable
<1>0. PICK l : l = [call[c] EXCEPT !.token = cache, !.pc = call[c].then]
  OBVIOUS
<1>3. /\ l \in Locals /\ l.token = cache /\ l.refused = call[c].refused
      /\ l.pc \in {"send", "resend"}
  <2>1. PICK pc \in {"send", "resend"} : pc = call[c].then
    BY <1>1 DEF Locals
  <2>2. pc \in Pcs
    BY DEF Pcs
  <2>3. PICK t \in Tokens : t = cache
    BY <1>2
  <2> QED
    <3>1. t \in Tokens \cup {NoToken}
      OBVIOUS
    <3>2. PICK x \in Locals : x = call[c]
      BY <1>1
    <3>3. l = Moved(x, t, pc)
      BY <1>0, <2>1, <2>3, <3>2 DEF Moved
    <3>4. l \in Locals /\ l.token = t /\ l.pc = pc /\ l.refused = x.refused
      BY <2>2, <3>1, <3>3, MovedType
    <3> QED
      BY <2>3, <3>2, <3>4
<1>4. call' = [call EXCEPT ![c] = l] /\ UNCHANGED <<cache, age, issued, quota>>
  BY <1>0, <1>1 DEF TakeCached, Types
<1>5. Types'
  BY <1>1, <1>3, <1>4, CallType DEF Types
<1>6. l.token <= issued /\ cache # NoToken
  BY <1>2, <1>3, TokensAssumption DEF TInv, Issued, Tokens, NoToken
<1> QED
  BY <1>3, <1>4, <1>5, <1>6, SameTokenTInv

(* A step to another place that is not about tokens.                       *)
LEMMA GotoTInv ==
  ASSUME TInv, NEW c \in Calls, Goto(c, "refresh") \/ Goto(c, "token"),
         UNCHANGED <<cache, age, issued, quota>>
  PROVE  TInv'
<1>1. Types /\ call[c] \in Locals
  BY LocalsOf DEF TInv
<1>2. PICK pc \in {"refresh", "token"} : call' = [call EXCEPT ![c].pc = pc]
  BY DEF Goto
<1>0. PICK l : l = [call[c] EXCEPT !.pc = pc]
  OBVIOUS
<1>3. /\ l \in Locals /\ l.token = call[c].token
      /\ l.refused = call[c].refused /\ l.pc = pc
  BY <1>0, <1>1 DEF Locals, Pcs
<1>4. call' = [call EXCEPT ![c] = l]
  BY <1>0, <1>1, <1>2 DEF Types
<1>5. Types'
  BY <1>1, <1>3, <1>4, CallType DEF Types
<1>6. l.token <= issued /\ ~Ready(l) /\ l.pc # "cache"
  BY <1>3 DEF TInv, Issued, Ready
<1> QED
  BY <1>3, <1>4, <1>5, <1>6, SameTokenTInv

(* A token that is issued is new to everybody.                             *)
LEMMA RefreshedTInv ==
  ASSUME TInv, NEW c \in Calls, Refreshed(c)
  PROVE  TInv'
<1>1. Types /\ call[c] \in Locals
  BY LocalsOf DEF TInv
<1>2. issued \in Nat /\ MaxTokens \in Nat /\ issued < MaxTokens
  BY <1>1, TokensAssumption DEF Refreshed, Types
<1>3. PICK new \in Tokens : new = issued + 1
  BY <1>2 DEF Tokens
<1>0. PICK l : l = [call[c] EXCEPT !.token = new, !.pc = "cache"]
  OBVIOUS
<1>4. /\ l \in Locals
      /\ l.token = new /\ l.pc = "cache" /\ l.refused = call[c].refused
  <2>1. "cache" \in Pcs
    BY DEF Pcs
  <2> QED
    <3>1. new \in Tokens \cup {NoToken}
      OBVIOUS
    <3>2. PICK x \in Locals : x = call[c]
      BY <1>1
    <3>3. l = Moved(x, new, "cache")
      BY <1>0, <3>2 DEF Moved
    <3>4. l \in Locals /\ l.token = new /\ l.pc = "cache" /\ l.refused = x.refused
      BY <2>1, <3>1, <3>3, MovedType
    <3> QED
      BY <3>2, <3>4
<1>5. call' = [call EXCEPT ![c] = l] /\ issued' = new /\ UNCHANGED <<cache, age, quota>>
  BY <1>0, <1>1, <1>3 DEF Refreshed, Types
<1>6. new \in Nat /\ new <= MaxTokens /\ new # NoToken
  BY <1>2, <1>3 DEF NoToken
<1>7. call' \in [Calls -> Locals]
  BY <1>1, <1>4, <1>5, CallType
<1>8. Types'
  BY <1>1, <1>5, <1>6, <1>7 DEF Types
<1>9. /\ cache # new /\ cache <= new
      /\ \A d \in Calls : /\ call[d].token # new /\ new \notin call[d].refused
                          /\ \A t \in call[d].refused : t <= new
  <2>1. cache \in Nat
    <3>1. cache \in Tokens \cup {0}
      BY <1>1 DEF Types, NoToken
    <3>2. Tokens \subseteq Nat
      BY TokensAssumption DEF Tokens
    <3> QED
      BY <3>1, <3>2
  <2>2. cache # new /\ cache <= new
    BY <1>2, <1>3, <2>1 DEF TInv, Issued
  <2>3. ASSUME NEW d \in Calls
        PROVE  /\ call[d].token # new /\ new \notin call[d].refused
               /\ \A t \in call[d].refused : t <= new
    <3>1. call[d].token \in Nat /\ call[d].refused \subseteq Nat
      BY <1>1, LocalsNumbers
    <3>2. call[d].token <= issued /\ \A t \in call[d].refused : t <= issued
      BY DEF TInv, Issued
    <3> QED
      BY <1>2, <1>3, <3>1, <3>2
  <2> QED
    BY <2>2, <2>3
<1>10. /\ Issued /\ Private /\ Discarded
       /\ \A d \in Calls : call[d].pc = "cache" => Holds(d)
  BY DEF TInv, Holds
<1>11. Fits(c, l, cache', issued')
  <2>1. l.token <= issued' /\ \A t \in l.refused : t <= issued'
    BY <1>4, <1>5, <1>6, <1>9
  <2>2. \A d \in Calls \ {c} : /\ Holds(d) => call[d].token # l.token
                               /\ l.token \notin call[d].refused
    BY <1>4, <1>9
  <2>3. \A t \in l.refused : cache' # t /\ l.token # t
    BY <1>4, <1>5, <1>9, <1>10 DEF Discarded
  <2>4. \A t \in l.refused : \A d \in Calls \ {c} : call[d].pc = "cache" => call[d].token # t
    BY <1>4, <1>10 DEF Discarded
  <2>5. \A d \in Calls \ {c} : /\ cache' \notin call[d].refused
                               /\ call[d].pc = "cache" => cache' # call[d].token
    BY <1>5, <1>10 DEF Discarded, Private
  <2> QED
    BY <1>4, <1>5, <1>6, <1>9, <2>1, <2>2, <2>3, <2>4, <2>5 DEF Fits
<1>12. issued <= issued' /\ cache' <= issued'
  BY <1>2, <1>3, <1>5, <1>9
<1> QED
  BY <1>5, <1>8, <1>11, <1>12, StepTInv

(* A call that returns from where it is keeps the invariant.               *)
LEMMA ReturnTInv ==
  ASSUME TInv, NEW c \in Calls, NEW o \in Outcomes, Return(c, o),
         UNCHANGED <<cache, age, issued, quota>>
  PROVE  TInv'
<1>1. PICK l \in Locals : l = call[c]
  BY LocalsOf DEF TInv
<1>2. call' = [call EXCEPT ![c] = Finish(l, o)]
  BY <1>1 DEF Return, TInv, Types
<1> QED
  BY <1>2, FinishTInv

(* The token that goes to the cache is nobody else's, and not refused.     *)
LEMMA CacheTokenTInv ==
  ASSUME TInv, NEW c \in Calls, CacheToken(c)
  PROVE  TInv'
<1>1. Types /\ Issued /\ Private /\ Discarded /\ call[c] \in Locals
  BY LocalsOf DEF TInv
<1>2. PICK x \in Locals : x = call[c]
  BY <1>1
<1>3. PICK pc \in {"send", "resend"} : pc = x.then
  BY DEF Locals
<1>4. PICK t \in Tokens \cup {NoToken} : t = x.token
  BY DEF Locals
<1>5. PICK l : l = Moved(x, t, pc)
  OBVIOUS
<1>6. l \in Locals /\ l.token = t /\ l.pc = pc /\ l.refused = x.refused
  <2>1. pc \in Pcs
    BY DEF Pcs
  <2> QED
    BY <1>5, <2>1, MovedType
<1>7. /\ call' = [call EXCEPT ![c] = l]
      /\ cache' = t /\ UNCHANGED <<age, issued, quota>>
      /\ x.pc = "cache"
  <2>1. call' = [call EXCEPT ![c].pc = x.then]
    BY <1>2 DEF CacheToken, Goto
  <2>2. call' = [call EXCEPT ![c] = [x EXCEPT !.pc = pc]]
    BY <1>1, <1>2, <1>3, <2>1 DEF Types
  <2>3. l = [x EXCEPT !.pc = pc]
    BY <1>4, <1>5 DEF Moved, Locals
  <2> QED
    BY <1>2, <1>4, <2>2, <2>3 DEF CacheToken
<1>8. Types'
  BY <1>1, <1>4, <1>6, <1>7, CallType DEF Types
<1>9. /\ Holds(c) /\ t <= issued /\ t # NoToken /\ issued \in Nat
      /\ \A r \in l.refused : r <= issued
  <2>1. Holds(c)
    BY <1>2, <1>7 DEF Holds
  <2> QED
    BY <1>1, <1>2, <1>4, <1>6, <2>1, LocalsNumbers DEF Issued
<1>10. \A r \in l.refused : /\ t # r
                            /\ \A d \in Calls \ {c} : call[d].pc = "cache" => call[d].token # r
  BY <1>1, <1>2, <1>4, <1>6, <1>9 DEF Discarded
<1>11. \A d \in Calls \ {c} : /\ t \notin call[d].refused
                              /\ call[d].pc = "cache" => t # call[d].token
  BY <1>1, <1>2, <1>4, <1>7 DEF Discarded, Private, Holds
<1>12. Fits(c, l, cache', issued')
  BY <1>3, <1>6, <1>7, <1>9, <1>10, <1>11 DEF Fits
<1>13. issued <= issued' /\ cache' <= issued'
  BY <1>7, <1>9
<1> QED
  BY <1>7, <1>8, <1>12, <1>13, StepTInv

(* A refused token that the call held goes from the cache, and no other    *)
(* call is about to put it there.                                          *)
LEMMA RefuseTInv ==
  ASSUME TInv, NEW c \in Calls, Refuse(c)
  PROVE  TInv'
<1>1. Types /\ Issued /\ Private /\ Discarded /\ call[c] \in Locals
  BY LocalsOf DEF TInv
<1>2. PICK x \in Locals : x = Sent(c, "401")
  BY <1>1, SentType
<1>3. x.token = call[c].token /\ x.refused = call[c].refused
  BY <1>1, <1>2, SentType
<1>4. PICK l : l = [x EXCEPT !.refused = @ \cup {call[c].token},
                             !.pc = "token", !.then = "resend"]
  OBVIOUS
<1>5. call' = [call EXCEPT ![c] = l] /\ cache' = NoToken /\ UNCHANGED <<age, issued, quota>>
  BY <1>2, <1>4 DEF Refuse
<1>6. Holds(c) /\ call[c].token # NoToken /\ call[c].token \in Tokens
  BY <1>1 DEF Refuse, Holds, Issued, Locals
<1>7. /\ l \in Locals /\ l.pc = "token" /\ l.token = x.token
      /\ l.refused = x.refused \cup {call[c].token}
  BY <1>4, <1>6 DEF Locals, Pcs
<1>8. Types'
  BY <1>1, <1>5, <1>7, CallType DEF Types
<1>9. /\ issued \in Nat
      /\ \A d \in Calls : NoToken \notin call[d].refused
  BY <1>1, LocalsNumbers
<1>10. \A r \in l.refused : /\ r <= issued
                            /\ r # NoToken
                            /\ \A d \in Calls \ {c} : call[d].pc = "cache" => call[d].token # r
  <2> SUFFICES ASSUME NEW r \in l.refused
               PROVE  /\ r <= issued
                      /\ r # NoToken
                      /\ \A d \in Calls \ {c} : call[d].pc = "cache" => call[d].token # r
    OBVIOUS
  <2>1. CASE r \in call[c].refused
    BY <1>1, <1>9, <2>1 DEF Issued, Discarded
  <2>2. CASE r = call[c].token
    BY <1>1, <1>6, <2>2 DEF Issued, Private
  <2> QED
    BY <1>3, <1>7, <2>1, <2>2
<1>11. \A d \in Calls \ {c} : call[d].pc = "cache" => call[d].token # NoToken
  BY <1>1 DEF Issued, Holds
<1>12. Fits(c, l, cache', issued')
  <2>1. ~Ready(l) /\ l.pc # "cache" /\ l.token <= issued
    BY <1>1, <1>3, <1>7 DEF Ready, Issued
  <2> QED
    BY <1>5, <1>9, <1>10, <1>11, <2>1 DEF Fits
<1>13. issued <= issued' /\ cache' <= issued'
  BY <1>5, <1>9 DEF NoToken
<1> QED
  BY <1>5, <1>8, <1>12, <1>13, StepTInv

LEMMA RefuseAgainTInv ==
  ASSUME TInv, NEW c \in Calls, RefuseAgain(c)
  PROVE  TInv'
<1>1. Types /\ call[c] \in Locals
  BY LocalsOf DEF TInv
<1>2. PICK x \in Locals : x = Sent(c, "401")
  BY <1>1, SentType
<1>3. Holds(c) /\ call[c].token \in Tokens
  BY <1>1 DEF RefuseAgain, Holds, TInv, Issued, Locals
<1>4. PICK l : l = [x EXCEPT !.refused = @ \cup {call[c].token}]
  OBVIOUS
<1>5. l \in Locals
  BY <1>3, <1>4 DEF Locals
<1>6. PICK o \in Outcomes : o = Outcome("final", "none", 0)
  BY OutcomeType
<1>7. call' = [call EXCEPT ![c] = Finish(l, o)] /\ UNCHANGED <<cache, age, issued, quota>>
  BY <1>2, <1>4, <1>6 DEF RefuseAgain
<1> QED
  BY <1>5, <1>7, FinishTInv

(* What a call makes of an answer: it goes on with the token it has, goes  *)
(* on without one, or returns.                                             *)
LEMMA AfterAnswerType ==
  ASSUME Types, NEW c \in Calls, NEW st \in Statuses
  PROVE  LET l == AfterAnswer(c, st)
         IN  /\ l \in Locals
             /\ \/ l.pc = "done" /\ l.token = 0 /\ l.refused = {}
                \/ /\ l.pc \in {"respond", "strip", "send"}
                   /\ l.token = call[c].token /\ l.refused = call[c].refused
<1>1. PICK x \in Locals : x = Sent(c, st)
  BY SentType
<1>2. x.token = call[c].token /\ x.refused = call[c].refused
  BY <1>1, SentType
<1>3. AfterAnswer(c, st) \in {[x EXCEPT !.pc = "respond"], [x EXCEPT !.pc = "strip"],
                              NextEndpoint(x),
                              Finish(x, Outcome("retryable", "none", 0)),
                              Finish(x, StatusError(c, st))}
  BY <1>1 DEF AfterAnswer
<1>4. ASSUME NEW pc \in {"respond", "strip"}, NEW l, l = [x EXCEPT !.pc = pc]
      PROVE  l \in Locals /\ l.pc = pc /\ l.token = x.token /\ l.refused = x.refused
  BY <1>4 DEF Locals, Pcs
<1>5. Outcome("retryable", "none", 0) \in Outcomes /\ StatusError(c, st) \in Outcomes
  BY OutcomeType, StatusErrorType
<1>6. ASSUME NEW o \in Outcomes
      PROVE  /\ Finish(x, o) \in Locals /\ Finish(x, o).pc = "done"
             /\ Finish(x, o).token = 0 /\ Finish(x, o).refused = {}
  BY <1>6, FinishType
<1> DEFINE l == AfterAnswer(c, st)
<1> HIDE DEF l
<1>7. CASE l \in {[x EXCEPT !.pc = "respond"], [x EXCEPT !.pc = "strip"]}
  BY <1>2, <1>4, <1>7 DEF l
<1>8. CASE l = NextEndpoint(x)
  BY <1>2, <1>8, NextEndpointType DEF l
<1>9. CASE l \in {Finish(x, Outcome("retryable", "none", 0)), Finish(x, StatusError(c, st))}
  BY <1>5, <1>6, <1>9 DEF l
<1> QED
  BY <1>3, <1>7, <1>8, <1>9 DEF l

(* A query that is begun keeps the types.                                  *)
LEMMA QueriedType ==
  ASSUME Types, NEW c \in Calls, NEW st
  PROVE  QueriedQuota(c, st) \in [Calls -> [Endpoints -> {"none", "asked", "a minute", "reset"}]]
<1>1. PICK e \in Endpoints : e = call[c].endpoint
  BY LocalsOf DEF Locals
<1>2. quota \in [Calls -> [Endpoints -> {"none", "asked", "a minute", "reset"}]]
  BY DEF Types
<1> QED
  BY <1>1, <1>2 DEF QueriedQuota

LEMMA AnswerTInv ==
  ASSUME TInv, NEW c \in Calls, Answer(c)
  PROVE  TInv'
<1>1. Types /\ call[c] \in Locals
  BY LocalsOf DEF TInv
<1>2. PICK st \in Statuses : /\ call' = [call EXCEPT ![c] = AfterAnswer(c, st)]
                             /\ quota' = QueriedQuota(c, st)
  BY DEF Answer
<1>3. PICK l : l = AfterAnswer(c, st)
  OBVIOUS
<1>4. /\ l \in Locals
      /\ \/ l.pc = "done" /\ l.token = 0 /\ l.refused = {}
         \/ /\ l.pc \in {"respond", "strip", "send"}
            /\ l.token = call[c].token /\ l.refused = call[c].refused
  BY <1>1, <1>3, AfterAnswerType
<1>5. call' = [call EXCEPT ![c] = l] /\ UNCHANGED <<cache, age, issued>> /\ Holds(c)
  BY <1>2, <1>3 DEF Answer, Holds
<1>6. Types'
  BY <1>1, <1>2, <1>4, <1>5, CallType, QueriedType DEF Types
<1>7. issued \in Nat /\ call[c].token <= issued
  BY <1>1 DEF TInv, Issued, Types
<1>8. /\ l.token <= issued /\ l.refused \subseteq call[c].refused /\ l.pc # "cache"
      /\ ~Ready(l) \/ (l.token = call[c].token /\ Holds(c))
  BY <1>4, <1>5, <1>7 DEF Ready
<1> QED
  BY <1>5, <1>6, <1>8, SameTokenTInv

(* A call that goes to the next endpoint keeps its token.                  *)
LEMMA StripTInv ==
  ASSUME TInv, NEW c \in Calls, StripThinking(c) \/ LeavesWhileStripping(c)
  PROVE  TInv'
<1>1. Types /\ call[c] \in Locals
  BY LocalsOf DEF TInv
<1>2. PICK x : x = [call[c] EXCEPT !.retried = TRUE]
  OBVIOUS
<1>3. x \in Locals /\ x.token = call[c].token /\ x.refused = call[c].refused
  BY <1>1, <1>2 DEF Locals
<1>4. /\ UNCHANGED <<cache, age, issued, quota>>
      /\ Holds(c)
      /\ \/ call' = [call EXCEPT ![c] = NextEndpoint(x)]
         \/ call' = [call EXCEPT ![c] = Finish(x, StatusError(c, "400sig"))]
         \/ call' = [call EXCEPT ![c] = Finish(x, Outcome("client disconnected", "none", 0))]
  BY <1>2 DEF StripThinking, LeavesWhileStripping, Holds
<1>5. CASE call' = [call EXCEPT ![c] = NextEndpoint(x)]
  <2>1. PICK l \in Locals : /\ l = NextEndpoint(x) /\ l.pc = "send"
                            /\ l.token = x.token /\ l.refused = x.refused
    BY <1>3, NextEndpointType
  <2>2. call' = [call EXCEPT ![c] = l]
    BY <1>5, <2>1
  <2>3. Types'
    BY <1>1, <1>4, <2>2, CallType DEF Types
  <2>4. /\ l.token <= issued /\ l.refused \subseteq call[c].refused /\ l.pc # "cache"
        /\ l.token = call[c].token
    BY <1>3, <2>1 DEF TInv, Issued
  <2> QED
    BY <1>4, <2>2, <2>3, <2>4, SameTokenTInv
<1>6. ASSUME NEW o \in Outcomes, call' = [call EXCEPT ![c] = Finish(x, o)]
      PROVE  TInv'
  BY <1>3, <1>4, <1>6, FinishTInv
<1>7. /\ StatusError(c, "400sig") \in Outcomes
      /\ Outcome("client disconnected", "none", 0) \in Outcomes
  BY <1>1, StatusErrorType, OutcomeType
<1> QED
  BY <1>4, <1>5, <1>6, <1>7

(* What is not a step of a call leaves tokens and locals alone.            *)
LEMMA OutsideTInv ==
  ASSUME TInv, UNCHANGED <<cache, issued, call>>, Types'
  PROVE  TInv'
BY DEF TInv, Issued, Private, Discarded, Holds

LEMMA QuotaAnswersTInv ==
  ASSUME TInv, NEW c \in Calls, NEW e \in Endpoints, QuotaAnswers(c, e)
  PROVE  TInv'
<1>1. Types
  BY DEF TInv
<1>2. PICK answer \in {"none", "a minute", "reset"} : quota' = [quota EXCEPT ![c][e] = answer]
  BY DEF QuotaAnswers, Update
<1>3. quota \in [Calls -> [Endpoints -> {"none", "asked", "a minute", "reset"}]]
  BY <1>1 DEF Types
<1>4. quota' \in [Calls -> [Endpoints -> {"none", "asked", "a minute", "reset"}]]
  BY <1>2, <1>3
<1>5. UNCHANGED <<cache, age, issued, call>>
  BY DEF QuotaAnswers
<1>6. Types'
  BY <1>1, <1>4, <1>5 DEF Types
<1> QED
  BY <1>5, <1>6, OutsideTInv

LEMMA AgeTInv ==
  ASSUME TInv, NEW t \in Tokens, Expire(t) \/ Revoke(t)
  PROVE  TInv'
<1>1. Types
  BY DEF TInv
<1>2. age' \in [Tokens -> Ages] /\ UNCHANGED <<cache, issued, call, quota>>
  BY <1>1 DEF Expire, Revoke, Types, Ages
<1>3. Types'
  BY <1>1, <1>2 DEF Types
<1> QED
  BY <1>2, <1>3, OutsideTInv

LEMMA NextTInv == TInv /\ [Next]_vars => TInv'
<1> SUFFICES ASSUME TInv, [Next]_vars PROVE TInv'
  OBVIOUS
<1>1. ASSUME NEW c \in Calls, Step(c) PROVE TInv'
  <2>1. CASE RefreshFails(c)
    BY <2>1, ReturnTInv, OutcomeType DEF RefreshFails
  <2>2. CASE Respond(c)
    BY <2>2, ReturnTInv, OutcomeType DEF Respond
  <2>3. CASE StartRefresh(c)
    BY <2>3, GotoTInv DEF StartRefresh
  <2> QED
    BY <1>1, <2>1, <2>2, <2>3, TakeCachedTInv, RefreshedTInv, CacheTokenTInv,
       RefuseTInv, RefuseAgainTInv, AnswerTInv, StripTInv DEF Step
<1>2. CASE UNCHANGED vars
  BY <1>2, OutsideTInv DEF vars, TInv, Types
<1> QED
  BY <1>1, <1>2, QuotaAnswersTInv, AgeTInv DEF Next, Returned

(* What every reachable state has, whatever the calls and the upstream do: *)
(* a token on its way to the cache is known to nobody else, and a token    *)
(* refused to a call is neither in the cache nor on its way there.         *)
THEOREM TokenInvariant == Spec => []TInv
BY InitTInv, NextTInv, PTL DEF Spec

(* The state stays within its types: a call that sends has a token, and    *)
(* all tokens about are ones that were issued.                             *)
THEOREM TypesKept == Spec => []TypeInvariant
<1>1. TInv => TypeInvariant
  <2> SUFFICES ASSUME TInv PROVE TypeInvariant
    OBVIOUS
  <2>1. Types /\ Issued
    BY DEF TInv
  <2>2. ASSUME NEW c \in Calls
        PROVE  /\ call[c].pc \in Pcs /\ call[c].token <= issued
               /\ call[c].pc \in {"send", "resend"} => call[c].token # NoToken
               /\ \A e \in Endpoints : quota[c][e] \in {"none", "asked", "a minute", "reset"}
    BY <2>1 DEF Types, Issued, Holds, Locals
  <2> QED
    BY <2>1, <2>2 DEF Types, Issued, TypeInvariant, Pcs
<1> QED
  BY <1>1, TokenInvariant, PTL

(* No call sends a token that was refused to it, however the calls of a    *)
(* provider take, refresh, cache and discard tokens meanwhile.             *)
THEOREM RefusedNotSent == Spec => []RefusedTokenNotSent
<1>1. TInv => RefusedTokenNotSent
  BY DEF TInv, Discarded, Holds, RefusedTokenNotSent
<1> QED
  BY <1>1, TokenInvariant, PTL

-------------------------------------------------------------------------------
(* The last answer of a call says where it is, and what it returned; q is  *)
(* what became of its queries.                                             *)
LastFits(l, q) ==
    /\ l.pc \in {"token", "refresh", "cache"} => l.last \in {"none", "401"}
    /\ l.pc = "strip" => l.last = "400sig"
    /\ l.pc = "respond" => l.last = "ok"
    /\ l.pc = "done" =>
          /\ l.outcome.kind = "success" => l.last = "ok"
          /\ l.outcome.limit = "until reset" <=> l.last = "429ts"
          /\ l.outcome.limit = "a minute" <=> l.last = "429"
          /\ l.outcome.chan # 0 <=> l.last = "429"
          /\ l.outcome.chan # 0 => q[l.outcome.chan] # "none"
          /\ l.last \in {"429", "429ts", "500"} => l.outcome.kind = "retryable"

OInv == \A c \in Calls : LastFits(call[c], quota[c])

LEMMA InitOInv == Init => OInv
<1>1. ASSUME NEW q PROVE LastFits(NewCall, q)
  BY DEF LastFits, NewCall
<1> QED
  BY <1>1 DEF Init, OInv

(* A step of one call is about its own answers only.                       *)
LEMMA StepOInv ==
  ASSUME Types, OInv, NEW c \in Calls, NEW l, call' = [call EXCEPT ![c] = l],
         \A d \in Calls \ {c} : quota'[d] = quota[d],
         LastFits(l, quota'[c])
  PROVE  OInv'
<1> SUFFICES ASSUME NEW d \in Calls PROVE LastFits(call'[d], quota'[d])
  BY DEF OInv
<1>1. call'[c] = l /\ (d # c => call'[d] = call[d])
  BY DEF Types
<1>2. CASE d = c
  BY <1>1, <1>2
<1>3. CASE d # c
  BY <1>1, <1>3 DEF OInv
<1> QED
  BY <1>2, <1>3

(* The locals a call returns with, by name.                                *)
LEMMA Returns ==
  ASSUME NEW l \in Locals, NEW o \in Outcomes
  PROVE  \E f : f = Finish(l, o) /\ f.pc = "done" /\ f.outcome = o /\ f.last = l.last
BY FinishType

LEMMA EndpointsAreSome == 0 \notin Endpoints
BY DEF Endpoints, Prod, Daily

(* An outcome without a limit fits every answer that sets none.            *)
LEMMA PlainFits ==
  ASSUME NEW l \in Locals, NEW q,
         NEW kind \in {"success", "retryable", "final", "client disconnected"},
         l.last \notin {"429", "429ts", "500"},
         kind = "success" => l.last = "ok"
  PROVE  LastFits(Finish(l, Outcome(kind, "none", 0)), q)
<1>1. PICK o \in Outcomes : o = Outcome(kind, "none", 0)
  BY OutcomeType
<1>2. o.kind = kind /\ o.limit = "none" /\ o.chan = 0
  BY <1>1 DEF Outcome
<1>3. PICK f : /\ f = Finish(l, o) /\ f.pc = "done"
                /\ f.outcome = o /\ f.last = l.last
  BY Returns
<1>4. LastFits(f, q)
  BY <1>2, <1>3 DEF LastFits
<1> QED
  BY <1>1, <1>3, <1>4

(* A status error says of an exhausted quota what the answer said of it,   *)
(* and has a channel when a query was begun.                               *)
LEMMA StatusErrorFits ==
  ASSUME Types, NEW c \in Calls, NEW l \in Locals, NEW q,
         l.last \in Statuses \ {"ok", "no connection"},
         l.last = "429" => q[call[c].endpoint] # "none"
  PROVE  LastFits(Finish(l, StatusError(c, l.last)), q)
<1>1. PICK o \in Outcomes : o = StatusError(c, l.last)
  BY StatusErrorType
<1>2. PICK e \in Endpoints : e = call[c].endpoint
  BY LocalsOf DEF Locals
<1>3. e # 0
  BY EndpointsAreSome
<1>4. /\ o.kind = IF l.last \in {"429ts", "429", "500"} THEN "retryable" ELSE "final"
      /\ o.limit = CASE l.last = "429ts" -> "until reset" [] l.last = "429" -> "a minute"
                     [] OTHER -> "none"
      /\ o.chan = IF l.last = "429" THEN e ELSE 0
  BY <1>1, <1>2 DEF StatusError, Outcome, IsRetryableStatusCode
<1>5. PICK f : /\ f = Finish(l, o) /\ f.pc = "done"
                /\ f.outcome = o /\ f.last = l.last
  BY Returns
<1>6. /\ o.kind = "success" => l.last = "ok"
      /\ o.limit = "until reset" <=> l.last = "429ts"
      /\ o.limit = "a minute" <=> l.last = "429"
      /\ o.chan # 0 <=> l.last = "429"
      /\ o.chan # 0 => q[o.chan] # "none"
      /\ l.last \in {"429", "429ts", "500"} => o.kind = "retryable"
  BY <1>2, <1>3, <1>4
<1>7. LastFits(f, q)
  BY <1>5, <1>6 DEF LastFits
<1> QED
  BY <1>1, <1>5, <1>7

(* Whatever the upstream answers, the call's next place or its outcome is  *)
(* that of the answer.                                                     *)
LEMMA AfterAnswerFits ==
  ASSUME Types, NEW c \in Calls, NEW st \in Statuses
  PROVE  LastFits(AfterAnswer(c, st), QueriedQuota(c, st)[c])
<1>1. PICK x \in Locals : x = Sent(c, st)
  BY SentType
<1>2. x.last = st
  BY <1>1, SentType
<1> DEFINE q == QueriedQuota(c, st)[c]
<1>3. st = "429" => q[call[c].endpoint] # "none"
  <2> SUFFICES ASSUME st = "429" PROVE QueriedQuota(c, st)[c][call[c].endpoint] = "asked"
    BY DEF q
  <2>1. PICK e \in Endpoints : e = call[c].endpoint
    BY LocalsOf DEF Locals
  <2>2. QueriedQuota(c, st) = [quota EXCEPT ![c][e] = "asked"]
    BY <2>1 DEF QueriedQuota
  <2>3. DOMAIN quota = Calls /\ DOMAIN quota[c] = Endpoints
    BY DEF Types
  <2>4. QueriedQuota(c, st)[c] = [quota[c] EXCEPT ![e] = "asked"]
    BY <2>2, <2>3
  <2>5. QueriedQuota(c, st)[c][e] = "asked"
    BY <2>3, <2>4
  <2> QED
    BY <2>1, <2>5
<1> HIDE DEF q
<1>4. CASE st = "ok"
  <2>1. AfterAnswer(c, st) = [x EXCEPT !.pc = "respond"]
    BY <1>1, <1>4 DEF AfterAnswer, HasNextEndpoint, ShouldTryNextEndpoint
  <2>2. LastFits([x EXCEPT !.pc = "respond"], q)
    BY <1>2, <1>4 DEF LastFits, Locals
  <2> QED
    BY <2>1, <2>2 DEF q
<1>5. CASE AfterAnswer(c, st) = NextEndpoint(x)
  <2>1. LastFits(NextEndpoint(x), q)
    BY NextEndpointType DEF LastFits
  <2> QED
    BY <1>5, <2>1 DEF q
<1>6. CASE st = "no connection" /\ AfterAnswer(c, st) # NextEndpoint(x)
  <2>1. AfterAnswer(c, st) = Finish(x, Outcome("retryable", "none", 0))
    BY <1>1, <1>6 DEF AfterAnswer
  <2>2. LastFits(Finish(x, Outcome("retryable", "none", 0)), q)
    BY <1>2, <1>6, PlainFits
  <2> QED
    BY <2>1, <2>2 DEF q
<1>7. CASE st = "400sig" /\ ~x.retried
  <2>1. AfterAnswer(c, st) = [x EXCEPT !.pc = "strip"]
    BY <1>1, <1>7 DEF AfterAnswer, HasNextEndpoint, ShouldTryNextEndpoint
  <2>2. LastFits([x EXCEPT !.pc = "strip"], q)
    BY <1>2, <1>7 DEF LastFits, Locals
  <2> QED
    BY <2>1, <2>2 DEF q
<1>8. CASE /\ st \notin {"ok", "no connection"}
           /\ ~(st = "400sig" /\ ~x.retried)
           /\ AfterAnswer(c, st) # NextEndpoint(x)
  <2>1. AfterAnswer(c, st) = Finish(x, StatusError(c, st))
    BY <1>1, <1>8 DEF AfterAnswer
  <2>2. LastFits(Finish(x, StatusError(c, x.last)), q)
    BY <1>2, <1>3, <1>8, StatusErrorFits
  <2> QED
    BY <1>2, <2>1, <2>2 DEF q
<1> QED
  BY <1>4, <1>5, <1>6, <1>7, <1>8

(* A call that is on its way to a token had no answer yet, or a refusal;   *)
(* one that sends, none that matters.                                      *)
LEMMA TokenStepsOInv ==
  ASSUME TInv, OInv, NEW c \in Calls,
         TakeCached(c) \/ StartRefresh(c) \/ Refreshed(c) \/ CacheToken(c)
  PROVE  OInv'
<1>1. Types /\ call[c] \in Locals /\ call[c].then \in {"send", "resend"}
  BY LocalsOf DEF TInv, Locals
<1>2. PICK l : /\ call' = [call EXCEPT ![c] = l]
               /\ l.last = call[c].last
               /\ \/ l.pc \in {"send", "resend"}
                  \/ /\ l.pc \in {"refresh", "cache"}
                     /\ call[c].pc \in {"token", "refresh"}
  <2>1. CASE TakeCached(c)
    <3>1. PICK l : l = [call[c] EXCEPT !.token = cache, !.pc = call[c].then]
      OBVIOUS
    <3>2. call' = [call EXCEPT ![c] = l]
      BY <1>1, <2>1, <3>1 DEF TakeCached, Types
    <3>3. l.last = call[c].last /\ l.pc = call[c].then
      BY <1>1, <3>1 DEF Locals
    <3> QED
      BY <1>1, <3>2, <3>3
  <2>2. CASE StartRefresh(c)
    <3>1. PICK l : l = [call[c] EXCEPT !.pc = "refresh"]
      OBVIOUS
    <3>2. call' = [call EXCEPT ![c] = l] /\ call[c].pc = "token"
      BY <1>1, <2>2, <3>1 DEF StartRefresh, Goto, Types
    <3>3. l.last = call[c].last /\ l.pc = "refresh"
      BY <1>1, <3>1 DEF Locals
    <3> QED
      BY <1>1, <3>2, <3>3
  <2>3. CASE Refreshed(c)
    <3>1. PICK l : l = [call[c] EXCEPT !.token = issued + 1, !.pc = "cache"]
      OBVIOUS
    <3>2. call' = [call EXCEPT ![c] = l] /\ call[c].pc = "refresh"
      BY <1>1, <2>3, <3>1 DEF Refreshed, Types
    <3>3. l.last = call[c].last /\ l.pc = "cache"
      BY <1>1, <3>1 DEF Locals
    <3> QED
      BY <1>1, <3>2, <3>3
  <2>4. CASE CacheToken(c)
    <3>1. PICK l : l = [call[c] EXCEPT !.pc = call[c].then]
      OBVIOUS
    <3>2. call' = [call EXCEPT ![c] = l]
      BY <1>1, <2>4, <3>1 DEF CacheToken, Goto, Types
    <3>3. l.last = call[c].last /\ l.pc = call[c].then
      BY <1>1, <3>1 DEF Locals
    <3> QED
      BY <1>1, <3>2, <3>3
  <2> QED
    BY <2>1, <2>2, <2>3, <2>4
<1>3. LastFits(l, quota[c])
  <2>1. LastFits(call[c], quota[c])
    BY DEF OInv
  <2> QED
    BY <1>2, <2>1 DEF LastFits
<1>4. quota' = quota
  BY DEF TakeCached, StartRefresh, Refreshed, CacheToken
<1> QED
  BY <1>1, <1>2, <1>3, <1>4, StepOInv

(* A call that returns an error of its own, or a success.                  *)
LEMMA ReturnStepsOInv ==
  ASSUME TInv, OInv, NEW c \in Calls,
         RefreshFails(c) \/ RefuseAgain(c) \/ LeavesWhileStripping(c) \/ Respond(c)
  PROVE  OInv'
<1>1. Types /\ call[c] \in Locals /\ LastFits(call[c], quota[c])
  BY LocalsOf DEF TInv, OInv
<1>2. quota' = quota
  BY DEF RefreshFails, RefuseAgain, LeavesWhileStripping, Respond
<1>3. ASSUME NEW l \in Locals,
             NEW kind \in {"success", "retryable", "final", "client disconnected"},
             l.last \notin {"429", "429ts", "500"},
             kind = "success" => l.last = "ok",
             call' = [call EXCEPT ![c] = Finish(l, Outcome(kind, "none", 0))]
      PROVE  OInv'
  <2>1. LastFits(Finish(l, Outcome(kind, "none", 0)), quota[c])
    BY <1>3, PlainFits
  <2> QED
    BY <1>1, <1>2, <1>3, <2>1, StepOInv
<1>4. CASE RefreshFails(c)
  <2>1. call[c].last \in {"none", "401"}
    BY <1>1, <1>4 DEF RefreshFails, LastFits
  <2>2. call' = [call EXCEPT ![c] = Finish(call[c], Outcome("retryable", "none", 0))]
    BY <1>1, <1>4 DEF RefreshFails, Return, Types
  <2> QED
    BY <1>1, <1>3, <2>1, <2>2
<1>5. CASE RefuseAgain(c)
  <2>1. PICK x \in Locals : x = Sent(c, "401") /\ x.last = "401"
    BY <1>1, SentType
  <2>2. call[c].token \in Tokens
    BY <1>1, <1>5 DEF RefuseAgain, TInv, Issued, Holds, Locals
  <2>3. PICK l : l = [x EXCEPT !.refused = @ \cup {call[c].token}]
    OBVIOUS
  <2>4. l \in Locals /\ l.last = "401"
    BY <2>1, <2>2, <2>3 DEF Locals
  <2>5. call' = [call EXCEPT ![c] = Finish(l, Outcome("final", "none", 0))]
    BY <1>5, <2>1, <2>3 DEF RefuseAgain
  <2> QED
    BY <1>3, <2>4, <2>5
<1>6. CASE LeavesWhileStripping(c)
  <2>1. call[c].last = "400sig"
    BY <1>1, <1>6 DEF LeavesWhileStripping, LastFits
  <2>2. PICK l : l = [call[c] EXCEPT !.retried = TRUE]
    OBVIOUS
  <2>3. l \in Locals /\ l.last = "400sig"
    BY <1>1, <2>1, <2>2 DEF Locals
  <2>4. call' = [call EXCEPT ![c] = Finish(l, Outcome("client disconnected", "none", 0))]
    BY <1>6, <2>2 DEF LeavesWhileStripping
  <2> QED
    BY <1>3, <2>3, <2>4
<1>7. CASE Respond(c)
  <2>1. call[c].last = "ok"
    BY <1>1, <1>7 DEF Respond, LastFits
  <2>2. PICK kind \in {"success", "retryable", "final", "client disconnected"} :
          call' = [call EXCEPT ![c] = Finish(call[c], Outcome(kind, "none", 0))]
    BY <1>1, <1>7 DEF Respond, Return, Types
  <2> QED
    BY <1>1, <1>3, <2>1, <2>2
<1> QED
  BY <1>4, <1>5, <1>6, <1>7

LEMMA RefuseOInv ==
  ASSUME TInv, OInv, NEW c \in Calls, Refuse(c)
  PROVE  OInv'
<1>1. Types
  BY DEF TInv
<1>2. PICK x \in Locals : x = Sent(c, "401") /\ x.last = "401"
  BY <1>1, SentType
<1>3. PICK l : l = [x EXCEPT !.refused = @ \cup {call[c].token},
                             !.pc = "token", !.then = "resend"]
  OBVIOUS
<1>4. l.last = "401" /\ l.pc = "token"
  BY <1>2, <1>3 DEF Locals
<1>5. call' = [call EXCEPT ![c] = l] /\ quota' = quota
  BY <1>2, <1>3 DEF Refuse
<1>6. LastFits(l, quota[c])
  BY <1>4 DEF LastFits
<1> QED
  BY <1>1, <1>5, <1>6, StepOInv

LEMMA AnswerOInv ==
  ASSUME TInv, OInv, NEW c \in Calls, Answer(c)
  PROVE  OInv'
<1>1. Types
  BY DEF TInv
<1>2. PICK st \in Statuses : /\ call' = [call EXCEPT ![c] = AfterAnswer(c, st)]
                             /\ quota' = QueriedQuota(c, st)
  BY DEF Answer
<1>3. LastFits(AfterAnswer(c, st), quota'[c])
  BY <1>1, <1>2, AfterAnswerFits
<1>4. \A d \in Calls \ {c} : quota'[d] = quota[d]
  BY <1>1, <1>2 DEF QueriedQuota, Types
<1> QED
  BY <1>1, <1>2, <1>3, <1>4, StepOInv

(* A refused signature ends the call with its own error, or the next       *)
(* endpoint answers anew.                                                  *)
LEMMA StripOInv ==
  ASSUME TInv, OInv, NEW c \in Calls, StripThinking(c)
  PROVE  OInv'
<1>1. Types /\ call[c] \in Locals /\ LastFits(call[c], quota[c])
  BY LocalsOf DEF TInv, OInv
<1>2. PICK l : l = [call[c] EXCEPT !.retried = TRUE]
  OBVIOUS
<1>3. l \in Locals /\ l.last = "400sig"
  BY <1>1, <1>2 DEF StripThinking, LastFits, Locals
<1>4. /\ quota' = quota
      /\ \/ call' = [call EXCEPT ![c] = NextEndpoint(l)]
         \/ call' = [call EXCEPT ![c] = Finish(l, StatusError(c, l.last))]
  BY <1>2, <1>3 DEF StripThinking
<1>5. LastFits(NextEndpoint(l), quota[c])
  BY <1>3, NextEndpointType DEF LastFits
<1>6. LastFits(Finish(l, StatusError(c, l.last)), quota[c])
  <2>1. l.last \in Statuses \ {"ok", "no connection"} /\ l.last # "429"
    BY <1>3 DEF Statuses
  <2> QED
    BY <1>1, <1>3, <2>1, StatusErrorFits
<1> QED
  BY <1>1, <1>4, <1>5, <1>6, StepOInv

(* A query that is answered was begun, and stays answered for the error    *)
(* that waits for it.                                                      *)
LEMMA QuotaAnswersOInv ==
  ASSUME TInv, OInv, NEW c \in Calls, NEW e \in Endpoints, QuotaAnswers(c, e)
  PROVE  OInv'
<1>1. Types /\ call' = call
  BY DEF QuotaAnswers, TInv
<1>2. PICK answer : /\ quota' = [quota EXCEPT ![c][e] = answer]
                    /\ answer = "none" => call[c].pc = "done" /\ call[c].outcome.chan # e
  <2>1. PICK models : QuotaAnswers(c, e)!2!(models)
    BY DEF QuotaAnswers
  <2>0. Update(models) \in {"a minute", "reset"}
    BY DEF Update
  <2>2. PICK updated \in {"a minute", "reset"} : updated = Update(models)
    BY <2>0
  <2>3. PICK answer : answer = IF call[c].pc = "done" /\ call[c].outcome.chan # e
                                THEN "none" ELSE updated
    OBVIOUS
  <2>4. quota' = [quota EXCEPT ![c][e] = answer]
    BY <2>1, <2>2, <2>3
  <2> QED
    BY <2>2, <2>3, <2>4
<1>3. DOMAIN quota = Calls /\ DOMAIN quota[c] = Endpoints
  BY <1>1 DEF Types
<1>4. \A d \in Calls \ {c} : quota'[d] = quota[d]
  BY <1>2, <1>3
<1>5. quota'[c] = [quota[c] EXCEPT ![e] = answer]
  BY <1>2, <1>3
<1>6. LastFits(call[c], quota[c])
  BY DEF OInv
<1>7. call[c].outcome.chan \in Endpoints \cup {0}
  <2>1. call[c].outcome \in Outcomes
    BY <1>1, LocalsOf DEF Locals
  <2> QED
    BY <2>1 DEF Outcomes
<1>8. call[c].pc = "done" /\ call[c].outcome.chan # 0
        => quota'[c][call[c].outcome.chan] # "none"
  <2> SUFFICES ASSUME call[c].pc = "done", call[c].outcome.chan # 0
               PROVE  quota'[c][call[c].outcome.chan] # "none"
    OBVIOUS
  <2>1. quota[c][call[c].outcome.chan] # "none"
    BY <1>6 DEF LastFits
  <2>2. PICK n \in Endpoints : n = call[c].outcome.chan
    BY <1>7
  <2>3. CASE n = e
    BY <1>2, <1>3, <1>5, <2>2, <2>3
  <2>4. CASE n # e
    BY <1>3, <1>5, <2>1, <2>2, <2>4
  <2> QED
    BY <2>3, <2>4
<1>9. LastFits(call[c], quota'[c])
  BY <1>6, <1>8 DEF LastFits
<1> SUFFICES ASSUME NEW d \in Calls PROVE LastFits(call[d], quota'[d])
  BY <1>1 DEF OInv
<1> QED
  BY <1>4, <1>9 DEF OInv

LEMMA NextOInv == TInv /\ OInv /\ [Next]_vars => OInv'
<1> SUFFICES ASSUME TInv, OInv, [Next]_vars PROVE OInv'
  OBVIOUS
<1>1. CASE UNCHANGED vars
  BY <1>1 DEF vars, OInv
<1>2. ASSUME NEW t \in Tokens, Expire(t) \/ Revoke(t) PROVE OInv'
  BY <1>2 DEF Expire, Revoke, OInv
<1>3. ASSUME NEW c \in Calls, Step(c) PROVE OInv'
  BY <1>3, TokenStepsOInv, ReturnStepsOInv, RefuseOInv, AnswerOInv, StripOInv DEF Step
<1> QED
  BY <1>1, <1>2, <1>3, QuotaAnswersOInv DEF Next, Returned

(* A call's outcome is that of its last answer, over every sequence of     *)
(* refused tokens, changed endpoints and stripped requests: a quota error  *)
(* carries its limit, and its channel is that of a query that was begun    *)
(* for the endpoint that answered.                                         *)
THEOREM OutcomesAreOfLast == Spec => []OutcomeOfLast
<1>1. TInv /\ OInv /\ [Next]_vars => OInv'
  BY NextOInv
<1>2. OInv => OutcomeOfLast
  BY DEF OInv, LastFits, OutcomeOfLast
<1> QED
  BY <1>1, <1>2, InitOInv, TokenInvariant, PTL DEF Spec
===============================================================================
