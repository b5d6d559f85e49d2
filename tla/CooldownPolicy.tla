---------------------------- MODULE CooldownPolicy ----------------------------
(***************************************************************************)
(* The parameters of the cooldown modules, and the calculation strategies  *)
(* of internal/cooldown/policy.go: how long a provider is left alone after *)
(* its n-th failure of one reason.                                         *)
(*                                                                         *)
(* The code counts minutes and multiplies by time.Minute at the end.  Every*)
(* strategy is linear in its base and its cap, so a policy here carries    *)
(* them in clock ticks and the unit is the reader's choice.                *)
(***************************************************************************)
EXTENDS Integers

CONSTANTS
    Providers,      \* provider IDs
    ClientTypes,    \* the client types requests have
    AllTypes,       \* the empty client type: a cooldown of every client type
    Reasons,        \* CooldownReason
    Policies,       \* reason -> policy; a reason outside its domain falls back
    Minute,         \* ticks in a minute, the fallback policy's duration
    Retention,      \* seconds a failure count is kept without a new failure (24h)
    TicksPerSecond, \* the database stores deadlines in whole seconds
    ExplicitTimes,  \* deadlines upstreams name
    SetDurations,   \* durations callers of SetCooldownDuration name
    MaxTime,        \* bound on the clock
    MaxFailures     \* bound on a failure count

Keys == Providers \X (ClientTypes \cup {AllTypes})
NoCounts == [reason \in Reasons |-> 0]
NoTime == 0         \* Go's zero time, before any time the clock shows

(* formatTime writes whole seconds.                                        *)
Second(time) == time \div TicksPerSecond

FixedDuration(duration)       == [kind |-> "fixed", base |-> duration, max |-> 0]
LinearIncremental(base, max)  == [kind |-> "linear", base |-> base, max |-> max]
ExponentialBackoff(base, max) == [kind |-> "exponential", base |-> base, max |-> max]

Capped(policy, ticks) ==
    IF policy.max > 0 /\ ticks > policy.max THEN policy.max ELSE ticks

(* The doubling loop. The first failure is not capped; once the cap is hit *)
(* the loop breaks and the value stays there.                              *)
Doubled(policy, failureCount) ==
    LET ticks[n \in Nat \ {0}] ==
            IF n = 1 THEN policy.base ELSE Capped(policy, 2 * ticks[n - 1])
    IN  IF failureCount = 0 THEN 0 ELSE ticks[failureCount]

CalculateCooldown(policy, failureCount) ==
    CASE policy.kind = "fixed"       -> policy.base
      [] policy.kind = "linear"      -> Capped(policy, policy.base * failureCount)
      [] policy.kind = "exponential" -> Doubled(policy, failureCount)

(* The table the manager is built with, in seconds.                        *)
DefaultPolicies ==
    [ server_error        |-> LinearIncremental(60, 600),
      network_error       |-> ExponentialBackoff(60, 1800),
      quota_exhausted     |-> FixedDuration(3600),
      rate_limit_exceeded |-> FixedDuration(60),
      concurrent_limit    |-> FixedDuration(10),
      unknown             |-> LinearIncremental(60, 300) ]

(* RecordFailure's fallback for a reason the table does not hold.          *)
FallbackPolicy(minute) == FixedDuration(minute)

Duration(reason, failureCount) ==
    CalculateCooldown(IF reason \in DOMAIN Policies
                        THEN Policies[reason]
                        ELSE FallbackPolicy(Minute),
                      failureCount)

ASSUME KeysAssumption ==
    /\ AllTypes \notin ClientTypes
    /\ NoTime \notin ExplicitTimes

ASSUME BoundsAssumption ==
    /\ TicksPerSecond \in Nat \ {0}
    /\ Retention \in Nat
    /\ MaxTime \in Nat \ {0}
    /\ MaxFailures \in Nat \ {0}
    /\ ExplicitTimes \subseteq Nat
    /\ SetDurations \subseteq Nat

(* Every policy yields a duration: no count wraps to a negative one.       *)
ASSUME PolicyAssumption ==
    \A reason \in Reasons : \A n \in 1..MaxFailures : Duration(reason, n) \in Nat
===============================================================================
