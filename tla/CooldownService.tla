---------------------------- MODULE CooldownService ----------------------------
(***************************************************************************)
(* What the cooldown manager promises to the router, the executor and the  *)
(* administrator, with nothing of how it keeps the promise: no database,   *)
(* no lapsed entries waiting for a cleanup, no process that is up or down. *)
(*                                                                         *)
(* A key <<provider, clientType>> is cooling until a deadline; a second    *)
(* table counts its failures per reason, and the count sets the length of  *)
(* the next cooldown.  Cooldown.tla implements this module; Executor.tla   *)
(* keeps of it only whether a key is cooling.                              *)
(***************************************************************************)
EXTENDS Integers, CooldownPolicy

VARIABLES
    now,     \* the clock
    until,   \* deadline of each key, NoTime when it is not cooling
    counts,  \* failures of each key, per reason
    last,    \* time of the last counted failure, per key and reason
    trusted  \* no database write has been refused so far

svars == <<now, until, counts, last, trusted>>

ServiceTypeOK ==
    /\ now \in 1..MaxTime
    /\ until \in [Keys -> Nat]
    /\ counts \in [Keys -> [Reasons -> 0..MaxFailures]]
    /\ last \in [Keys -> [Reasons -> Nat]]
    /\ trusted \in BOOLEAN

-------------------------------------------------------------------------------
(* A key blocks a request when its deadline is still ahead.                *)
Ahead(deadline, time) == IF time < deadline THEN deadline ELSE NoTime

Cooling(key) == until[key] # NoTime

IsInCooldown(provider, clientType) ==
    \/ Cooling(<<provider, AllTypes>>)
    \/ Cooling(<<provider, clientType>>)

WholeSecond(time) == TicksPerSecond * Second(time)

-------------------------------------------------------------------------------
ServiceInit ==
    /\ now = 1
    /\ until = [key \in Keys |-> NoTime]
    /\ counts = [key \in Keys |-> NoCounts]
    /\ last = [key \in Keys |-> NoCounts]
    /\ trusted = TRUE

SetDeadline(key, deadline) ==
    until' = [until EXCEPT ![key] = Ahead(deadline, now)]

(* A deadline somebody named: no failure is counted, and the deadline      *)
(* replaces the one before, later or earlier.                              *)
FailUntil(key, deadline) ==
    /\ SetDeadline(key, deadline)
    /\ UNCHANGED <<now, counts, last, trusted>>

(* A failure without one: counted, and the policy sets the deadline.       *)
FailCounted(key, reason) ==
    /\ counts[key][reason] < MaxFailures
    /\ counts' = [counts EXCEPT ![key][reason] = @ + 1]
    /\ last' = [last EXCEPT ![key][reason] = WholeSecond(now)]
    /\ SetDeadline(key, now + Duration(reason, counts[key][reason] + 1))
    /\ UNCHANGED <<now, trusted>>

Forgive(keys) ==
    /\ counts' = [key \in Keys |-> IF key \in keys THEN NoCounts ELSE counts[key]]
    /\ last' = [key \in Keys |-> IF key \in keys THEN NoCounts ELSE last[key]]

(* A success forgives the failures of exactly its own key and ends no      *)
(* cooldown.                                                               *)
Succeed(key) ==
    /\ Forgive({key})
    /\ UNCHANGED <<now, until, trusted>>

(* An administrator releases the provider, or one client type of it.       *)
Release(provider, clientType) ==
    /\ until' = [key \in Keys |->
                    IF key[1] = provider /\ clientType \in {AllTypes, key[2]}
                      THEN NoTime ELSE until[key]]
    /\ Forgive({<<provider, clientType>>})
    /\ UNCHANGED <<now, trusted>>

(* Failures are forgotten only where no cooldown runs, or after Retention. *)
Forget ==
    /\ \A key \in Keys, reason \in Reasons :
          \/ /\ counts'[key][reason] = counts[key][reason]
             /\ last'[key][reason] = last[key][reason]
          \/ /\ counts'[key][reason] = 0
             /\ last'[key][reason] = 0
             /\ ~Cooling(key) \/ now - last[key][reason] > Retention * TicksPerSecond
    /\ UNCHANGED <<now, until, trusted>>

(* A restart may lose deadlines or cut them to the second; it invents and  *)
(* extends none, and it keeps every count.                                 *)
Restart ==
    /\ \A key \in Keys :
          until'[key] \in {until[key], NoTime, Ahead(WholeSecond(until[key]), now)}
    /\ UNCHANGED <<now, counts, last, trusted>>

Tick ==
    /\ now < MaxTime
    /\ now' = now + 1
    /\ until' = [key \in Keys |-> Ahead(until[key], now + 1)]
    /\ UNCHANGED <<counts, last, trusted>>

(* Once the database has refused a write nothing is promised any more.     *)
Degrade == trusted' = FALSE

ServiceNext ==
    \/ Degrade
    \/ \E key \in Keys :
          \/ Succeed(key)
          \/ \E deadline \in ExplicitTimes : FailUntil(key, deadline)
          \/ \E duration \in SetDurations : FailUntil(key, now + duration)
          \/ \E reason \in Reasons : FailCounted(key, reason)
    \/ \E provider \in Providers, clientType \in ClientTypes \cup {AllTypes} :
          Release(provider, clientType)
    \/ Forget
    \/ Restart
    \/ Tick

ServiceSpec == ServiceInit /\ [][ServiceNext]_svars
===============================================================================
