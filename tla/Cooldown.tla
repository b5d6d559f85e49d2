------------------------------- MODULE Cooldown -------------------------------
(***************************************************************************)
(* The cooldown manager of internal/cooldown with its failure tracker and  *)
(* the two sqlite repositories behind it.                                  *)
(*                                                                         *)
(* The manager's mutex covers every operation with its database calls, so  *)
(* an operation is one action.  Each database statement may be refused     *)
(* (the code logs and goes on): an action takes the set of statements that *)
(* fail in it, and at most MaxDbErrors calls have one.  The process may    *)
(* crash between any two operations; LoadFromDatabase then refills memory. *)
(*                                                                         *)
(* Times are ticks.  Memory holds deadlines to the tick, the database to   *)
(* the second.  The clock starts at 1, so 0 is Go's zero time, and an      *)
(* absent map entry or row is -1: neither is ever ahead of the clock.      *)
(***************************************************************************)
EXTENDS Integers, CooldownPolicy

CONSTANTS
    Unknown,         \* ReasonUnknown
    CountedReasons,  \* reasons callers report without a deadline
    ToldReasons,     \* reasons callers report with the upstream's deadline
    DriverKeepsText, \* the SQL driver hands a DATETIME column over as stored
    MaxDbErrors      \* bound on the calls a database error hits

VARIABLES
    now,
    up,            \* the process runs and has loaded its state
    cooldowns,     \* Manager.cooldowns: key -> deadline, Absent when not in the map
    reasons,       \* Manager.reasons: key -> reason
    failureCounts, \* FailureTracker.failureCounts: key -> reason -> count
    dbUntil,       \* cooldowns.until_time in seconds, Absent when there is no row
    dbReason,      \* cooldowns.reason
    dbCount,       \* failure_counts.count, 0 when there is no row
    dbLast,        \* failure_counts.last_failure_at in seconds, 0 when no row
    dbErrors       \* calls hit by a database error so far

memory   == <<cooldowns, reasons, failureCounts>>
dbCooldowns == <<dbUntil, dbReason>>
dbCounts == <<dbCount, dbLast>>
vars == <<now, up, memory, dbCooldowns, dbCounts, dbErrors>>

Absent == -1

(* parseTimeString reads "2006-01-02 15:04:05". A driver that turns a      *)
(* DATETIME column into a time.Time makes Scan write RFC 3339 into the     *)
(* string; the parse fails, its error is dropped, and zero time is left.   *)
ParseStored(second) == IF DriverKeepsText THEN second * TicksPerSecond ELSE 0

RowActive(key) == dbUntil[key] > Second(now)

Loaded(key) == IF RowActive(key) THEN ParseStored(dbUntil[key]) ELSE Absent

LastTicks == [key \in Keys |->
                 [reason \in Reasons |-> TicksPerSecond * dbLast[key][reason]]]

(* The promise this module keeps, seen through what it would answer: the   *)
(* deadlines still ahead, in memory or, while the process is down, in the  *)
(* rows the next start will load.                                          *)
Service == INSTANCE CooldownService WITH
    until <- [key \in Keys |->
                 LET deadline == IF up THEN cooldowns[key] ELSE Loaded(key)
                 IN  IF now < deadline THEN deadline ELSE 0],
    counts  <- IF up THEN failureCounts ELSE dbCount,
    last    <- LastTicks,
    trusted <- dbErrors = 0

ASSUME ConstantsAssumption ==
    /\ Unknown \in Reasons
    /\ CountedReasons \subseteq Reasons
    /\ ToldReasons \subseteq Reasons
    /\ DriverKeepsText \in BOOLEAN
    /\ MaxDbErrors \in Nat

-------------------------------------------------------------------------------
TypeOK ==
    /\ now \in 1..MaxTime
    /\ up \in BOOLEAN
    /\ cooldowns \in [Keys -> Nat \cup {Absent}]
    /\ reasons \in [Keys -> Reasons]
    /\ failureCounts \in [Keys -> [Reasons -> 0..MaxFailures]]
    /\ dbUntil \in [Keys -> Nat \cup {Absent}]
    /\ dbReason \in [Keys -> Reasons]
    /\ dbCount \in [Keys -> [Reasons -> 0..MaxFailures]]
    /\ dbLast \in [Keys -> [Reasons -> Nat]]
    /\ dbErrors \in 0..MaxDbErrors

Init ==
    /\ now = 1
    /\ up = TRUE
    /\ cooldowns = [key \in Keys |-> Absent]
    /\ reasons = [key \in Keys |-> Unknown]
    /\ failureCounts = [key \in Keys |-> NoCounts]
    /\ dbUntil = [key \in Keys |-> Absent]
    /\ dbReason = [key \in Keys |-> Unknown]
    /\ dbCount = [key \in Keys |-> NoCounts]
    /\ dbLast = [key \in Keys |-> NoCounts]
    /\ dbErrors = 0

-------------------------------------------------------------------------------
(* At most one statement of a call fails, and at most MaxDbErrors calls    *)
(* are hit; the deletes of a sweep, one per key, fail together.            *)
Faults(statements) ==
    IF dbErrors < MaxDbErrors THEN {{}} \cup {{s} : s \in statements} ELSE {{}}

CountFault(faults) == dbErrors' = IF faults = {} THEN dbErrors ELSE dbErrors + 1

(* CooldownRepository.Upsert. Its Get sees active rows only, so an expired *)
(* row that is still there makes it INSERT, which the unique index on      *)
(* (provider_id, client_type) refuses: the row stays as it was.            *)
Upsert(key, deadline, reason, faults) ==
    IF "upsertCooldown" \notin faults /\ (RowActive(key) \/ dbUntil[key] = Absent)
      THEN /\ dbUntil' = [dbUntil EXCEPT ![key] = Second(deadline)]
           /\ dbReason' = [dbReason EXCEPT ![key] = reason]
      ELSE UNCHANGED dbCooldowns

(* A map or a table with some keys set back to what absence reads as.      *)
Dropped(table, keys, nothing) ==
    [key \in Keys |-> IF key \in keys THEN nothing ELSE table[key]]

DropEntries(keys) ==
    /\ cooldowns' = Dropped(cooldowns, keys, Absent)
    /\ reasons' = Dropped(reasons, keys, Unknown)

(* Mutant of DropRows: the DELETE finds nothing to delete.                 *)
DropRowsMissed(keys) == UNCHANGED dbCooldowns

DropRows(keys) ==
    /\ dbUntil' = Dropped(dbUntil, keys, Absent)
    /\ dbReason' = Dropped(dbReason, keys, Unknown)

setCooldownLocked(key, deadline, reason, faults) ==
    /\ cooldowns' = [cooldowns EXCEPT ![key] = deadline]
    /\ reasons' = [reasons EXCEPT ![key] = reason]
    /\ Upsert(key, deadline, reason, faults)

IncrementFailure(key, reason, faults) ==
    LET newCount == failureCounts[key][reason] + 1
    IN  /\ failureCounts' = [failureCounts EXCEPT ![key][reason] = newCount]
        /\ IF "upsertCount" \notin faults
             THEN /\ dbCount' = [dbCount EXCEPT ![key][reason] = newCount]
                  /\ dbLast' = [dbLast EXCEPT ![key][reason] = Second(now)]
             ELSE UNCHANGED dbCounts

(* Mutant of RowsReset: the DELETE is forgotten.                           *)
RowsForgotten(keys, faults) == {}

(* ResetFailures of each of the keys: memory first, and the database only  *)
(* for the keys memory held a count of.                                    *)
RowsReset(keys, faults) ==
    IF "deleteCounts" \in faults THEN {}
    ELSE {key \in keys : failureCounts[key] # NoCounts}

ResetFailures(keys, faults) ==
    /\ failureCounts' = Dropped(failureCounts, keys, NoCounts)
    /\ dbCount' = Dropped(dbCount, RowsReset(keys, faults), NoCounts)
    /\ dbLast' = Dropped(dbLast, RowsReset(keys, faults), NoCounts)

-------------------------------------------------------------------------------
RecordFailureUntil(key, reason, explicitUntil) ==
    \E faults \in Faults({"upsertCooldown"}) :
        /\ up
        /\ setCooldownLocked(key, explicitUntil, reason, faults)
        /\ CountFault(faults)
        /\ UNCHANGED <<now, up, failureCounts, dbCounts>>

RecordFailureByPolicy(key, reason) ==
    \E faults \in Faults({"upsertCooldown", "upsertCount"}) :
        /\ up
        /\ failureCounts[key][reason] < MaxFailures
        /\ IncrementFailure(key, reason, faults)
        /\ setCooldownLocked(
              key,
              now + Duration(reason, failureCounts[key][reason] + 1),
              reason, faults)
        /\ CountFault(faults)
        /\ UNCHANGED <<now, up>>

(* The asynchronous quota answer: it keeps the reason the key has, which   *)
(* is Unknown for a key outside the map.                                   *)
UpdateCooldown(key, deadline) ==
    \E faults \in Faults({"upsertCooldown"}) :
        /\ up
        /\ setCooldownLocked(key, deadline, reasons[key], faults)
        /\ CountFault(faults)
        /\ UNCHANGED <<now, up, failureCounts, dbCounts>>

(* Mutant of SetCooldownDuration: the clock is subtracted.                 *)
SetCooldownDurationBackwards(key, duration) ==
    \E faults \in Faults({"upsertCooldown"}) :
        /\ up
        /\ setCooldownLocked(key, duration - now, Unknown, faults)
        /\ CountFault(faults)
        /\ UNCHANGED <<now, up, failureCounts, dbCounts>>

SetCooldownDuration(key, duration) ==
    \E faults \in Faults({"upsertCooldown"}) :
        /\ up
        /\ setCooldownLocked(key, now + duration, Unknown, faults)
        /\ CountFault(faults)
        /\ UNCHANGED <<now, up, failureCounts, dbCounts>>

RecordSuccess(key) ==
    \E faults \in Faults({"deleteCounts"}) :
        /\ up
        /\ ResetFailures({key}, faults)
        /\ CountFault(faults)
        /\ UNCHANGED <<now, up, cooldowns, reasons, dbCooldowns>>

(* With the empty client type every key of the provider goes, in memory    *)
(* and in the database; the counts reset are those of the one key named.   *)
Cleared(provider, clientType) ==
    IF clientType = AllTypes
      THEN {key \in Keys : key[1] = provider}
      ELSE {<<provider, clientType>>}

ClearCooldown(provider, clientType) ==
    \E faults \in Faults({"deleteCooldowns", "deleteCounts"}) :
        LET keys == Cleared(provider, clientType)
            rows == IF "deleteCooldowns" \in faults THEN {} ELSE keys
        IN  /\ up
            /\ DropEntries(keys)
            /\ DropRows(rows)
            /\ ResetFailures({<<provider, clientType>>}, faults)
            /\ CountFault(faults)
            /\ UNCHANGED <<now, up>>

(* Mutant of Lapsed: every entry counts as lapsed.                         *)
LapsedUnchecked == {key \in Keys : cooldowns[key] # Absent}

(* The periodic cleanup: lapsed entries go, with the counts of their keys; *)
(* then the database's lapsed rows and stale counts; then memory's counts  *)
(* are read back from the database.                                        *)
Lapsed == {key \in Keys : cooldowns[key] # Absent /\ now > cooldowns[key]}

StaleCount(key, reason, faults) ==
    /\ "expireCounts" \notin faults
    /\ dbLast[key][reason] < Second(now) - Retention

(* Mutant of ReadBack: memory's counts are not read back.                  *)
ReadBackSkipped(table, faults) == Dropped(failureCounts, Lapsed, NoCounts)

ReadBack(table, faults) ==
    IF "loadCounts" \in faults THEN Dropped(failureCounts, Lapsed, NoCounts) ELSE table

CleanupExpired ==
    \E faults \in Faults({"deleteCounts", "expireCooldowns", "expireCounts", "loadCounts"}) :
        LET reset == RowsReset(Lapsed, faults)
            Kept(table) == [key \in Keys |-> [reason \in Reasons |->
                               IF key \in reset \/ StaleCount(key, reason, faults)
                                 THEN 0 ELSE table[key][reason]]]
        IN  /\ up
            /\ DropEntries(Lapsed)
            /\ DropRows(IF "expireCooldowns" \in faults
                          THEN {} ELSE {key \in Keys : ~RowActive(key)})
            /\ dbCount' = Kept(dbCount)
            /\ dbLast' = Kept(dbLast)
            /\ failureCounts' = ReadBack(Kept(dbCount), faults)
            /\ CountFault(faults)
            /\ UNCHANGED <<now, up>>

-------------------------------------------------------------------------------
(* The process dies: memory is lost, the tables stay.                      *)
Crash ==
    /\ up
    /\ up' = FALSE
    /\ DropEntries(Keys)
    /\ failureCounts' = [key \in Keys |-> NoCounts]
    /\ UNCHANGED <<now, dbCooldowns, dbCounts, dbErrors>>

(* A failed load of the failure counts is a warning; of the cooldowns, an  *)
(* error returned before anything changed.                                 *)
LoadFromDatabase ==
    \E faults \in Faults({"loadCounts"}) :
        /\ ~up
        /\ up' = TRUE
        /\ cooldowns' = [key \in Keys |-> Loaded(key)]
        /\ reasons' = [key \in Keys |->
                          IF RowActive(key) THEN dbReason[key] ELSE Unknown]
        /\ failureCounts' = IF faults = {} THEN dbCount ELSE failureCounts
        /\ CountFault(faults)
        /\ UNCHANGED <<now, dbCooldowns, dbCounts>>

Tick ==
    /\ now < MaxTime
    /\ now' = now + 1
    /\ UNCHANGED <<up, memory, dbCooldowns, dbCounts, dbErrors>>

Next ==
    \/ \E key \in Keys :
          \/ \E reason \in CountedReasons : RecordFailureByPolicy(key, reason)
          \/ \E reason \in ToldReasons, time \in ExplicitTimes :
                RecordFailureUntil(key, reason, time)
          \/ \E time \in ExplicitTimes : UpdateCooldown(key, time)
          \/ \E duration \in SetDurations : SetCooldownDuration(key, duration)
          \/ RecordSuccess(key)
          \/ ClearCooldown(key[1], key[2])
    \/ CleanupExpired
    \/ Crash
    \/ LoadFromDatabase
    \/ Tick

Spec == Init /\ [][Next]_vars

-------------------------------------------------------------------------------
(* Memory and the failure_counts table agree whenever no statement was     *)
(* refused: ResetFailures may skip its DELETE when memory has no count,    *)
(* and CleanupExpired may overwrite memory with what it reads back, only   *)
(* because of this.                                                        *)
CountsMirrorTable ==
    up /\ dbErrors = 0 => failureCounts = dbCount

(* An active row that memory does not agree with: the next start would     *)
(* load a deadline or a reason the running process no longer has.          *)
Stale(key) ==
    /\ up
    /\ RowActive(key)
    /\ ~(Second(cooldowns[key]) = dbUntil[key] /\ reasons[key] = dbReason[key])

(* As long as no statement was refused, no operation of a running process  *)
(* makes a row stale, neither branch of Upsert, nor a sweep that drops the *)
(* entry; a clear leaves none, not even one that was stale before. What    *)
(* makes a row stale is a start that could not parse it, and then memory   *)
(* has no deadline for the key at all: an older one is never in force.     *)
ActiveRowsAreCurrent ==
    [][\A key \in Keys : dbErrors' = 0 /\ Stale(key)' =>
          /\ ~DriverKeepsText
          /\ cooldowns'[key] \in {Absent, 0}
          /\ up => Stale(key)
          /\ ~\E type \in {AllTypes, key[2]} : ClearCooldown(key[1], type)]_vars

(* Whatever refused statements left behind, one cleanup whose statements   *)
(* all succeed makes memory and the table agree again.                     *)
CleanupHeals ==
    [][CleanupExpired /\ dbErrors' = dbErrors => failureCounts' = dbCount']_vars

(* The manager with its tracker and tables implements the service the      *)
(* router, the executor and the administrator rely on.                     *)
ImplementsService == Service!ServiceSpec

(* DESIGN.md:717 and manager.go:13: a cooldown survives a restart. What    *)
(* memory holds beyond the current second, the next start would load.      *)
RestartKeepsCooldowns ==
    up /\ dbErrors = 0 =>
        \A key \in Keys :
            Second(cooldowns[key]) > Second(now) => now < Loaded(key)

(* manager.go:13: the cooldown in memory is persisted to the database.     *)
RowHoldsDeadline ==
    up /\ dbErrors = 0 =>
        \A key \in Keys :
            Second(cooldowns[key]) > Second(now) => dbUntil[key] = Second(cooldowns[key])

===============================================================================
