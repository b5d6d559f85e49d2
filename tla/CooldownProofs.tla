---------------------------- MODULE CooldownProofs ----------------------------
(***************************************************************************)
(* Theorems about the cooldown manager, for any number of providers,       *)
(* client types and reasons, any policy table and any bound: its safety,   *)
(* and that it implements CooldownService.                                 *)
(***************************************************************************)
EXTENDS Cooldown, TLAPS

-------------------------------------------------------------------------------
(* formatTime yields a whole number of seconds.                            *)
LEMMA SecondType ==
  ASSUME NEW time \in Nat
  PROVE  Second(time) \in Nat
BY BoundsAssumption DEF Second

(* Reading a stored second back yields a time.                             *)
LEMMA ParseType ==
  ASSUME NEW second \in Nat
  PROVE  ParseStored(second) \in Nat
<1>1. second * TicksPerSecond \in Nat
  BY BoundsAssumption
<1> QED
  BY <1>1 DEF ParseStored

(* An active row is a row, so what the next start loads is a deadline.     *)
LEMMA LoadedType ==
  ASSUME TypeOK, NEW key \in Keys
  PROVE  Loaded(key) \in Nat \cup {Absent}
<1>1. CASE RowActive(key)
  <2>1. Second(now) \in Nat
    BY SecondType DEF TypeOK
  <2>2. dbUntil[key] \in Nat \cup {Absent}
    BY DEF TypeOK
  <2>3. dbUntil[key] \in Nat
    BY <1>1, <2>1, <2>2 DEF RowActive, Absent
  <2> QED
    BY <1>1, <2>3, ParseType DEF Loaded
<1>2. CASE ~RowActive(key)
  BY <1>2 DEF Loaded
<1> QED
  BY <1>1, <1>2

(* A call that meets an error leaves the error budget in its bounds.       *)
LEMMA ErrorsType ==
  ASSUME TypeOK, NEW statements, NEW faults \in Faults(statements), CountFault(faults)
  PROVE  dbErrors' \in 0..MaxDbErrors
<1>1. CASE faults = {}
  BY <1>1 DEF TypeOK, CountFault
<1>2. CASE faults # {}
  <2>1. dbErrors < MaxDbErrors
    BY <1>2 DEF Faults
  <2> QED
    BY <1>2, <2>1, ConstantsAssumption DEF TypeOK, CountFault
<1> QED
  BY <1>1, <1>2

(* Setting keys of a map back to a value of its range keeps its type.      *)
LEMMA DroppedType ==
  ASSUME NEW S, NEW table \in [Keys -> S], NEW nothing \in S, NEW keys
  PROVE  Dropped(table, keys, nothing) \in [Keys -> S]
BY DEF Dropped

(* setCooldownLocked keeps the types of the map and of the table.          *)
LEMMA SetCooldownType ==
  ASSUME TypeOK, NEW key \in Keys, NEW deadline \in Nat, NEW reason \in Reasons,
         NEW faults, setCooldownLocked(key, deadline, reason, faults)
  PROVE  /\ cooldowns' \in [Keys -> Nat \cup {Absent}]
         /\ reasons' \in [Keys -> Reasons]
         /\ dbUntil' \in [Keys -> Nat \cup {Absent}]
         /\ dbReason' \in [Keys -> Reasons]
<1>1. /\ cooldowns' \in [Keys -> Nat \cup {Absent}]
      /\ reasons' \in [Keys -> Reasons]
  BY DEF TypeOK, setCooldownLocked
<1>2. Second(deadline) \in Nat
  BY SecondType
<1>3. /\ dbUntil' \in [Keys -> Nat \cup {Absent}]
      /\ dbReason' \in [Keys -> Reasons]
  BY <1>2 DEF TypeOK, setCooldownLocked, Upsert, dbCooldowns
<1> QED
  BY <1>1, <1>3

(* No counts at all is a well-typed row of counts.                         *)
LEMMA NoCountsType ==
  /\ NoCounts \in [Reasons -> 0..MaxFailures]
  /\ NoCounts \in [Reasons -> Nat]
BY BoundsAssumption DEF NoCounts

(* ResetFailures keeps the types of the tracker and of its table.          *)
LEMMA ResetFailuresType ==
  ASSUME TypeOK, NEW keys, NEW faults, ResetFailures(keys, faults)
  PROVE  /\ failureCounts' \in [Keys -> [Reasons -> 0..MaxFailures]]
         /\ dbCount' \in [Keys -> [Reasons -> 0..MaxFailures]]
         /\ dbLast' \in [Keys -> [Reasons -> Nat]]
BY NoCountsType, DroppedType DEF TypeOK, ResetFailures

-------------------------------------------------------------------------------
(* The manager starts with empty maps and empty tables.                    *)
LEMMA InitTypeOK == Init => TypeOK
BY NoCountsType, BoundsAssumption, ConstantsAssumption DEF Init, TypeOK, Absent

(* Writing one count of one key keeps the type of a table of counts.       *)
LEMMA EntryType ==
  ASSUME NEW S, NEW table \in [Keys -> [Reasons -> S]],
         NEW key \in Keys, NEW reason \in Reasons, NEW entry \in S
  PROVE  [table EXCEPT ![key][reason] = entry] \in [Keys -> [Reasons -> S]]
<1>1. [table[key] EXCEPT ![reason] = entry] \in [Reasons -> S]
  OBVIOUS
<1> QED
  BY <1>1

(* A failure with the upstream's deadline keeps the types.                 *)
LEMMA RecordFailureUntilType ==
  ASSUME TypeOK, NEW key \in Keys, NEW reason \in ToldReasons,
         NEW time \in ExplicitTimes, RecordFailureUntil(key, reason, time)
  PROVE  TypeOK'
<1>1. PICK faults \in Faults({"upsertCooldown"}) :
        RecordFailureUntil(key, reason, time)!(faults)
  BY DEF RecordFailureUntil
<1>2. time \in Nat /\ reason \in Reasons
  BY BoundsAssumption, ConstantsAssumption
<1>3. /\ cooldowns' \in [Keys -> Nat \cup {Absent}]
      /\ reasons' \in [Keys -> Reasons]
      /\ dbUntil' \in [Keys -> Nat \cup {Absent}]
      /\ dbReason' \in [Keys -> Reasons]
  BY <1>1, <1>2, SetCooldownType
<1>4. dbErrors' \in 0..MaxDbErrors
  BY <1>1, ErrorsType
<1> QED
  BY <1>1, <1>3, <1>4 DEF TypeOK, dbCounts

(* A counted failure keeps the types: the count is within its bound, and   *)
(* the policy's duration is no negative number.                            *)
LEMMA RecordFailureByPolicyType ==
  ASSUME TypeOK, NEW key \in Keys, NEW reason \in CountedReasons,
         RecordFailureByPolicy(key, reason)
  PROVE  TypeOK'
<1>1. PICK faults \in Faults({"upsertCooldown", "upsertCount"}) :
        RecordFailureByPolicy(key, reason)!(faults)
  BY DEF RecordFailureByPolicy
<1>2. reason \in Reasons
  BY ConstantsAssumption
<1> DEFINE newCount == failureCounts[key][reason] + 1
<1>3. newCount \in 1..MaxFailures
  BY <1>1, <1>2, BoundsAssumption DEF TypeOK
<1>4. now + Duration(reason, newCount) \in Nat
  <2>1. Duration(reason, newCount) \in Nat
    BY <1>2, <1>3, PolicyAssumption
  <2> QED
    BY <2>1 DEF TypeOK
<1>5. /\ cooldowns' \in [Keys -> Nat \cup {Absent}]
      /\ reasons' \in [Keys -> Reasons]
      /\ dbUntil' \in [Keys -> Nat \cup {Absent}]
      /\ dbReason' \in [Keys -> Reasons]
  BY <1>1, <1>2, <1>4, SetCooldownType
<1>6. failureCounts' \in [Keys -> [Reasons -> 0..MaxFailures]]
  <2>1. newCount \in 0..MaxFailures
    BY <1>3
  <2>2. failureCounts' = [failureCounts EXCEPT ![key][reason] = newCount]
    BY <1>1 DEF IncrementFailure
  <2>3. failureCounts \in [Keys -> [Reasons -> 0..MaxFailures]]
    BY DEF TypeOK
  <2> HIDE DEF newCount
  <2> QED
    BY <1>2, <2>1, <2>2, <2>3, EntryType
<1>7. /\ dbCount' \in [Keys -> [Reasons -> 0..MaxFailures]]
      /\ dbLast' \in [Keys -> [Reasons -> Nat]]
  <2>1. Second(now) \in Nat
    BY SecondType DEF TypeOK
  <2>2. newCount \in 0..MaxFailures
    BY <1>3
  <2>3. \/ /\ dbCount' = [dbCount EXCEPT ![key][reason] = newCount]
           /\ dbLast' = [dbLast EXCEPT ![key][reason] = Second(now)]
        \/ UNCHANGED dbCounts
    BY <1>1 DEF IncrementFailure
  <2>4. /\ dbCount \in [Keys -> [Reasons -> 0..MaxFailures]]
        /\ dbLast \in [Keys -> [Reasons -> Nat]]
    BY DEF TypeOK
  <2> HIDE DEF newCount
  <2>5. CASE UNCHANGED dbCounts
    BY <2>4, <2>5 DEF dbCounts
  <2>6. CASE /\ dbCount' = [dbCount EXCEPT ![key][reason] = newCount]
             /\ dbLast' = [dbLast EXCEPT ![key][reason] = Second(now)]
    <3>1. dbCount' \in [Keys -> [Reasons -> 0..MaxFailures]]
      BY <1>2, <2>2, <2>4, <2>6, EntryType
    <3>2. dbLast' \in [Keys -> [Reasons -> Nat]]
      BY <1>2, <2>1, <2>4, <2>6, EntryType
    <3> QED
      BY <3>1, <3>2
  <2> QED
    BY <2>3, <2>5, <2>6
<1>8. dbErrors' \in 0..MaxDbErrors
  BY <1>1, ErrorsType
<1> QED
  BY <1>1, <1>5, <1>6, <1>7, <1>8 DEF TypeOK

(* The asynchronous update keeps the types.                                *)
LEMMA UpdateCooldownType ==
  ASSUME TypeOK, NEW key \in Keys, NEW time \in ExplicitTimes,
         UpdateCooldown(key, time)
  PROVE  TypeOK'
<1>1. PICK faults \in Faults({"upsertCooldown"}) : UpdateCooldown(key, time)!(faults)
  BY DEF UpdateCooldown
<1>2. time \in Nat /\ reasons[key] \in Reasons
  BY BoundsAssumption DEF TypeOK
<1>3. /\ cooldowns' \in [Keys -> Nat \cup {Absent}]
      /\ reasons' \in [Keys -> Reasons]
      /\ dbUntil' \in [Keys -> Nat \cup {Absent}]
      /\ dbReason' \in [Keys -> Reasons]
  BY <1>1, <1>2, SetCooldownType
<1>4. dbErrors' \in 0..MaxDbErrors
  BY <1>1, ErrorsType
<1> QED
  BY <1>1, <1>3, <1>4 DEF TypeOK, dbCounts

(* A cooldown of a given length keeps the types.                           *)
LEMMA SetCooldownDurationType ==
  ASSUME TypeOK, NEW key \in Keys, NEW duration \in SetDurations,
         SetCooldownDuration(key, duration)
  PROVE  TypeOK'
<1>1. PICK faults \in Faults({"upsertCooldown"}) :
        SetCooldownDuration(key, duration)!(faults)
  BY DEF SetCooldownDuration
<1>2. now + duration \in Nat /\ Unknown \in Reasons
  BY BoundsAssumption, ConstantsAssumption DEF TypeOK
<1>3. /\ cooldowns' \in [Keys -> Nat \cup {Absent}]
      /\ reasons' \in [Keys -> Reasons]
      /\ dbUntil' \in [Keys -> Nat \cup {Absent}]
      /\ dbReason' \in [Keys -> Reasons]
  BY <1>1, <1>2, SetCooldownType
<1>4. dbErrors' \in 0..MaxDbErrors
  BY <1>1, ErrorsType
<1> QED
  BY <1>1, <1>3, <1>4 DEF TypeOK, dbCounts

(* A success keeps the types.                                              *)
LEMMA RecordSuccessType ==
  ASSUME TypeOK, NEW key \in Keys, RecordSuccess(key)
  PROVE  TypeOK'
<1>1. PICK faults \in Faults({"deleteCounts"}) : RecordSuccess(key)!(faults)
  BY DEF RecordSuccess
<1>2. dbErrors' \in 0..MaxDbErrors
  BY <1>1, ErrorsType
<1> QED
  BY <1>1, <1>2, ResetFailuresType DEF TypeOK, dbCooldowns

(* An administrator's clear keeps the types.                               *)
LEMMA ClearCooldownType ==
  ASSUME TypeOK, NEW key \in Keys, ClearCooldown(key[1], key[2])
  PROVE  TypeOK'
<1>1. PICK faults \in Faults({"deleteCooldowns", "deleteCounts"}) :
        ClearCooldown(key[1], key[2])!(faults)
  BY DEF ClearCooldown
<1>2. dbErrors' \in 0..MaxDbErrors
  BY <1>1, ErrorsType
<1>3. /\ cooldowns' \in [Keys -> Nat \cup {Absent}]
      /\ reasons' \in [Keys -> Reasons]
  BY <1>1, DroppedType, ConstantsAssumption DEF TypeOK, DropEntries
<1>4. /\ dbUntil' \in [Keys -> Nat \cup {Absent}]
      /\ dbReason' \in [Keys -> Reasons]
  BY <1>1, DroppedType, ConstantsAssumption DEF TypeOK, DropRows
<1> QED
  BY <1>1, <1>2, <1>3, <1>4, ResetFailuresType DEF TypeOK

(* The cleanup keeps the types.                                            *)
LEMMA CleanupExpiredType ==
  ASSUME TypeOK, CleanupExpired
  PROVE  TypeOK'
<1>1. PICK faults \in Faults({"deleteCounts", "expireCooldowns", "expireCounts", "loadCounts"}) :
        CleanupExpired!(faults)
  BY DEF CleanupExpired
<1> DEFINE reset == RowsReset(Lapsed, faults)
           Kept(table) == [key \in Keys |-> [reason \in Reasons |->
                             IF key \in reset \/ StaleCount(key, reason, faults)
                               THEN 0 ELSE table[key][reason]]]
<1>2. dbErrors' \in 0..MaxDbErrors
  BY <1>1, ErrorsType
<1>3. /\ cooldowns' \in [Keys -> Nat \cup {Absent}]
      /\ reasons' \in [Keys -> Reasons]
  BY <1>1, DroppedType, ConstantsAssumption DEF TypeOK, DropEntries
<1>4. /\ dbUntil' \in [Keys -> Nat \cup {Absent}]
      /\ dbReason' \in [Keys -> Reasons]
  BY <1>1, DroppedType, ConstantsAssumption DEF TypeOK, DropRows
<1>5. Kept(dbCount) \in [Keys -> [Reasons -> 0..MaxFailures]]
  BY BoundsAssumption DEF TypeOK
<1>6. Kept(dbLast) \in [Keys -> [Reasons -> Nat]]
  BY DEF TypeOK
<1>7. /\ dbCount' = Kept(dbCount)
      /\ dbLast' = Kept(dbLast)
      /\ failureCounts' = ReadBack(Kept(dbCount), faults)
  BY <1>1
<1> HIDE DEF Kept, reset
<1>8. failureCounts' \in [Keys -> [Reasons -> 0..MaxFailures]]
  BY <1>5, <1>7, DroppedType, NoCountsType DEF TypeOK, ReadBack
<1> QED
  BY <1>1, <1>2, <1>3, <1>4, <1>5, <1>6, <1>7, <1>8 DEF TypeOK

(* A crash empties the maps.                                               *)
LEMMA CrashType ==
  ASSUME TypeOK, Crash
  PROVE  TypeOK'
<1>1. /\ cooldowns' \in [Keys -> Nat \cup {Absent}]
      /\ reasons' \in [Keys -> Reasons]
  BY DroppedType, ConstantsAssumption DEF TypeOK, Crash, DropEntries
<1>2. failureCounts' \in [Keys -> [Reasons -> 0..MaxFailures]]
  BY NoCountsType DEF Crash
<1> QED
  BY <1>1, <1>2 DEF TypeOK, Crash, dbCooldowns, dbCounts

(* A start loads well-typed maps.                                          *)
LEMMA LoadFromDatabaseType ==
  ASSUME TypeOK, LoadFromDatabase
  PROVE  TypeOK'
<1>1. PICK faults \in Faults({"loadCounts"}) : LoadFromDatabase!(faults)
  BY DEF LoadFromDatabase
<1>2. cooldowns' \in [Keys -> Nat \cup {Absent}]
  BY <1>1, LoadedType
<1>3. reasons' \in [Keys -> Reasons]
  BY <1>1, ConstantsAssumption DEF TypeOK
<1>4. failureCounts' \in [Keys -> [Reasons -> 0..MaxFailures]]
  BY <1>1 DEF TypeOK
<1>5. dbErrors' \in 0..MaxDbErrors
  BY <1>1, ErrorsType
<1> QED
  BY <1>1, <1>2, <1>3, <1>4, <1>5 DEF TypeOK, dbCooldowns, dbCounts

(* Every step keeps the types.                                             *)
LEMMA NextTypeOK ==
  ASSUME TypeOK, [Next]_vars
  PROVE  TypeOK'
<1>1. ASSUME NEW key \in Keys, NEW reason \in CountedReasons,
             RecordFailureByPolicy(key, reason)
      PROVE  TypeOK'
  BY <1>1, RecordFailureByPolicyType
<1>2. ASSUME NEW key \in Keys, NEW reason \in ToldReasons, NEW time \in ExplicitTimes,
             RecordFailureUntil(key, reason, time)
      PROVE  TypeOK'
  BY <1>2, RecordFailureUntilType
<1>3. ASSUME NEW key \in Keys, NEW time \in ExplicitTimes, UpdateCooldown(key, time)
      PROVE  TypeOK'
  BY <1>3, UpdateCooldownType
<1>4. ASSUME NEW key \in Keys, NEW duration \in SetDurations,
             SetCooldownDuration(key, duration)
      PROVE  TypeOK'
  BY <1>4, SetCooldownDurationType
<1>5. ASSUME NEW key \in Keys, RecordSuccess(key)
      PROVE  TypeOK'
  BY <1>5, RecordSuccessType
<1>6. ASSUME NEW key \in Keys, ClearCooldown(key[1], key[2])
      PROVE  TypeOK'
  BY <1>6, ClearCooldownType
<1>7. CASE CleanupExpired
  BY <1>7, CleanupExpiredType
<1>8. CASE Crash
  BY <1>8, CrashType
<1>9. CASE LoadFromDatabase
  BY <1>9, LoadFromDatabaseType
<1>10. CASE Tick
  BY <1>10, BoundsAssumption DEF TypeOK, Tick, memory, dbCooldowns, dbCounts
<1>11. CASE UNCHANGED vars
  BY <1>11 DEF TypeOK, vars, memory, dbCooldowns, dbCounts
<1> QED
  BY <1>1, <1>2, <1>3, <1>4, <1>5, <1>6, <1>7, <1>8, <1>9, <1>10, <1>11 DEF Next

(* Type correctness of the cooldown manager: whatever is reported, cleared,*)
(* cleaned up, refused by the database or lost in a crash, the maps and the*)
(* tables hold deadlines, reasons and counts within their bounds.          *)
THEOREM TypeCorrect == Spec => []TypeOK
<1>1. Init => TypeOK
  BY InitTypeOK
<1>2. TypeOK /\ [Next]_vars => TypeOK'
  BY NextTypeOK
<1> QED
  BY <1>1, <1>2, PTL DEF Spec

-------------------------------------------------------------------------------
(* If no statement has been refused after a call, none was in it or before.*)
LEMMA NoFault ==
  ASSUME TypeOK, NEW faults, CountFault(faults), dbErrors' = 0
  PROVE  faults = {} /\ dbErrors = 0
BY ConstantsAssumption DEF TypeOK, CountFault

(* ResetFailures deletes rows only where memory held a count, and that is  *)
(* everywhere there is one when the two agreed before.                     *)
LEMMA ResetMirrors ==
  ASSUME TypeOK, NEW keys, ResetFailures(keys, {}), failureCounts = dbCount
  PROVE  failureCounts' = dbCount'
<1>1. failureCounts' = Dropped(failureCounts, keys, NoCounts)
  BY DEF ResetFailures
<1>2. dbCount' = Dropped(failureCounts, RowsReset(keys, {}), NoCounts)
  BY DEF ResetFailures
<1>3. RowsReset(keys, {}) = {key \in keys : failureCounts[key] # NoCounts}
  BY DEF RowsReset
<1>4. ASSUME NEW key \in Keys
      PROVE  Dropped(failureCounts, keys, NoCounts)[key]
               = Dropped(failureCounts, RowsReset(keys, {}), NoCounts)[key]
  BY <1>3 DEF Dropped
<1> QED
  BY <1>1, <1>2, <1>4 DEF Dropped

(* No step makes memory and the failure_counts table disagree.             *)
LEMMA NextCountsMirror ==
  ASSUME TypeOK, CountsMirrorTable, [Next]_vars
  PROVE  CountsMirrorTable'
<1> SUFFICES ASSUME up', dbErrors' = 0
             PROVE  failureCounts' = dbCount'
  BY DEF CountsMirrorTable
<1>1. ASSUME NEW key \in Keys, NEW reason \in CountedReasons,
             RecordFailureByPolicy(key, reason)
      PROVE  failureCounts' = dbCount'
  <2>1. PICK faults \in Faults({"upsertCooldown", "upsertCount"}) :
          RecordFailureByPolicy(key, reason)!(faults)
    BY <1>1 DEF RecordFailureByPolicy
  <2>2. faults = {} /\ failureCounts = dbCount
    BY <2>1, NoFault DEF CountsMirrorTable
  <2> QED
    BY <2>1, <2>2 DEF IncrementFailure
<1>2. ASSUME NEW key \in Keys, NEW reason \in ToldReasons, NEW time \in ExplicitTimes,
             RecordFailureUntil(key, reason, time)
      PROVE  failureCounts' = dbCount'
  BY <1>2, NoFault DEF RecordFailureUntil, CountsMirrorTable, dbCounts
<1>3. ASSUME NEW key \in Keys, NEW time \in ExplicitTimes, UpdateCooldown(key, time)
      PROVE  failureCounts' = dbCount'
  BY <1>3, NoFault DEF UpdateCooldown, CountsMirrorTable, dbCounts
<1>4. ASSUME NEW key \in Keys, NEW duration \in SetDurations,
             SetCooldownDuration(key, duration)
      PROVE  failureCounts' = dbCount'
  BY <1>4, NoFault DEF SetCooldownDuration, CountsMirrorTable, dbCounts
<1>5. ASSUME NEW key \in Keys, RecordSuccess(key)
      PROVE  failureCounts' = dbCount'
  BY <1>5, NoFault, ResetMirrors DEF RecordSuccess, CountsMirrorTable
<1>6. ASSUME NEW key \in Keys, ClearCooldown(key[1], key[2])
      PROVE  failureCounts' = dbCount'
  BY <1>6, NoFault, ResetMirrors DEF ClearCooldown, CountsMirrorTable
<1>7. CASE CleanupExpired
  BY <1>7, NoFault DEF CleanupExpired, ReadBack
<1>8. CASE Crash
  BY <1>8 DEF Crash
<1>9. CASE LoadFromDatabase
  BY <1>9, NoFault DEF LoadFromDatabase, dbCounts
<1>10. CASE Tick
  BY <1>10 DEF Tick, CountsMirrorTable, memory, dbCounts
<1>11. CASE UNCHANGED vars
  BY <1>11 DEF CountsMirrorTable, vars, memory, dbCounts
<1> QED
  BY <1>1, <1>2, <1>3, <1>4, <1>5, <1>6, <1>7, <1>8, <1>9, <1>10, <1>11 DEF Next

(* As long as the database refuses nothing, the failure counts in memory   *)
(* and in the table are the same whenever the process is up: no sequence of*)
(* failures, successes, clears, cleanups and restarts loses or revives one.*)
THEOREM CountsMirrored == Spec => []CountsMirrorTable
<1>1. Init => CountsMirrorTable
  BY DEF Init, CountsMirrorTable
<1>2. TypeOK /\ CountsMirrorTable /\ [Next]_vars => CountsMirrorTable'
  BY NextCountsMirror
<1> QED
  BY <1>1, <1>2, TypeCorrect, PTL DEF Spec

-------------------------------------------------------------------------------
(* Seconds do not run backwards.                                           *)
LEMMA SecondMonotone ==
  ASSUME NEW time \in Nat
  PROVE  Second(time) <= Second(time + 1)
BY BoundsAssumption DEF Second

(* A deadline read back from the table is stored as the same second again. *)
LEMMA SecondOfParsed ==
  ASSUME NEW second \in Nat, DriverKeepsText
  PROVE  Second(ParseStored(second)) = second
BY BoundsAssumption DEF Second, ParseStored

(* The row of a key is not active, or memory says the same.                *)
Fresh(key) ==
    RowActive(key) =>
        /\ Second(cooldowns[key]) = dbUntil[key]
        /\ reasons[key] = dbReason[key]

(* Memory has no deadline for a key; only a start makes an active row so.  *)
Blank(key) == cooldowns[key] \in {Absent, 0}

(* What a step of a running process does for a key: fresh stays fresh, and *)
(* a blank entry stays blank until the row is fresh.                       *)
Settled(key) ==
    /\ Fresh(key) => Fresh(key)'
    /\ Blank(key) => Fresh(key)' \/ Blank(key)'

(* A key whose entry and row a step leaves alone is settled: the clock can *)
(* only end a row, never make it active again.                             *)
LEMMA UntouchedSettled ==
  ASSUME TypeOK, NEW key \in Keys, now' = now \/ now' = now + 1,
         cooldowns'[key] = cooldowns[key], reasons'[key] = reasons[key],
         dbUntil'[key] = dbUntil[key], dbReason'[key] = dbReason[key]
  PROVE  Settled(key)
<1>1. now \in Nat /\ dbUntil[key] \in Int
  BY DEF TypeOK, Absent
<1>2. Second(now) \in Nat /\ Second(now') \in Nat
  BY <1>1, SecondType
<1>3. Second(now) <= Second(now')
  BY <1>1, <1>2, SecondMonotone
<1>4. RowActive(key)' => RowActive(key)
  BY <1>1, <1>2, <1>3 DEF RowActive
<1> QED
  BY <1>4 DEF Settled, Fresh, Blank

(* setCooldownLocked settles every key when Upsert is not refused: it      *)
(* rewrites an active row, and a row it fails to replace has expired.      *)
LEMMA SetCooldownSettles ==
  ASSUME TypeOK, now' = now,
         NEW key \in Keys, NEW deadline \in Nat, NEW reason \in Reasons,
         setCooldownLocked(key, deadline, reason, {})
  PROVE  \A k \in Keys : Settled(k)
<1> SUFFICES ASSUME NEW k \in Keys PROVE Settled(k)
  OBVIOUS
<1>1. CASE k # key
  <2>1. /\ cooldowns'[k] = cooldowns[k]
        /\ reasons'[k] = reasons[k]
    BY <1>1 DEF setCooldownLocked, TypeOK
  <2>2. /\ dbUntil'[k] = dbUntil[k]
        /\ dbReason'[k] = dbReason[k]
    BY <1>1 DEF setCooldownLocked, Upsert, dbCooldowns, TypeOK
  <2> QED
    BY <2>1, <2>2, UntouchedSettled
<1>2. CASE k = key /\ (RowActive(key) \/ dbUntil[key] = Absent)
  <2>1. /\ cooldowns'[key] = deadline
        /\ reasons'[key] = reason
    BY DEF setCooldownLocked, TypeOK
  <2>2. /\ dbUntil'[key] = Second(deadline)
        /\ dbReason'[key] = reason
    BY <1>2 DEF setCooldownLocked, Upsert, TypeOK
  <2> QED
    BY <1>2, <2>1, <2>2 DEF Settled, Fresh
<1>3. CASE k = key /\ ~(RowActive(key) \/ dbUntil[key] = Absent)
  <2>1. dbUntil' = dbUntil
    BY <1>3 DEF setCooldownLocked, Upsert, dbCooldowns
  <2>2. ~RowActive(key)'
    BY <1>3, <2>1 DEF RowActive, Second
  <2> QED
    BY <1>3, <2>2 DEF Settled, Fresh
<1> QED
  BY <1>1, <1>2, <1>3

(* Dropping entries and rows settles every key when an entry that is       *)
(* dropped either loses its row as well or has lapsed: a row that says the *)
(* same has lapsed with it.                                                *)
LEMMA DropSettles ==
  ASSUME TypeOK, now' = now, NEW entries, NEW rows,
         \A k \in entries : k \in rows \/ now > cooldowns[k],
         DropEntries(entries), DropRows(rows)
  PROVE  \A k \in Keys : Settled(k)
<1> SUFFICES ASSUME NEW k \in Keys PROVE Settled(k)
  OBVIOUS
<1>0. Second(now) \in Nat /\ Second(now') \in Nat
  BY SecondType DEF TypeOK
<1>1. CASE k \in rows
  <2>1. dbUntil'[k] = Absent
    BY <1>1 DEF DropRows, Dropped
  <2> QED
    BY <1>0, <2>1 DEF Settled, Fresh, RowActive, Absent
<1>2. CASE k \in entries /\ k \notin rows
  <2>1. /\ cooldowns'[k] = Absent
        /\ dbUntil'[k] = dbUntil[k]
    BY <1>2 DEF DropEntries, DropRows, Dropped
  <2>2. now > cooldowns[k]
    BY <1>2
  <2>3. cooldowns[k] \in Int /\ now \in Nat
    BY DEF TypeOK, Absent
  <2>4. Second(cooldowns[k]) <= Second(now)
    BY <2>2, <2>3, BoundsAssumption DEF Second
  <2>5. Fresh(k) => ~RowActive(k)
    BY <1>0, <2>3, <2>4, BoundsAssumption DEF Fresh, RowActive, Second
  <2>6. ~RowActive(k) => ~RowActive(k)'
    BY <2>1 DEF RowActive, Second
  <2> QED
    BY <2>1, <2>5, <2>6 DEF Settled, Fresh, Blank
<1>3. CASE k \notin entries /\ k \notin rows
  <2>1. /\ cooldowns'[k] = cooldowns[k]
        /\ reasons'[k] = reasons[k]
        /\ dbUntil'[k] = dbUntil[k]
        /\ dbReason'[k] = dbReason[k]
    BY <1>3 DEF DropEntries, DropRows, Dropped
  <2> QED
    BY <2>1, UntouchedSettled
<1> QED
  BY <1>1, <1>2, <1>3

(* What a start loads is what the row says, or zero time.                  *)
LEMMA LoadedFresh ==
  ASSUME TypeOK, NEW key \in Keys, LoadFromDatabase
  PROVE  Fresh(key)' \/ (~DriverKeepsText /\ Blank(key)')
<1>1. /\ dbUntil' = dbUntil
      /\ dbReason' = dbReason
      /\ now' = now
      /\ cooldowns'[key] = Loaded(key)
      /\ reasons'[key] = IF RowActive(key) THEN dbReason[key] ELSE Unknown
  BY DEF LoadFromDatabase, dbCooldowns
<1> SUFFICES ASSUME RowActive(key)
             PROVE  \/ ~DriverKeepsText /\ Loaded(key) = 0
                    \/ Second(Loaded(key)) = dbUntil[key]
  BY <1>1 DEF Fresh, Blank, RowActive, Second
<1>2. Second(now) \in Nat
  BY SecondType DEF TypeOK
<1>3. dbUntil[key] \in Nat
  BY <1>2 DEF TypeOK, RowActive, Absent
<1>4. CASE DriverKeepsText
  BY <1>3, <1>4, SecondOfParsed DEF Loaded
<1>5. CASE ~DriverKeepsText
  BY <1>5 DEF Loaded, ParseStored
<1> QED
  BY <1>4, <1>5

(* No operation of a running process unsettles a key.                      *)
LEMMA NextSettles ==
  ASSUME TypeOK, [Next]_vars, up, up', dbErrors' = 0
  PROVE  \A k \in Keys : Settled(k)
<1>1. ASSUME NEW key \in Keys, NEW reason \in CountedReasons,
             RecordFailureByPolicy(key, reason)
      PROVE  \A k \in Keys : Settled(k)
  <2>1. PICK faults \in Faults({"upsertCooldown", "upsertCount"}) :
          RecordFailureByPolicy(key, reason)!(faults)
    BY <1>1 DEF RecordFailureByPolicy
  <2>2. faults = {} /\ dbErrors = 0
    BY <2>1, NoFault
  <2>3. reason \in Reasons
    BY ConstantsAssumption
  <2>4. failureCounts[key][reason] + 1 \in 1..MaxFailures
    BY <2>1, <2>3, BoundsAssumption DEF TypeOK
  <2>5. now + Duration(reason, failureCounts[key][reason] + 1) \in Nat
    BY <2>3, <2>4, PolicyAssumption DEF TypeOK
  <2> QED
    BY <2>1, <2>2, <2>3, <2>5, SetCooldownSettles
<1>2. ASSUME NEW key \in Keys, NEW reason \in ToldReasons, NEW time \in ExplicitTimes,
             RecordFailureUntil(key, reason, time)
      PROVE  \A k \in Keys : Settled(k)
  <2>1. PICK faults \in Faults({"upsertCooldown"}) :
          RecordFailureUntil(key, reason, time)!(faults)
    BY <1>2 DEF RecordFailureUntil
  <2>2. faults = {} /\ dbErrors = 0
    BY <2>1, NoFault
  <2>3. time \in Nat /\ reason \in Reasons
    BY BoundsAssumption, ConstantsAssumption
  <2> QED
    BY <2>1, <2>2, <2>3, SetCooldownSettles
<1>3. ASSUME NEW key \in Keys, NEW time \in ExplicitTimes, UpdateCooldown(key, time)
      PROVE  \A k \in Keys : Settled(k)
  <2>1. PICK faults \in Faults({"upsertCooldown"}) : UpdateCooldown(key, time)!(faults)
    BY <1>3 DEF UpdateCooldown
  <2>2. faults = {} /\ dbErrors = 0
    BY <2>1, NoFault
  <2>3. time \in Nat /\ reasons[key] \in Reasons
    BY BoundsAssumption DEF TypeOK
  <2> QED
    BY <2>1, <2>2, <2>3, SetCooldownSettles
<1>4. ASSUME NEW key \in Keys, NEW duration \in SetDurations,
             SetCooldownDuration(key, duration)
      PROVE  \A k \in Keys : Settled(k)
  <2>1. PICK faults \in Faults({"upsertCooldown"}) :
          SetCooldownDuration(key, duration)!(faults)
    BY <1>4 DEF SetCooldownDuration
  <2>2. faults = {} /\ dbErrors = 0
    BY <2>1, NoFault
  <2>3. now + duration \in Nat /\ Unknown \in Reasons
    BY BoundsAssumption, ConstantsAssumption DEF TypeOK
  <2> QED
    BY <2>1, <2>2, <2>3, SetCooldownSettles
<1>5. ASSUME NEW key \in Keys, RecordSuccess(key)
      PROVE  \A k \in Keys : Settled(k)
  <2>1. /\ up /\ dbErrors = 0
        /\ now' = now /\ cooldowns' = cooldowns /\ reasons' = reasons
        /\ dbUntil' = dbUntil /\ dbReason' = dbReason
    BY <1>5, NoFault DEF RecordSuccess, dbCooldowns
  <2> QED
    BY <2>1, UntouchedSettled
<1>6. ASSUME NEW key \in Keys, ClearCooldown(key[1], key[2])
      PROVE  \A k \in Keys : Settled(k)
  BY <1>6, NoFault, DropSettles DEF ClearCooldown
<1>7. CASE CleanupExpired
  BY <1>7, NoFault, DropSettles DEF CleanupExpired, Lapsed
<1>8. CASE Crash
  BY <1>8 DEF Crash
<1>9. CASE LoadFromDatabase
  BY <1>9 DEF LoadFromDatabase
<1>10. CASE Tick
  <2>1. /\ now' = now + 1 /\ cooldowns' = cooldowns /\ reasons' = reasons
        /\ dbUntil' = dbUntil /\ dbReason' = dbReason
    BY <1>10 DEF Tick, memory, dbCooldowns
  <2> QED
    BY <2>1, UntouchedSettled
<1>11. CASE UNCHANGED vars
  <2>1. /\ now' = now /\ cooldowns' = cooldowns /\ reasons' = reasons
        /\ dbUntil' = dbUntil /\ dbReason' = dbReason
    BY <1>11 DEF vars, memory, dbCooldowns
  <2> QED
    BY <2>1, UntouchedSettled
<1> QED
  BY <1>1, <1>2, <1>3, <1>4, <1>5, <1>6, <1>7, <1>8, <1>9, <1>10, <1>11 DEF Next

(* A refused statement is never forgotten, and only a start ends a stop.   *)
LEMMA NextUpDown ==
  ASSUME TypeOK, [Next]_vars, dbErrors' = 0
  PROVE  /\ dbErrors = 0
         /\ ~up /\ up' => LoadFromDatabase
<1> USE NoFault
<1>1. ASSUME NEW key \in Keys, NEW reason \in CountedReasons,
             RecordFailureByPolicy(key, reason)
      PROVE  dbErrors = 0 /\ up
  BY <1>1 DEF RecordFailureByPolicy
<1>2. ASSUME NEW key \in Keys, NEW reason \in ToldReasons, NEW time \in ExplicitTimes,
             RecordFailureUntil(key, reason, time)
      PROVE  dbErrors = 0 /\ up
  BY <1>2 DEF RecordFailureUntil
<1>3. ASSUME NEW key \in Keys, NEW time \in ExplicitTimes, UpdateCooldown(key, time)
      PROVE  dbErrors = 0 /\ up
  BY <1>3 DEF UpdateCooldown
<1>4. ASSUME NEW key \in Keys, NEW duration \in SetDurations,
             SetCooldownDuration(key, duration)
      PROVE  dbErrors = 0 /\ up
  BY <1>4 DEF SetCooldownDuration
<1>5. ASSUME NEW key \in Keys, RecordSuccess(key) PROVE dbErrors = 0 /\ up
  BY <1>5 DEF RecordSuccess
<1>6. ASSUME NEW key \in Keys, ClearCooldown(key[1], key[2]) PROVE dbErrors = 0 /\ up
  BY <1>6 DEF ClearCooldown
<1>7. CASE CleanupExpired
  BY <1>7 DEF CleanupExpired
<1>8. CASE Crash
  BY <1>8 DEF Crash
<1>9. CASE LoadFromDatabase
  BY <1>9 DEF LoadFromDatabase
<1>10. CASE Tick
  BY <1>10 DEF Tick
<1>11. CASE UNCHANGED vars
  BY <1>11 DEF vars
<1> QED
  BY <1>1, <1>2, <1>3, <1>4, <1>5, <1>6, <1>7, <1>8, <1>9, <1>10, <1>11 DEF Next

(* A clear whose statements all succeed leaves no row of a key it names.   *)
LEMMA ClearedHasNoRow ==
  ASSUME TypeOK, dbErrors' = 0, NEW key \in Keys, NEW type \in {AllTypes, key[2]},
         ClearCooldown(key[1], type)
  PROVE  ~RowActive(key)'
<1>1. key \in Cleared(key[1], type)
  BY DEF Cleared, Keys
<1>2. dbUntil'[key] = Absent /\ now' = now
  BY <1>1, NoFault DEF ClearCooldown, DropRows, Dropped
<1>3. Second(now') \in Nat
  BY <1>2, SecondType DEF TypeOK
<1> QED
  BY <1>2, <1>3 DEF RowActive, Absent

(* Memory never holds an older deadline than the row: the two agree, or it *)
(* holds none. This is what ActiveRowsAreCurrent needs of the states.      *)
Agreed ==
    up /\ dbErrors = 0 =>
        \A key \in Keys : Fresh(key) \/ (~DriverKeepsText /\ Blank(key))

LEMMA NextAgreed ==
  ASSUME TypeOK, Agreed, [Next]_vars
  PROVE  Agreed'
<1> SUFFICES ASSUME up', dbErrors' = 0, NEW key \in Keys
             PROVE  Fresh(key)' \/ (~DriverKeepsText /\ Blank(key)')
  BY DEF Agreed
<1>1. CASE up
  BY <1>1, NextSettles, NextUpDown DEF Agreed, Settled
<1>2. CASE ~up
  BY <1>2, NextUpDown, LoadedFresh
<1> QED
  BY <1>1, <1>2

(* As long as the database refuses nothing, an active row memory does not  *)
(* agree with was made so by a start that could not parse it, and no clear *)
(* leaves it: a restart can lose a cooldown, it cannot bring back one that *)
(* was replaced or cleared. With a driver that keeps the text no row is    *)
(* ever stale.                                                             *)
THEOREM ActiveRowsCurrent == Spec => ActiveRowsAreCurrent
<1>1. Init => Agreed
  BY SecondType DEF Init, Agreed, Fresh, RowActive, Absent
<1>2. TypeOK /\ Agreed /\ [Next]_vars => Agreed'
  BY NextAgreed
<1>3. ASSUME TypeOK, Agreed, Agreed', [Next]_vars,
             NEW key \in Keys, dbErrors' = 0, Stale(key)'
      PROVE  /\ ~DriverKeepsText
             /\ cooldowns'[key] \in {Absent, 0}
             /\ up => Stale(key)
             /\ ~\E type \in {AllTypes, key[2]} : ClearCooldown(key[1], type)
  <2>1. up' /\ RowActive(key)' /\ ~Fresh(key)'
    BY <1>3 DEF Stale, Fresh
  <2>2. ~DriverKeepsText /\ Blank(key)'
    BY <1>3, <2>1 DEF Agreed
  <2>3. up => ~Fresh(key)
    BY <1>3, <2>1, NextSettles DEF Settled
  <2>4. up => Stale(key)
    BY <2>3 DEF Stale, Fresh
  <2>5. ~\E type \in {AllTypes, key[2]} : ClearCooldown(key[1], type)
    BY <1>3, <2>1, ClearedHasNoRow
  <2> QED
    BY <2>2, <2>4, <2>5 DEF Blank
<1>4. TypeOK /\ Agreed /\ Agreed' /\ [Next]_vars =>
        [\A key \in Keys : dbErrors' = 0 /\ Stale(key)' =>
            /\ ~DriverKeepsText
            /\ cooldowns'[key] \in {Absent, 0}
            /\ up => Stale(key)
            /\ ~\E type \in {AllTypes, key[2]} : ClearCooldown(key[1], type)]_vars
  BY <1>3
<1> QED
  BY <1>1, <1>2, <1>4, TypeCorrect, PTL DEF Spec, ActiveRowsAreCurrent

-------------------------------------------------------------------------------
(* The cooldown manager implements CooldownService, whatever the database  *)
(* driver does to its dates.                                               *)
(*                                                                         *)
(* The argument needs more than the properties of Cooldown.tla say:        *)
(* RowsWhole, a failure_counts row whose count is gone has no time left    *)
(* behind, and Precise, an active row holds the second of the deadline in  *)
(* memory.  With them every step is a step of the service: a call the      *)
(* database refuses is Degrade, a crash is Restart, a load changes nothing *)
(* a caller could see.                                                     *)

(* The abstract state, by name.                                            *)
Deadline(key) == IF up THEN cooldowns[key] ELSE Loaded(key)

Until == [key \in Keys |-> IF now < Deadline(key) THEN Deadline(key) ELSE 0]

Counts == IF up THEN failureCounts ELSE dbCount

(* A count that is gone left no time behind.                               *)
RowsWhole ==
    \A key \in Keys, reason \in Reasons :
        dbCount[key][reason] = 0 => dbLast[key][reason] = 0

(* An active row is the deadline in memory, to the second.                 *)
Exact(key) == RowActive(key) => Second(cooldowns[key]) = dbUntil[key]

Precise ==
    up /\ dbErrors = 0 /\ DriverKeepsText => \A key \in Keys : Exact(key)

SInv == TypeOK /\ CountsMirrorTable /\ RowsWhole /\ Precise

-------------------------------------------------------------------------------
(* The service's parameters and policies are the manager's.                *)
LEMMA SameParameters ==
  /\ Service!Keys = Keys
  /\ Service!NoCounts = NoCounts
  /\ Service!NoTime = 0
BY DEF Service!Keys, Keys, Service!NoCounts, NoCounts, Service!NoTime

LEMMA SameDuration ==
  ASSUME NEW reason, NEW n
  PROVE  Service!Duration(reason, n) = Duration(reason, n)
BY DEF Service!Duration, Duration, Service!CalculateCooldown, CalculateCooldown,
       Service!Doubled, Doubled, Service!Capped, Capped,
       Service!FallbackPolicy, FallbackPolicy, Service!FixedDuration, FixedDuration

LEMMA SameAhead ==
  ASSUME NEW deadline, NEW time
  PROVE  Service!Ahead(deadline, time) = IF time < deadline THEN deadline ELSE 0
BY SameParameters DEF Service!Ahead

(* A whole second is no later than the time it was cut from, and the next  *)
(* whole second is later than it.                                          *)
LEMMA SecondBounds ==
  ASSUME NEW time \in Nat
  PROVE  /\ Second(time) \in Nat
         /\ TicksPerSecond * Second(time) <= time
         /\ time < TicksPerSecond * (Second(time) + 1)
BY BoundsAssumption DEF Second

(* Seconds are in the order of the whole seconds they name.                *)
LEMMA WholeSecondsOrdered ==
  ASSUME NEW a \in Nat, NEW b \in Nat, a <= b
  PROVE  TicksPerSecond * a <= TicksPerSecond * b
<1> PICK t \in Nat : t = TicksPerSecond
  BY BoundsAssumption
<1>1. PICK d \in Nat : b = a + d
  <2>1. b - a \in Nat /\ b = a + (b - a)
    OBVIOUS
  <2> QED
    BY <2>1
<1>2. t * b = t * a + t * d
  BY <1>1
<1>3. t * d \in Nat /\ t * a \in Nat
  OBVIOUS
<1> QED
  BY <1>2, <1>3

(* A row is active exactly while the deadline it stores is ahead.          *)
LEMMA ActiveMeansAhead ==
  ASSUME NEW second \in Nat, NEW time \in Nat
  PROVE  /\ second > Second(time) => time < TicksPerSecond * second
         /\ ~(second > Second(time)) => TicksPerSecond * second <= time
<1>1. Second(time) \in Nat
  BY SecondBounds
<1>2. CASE second > Second(time)
  <2>1. Second(time) + 1 <= second
    BY <1>1, <1>2
  <2>2. TicksPerSecond * (Second(time) + 1) <= TicksPerSecond * second
    BY <1>1, <2>1, WholeSecondsOrdered
  <2>3. /\ TicksPerSecond * (Second(time) + 1) \in Nat
        /\ TicksPerSecond * second \in Nat
    BY <1>1, BoundsAssumption
  <2> QED
    BY <1>2, <2>2, <2>3, SecondBounds
<1>3. CASE ~(second > Second(time))
  <2>1. second <= Second(time)
    BY <1>1, <1>3
  <2>2. TicksPerSecond * second <= TicksPerSecond * Second(time)
    BY <1>1, <2>1, WholeSecondsOrdered
  <2>3. /\ TicksPerSecond * Second(time) \in Nat
        /\ TicksPerSecond * second \in Nat
    BY <1>1, BoundsAssumption
  <2> QED
    BY <1>3, <2>2, <2>3, SecondBounds
<1> QED
  BY <1>2, <1>3

-------------------------------------------------------------------------------
(* Dropping the counts and the times of the same rows keeps rows whole.    *)
LEMMA DroppedWhole ==
  ASSUME RowsWhole, NEW rows,
         dbCount' = Dropped(dbCount, rows, NoCounts),
         dbLast' = Dropped(dbLast, rows, NoCounts)
  PROVE  RowsWhole'
BY DEF RowsWhole, Dropped, NoCounts

(* No step leaves a time behind where it takes the count away.             *)
LEMMA NextRowsWhole ==
  ASSUME TypeOK, RowsWhole, [Next]_vars
  PROVE  RowsWhole'
<1>1. ASSUME NEW key \in Keys, NEW reason \in CountedReasons,
             RecordFailureByPolicy(key, reason)
      PROVE  RowsWhole'
  <2>1. PICK faults \in Faults({"upsertCooldown", "upsertCount"}) :
          RecordFailureByPolicy(key, reason)!(faults)
    BY <1>1 DEF RecordFailureByPolicy
  <2>2. reason \in Reasons
    BY ConstantsAssumption
  <2>3. PICK newCount \in Nat : newCount = failureCounts[key][reason] + 1 /\ newCount # 0
    BY <2>2, BoundsAssumption DEF TypeOK
  <2>4. \/ /\ dbCount' = [dbCount EXCEPT ![key][reason] = newCount]
           /\ dbLast' = [dbLast EXCEPT ![key][reason] = Second(now)]
        \/ UNCHANGED dbCounts
    BY <2>1, <2>3 DEF IncrementFailure
  <2>5. CASE UNCHANGED dbCounts
    BY <2>5 DEF RowsWhole, dbCounts
  <2>6. CASE /\ dbCount' = [dbCount EXCEPT ![key][reason] = newCount]
             /\ dbLast' = [dbLast EXCEPT ![key][reason] = Second(now)]
    <3> SUFFICES ASSUME NEW k \in Keys, NEW r \in Reasons, dbCount'[k][r] = 0
                 PROVE  dbLast'[k][r] = 0
      BY DEF RowsWhole
    <3>1. ~(k = key /\ r = reason)
      BY <2>3, <2>6 DEF TypeOK
    <3>2. dbCount'[k][r] = dbCount[k][r] /\ dbLast'[k][r] = dbLast[k][r]
      BY <2>6, <3>1 DEF TypeOK
    <3> QED
      BY <3>2 DEF RowsWhole
  <2> QED
    BY <2>4, <2>5, <2>6
<1>2. ASSUME NEW key \in Keys, NEW reason \in ToldReasons, NEW time \in ExplicitTimes,
             RecordFailureUntil(key, reason, time)
      PROVE  RowsWhole'
  BY <1>2 DEF RecordFailureUntil, RowsWhole, dbCounts
<1>3. ASSUME NEW key \in Keys, NEW time \in ExplicitTimes, UpdateCooldown(key, time)
      PROVE  RowsWhole'
  BY <1>3 DEF UpdateCooldown, RowsWhole, dbCounts
<1>4. ASSUME NEW key \in Keys, NEW duration \in SetDurations,
             SetCooldownDuration(key, duration)
      PROVE  RowsWhole'
  BY <1>4 DEF SetCooldownDuration, RowsWhole, dbCounts
<1>5. ASSUME NEW key \in Keys, RecordSuccess(key)
      PROVE  RowsWhole'
  BY <1>5, DroppedWhole DEF RecordSuccess, ResetFailures
<1>6. ASSUME NEW key \in Keys, ClearCooldown(key[1], key[2])
      PROVE  RowsWhole'
  BY <1>6, DroppedWhole DEF ClearCooldown, ResetFailures
<1>7. CASE CleanupExpired
  BY <1>7 DEF CleanupExpired, RowsWhole
<1>8. CASE Crash
  BY <1>8 DEF Crash, RowsWhole, dbCounts
<1>9. CASE LoadFromDatabase
  BY <1>9 DEF LoadFromDatabase, RowsWhole, dbCounts
<1>10. CASE Tick
  BY <1>10 DEF Tick, RowsWhole, dbCounts
<1>11. CASE UNCHANGED vars
  BY <1>11 DEF RowsWhole, vars, dbCounts
<1> QED
  BY <1>1, <1>2, <1>3, <1>4, <1>5, <1>6, <1>7, <1>8, <1>9, <1>10, <1>11 DEF Next

-------------------------------------------------------------------------------
(* A row a step leaves alone does not become active.                       *)
LEMMA RowStaysLapsed ==
  ASSUME TypeOK, NEW key \in Keys, now' = now \/ now' = now + 1,
         dbUntil'[key] = dbUntil[key], RowActive(key)'
  PROVE  RowActive(key)
<1>1. now \in Nat /\ dbUntil[key] \in Int
  BY DEF TypeOK, Absent
<1>2. Second(now) \in Nat /\ Second(now') \in Nat /\ Second(now) <= Second(now')
  BY <1>1, SecondType, SecondMonotone
<1> QED
  BY <1>1, <1>2 DEF RowActive

(* A key whose entry and row a step leaves alone stays exact.              *)
LEMMA ExactStays ==
  ASSUME TypeOK, NEW key \in Keys, Exact(key), now' = now \/ now' = now + 1,
         cooldowns'[key] = cooldowns[key], dbUntil'[key] = dbUntil[key]
  PROVE  Exact(key)'
<1>1. RowActive(key)' => RowActive(key)
  BY RowStaysLapsed
<1> QED
  BY <1>1 DEF Exact

(* A deadline that Upsert is not refused leaves every key exact.           *)
LEMMA SetCooldownExact ==
  ASSUME TypeOK, \A k \in Keys : Exact(k), now' = now,
         NEW key \in Keys, NEW deadline, NEW reason,
         setCooldownLocked(key, deadline, reason, {})
  PROVE  \A k \in Keys : Exact(k)'
<1> SUFFICES ASSUME NEW k \in Keys PROVE Exact(k)'
  OBVIOUS
<1>1. CASE k # key
  <2>1. cooldowns'[k] = cooldowns[k]
    BY <1>1 DEF setCooldownLocked, TypeOK
  <2>2. dbUntil'[k] = dbUntil[k]
    BY <1>1 DEF setCooldownLocked, Upsert, dbCooldowns, TypeOK
  <2> QED
    BY <2>1, <2>2, ExactStays
<1>2. CASE k = key /\ (RowActive(key) \/ dbUntil[key] = Absent)
  <2>1. cooldowns'[key] = deadline
    BY DEF setCooldownLocked, TypeOK
  <2>2. dbUntil'[key] = Second(deadline)
    BY <1>2 DEF setCooldownLocked, Upsert, TypeOK
  <2> QED
    BY <1>2, <2>1, <2>2 DEF Exact
<1>3. CASE k = key /\ ~(RowActive(key) \/ dbUntil[key] = Absent)
  <2>1. dbUntil' = dbUntil
    BY <1>3 DEF setCooldownLocked, Upsert, dbCooldowns
  <2>2. ~RowActive(key)'
    BY <1>3, <2>1 DEF RowActive, Second
  <2> QED
    BY <1>3, <2>2 DEF Exact
<1> QED
  BY <1>1, <1>2, <1>3

(* Dropping entries keeps every key exact, provided each of them has no    *)
(* active row or loses it too.                                             *)
LEMMA DropExact ==
  ASSUME TypeOK, \A k \in Keys : Exact(k), now' = now,
         NEW entries, NEW rows, DropEntries(entries), DropRows(rows),
         \A k \in Keys : k \in entries => k \in rows \/ ~RowActive(k)
  PROVE  \A k \in Keys : Exact(k)'
<1> SUFFICES ASSUME NEW k \in Keys PROVE Exact(k)'
  OBVIOUS
<1>1. CASE k \in rows
  <2>1. dbUntil'[k] = Absent
    BY <1>1 DEF DropRows, Dropped
  <2>2. Second(now') \in Nat
    BY SecondType DEF TypeOK
  <2> QED
    BY <2>1, <2>2 DEF Exact, RowActive, Absent
<1>2. CASE k \notin rows /\ k \in entries
  <2>1. dbUntil'[k] = dbUntil[k]
    BY <1>2 DEF DropRows, Dropped
  <2>2. ~RowActive(k)'
    BY <1>2, <2>1, RowStaysLapsed
  <2> QED
    BY <2>2 DEF Exact
<1>3. CASE k \notin rows /\ k \notin entries
  <2>1. cooldowns'[k] = cooldowns[k] /\ dbUntil'[k] = dbUntil[k]
    BY <1>3 DEF DropEntries, DropRows, Dropped
  <2> QED
    BY <2>1, ExactStays
<1> QED
  BY <1>1, <1>2, <1>3

(* An entry that has lapsed has no active row.                             *)
LEMMA LapsedHasNoActiveRow ==
  ASSUME TypeOK, NEW key \in Lapsed, Exact(key)
  PROVE  ~RowActive(key)
<1>1. key \in Keys /\ cooldowns[key] \in Nat /\ cooldowns[key] < now /\ now \in Nat
  BY DEF Lapsed, TypeOK, Absent
<1>2. Second(cooldowns[key]) <= Second(now)
  BY <1>1, BoundsAssumption DEF Second
<1>3. Second(cooldowns[key]) \in Nat /\ Second(now) \in Nat
  BY <1>1, SecondType
<1> QED
  BY <1>2, <1>3 DEF Exact, RowActive

(* No step leaves an active row that is not memory's deadline.             *)
LEMMA NextPrecise ==
  ASSUME TypeOK, Precise, [Next]_vars
  PROVE  Precise'
<1> SUFFICES ASSUME up', dbErrors' = 0, DriverKeepsText
             PROVE  \A k \in Keys : Exact(k)'
  BY DEF Precise
<1>0. up /\ dbErrors = 0 => \A k \in Keys : Exact(k)
  BY DEF Precise
<1>1. ASSUME NEW key \in Keys, NEW reason \in CountedReasons,
             RecordFailureByPolicy(key, reason)
      PROVE  \A k \in Keys : Exact(k)'
  BY <1>0, <1>1, NoFault, SetCooldownExact DEF RecordFailureByPolicy
<1>2. ASSUME NEW key \in Keys, NEW reason \in ToldReasons, NEW time \in ExplicitTimes,
             RecordFailureUntil(key, reason, time)
      PROVE  \A k \in Keys : Exact(k)'
  BY <1>0, <1>2, NoFault, SetCooldownExact DEF RecordFailureUntil
<1>3. ASSUME NEW key \in Keys, NEW time \in ExplicitTimes, UpdateCooldown(key, time)
      PROVE  \A k \in Keys : Exact(k)'
  BY <1>0, <1>3, NoFault, SetCooldownExact DEF UpdateCooldown
<1>4. ASSUME NEW key \in Keys, NEW duration \in SetDurations,
             SetCooldownDuration(key, duration)
      PROVE  \A k \in Keys : Exact(k)'
  BY <1>0, <1>4, NoFault, SetCooldownExact DEF SetCooldownDuration
<1>5. ASSUME NEW key \in Keys, RecordSuccess(key)
      PROVE  \A k \in Keys : Exact(k)'
  <2>1. /\ up /\ dbErrors = 0
        /\ now' = now /\ cooldowns' = cooldowns /\ dbUntil' = dbUntil
    BY <1>5, NoFault DEF RecordSuccess, dbCooldowns
  <2> QED
    BY <1>0, <2>1, ExactStays
<1>6. ASSUME NEW key \in Keys, ClearCooldown(key[1], key[2])
      PROVE  \A k \in Keys : Exact(k)'
  <2>1. PICK faults \in Faults({"deleteCooldowns", "deleteCounts"}) :
          ClearCooldown(key[1], key[2])!(faults)
    BY <1>6 DEF ClearCooldown
  <2>2. faults = {} /\ dbErrors = 0
    BY <2>1, NoFault
  <2> DEFINE keys == Cleared(key[1], key[2])
  <2>3. up /\ now' = now /\ DropEntries(keys) /\ DropRows(keys)
    BY <2>1, <2>2
  <2> HIDE DEF keys
  <2> QED
    BY <1>0, <2>2, <2>3, DropExact
<1>7. CASE CleanupExpired
  <2>1. PICK faults \in Faults({"deleteCounts", "expireCooldowns", "expireCounts",
                                "loadCounts"}) :
          CleanupExpired!(faults)
    BY <1>7 DEF CleanupExpired
  <2>2. faults = {} /\ dbErrors = 0
    BY <2>1, NoFault
  <2>3. /\ up /\ now' = now
        /\ DropEntries(Lapsed)
        /\ DropRows({key \in Keys : ~RowActive(key)})
    BY <2>1, <2>2
  <2>4. \A k \in Keys : k \in Lapsed => ~RowActive(k)
    BY <1>0, <2>2, <2>3, LapsedHasNoActiveRow
  <2> QED
    BY <1>0, <2>2, <2>3, <2>4, DropExact
<1>8. CASE Crash
  BY <1>8 DEF Crash
<1>9. CASE LoadFromDatabase
  <2> SUFFICES ASSUME NEW k \in Keys, RowActive(k)' PROVE Second(cooldowns'[k]) = dbUntil'[k]
    BY DEF Exact, Second
  <2>1. dbUntil' = dbUntil /\ now' = now /\ cooldowns'[k] = Loaded(k)
    BY <1>9 DEF LoadFromDatabase, dbCooldowns
  <2>2. RowActive(k)
    BY <2>1, RowStaysLapsed
  <2>3. dbUntil[k] \in Nat
    BY <2>2, SecondType DEF TypeOK, RowActive, Absent
  <2> QED
    BY <2>1, <2>2, <2>3, SecondOfParsed DEF Loaded
<1>10. CASE Tick
  <2>1. /\ up /\ dbErrors = 0
        /\ now' = now + 1 /\ cooldowns' = cooldowns /\ dbUntil' = dbUntil
    BY <1>10 DEF Tick, memory, dbCooldowns
  <2> QED
    BY <1>0, <2>1, ExactStays
<1>11. CASE UNCHANGED vars
  <2>1. /\ up /\ dbErrors = 0
        /\ now' = now /\ cooldowns' = cooldowns /\ dbUntil' = dbUntil
    BY <1>11 DEF vars, memory, dbCooldowns
  <2> QED
    BY <1>0, <2>1, ExactStays
<1> QED
  BY <1>1, <1>2, <1>3, <1>4, <1>5, <1>6, <1>7, <1>8, <1>9, <1>10, <1>11 DEF Next

(* The invariant the refinement rests on: types, agreement of memory and   *)
(* tables on counts and deadlines while nothing was refused, and rows that *)
(* are whole whatever was refused.                                         *)
THEOREM ServiceInvariant == Spec => []SInv
<1>1. Init => RowsWhole /\ Precise
  <2> SUFFICES ASSUME Init PROVE RowsWhole /\ Precise
    OBVIOUS
  <2>1. RowsWhole
    BY DEF Init, RowsWhole, NoCounts
  <2>2. Second(now) \in Nat
    BY SecondType DEF Init
  <2>3. \A k \in Keys : ~RowActive(k)
    BY <2>2 DEF Init, RowActive, Absent
  <2> QED
    BY <2>1, <2>3 DEF Precise, Exact
<1>2. TypeOK /\ (RowsWhole /\ Precise) /\ [Next]_vars => (RowsWhole /\ Precise)'
  BY NextRowsWhole, NextPrecise
<1>3. Spec => [](RowsWhole /\ Precise)
  BY <1>1, <1>2, TypeCorrect, PTL DEF Spec
<1>4. TypeOK /\ CountsMirrorTable /\ (RowsWhole /\ Precise) => SInv
  BY DEF SInv
<1> QED
  BY <1>3, <1>4, TypeCorrect, CountsMirrored, PTL

-------------------------------------------------------------------------------
(* The mapping of the refinement, in the names above.                      *)
LEMMA MappedInit ==
  ASSUME up, now = 1, dbErrors = 0,
         cooldowns = [key \in Keys |-> Absent],
         failureCounts = [key \in Keys |-> NoCounts],
         dbLast = [key \in Keys |-> NoCounts]
  PROVE  Service!ServiceInit
<1>1. Until = [key \in Keys |-> 0]
  BY DEF Until, Deadline, Absent
<1>2. Counts = [key \in Keys |-> NoCounts]
  BY DEF Counts
<1>3. LastTicks = [key \in Keys |-> NoCounts]
  <2>1. \A reason \in Reasons : TicksPerSecond * NoCounts[reason] = 0
    BY BoundsAssumption DEF NoCounts
  <2> QED
    BY <2>1 DEF LastTicks, NoCounts
<1> QED
  BY <1>1, <1>2, <1>3, SameParameters DEF Service!ServiceInit, Until, Deadline, Counts

(* A deadline set in memory is a deadline set.                             *)
LEMMA SetsDeadline ==
  ASSUME TypeOK, up, up' = up, now' = now, NEW key \in Keys, NEW deadline,
         cooldowns' = [cooldowns EXCEPT ![key] = deadline]
  PROVE  Service!SetDeadline(key, deadline)
<1>1. Until' = [Until EXCEPT ![key] = IF now < deadline THEN deadline ELSE 0]
  BY DEF Until, Deadline, TypeOK
<1> QED
  BY <1>1, SameAhead DEF Service!SetDeadline, Until, Deadline

LEMMA MappedFailUntil ==
  ASSUME TypeOK, up, up' = up, now' = now, NEW key \in Keys, NEW deadline,
         cooldowns' = [cooldowns EXCEPT ![key] = deadline],
         failureCounts' = failureCounts, dbLast' = dbLast,
         dbErrors = 0, dbErrors' = 0
  PROVE  Service!FailUntil(key, deadline)
<1>1. Service!SetDeadline(key, deadline)
  BY SetsDeadline
<1> QED
  BY <1>1 DEF Service!FailUntil, LastTicks

LEMMA MappedFailCounted ==
  ASSUME TypeOK, up, up' = up, now' = now, NEW key \in Keys, NEW reason \in Reasons,
         failureCounts[key][reason] < MaxFailures,
         cooldowns' = [cooldowns EXCEPT
            ![key] = now + Duration(reason, failureCounts[key][reason] + 1)],
         failureCounts' = [failureCounts EXCEPT
            ![key][reason] = failureCounts[key][reason] + 1],
         dbLast' = [dbLast EXCEPT ![key][reason] = Second(now)],
         dbErrors = 0, dbErrors' = 0
  PROVE  Service!FailCounted(key, reason)
<1>n. PICK n : n = failureCounts[key][reason]
  OBVIOUS
<1>d. PICK deadline : deadline = now + Duration(reason, n + 1)
  OBVIOUS
<1>1. Service!SetDeadline(key, deadline)
  BY <1>n, <1>d, SetsDeadline
<1>5. Until' = [Until EXCEPT ![key] = Service!Ahead(deadline, now)]
  BY <1>1 DEF Service!SetDeadline, Until, Deadline
<1>6. deadline = now + Service!Duration(reason, n + 1)
  BY <1>d, SameDuration
<1>2. LastTicks' = [LastTicks EXCEPT ![key][reason] = TicksPerSecond * Second(now)]
  <2> SUFFICES ASSUME NEW k \in Keys, NEW r \in Reasons
               PROVE  TicksPerSecond * dbLast'[k][r]
                        = [LastTicks EXCEPT ![key][reason] = TicksPerSecond * Second(now)][k][r]
    BY ZenonT(60) DEF LastTicks
  <2>1. CASE k = key /\ r = reason
    BY <2>1 DEF LastTicks, TypeOK
  <2>2. CASE ~(k = key /\ r = reason)
    BY <2>2 DEF LastTicks, TypeOK
  <2> QED
    BY <2>1, <2>2
<1>3. Service!WholeSecond(now) = TicksPerSecond * Second(now)
  BY DEF Service!WholeSecond, Service!Second, Second
<1>4. Counts' = [Counts EXCEPT ![key][reason] = Counts[key][reason] + 1]
  BY DEF Counts
<1>7. Counts[key][reason] = n
  BY <1>n DEF Counts
<1>8. Counts[key][reason] < MaxFailures
  BY DEF Counts
<1>9. Until' = [Until EXCEPT ![key] =
          Service!Ahead(now + Service!Duration(reason, Counts[key][reason] + 1), now)]
  BY <1>5, <1>6, <1>7
<1> QED
  BY <1>2, <1>3, <1>4, <1>8, <1>9
  DEF Service!FailCounted, Service!SetDeadline, Until, Deadline, Counts

(* Counts and times that vanish together are forgiven.                     *)
LEMMA MappedForgive ==
  ASSUME TypeOK, RowsWhole, up, up' = up, NEW keys,
         failureCounts = dbCount,
         failureCounts' = Dropped(failureCounts, keys, NoCounts),
         dbLast' = Dropped(dbLast, {key \in keys : failureCounts[key] # NoCounts}, NoCounts)
  PROVE  Service!Forgive(keys)
<1>1. LastTicks' = [key \in Keys |-> IF key \in keys THEN NoCounts ELSE LastTicks[key]]
  <2> SUFFICES ASSUME NEW k \in Keys
               PROVE  LastTicks'[k] = IF k \in keys THEN NoCounts ELSE LastTicks[k]
    BY DEF LastTicks
  <2>1. CASE k \in keys
    <3>1. \A r \in Reasons : dbLast'[k][r] = 0
      BY <2>1 DEF Dropped, RowsWhole, NoCounts
    <3>2. \A r \in Reasons : LastTicks'[k][r] = 0
      BY <3>1, BoundsAssumption DEF LastTicks
    <3> QED
      BY <2>1, <3>2 DEF LastTicks, NoCounts
  <2>2. CASE k \notin keys
    BY <2>2 DEF Dropped, LastTicks
  <2> QED
    BY <2>1, <2>2
<1>2. failureCounts' = [key \in Keys |-> IF key \in keys THEN NoCounts ELSE failureCounts[key]]
  BY DEF Dropped
<1> QED
  BY <1>1, <1>2, SameParameters DEF Service!Forgive

(* A success forgives exactly its key.                                     *)
LEMMA MappedSucceed ==
  ASSUME SInv, NEW key \in Keys, RecordSuccess(key), dbErrors' = 0
  PROVE  Service!Succeed(key)
<1>1. PICK faults \in Faults({"deleteCounts"}) : RecordSuccess(key)!(faults)
  BY DEF RecordSuccess
<1>2. faults = {} /\ dbErrors = 0
  BY <1>1, NoFault DEF SInv
<1>3. failureCounts = dbCount
  BY <1>1, <1>2 DEF SInv, CountsMirrorTable
<1>4. Service!Forgive({key})
  <2>1. /\ failureCounts' = Dropped(failureCounts, {key}, NoCounts)
        /\ dbLast' = Dropped(dbLast, {k \in {key} : failureCounts[k] # NoCounts}, NoCounts)
    BY <1>1, <1>2 DEF ResetFailures, RowsReset
  <2> QED
    BY <1>1, <1>3, <2>1, MappedForgive DEF SInv
<1>5. Until' = Until
  BY <1>1 DEF Until, Deadline
<1> QED
  BY <1>1, <1>2, <1>4, <1>5 DEF Service!Succeed, Until, Deadline

(* A clear releases the keys the administrator named.                      *)
LEMMA MappedRelease ==
  ASSUME SInv, NEW provider \in Providers, NEW clientType \in ClientTypes \cup {AllTypes},
         ClearCooldown(provider, clientType), dbErrors' = 0
  PROVE  Service!Release(provider, clientType)
<1>1. PICK faults \in Faults({"deleteCooldowns", "deleteCounts"}) :
        ClearCooldown(provider, clientType)!(faults)
  BY DEF ClearCooldown
<1>2. faults = {} /\ dbErrors = 0
  BY <1>1, NoFault DEF SInv
<1>3. failureCounts = dbCount
  BY <1>1, <1>2 DEF SInv, CountsMirrorTable
<1>4. Service!Forgive({<<provider, clientType>>})
  <2> DEFINE keys == {<<provider, clientType>>}
  <2>1. /\ failureCounts' = Dropped(failureCounts, keys, NoCounts)
        /\ dbLast' = Dropped(dbLast, {k \in keys : failureCounts[k] # NoCounts}, NoCounts)
    BY <1>1, <1>2 DEF ResetFailures, RowsReset
  <2> HIDE DEF keys
  <2>2. Service!Forgive(keys)
    BY <1>1, <1>3, <2>1, MappedForgive DEF SInv
  <2> QED
    BY <2>2 DEF keys
<1>5. ASSUME NEW key \in Keys
      PROVE  key \in Cleared(provider, clientType)
               <=> key[1] = provider /\ clientType \in {AllTypes, key[2]}
  BY <1>5, KeysAssumption DEF Cleared, Keys
<1>6. Until' = [key \in Keys |->
          IF key[1] = provider /\ clientType \in {AllTypes, key[2]} THEN 0 ELSE Until[key]]
  <2>1. cooldowns' = Dropped(cooldowns, Cleared(provider, clientType), Absent)
    BY <1>1 DEF DropEntries
  <2>2. now \in Nat /\ now' = now /\ up /\ up'
    BY <1>1 DEF SInv, TypeOK
  <2>3. ASSUME NEW key \in Keys
        PROVE  Until'[key] = IF key \in Cleared(provider, clientType) THEN 0 ELSE Until[key]
    <3>1. CASE key \in Cleared(provider, clientType)
      <4>1. cooldowns'[key] = Absent
        BY <2>1, <3>1 DEF Dropped
      <4> QED
        BY <2>2, <3>1, <4>1 DEF Until, Deadline, Absent
    <3>2. CASE key \notin Cleared(provider, clientType)
      <4>1. cooldowns'[key] = cooldowns[key]
        BY <2>1, <3>2 DEF Dropped
      <4> QED
        BY <2>2, <3>2, <4>1 DEF Until, Deadline
    <3> QED
      BY <3>1, <3>2
  <2> QED
    BY <2>3, <1>5 DEF Until
<1> QED
  BY <1>1, <1>2, <1>4, <1>6, SameParameters DEF Service!Release, Until, Deadline

(* The cleanup forgets counts of lapsed keys and counts past Retention,    *)
(* and no deadline that is still ahead.                                    *)
LEMMA MappedForget ==
  ASSUME SInv, CleanupExpired, dbErrors' = 0
  PROVE  Service!Forget
<1>1. PICK faults \in Faults({"deleteCounts", "expireCooldowns", "expireCounts",
                              "loadCounts"}) :
        CleanupExpired!(faults)
  BY DEF CleanupExpired
<1>2. faults = {} /\ dbErrors = 0
  BY <1>1, NoFault DEF SInv
<1>3. /\ up /\ up' /\ now' = now /\ now \in Nat
      /\ failureCounts = dbCount
  BY <1>1, <1>2 DEF SInv, CountsMirrorTable, TypeOK
<1>4. Until' = Until
  <2> SUFFICES ASSUME NEW key \in Keys
               PROVE  Until'[key] = Until[key]
    BY DEF Until
  <2>1. cooldowns' = Dropped(cooldowns, Lapsed, Absent)
    BY <1>1 DEF DropEntries
  <2>2. CASE key \in Lapsed
    <3>1. cooldowns'[key] = Absent /\ cooldowns[key] < now
      BY <2>1, <2>2 DEF Dropped, Lapsed
    <3>2. cooldowns[key] \in Int
      BY DEF SInv, TypeOK, Absent
    <3> QED
      BY <1>3, <3>1, <3>2 DEF Until, Deadline, Absent
  <2>3. CASE key \notin Lapsed
    <3>1. cooldowns'[key] = cooldowns[key]
      BY <2>1, <2>3 DEF Dropped
    <3> QED
      BY <1>3, <3>1 DEF Until, Deadline
  <2> QED
    BY <2>2, <2>3
<1>5. ASSUME NEW key \in Keys, NEW reason \in Reasons
      PROVE  \/ /\ Counts'[key][reason] = Counts[key][reason]
                /\ LastTicks'[key][reason] = LastTicks[key][reason]
             \/ /\ Counts'[key][reason] = 0
                /\ LastTicks'[key][reason] = 0
                /\ \/ Until[key] = 0
                   \/ now - LastTicks[key][reason] > Retention * TicksPerSecond
  <2> DEFINE gone == \/ key \in RowsReset(Lapsed, faults)
                     \/ StaleCount(key, reason, faults)
  <2>1. /\ dbCount'[key][reason] = IF gone THEN 0 ELSE dbCount[key][reason]
        /\ dbLast'[key][reason] = IF gone THEN 0 ELSE dbLast[key][reason]
        /\ failureCounts' = dbCount'
    BY <1>1, <1>2 DEF ReadBack
  <2>2. CASE ~gone
    BY <1>3, <2>1, <2>2 DEF Counts, LastTicks
  <2>3. CASE gone
    <3>1. Counts'[key][reason] = 0
      BY <1>3, <2>1, <2>3 DEF Counts
    <3>2. LastTicks'[key][reason] = 0
      BY <2>1, <2>3, BoundsAssumption DEF LastTicks
    <3>3. CASE key \in RowsReset(Lapsed, faults)
      <4>1. key \in Lapsed
        BY <3>3 DEF RowsReset
      <4>2. cooldowns[key] \in Int /\ ~(now < cooldowns[key])
        BY <1>3, <4>1 DEF Lapsed, SInv, TypeOK, Absent
      <4>3. Until[key] = 0
        BY <1>3, <4>2 DEF Until, Deadline
      <4> QED
        BY <3>1, <3>2, <4>3
    <3>4. CASE StaleCount(key, reason, faults)
      <4>1. PICK l \in Nat : l = dbLast[key][reason]
        BY DEF SInv, TypeOK
      <4>2. Second(now) \in Nat /\ Retention \in Nat
        BY <1>3, SecondType, BoundsAssumption
      <4>3. Second(now) > l + Retention
        BY <3>4, <4>1, <4>2 DEF StaleCount
      <4>4. l + Retention + 1 <= Second(now)
        BY <4>1, <4>2, <4>3
      <4>5. TicksPerSecond * (l + Retention + 1) <= TicksPerSecond * Second(now)
        BY <4>2, <4>4, WholeSecondsOrdered
      <4>6. TicksPerSecond * Second(now) <= now
        BY <1>3, SecondBounds
      <4>7. PICK t \in Nat : t = TicksPerSecond /\ t > 0
        BY BoundsAssumption
      <4>8. t * (l + Retention + 1) = t * l + t * Retention + t
        BY <4>2, <4>7
      <4>9. /\ t * l \in Nat /\ t * Retention \in Nat /\ t * Second(now) \in Nat
            /\ t * Retention = Retention * t
        BY <4>2, <4>7
      <4>10. now - t * l > Retention * t
        BY <1>3, <4>5, <4>6, <4>7, <4>8, <4>9
      <4>11. LastTicks[key][reason] = t * l
        BY <4>1, <4>7 DEF LastTicks
      <4> QED
        BY <3>1, <3>2, <4>7, <4>10, <4>11
    <3> QED
      BY <2>3, <3>3, <3>4
  <2> QED
    BY <2>2, <2>3
<1> QED
  BY <1>2, <1>3, <1>4, <1>5, SameParameters
  DEF Service!Forget, Service!Cooling, Until, Deadline, Counts

(* A crash leaves of a cooldown what its row holds: nothing, or the        *)
(* deadline cut to the second when the driver keeps the text.              *)
LEMMA MappedRestart ==
  ASSUME SInv, Crash, dbErrors' = 0
  PROVE  Service!Restart
<1>1. /\ up /\ ~up' /\ now' = now /\ dbErrors = 0 /\ now \in Nat
      /\ dbUntil' = dbUntil /\ dbCount' = dbCount /\ dbLast' = dbLast
      /\ failureCounts = dbCount
  BY DEF Crash, dbCooldowns, dbCounts, SInv, CountsMirrorTable, TypeOK
<1>2. Counts' = Counts /\ LastTicks' = LastTicks
  BY <1>1 DEF Counts, LastTicks
<1>3. ASSUME NEW key \in Keys
      PROVE  \/ Until'[key] = 0
             \/ Until'[key] = LET whole == TicksPerSecond * Second(Until[key])
                              IN  IF now < whole THEN whole ELSE 0
  <2>1. Until'[key] = IF now < Loaded(key) THEN Loaded(key) ELSE 0
    BY <1>1 DEF Until, Deadline, Loaded, RowActive, Second
  <2>2. CASE ~RowActive(key)
    BY <1>1, <2>1, <2>2 DEF Loaded, Absent
  <2>3. CASE ~DriverKeepsText
    BY <1>1, <2>1, <2>3 DEF Loaded, ParseStored, Absent
  <2>4. CASE RowActive(key) /\ DriverKeepsText
    <3>1. Second(cooldowns[key]) = dbUntil[key]
      BY <1>1, <2>4 DEF SInv, Precise, Exact
    <3>2. Second(now) \in Nat
      BY <1>1, SecondType
    <3>3. dbUntil[key] \in Nat /\ dbUntil[key] > Second(now)
      BY <2>4, <3>2 DEF RowActive, SInv, TypeOK, Absent
    <3>4. now < TicksPerSecond * dbUntil[key]
      BY <1>1, <3>3, ActiveMeansAhead
    <3>5. cooldowns[key] \in Nat
      <4>1. cooldowns[key] \in Nat \cup {Absent}
        BY DEF SInv, TypeOK
      <4>2. ~(Second(Absent) \in Nat)
        BY BoundsAssumption DEF Second, Absent
      <4> QED
        BY <3>1, <3>3, <4>1, <4>2
    <3>6. TicksPerSecond * dbUntil[key] <= cooldowns[key]
      BY <3>1, <3>5, SecondBounds
    <3>7. TicksPerSecond * dbUntil[key] \in Nat
      BY <3>3, BoundsAssumption
    <3>8. Until[key] = cooldowns[key]
      BY <1>1, <3>4, <3>5, <3>6, <3>7 DEF Until, Deadline
    <3>9. Loaded(key) = TicksPerSecond * dbUntil[key]
      <4>1. dbUntil[key] * TicksPerSecond = TicksPerSecond * dbUntil[key]
        BY <3>3, BoundsAssumption
      <4> QED
        BY <2>4, <4>1 DEF Loaded, ParseStored
    <3> QED
      BY <2>1, <3>1, <3>8, <3>9
  <2> QED
    BY <2>2, <2>3, <2>4
<1>4. ASSUME NEW key \in Keys
      PROVE  Until'[key] \in {Until[key], 0,
                              Service!Ahead(Service!WholeSecond(Until[key]), now)}
  BY <1>3, SameAhead DEF Service!WholeSecond, Service!Second, Second
<1> QED
  BY <1>1, <1>2, <1>4, SameParameters
  DEF Service!Restart, Until, Deadline, Counts

(* A start shows its callers what the service shows already.               *)
LEMMA MappedLoad ==
  ASSUME SInv, LoadFromDatabase, dbErrors' = 0
  PROVE  UNCHANGED Service!svars
<1>1. PICK faults \in Faults({"loadCounts"}) : LoadFromDatabase!(faults)
  BY DEF LoadFromDatabase
<1>2. faults = {} /\ dbErrors = 0
  BY <1>1, NoFault DEF SInv
<1>3. Until' = Until
  BY <1>1 DEF Until, Deadline
<1>4. Counts' = Counts /\ LastTicks' = LastTicks
  BY <1>1, <1>2 DEF Counts, LastTicks, dbCounts
<1> QED
  BY <1>1, <1>2, <1>3, <1>4 DEF Service!svars, Until, Deadline, Counts

(* The clock ends cooldowns in memory and in the rows alike.               *)
LEMMA MappedTick ==
  ASSUME SInv, Tick, dbErrors' = 0
  PROVE  Service!Tick
<1>1. /\ now < MaxTime /\ now' = now + 1 /\ now \in Nat
      /\ up' = up /\ dbErrors = 0
      /\ cooldowns' = cooldowns /\ failureCounts' = failureCounts
      /\ dbUntil' = dbUntil /\ dbCount' = dbCount /\ dbLast' = dbLast
  BY DEF Tick, memory, dbCooldowns, dbCounts, SInv, TypeOK
<1>2. Counts' = Counts /\ LastTicks' = LastTicks
  BY <1>1 DEF Counts, LastTicks
<1>3. ASSUME NEW key \in Keys
      PROVE  Until'[key] = IF now + 1 < Until[key] THEN Until[key] ELSE 0
  <2>1. CASE up
    <3>1. cooldowns[key] \in Int
      BY DEF SInv, TypeOK, Absent
    <3> QED
      BY <1>1, <2>1, <3>1 DEF Until, Deadline
  <2>2. CASE ~up /\ ~RowActive(key)
    <3>1. ~RowActive(key)'
      BY <1>1, <2>2, RowStaysLapsed DEF SInv
    <3>2. ~up' /\ Loaded(key) = Absent /\ Loaded(key)' = Absent
      BY <1>1, <2>2, <3>1 DEF Loaded
    <3> QED
      BY <1>1, <2>2, <3>2 DEF Until, Deadline, Absent
  <2>3. CASE ~up /\ RowActive(key)
    <3>1. Second(now) \in Nat /\ Second(now + 1) \in Nat
      BY <1>1, SecondType
    <3>2. dbUntil[key] \in Nat
      BY <2>3, <3>1 DEF RowActive, SInv, TypeOK, Absent
    <3>3. PICK loaded \in Nat : loaded = ParseStored(dbUntil[key])
      BY <3>2, ParseType
    <3>4. Until[key] = IF now < loaded THEN loaded ELSE 0
      BY <2>3, <3>3 DEF Until, Deadline, Loaded
    <3>5. CASE RowActive(key)'
      <4>1. Until'[key] = IF now + 1 < loaded THEN loaded ELSE 0
        BY <1>1, <2>3, <3>3, <3>5 DEF Until, Deadline, Loaded, ParseStored
      <4> QED
        BY <1>1, <3>4, <4>1
    <3>6. CASE ~RowActive(key)'
      <4>1. Until'[key] = 0
        BY <1>1, <2>3, <3>6 DEF Until, Deadline, Loaded, Absent
      <4>2. ~(dbUntil[key] > Second(now + 1))
        BY <1>1, <3>6 DEF RowActive, Second
      <4>3. TicksPerSecond * dbUntil[key] <= now + 1
        BY <1>1, <3>2, <4>2, ActiveMeansAhead
      <4>4. loaded <= now + 1
        <5>1. dbUntil[key] * TicksPerSecond = TicksPerSecond * dbUntil[key]
          BY <3>2, BoundsAssumption
        <5> QED
          BY <1>1, <3>3, <4>3, <5>1 DEF ParseStored
      <4> QED
        BY <1>1, <3>4, <4>1, <4>4
    <3> QED
      BY <3>5, <3>6
  <2> QED
    BY <2>1, <2>2, <2>3
<1>4. Until' = [key \in Keys |-> Service!Ahead(Until[key], now + 1)]
  <2>1. \A key \in Keys : Until'[key] = Service!Ahead(Until[key], now + 1)
    BY <1>3, SameAhead
  <2> QED
    BY <2>1 DEF Until
<1> QED
  BY <1>1, <1>2, <1>4, SameParameters DEF Service!Tick, Until, Deadline, Counts

-------------------------------------------------------------------------------
(* Every step of the manager is a step of the service or changes nothing   *)
(* the service shows.                                                      *)
LEMMA NextMapped ==
  ASSUME SInv, [Next]_vars, dbErrors' \in Nat
  PROVE  [Service!ServiceNext]_Service!svars
<1>1. CASE dbErrors' # 0
  BY <1>1 DEF Service!ServiceNext, Service!Degrade
<1> SUFFICES ASSUME dbErrors' = 0
             PROVE  Service!ServiceNext \/ UNCHANGED Service!svars
  BY <1>1
<1>2. ASSUME NEW key \in Keys, NEW reason \in CountedReasons,
             RecordFailureByPolicy(key, reason)
      PROVE  Service!ServiceNext
  <2>1. PICK faults \in Faults({"upsertCooldown", "upsertCount"}) :
          RecordFailureByPolicy(key, reason)!(faults)
    BY <1>2 DEF RecordFailureByPolicy
  <2>2. faults = {} /\ dbErrors = 0
    BY <2>1, NoFault DEF SInv
  <2>3. reason \in Reasons
    BY ConstantsAssumption
  <2>4. Service!FailCounted(key, reason)
    BY <2>1, <2>2, <2>3, MappedFailCounted
    DEF IncrementFailure, setCooldownLocked, SInv
  <2> QED
    BY <2>3, <2>4, SameParameters DEF Service!ServiceNext
<1>3. ASSUME NEW key \in Keys, NEW reason \in ToldReasons, NEW time \in ExplicitTimes,
             RecordFailureUntil(key, reason, time)
      PROVE  Service!ServiceNext
  <2>1. Service!FailUntil(key, time)
    BY <1>3, NoFault, MappedFailUntil
    DEF RecordFailureUntil, setCooldownLocked, dbCounts, SInv
  <2> QED
    BY <2>1, SameParameters DEF Service!ServiceNext
<1>4. ASSUME NEW key \in Keys, NEW time \in ExplicitTimes, UpdateCooldown(key, time)
      PROVE  Service!ServiceNext
  <2>1. Service!FailUntil(key, time)
    BY <1>4, NoFault, MappedFailUntil
    DEF UpdateCooldown, setCooldownLocked, dbCounts, SInv
  <2> QED
    BY <2>1, SameParameters DEF Service!ServiceNext
<1>5. ASSUME NEW key \in Keys, NEW duration \in SetDurations,
             SetCooldownDuration(key, duration)
      PROVE  Service!ServiceNext
  <2>1. PICK deadline : deadline = now + duration
    OBVIOUS
  <2>2. Service!FailUntil(key, deadline)
    BY <1>5, <2>1, NoFault, MappedFailUntil
    DEF SetCooldownDuration, setCooldownLocked, dbCounts, SInv
  <2>3. Service!FailUntil(key, now + duration)
    BY <2>1, <2>2 DEF Service!FailUntil, Service!SetDeadline
  <2> QED
    BY <2>3, SameParameters DEF Service!ServiceNext
<1>6. ASSUME NEW key \in Keys, RecordSuccess(key)
      PROVE  Service!ServiceNext
  <2>1. Service!Succeed(key)
    BY <1>6, MappedSucceed
  <2> QED
    BY <2>1, SameParameters DEF Service!ServiceNext
<1>7. ASSUME NEW key \in Keys, ClearCooldown(key[1], key[2])
      PROVE  Service!ServiceNext
  <2>1. key[1] \in Providers /\ key[2] \in ClientTypes \cup {AllTypes}
    BY DEF Keys
  <2>2. Service!Release(key[1], key[2])
    BY <1>7, <2>1, MappedRelease
  <2> QED
    BY <2>1, <2>2 DEF Service!ServiceNext
<1>8. CASE CleanupExpired
  BY <1>8, MappedForget DEF Service!ServiceNext
<1>9. CASE Crash
  BY <1>9, MappedRestart DEF Service!ServiceNext
<1>10. CASE LoadFromDatabase
  BY <1>10, MappedLoad
<1>11. CASE Tick
  BY <1>11, MappedTick DEF Service!ServiceNext
<1>12. CASE UNCHANGED vars
  <2>1. Until' = Until /\ Counts' = Counts /\ LastTicks' = LastTicks
    BY <1>12 DEF vars, memory, dbCooldowns, dbCounts, Until, Deadline, Loaded,
                 RowActive, Second, Counts, LastTicks
  <2> QED
    BY <1>12, <2>1 DEF vars, Service!svars, Until, Deadline, Counts
<1> QED
  BY <1>2, <1>3, <1>4, <1>5, <1>6, <1>7, <1>8, <1>9, <1>10, <1>11, <1>12 DEF Next

(* The manager with its tracker, its tables, its crashes and its cleanups  *)
(* keeps the promise of CooldownService: what IsInCooldown would answer    *)
(* changes only as a failure, a success, a clear, a cleanup, a restart or  *)
(* the clock says, as long as the database has refused nothing.            *)
THEOREM TheServiceIsKept == Spec => ImplementsService
<1>1. Init => Service!ServiceInit
  BY MappedInit DEF Init
<1>2. SInv /\ TypeOK' /\ [Next]_vars => [Service!ServiceNext]_Service!svars
  <2> SUFFICES ASSUME SInv, TypeOK', [Next]_vars
               PROVE  [Service!ServiceNext]_Service!svars
    OBVIOUS
  <2>1. dbErrors' \in Nat
    BY ConstantsAssumption DEF TypeOK
  <2> QED
    BY <2>1, NextMapped
<1> QED
  BY <1>1, <1>2, ServiceInvariant, TypeCorrect, PTL
  DEF Spec, ImplementsService, Service!ServiceSpec

(* One cleanup none of whose statements is refused makes memory and the    *)
(* failure_counts table agree, whatever refused statements left behind.    *)
THEOREM CleanupMends == Spec => CleanupHeals
<1>1. TypeOK /\ [Next]_vars
        => [CleanupExpired /\ dbErrors' = dbErrors => failureCounts' = dbCount']_vars
  <2> SUFFICES ASSUME TypeOK, CleanupExpired, dbErrors' = dbErrors
               PROVE  failureCounts' = dbCount'
    OBVIOUS
  <2>1. PICK faults \in Faults({"deleteCounts", "expireCooldowns", "expireCounts",
                                "loadCounts"}) :
          CleanupExpired!(faults)
    BY DEF CleanupExpired
  <2>2. faults = {}
    BY <2>1, ConstantsAssumption DEF CountFault, TypeOK
  <2> QED
    BY <2>1, <2>2 DEF ReadBack
<1> QED
  BY <1>1, TypeCorrect, PTL DEF Spec, CleanupHeals
===============================================================================
