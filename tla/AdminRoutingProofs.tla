-------------------------- MODULE AdminRoutingProofs --------------------------
(***************************************************************************)
(* Theorems about the administrator's operations on tables and caches, for *)
(* any client types, projects, numbers of rows, operations and faults.     *)
(***************************************************************************)
EXTENDS AdminRouting, SequenceLemmas, FiniteSetTheorems

-------------------------------------------------------------------------------
(* Tables and caches: functions from some of the ids given out to rows.    *)
Maps(n, R) == UNION {[D -> R] : D \in SUBSET (1..n - 1)}

LEMMA MapFacts ==
  ASSUME NEW n \in Nat, NEW R, NEW f \in Maps(n, R)
  PROVE  /\ DOMAIN f \subseteq 1..n - 1 /\ DOMAIN f \subseteq Nat /\ IsFiniteSet(DOMAIN f)
         /\ f = [x \in DOMAIN f |-> f[x]] /\ f \in [DOMAIN f -> R]
         /\ \A x \in DOMAIN f : f[x] \in R
<1>1. PICK D \in SUBSET (1..n - 1) : f \in [D -> R]
  BY DEF Maps
<1>2. IsFiniteSet(1..n - 1)
  <2>1. 1 \in Int /\ n - 1 \in Int
    OBVIOUS
  <2> QED
    BY <2>1, FS_Interval
<1>3. IsFiniteSet(DOMAIN f)
  BY <1>1, <1>2, FS_Subset
<1>4. DOMAIN f \subseteq Nat
  BY <1>1
<1> QED
  BY <1>1, <1>3, <1>4

LEMMA MapMade ==
  ASSUME NEW n, NEW R, NEW D \in SUBSET (1..n - 1), NEW f \in [D -> R]
  PROVE  f \in Maps(n, R)
BY DEF Maps

LEMMA PutFacts ==
  ASSUME NEW f, NEW x, NEW v
  PROVE  /\ DOMAIN Put(f, x, v) = DOMAIN f \cup {x} /\ Put(f, x, v)[x] = v
         /\ \A y \in DOMAIN f : y # x => Put(f, x, v)[y] = f[y]
BY DEF Put

LEMMA DropFacts ==
  ASSUME NEW f, NEW x
  PROVE  /\ DOMAIN Drop(f, x) = DOMAIN f \ {x}
         /\ \A y \in DOMAIN f : y # x => Drop(f, x)[y] = f[y]
BY DEF Drop, Restrict

LEMMA WriteFacts ==
  ASSUME NEW f, NEW x, NEW v
  PROVE  /\ v = NoRow => DOMAIN Write(f, x, v) = DOMAIN f \ {x}
         /\ v # NoRow => x \in DOMAIN Write(f, x, v) /\ Write(f, x, v)[x] = v
         /\ v # NoRow => DOMAIN Write(f, x, v) = DOMAIN f \cup {x}
         /\ \A y : y # x => (y \in DOMAIN Write(f, x, v) <=> y \in DOMAIN f)
         /\ \A y \in DOMAIN f : y # x => Write(f, x, v)[y] = f[y]
<1>1. CASE v = NoRow
  <2>1. Write(f, x, v) = Drop(f, x)
    BY <1>1 DEF Write
  <2> DEFINE g == Drop(f, x)
  <2>2. DOMAIN g = DOMAIN f \ {x} /\ \A y \in DOMAIN f : y # x => g[y] = f[y]
    BY DropFacts
  <2> HIDE DEF g
  <2> QED
    BY <1>1, <2>1, <2>2 DEF g
<1>2. CASE v # NoRow
  <2>1. Write(f, x, v) = Put(f, x, v)
    BY <1>2 DEF Write
  <2> DEFINE g == Put(f, x, v)
  <2>2. /\ DOMAIN g = DOMAIN f \cup {x} /\ g[x] = v
        /\ \A y \in DOMAIN f : y # x => g[y] = f[y]
    BY DEF Put
  <2> HIDE DEF g
  <2> QED
    BY <1>2, <2>1, <2>2 DEF g
<1> QED
  BY <1>1, <1>2

LEMMA MapPut ==
  ASSUME NEW n \in Nat, NEW R, NEW f \in Maps(n, R), NEW x \in 1..n - 1, NEW v \in R
  PROVE  Put(f, x, v) \in Maps(n, R)
<1> DEFINE D == DOMAIN f \cup {x}
<1>1. D \in SUBSET (1..n - 1) /\ \A y \in DOMAIN f : f[y] \in R
  BY MapFacts
<1>2. Put(f, x, v) = [y \in D |-> IF y = x THEN v ELSE f[y]]
  BY DEF Put
<1>3. \A y \in D : (IF y = x THEN v ELSE f[y]) \in R
  BY <1>1
<1> HIDE DEF D
<1>4. Put(f, x, v) \in [D -> R]
  BY <1>2, <1>3
<1> QED
  BY <1>1, <1>4, MapMade

LEMMA MapRestrict ==
  ASSUME NEW n \in Nat, NEW R, NEW f \in Maps(n, R), NEW S \in SUBSET DOMAIN f
  PROVE  Restrict(f, S) \in Maps(n, R)
<1>1. S \in SUBSET (1..n - 1) /\ \A y \in S : f[y] \in R
  BY MapFacts
<1>2. Restrict(f, S) \in [S -> R]
  BY <1>1 DEF Restrict
<1> QED
  BY <1>1, <1>2, MapMade

LEMMA MapDrop ==
  ASSUME NEW n \in Nat, NEW R, NEW f \in Maps(n, R), NEW x
  PROVE  Drop(f, x) \in Maps(n, R)
BY MapRestrict DEF Drop

LEMMA MapWrite ==
  ASSUME NEW n \in Nat, NEW R, NEW f \in Maps(n, R), NEW x \in 1..n - 1, NEW v \in R \cup {NoRow}
  PROVE  Write(f, x, v) \in Maps(n, R)
BY MapPut, MapDrop DEF Write

LEMMA MapGrow ==
  ASSUME NEW n \in Nat, NEW m \in Nat, n <= m, NEW R, NEW S, R \subseteq S,
         NEW f \in Maps(n, R)
  PROVE  f \in Maps(m, S)
<1>1. DOMAIN f \in SUBSET (1..n - 1) /\ f \in [DOMAIN f -> R]
  BY MapFacts
<1>2. DOMAIN f \in SUBSET (1..m - 1)
  BY <1>1
<1>3. f \in [DOMAIN f -> S]
  BY <1>1
<1> QED
  BY <1>2, <1>3, MapMade

(* A set of ids has a greatest.                                            *)
LEMMA MaxOf ==
  ASSUME NEW n \in Nat, NEW S \in SUBSET (1..n - 1), S # {}
  PROVE  Max(S) \in S /\ Min(S) \in S
<1>1. IsFiniteSet(S) /\ S \in SUBSET Nat
  <2>2. S \in SUBSET Nat
    OBVIOUS
  <2>1. 1 \in Int /\ n - 1 \in Int
    OBVIOUS
  <2> QED
    <3>1. IsFiniteSet(1..n - 1)
      BY <2>1, FS_Interval
    <3>2. S \subseteq 1..n - 1
      OBVIOUS
    <3>3. IsFiniteSet(S)
      BY <3>1, <3>2, FS_Subset
    <3> QED
      BY <2>2, <3>3
<1>2. \E x \in S : \A y \in S : y <= x
  <2> DEFINE U == {x \in Nat : \A y \in S : y <= x}
  <2>1. n \in U
    OBVIOUS
  <2>2. PICK x \in U : \A y \in U : ~ (<<y, x>> \in OpToRel(<, Nat))
    <3>1. U \subseteq Nat /\ U # {}
      BY <2>1
    <3> HIDE DEF U
    <3> QED
      BY <3>1, NatLessThanWellFounded, WFMin
  <2>3. SUFFICES ASSUME x \notin S PROVE FALSE
    OBVIOUS
  <2>4. \A y \in S : y <= x - 1
    BY <2>3
  <2>5. x - 1 \in U
    <3>1. PICK z \in S : TRUE
      OBVIOUS
    <3>2. z >= 1 /\ z <= x - 1
      BY <2>4
    <3>3. x - 1 \in Nat
      BY <3>2
    <3> QED
      BY <2>4, <3>3
  <2>6. <<x - 1, x>> \in OpToRel(<, Nat)
    BY <2>5 DEF OpToRel
  <2> QED
    BY <2>2, <2>5, <2>6
<1>3. \E x \in S : \A y \in S : x <= y
  <2>1. PICK x \in S : \A y \in S : ~ (<<y, x>> \in OpToRel(<, Nat))
    BY <1>1, NatLessThanWellFounded, WFMin
  <2>2. ASSUME NEW y \in S PROVE x <= y
    <3>1. y < x => <<y, x>> \in OpToRel(<, Nat)
      BY <1>1 DEF OpToRel
    <3>2. x \in Nat /\ y \in Nat
      BY <1>1
    <3>3. ~ (y < x)
      BY <2>1, <3>1
    <3> QED
      BY ONLY <3>2, <3>3
  <2> QED
    BY <2>2
<1>4. \A y, x \in S : y <= x <=> x >= y
  BY <1>1
<1>5. Max(S) \in S
  BY <1>2, <1>4 DEF Max
<1>6. Min(S) \in S
  BY <1>3 DEF Min
<1> QED
  BY <1>5, <1>6

-------------------------------------------------------------------------------
(* The rows of each table, and the steps of an operation.                  *)
ProviderRows(k) == [types : SUBSET ClientTypes, ok : BOOLEAN, version : 0..k, deleted : BOOLEAN]
RouteRows == [project : Projects, client : ClientTypes, provider : Nat, enabled : BOOLEAN,
              native : BOOLEAN, config : Nat]
ConfigRows == [flag : BOOLEAN]
PlanRows == [project : Projects, type : StrategyTypes]

Plans == UNION {[D -> [id : Nat, type : StrategyTypes]] : D \in SUBSET Projects}

TableNames == {"providers", "routes", "configs", "strategies"}

Numbers == [providers : Nat \ {0}, routes : Nat \ {0}, configs : Nat \ {0},
            strategies : Nat \ {0}]

Tables(n, k) ==
    [providers : Maps(n.providers, ProviderRows(k)), routes : Maps(n.routes, RouteRows),
     configs : Maps(n.configs, ConfigRows), strategies : Maps(n.strategies, PlanRows)]

Caches(n, k) ==
    [providers : Maps(n.providers, ProviderRows(k)), routes : Maps(n.routes, RouteRows),
     configs : Maps(n.configs, ConfigRows), default : Nat, strategies : Plans,
     adapters : Maps(n.providers, 0..k)]

Do == {"statement", "cache"}
ProviderWrites(n, k) == [do : Do, table : {"providers"}, id : 1..n.providers - 1,
                         row : ProviderRows(k), heed : {TRUE}]
RouteWrites(n) == [do : Do, table : {"routes"}, id : 1..n.routes - 1,
                   row : RouteRows \cup {NoRow}, heed : BOOLEAN]
ConfigWrites(n) == [do : Do, table : {"configs"}, id : 1..n.configs - 1,
                    row : ConfigRows \cup {NoRow}, heed : {TRUE}]
PlanWrites(n) == [do : Do, table : {"strategies"}, id : 1..n.strategies - 1,
                  row : PlanRows \cup {NoRow}, heed : {TRUE}]
Edits(n) == [do : {"edit"}, id : 1..n.routes - 1, row : RouteRows]
Refreshes(n, k) == [do : {"refresh"}, id : 1..n.providers - 1, row : ProviderRows(k)]
Removals(n) == [do : {"remove adapter"}, id : 1..n.providers - 1]
Syncs(n) == [do : {"sync"}, id : 1..n.providers - 1, types : SUBSET ClientTypes,
             old : SUBSET ClientTypes]

Writes(n, k) == ProviderWrites(n, k) \cup RouteWrites(n) \cup ConfigWrites(n) \cup PlanWrites(n)
Steps(n, k) == Writes(n, k) \cup Edits(n) \cup Refreshes(n, k) \cup Removals(n) \cup Syncs(n)

LEMMA RowsAreRows ==
  /\ \A k : NoRow \notin ProviderRows(k)
  /\ NoRow \notin RouteRows /\ NoRow \notin ConfigRows /\ NoRow \notin PlanRows
<1>1. DOMAIN NoRow = {"none"}
  BY DEF NoRow
<1>2. "none" \notin {"types", "ok", "version", "deleted", "project", "client", "provider",
                     "enabled", "native", "config", "flag", "type"}
  OBVIOUS
<1>3. \A k : NoRow \notin ProviderRows(k)
  <2>1. SUFFICES ASSUME NEW k, NEW r \in ProviderRows(k) PROVE DOMAIN r # {"none"}
    BY <1>1
  <2> QED
    BY <1>2 DEF ProviderRows
<1>4. NoRow \notin RouteRows
  <2>1. SUFFICES ASSUME NEW r \in RouteRows PROVE DOMAIN r # {"none"}
    BY <1>1
  <2> QED
    BY <1>2 DEF RouteRows
<1>5. NoRow \notin ConfigRows
  <2>1. SUFFICES ASSUME NEW r \in ConfigRows PROVE DOMAIN r # {"none"}
    BY <1>1
  <2> QED
    BY <1>2 DEF ConfigRows
<1>6. NoRow \notin PlanRows
  <2>1. SUFFICES ASSUME NEW r \in PlanRows PROVE DOMAIN r # {"none"}
    BY <1>1
  <2> QED
    BY <1>2 DEF PlanRows
<1> QED
  BY <1>3, <1>4, <1>5, <1>6

LEMMA StepKinds ==
  ASSUME NEW n, NEW k, NEW x \in Steps(n, k)
  PROVE  /\ x.do \in {"statement", "cache", "edit", "refresh", "remove adapter", "sync"}
         /\ x.do \in Do => x \in Writes(n, k)
         /\ x.do = "edit" => x \in Edits(n)
         /\ x.do = "refresh" => x \in Refreshes(n, k)
         /\ x.do = "remove adapter" => x \in Removals(n)
         /\ x.do = "sync" => x \in Syncs(n)
<1>1. \A y \in Writes(n, k) : y.do \in Do
  BY DEF Writes, ProviderWrites, RouteWrites, ConfigWrites, PlanWrites
<1>2. \A y \in Edits(n) : y.do = "edit"
  BY DEF Edits
<1>3. \A y \in Refreshes(n, k) : y.do = "refresh"
  BY DEF Refreshes
<1>4. \A y \in Removals(n) : y.do = "remove adapter"
  BY DEF Removals
<1>5. \A y \in Syncs(n) : y.do = "sync"
  BY DEF Syncs
<1> QED
  BY <1>1, <1>2, <1>3, <1>4, <1>5 DEF Steps, Do

LEMMA WriteKinds ==
  ASSUME NEW n, NEW k, NEW x \in Writes(n, k)
  PROVE  /\ x.table \in {"providers", "routes", "configs", "strategies"} /\ x.do \in Do
         /\ x.table = "providers" => x \in ProviderWrites(n, k)
         /\ x.table = "routes" => x \in RouteWrites(n)
         /\ x.table = "configs" => x \in ConfigWrites(n)
         /\ x.table = "strategies" => x \in PlanWrites(n)
<1>1. \A y \in ProviderWrites(n, k) : y.table = "providers" /\ y.do \in Do
  BY DEF ProviderWrites
<1>2. \A y \in RouteWrites(n) : y.table = "routes" /\ y.do \in Do
  BY DEF RouteWrites
<1>3. \A y \in ConfigWrites(n) : y.table = "configs" /\ y.do \in Do
  BY DEF ConfigWrites
<1>4. \A y \in PlanWrites(n) : y.table = "strategies" /\ y.do \in Do
  BY DEF PlanWrites
<1> QED
  BY <1>1, <1>2, <1>3, <1>4 DEF Writes

LEMMA WriteFields ==
  ASSUME NEW n \in Numbers, NEW k, NEW x \in Writes(n, k)
  PROVE  x.table \in TableNames /\ x.id \in Nat
<1>1. x.table \in TableNames
  BY WriteKinds DEF TableNames
<1>2. n.providers \in Nat /\ n.routes \in Nat /\ n.configs \in Nat /\ n.strategies \in Nat
  BY DEF Numbers
<1>3. \A y \in ProviderWrites(n, k) : y.id \in Nat
  BY <1>2 DEF ProviderWrites
<1>4. \A y \in RouteWrites(n) : y.id \in Nat
  BY <1>2 DEF RouteWrites
<1>5. \A y \in ConfigWrites(n) : y.id \in Nat
  BY <1>2 DEF ConfigWrites
<1>6. \A y \in PlanWrites(n) : y.id \in Nat
  BY <1>2 DEF PlanWrites
<1> QED
  BY <1>1, <1>3, <1>4, <1>5, <1>6 DEF Writes

LEMMA AsCached ==
  ASSUME NEW n, NEW k, NEW x \in Writes(n, k)
  PROVE  LET y == [x EXCEPT !.do = "cache"]
         IN  /\ y \in Writes(n, k) /\ y.do = "cache" /\ y.table = x.table /\ y.id = x.id
             /\ y.row = x.row /\ y.heed = x.heed
<1>1. "cache" \in Do
  BY DEF Do
<1>2. \A y \in ProviderWrites(n, k) : LET z == [y EXCEPT !.do = "cache"] IN
        /\ z \in ProviderWrites(n, k) /\ z.do = "cache" /\ z.table = y.table /\ z.id = y.id
        /\ z.row = y.row /\ z.heed = y.heed
  BY <1>1 DEF ProviderWrites
<1>3. \A y \in RouteWrites(n) : LET z == [y EXCEPT !.do = "cache"] IN
        /\ z \in RouteWrites(n) /\ z.do = "cache" /\ z.table = y.table /\ z.id = y.id
        /\ z.row = y.row /\ z.heed = y.heed
  BY <1>1 DEF RouteWrites
<1>4. \A y \in ConfigWrites(n) : LET z == [y EXCEPT !.do = "cache"] IN
        /\ z \in ConfigWrites(n) /\ z.do = "cache" /\ z.table = y.table /\ z.id = y.id
        /\ z.row = y.row /\ z.heed = y.heed
  BY <1>1 DEF ConfigWrites
<1>5. \A y \in PlanWrites(n) : LET z == [y EXCEPT !.do = "cache"] IN
        /\ z \in PlanWrites(n) /\ z.do = "cache" /\ z.table = y.table /\ z.id = y.id
        /\ z.row = y.row /\ z.heed = y.heed
  BY <1>1 DEF PlanWrites
<1> QED
  BY <1>2, <1>3, <1>4, <1>5 DEF Writes

-------------------------------------------------------------------------------
(* How an operation's steps follow one another. A provider is saved before *)
(* its adapter is made, a route's edit is followed by its statement, and a *)
(* provider's deletion by the removal of its adapter.                      *)
IsWrite(x, table) == x.do \in Do /\ x.table = table
IsSave(x) == IsWrite(x, "providers") /\ ~x.row.deleted
IsDelete(x) == IsWrite(x, "providers") /\ x.row.deleted

Same(x, y) == x.id = y.id /\ x.row = y.row

Placed(q, i, k) ==
    /\ q[i].do = "cache" => i = 1
    /\ q[i].do = "edit" =>
          i + 1 <= Len(q) /\ q[i + 1].do = "statement" /\ q[i + 1].table = "routes"
             /\ Same(q[i + 1], q[i])
    /\ q[i].do = "refresh" =>
          /\ ~q[i].row.deleted /\ q[i].row.version = k
          /\ i = 1 \/ (i = 2 /\ IsSave(q[1]) /\ Same(q[1], q[i]))
    /\ q[i].do = "sync" => i = Len(q)
    /\ IsSave(q[i]) =>
          /\ i = 1 /\ q[i].row.version = k
          /\ 2 <= Len(q) /\ q[2].do = "refresh" /\ Same(q[2], q[1])
    /\ IsDelete(q[i]) => i = 1 \/ (q[i - 1].do = "remove adapter" /\ q[i - 1].id = q[i].id)
    /\ q[i].do = "remove adapter" =>
          i + 1 <= Len(q) /\ q[i + 1].do = "statement" /\ IsDelete(q[i + 1])
             /\ q[i + 1].id = q[i].id

Shaped(q, n, k) == q \in Seq(Steps(n, k)) /\ \A i \in 1..Len(q) : Placed(q, i, k)

LEMMA TailFacts ==
  ASSUME NEW S, NEW q \in Seq(S), q # <<>>
  PROVE  /\ Len(q) \in Nat \ {0} /\ Head(q) = q[1] /\ q[1] \in S
         /\ Tail(q) \in Seq(S) /\ Len(Tail(q)) = Len(q) - 1
         /\ \A i \in 1..Len(q) - 1 : Tail(q)[i] = q[i + 1]
BY HeadTailProperties

LEMMA PlacedInTail ==
  ASSUME NEW q, NEW t, NEW k, Len(q) \in Nat, Len(t) = Len(q) - 1,
         \A i \in 1..Len(t) : t[i] = q[i + 1],
         NEW j \in 1..Len(t), Placed(q, j + 1, k)
  PROVE  Placed(t, j, k)
<1>1. /\ j \in Nat /\ j >= 1 /\ j + 1 # 1 /\ (j + 1) - 1 = j /\ t[j] = q[j + 1]
      /\ j + 1 = Len(q) <=> j = Len(t)
  OBVIOUS
<1>2. /\ q[j + 1].do # "cache" /\ ~ IsSave(q[j + 1])
      /\ q[j + 1].do = "sync" => j = Len(t)
      /\ q[j + 1].do = "refresh" =>
          /\ ~q[j + 1].row.deleted /\ q[j + 1].row.version = k
          /\ j + 1 = 2
      /\ q[j + 1].do = "edit" =>
          (j + 1) + 1 <= Len(q) /\ q[(j + 1) + 1].do = "statement"
             /\ q[(j + 1) + 1].table = "routes" /\ Same(q[(j + 1) + 1], q[j + 1])
      /\ q[j + 1].do = "remove adapter" =>
          (j + 1) + 1 <= Len(q) /\ q[(j + 1) + 1].do = "statement" /\ IsDelete(q[(j + 1) + 1])
             /\ q[(j + 1) + 1].id = q[j + 1].id
      /\ IsDelete(q[j + 1]) => q[j].do = "remove adapter" /\ q[j].id = q[j + 1].id
  BY <1>1 DEF Placed
<1>3. (j + 1) + 1 <= Len(q) => j + 1 <= Len(t) /\ t[j + 1] = q[(j + 1) + 1]
  OBVIOUS
<1>4. j # 1 => t[j - 1] = q[j]
  OBVIOUS
<1> DEFINE x == q[j + 1]
           y == q[(j + 1) + 1]
<1>5. t[j] = x
  BY <1>1
<1>6. x.do = "edit" => j + 1 <= Len(t) /\ t[j + 1].do = "statement"
                       /\ t[j + 1].table = "routes" /\ Same(t[j + 1], x)
  BY <1>2, <1>3
<1>7. x.do = "remove adapter" => j + 1 <= Len(t) /\ t[j + 1].do = "statement"
                                 /\ IsDelete(t[j + 1]) /\ t[j + 1].id = x.id
  BY <1>2, <1>3
<1>8. IsDelete(x) => j = 1 \/ (t[j - 1].do = "remove adapter" /\ t[j - 1].id = x.id)
  BY <1>2, <1>4
<1>9. x.do = "refresh" => ~x.row.deleted /\ x.row.version = k /\ j = 1
  <2>1. j + 1 = 2 => j = 1
    OBVIOUS
  <2> QED
    BY <1>2, <2>1
<1>10. x.do # "cache" /\ ~ IsSave(x) /\ (x.do = "sync" => j = Len(t))
  BY <1>2
<1> HIDE DEF x
<1> QED
  BY <1>5, <1>6, <1>7, <1>8, <1>9, <1>10 DEF Placed

LEMMA TailShaped ==
  ASSUME NEW q, NEW n, NEW k, q # <<>>, Shaped(q, n, k)
  PROVE  Shaped(Tail(q), n, k)
<1>1. /\ Len(q) \in Nat \ {0} /\ Tail(q) \in Seq(Steps(n, k)) /\ Len(Tail(q)) = Len(q) - 1
      /\ \A i \in 1..Len(q) - 1 : Tail(q)[i] = q[i + 1]
  BY TailFacts DEF Shaped
<1> DEFINE t == Tail(q)
<1>2. ASSUME NEW j \in 1..Len(t) PROVE Placed(t, j, k)
  <2>1. /\ Len(t) = Len(q) - 1 /\ \A i \in 1..Len(t) : t[i] = q[i + 1]
    BY <1>1
  <2> HIDE DEF t
  <2>2. j + 1 \in 1..Len(q)
    BY <1>1, <2>1
  <2>3. Placed(q, j + 1, k)
    BY <2>2 DEF Shaped
  <2> QED
    BY <1>1, <2>1, <2>3, PlacedInTail
<1> QED
  BY <1>1, <1>2 DEF Shaped

(* A step is replaced by another for the same row, its write to the cache. *)
LEMMA ReplacedFacts ==
  ASSUME NEW S, NEW q \in Seq(S), q # <<>>, NEW y \in S
  PROVE  /\ <<y>> \o Tail(q) \in Seq(S) /\ Len(<<y>> \o Tail(q)) = Len(q)
         /\ (<<y>> \o Tail(q))[1] = y
         /\ \A i \in 2..Len(q) : (<<y>> \o Tail(q))[i] = q[i]
<1>1. /\ Len(q) \in Nat \ {0} /\ Tail(q) \in Seq(S) /\ Len(Tail(q)) = Len(q) - 1
      /\ \A i \in 1..Len(q) - 1 : Tail(q)[i] = q[i + 1]
  BY TailFacts
<1> DEFINE t == Tail(q)
<1>2. <<y>> \in Seq(S) /\ Len(<<y>>) = 1 /\ <<y>>[1] = y
  OBVIOUS
<1>3. t \in Seq(S) /\ Len(t) = Len(q) - 1 /\ \A i \in 1..Len(q) - 1 : t[i] = q[i + 1]
  BY <1>1
<1> HIDE DEF t
<1>4. <<y>> \o t \in Seq(S) /\ Len(<<y>> \o t) = Len(q) /\ (<<y>> \o t)[1] = y
  <2>1. <<y>> \o t \in Seq(S)
    BY <1>2, <1>3
  <2>2. Len(<<y>> \o t) = 1 + Len(t)
    BY <1>2, <1>3
  <2>3. 1 + Len(t) = Len(q)
    BY <1>1, <1>3
  <2>4. (<<y>> \o t)[1] = y
    BY <1>2, <1>3
  <2> QED
    BY <2>1, <2>2, <2>3, <2>4
<1>5. ASSUME NEW i \in 2..Len(q) PROVE (<<y>> \o t)[i] = q[i]
  <2>1. i \in 1 + 1..1 + Len(t) /\ i - 1 \in 1..Len(q) - 1 /\ (i - 1) + 1 = i
    BY <1>1, <1>3
  <2>2. (<<y>> \o t)[i] = t[i - 1]
    BY <1>2, <1>3, <2>1
  <2> QED
    BY <1>3, <2>1, <2>2
<1> QED
  BY <1>4, <1>5 DEF t

LEMMA ReplacedShaped ==
  ASSUME NEW q, NEW n, NEW k, q # <<>>, Shaped(q, n, k), q[1].do = "statement"
  PROVE  LET p == <<[q[1] EXCEPT !.do = "cache"]>> \o Tail(q)
         IN  /\ Shaped(p, n, k) /\ p # <<>> /\ Len(p) = Len(q)
             /\ p[1].do = "cache" /\ p[1].table = q[1].table /\ Same(p[1], q[1])
<1> DEFINE y == [q[1] EXCEPT !.do = "cache"]
           p == <<y>> \o Tail(q)
<1>1. q \in Seq(Steps(n, k)) /\ Len(q) \in Nat \ {0} /\ q[1] \in Steps(n, k)
  BY TailFacts DEF Shaped
<1>2. q[1] \in Writes(n, k)
  BY <1>1, StepKinds DEF Do
<1>3. /\ y \in Writes(n, k) /\ y.do = "cache" /\ y.table = q[1].table /\ y.id = q[1].id
      /\ y.row = q[1].row
  BY <1>2, AsCached
<1>4. y \in Steps(n, k)
  BY <1>3 DEF Steps
<1> HIDE DEF y
<1>5. /\ p \in Seq(Steps(n, k)) /\ Len(p) = Len(q) /\ p[1] = y
      /\ \A i \in 2..Len(q) : p[i] = q[i]
  BY <1>1, <1>4, ReplacedFacts
<1> HIDE DEF p
<1>6. ASSUME NEW i \in 1..Len(p) PROVE Placed(p, i, k)
  <2>1. Placed(q, i, k) /\ Placed(q, 1, k)
    BY <1>1, <1>5 DEF Shaped
  <2>2. CASE i = 1
    <3>1. IsSave(y) <=> IsSave(q[1])
      BY <1>2, <1>3 DEF IsSave, IsWrite, Do
    <3>2. 2 <= Len(q) => p[2] = q[2]
      BY <1>1, <1>5
    <3>3. 2 <= Len(q) /\ Same(q[2], q[1]) => Same(p[2], y)
      BY <1>3, <3>2 DEF Same
    <3> QED
      BY <1>3, <1>5, <2>1, <2>2, <3>1, <3>2, <3>3 DEF Placed
  <2>3. CASE i # 1
    <3>1. p[i] = q[i] /\ (i + 1 <= Len(p) => p[i + 1] = q[i + 1])
      BY <1>1, <1>5, <2>3
    <3>2. IsSave(q[1]) => IsSave(p[1])
      BY <1>3, <1>5 DEF IsSave, IsWrite, Do
    <3>3. Same(q[1], q[i]) => Same(p[1], q[i])
      BY <1>3, <1>5 DEF Same
    <3>4. q[i - 1].do = "remove adapter" => p[i - 1] = q[i - 1]
      <4>1. CASE i = 2
        <5>1. i - 1 = 1
          BY <4>1
        <5> QED
          BY <5>1
      <4>2. CASE i # 2
        <5>1. i - 1 \in 2..Len(q)
          BY <1>1, <1>5, <2>3, <4>2
        <5> QED
          BY <1>5, <5>1
      <4> QED
        BY <4>1, <4>2
    <3>5. ~ IsSave(q[i])
      BY <2>1, <2>3 DEF Placed
    <3> QED
      BY <1>5, <2>1, <2>3, <3>1, <3>2, <3>3, <3>4, <3>5 DEF Placed
  <2> QED
    BY <2>2, <2>3
<1>7. Shaped(p, n, k)
  BY <1>5, <1>6 DEF Shaped
<1>8. p # <<>>
  BY <1>1, <1>5
<1> QED
  BY <1>3, <1>5, <1>7, <1>8 DEF p, y, Same

-------------------------------------------------------------------------------
(* The invariant. First the types, with the steps an operation has left.   *)
Ghosts == [drifted : SUBSET (TableNames \X Nat), manual : SUBSET (Nat \X ClientTypes),
           torn : BOOLEAN, partial : BOOLEAN, revived : SUBSET Nat]

Types ==
    /\ ops \in Nat /\ next \in Numbers
    /\ db \in Tables(next, ops) /\ mem \in Caches(next, ops)
    /\ Shaped(todo, next, ops)
    /\ match.pc \in {"idle", "filtered", "matched"}
    /\ match = [pc |-> match.pc, routes |-> match.routes, default |-> match.default,
                gone |-> match.gone, matched |-> match.matched]
    /\ ghost \in Ghosts

(* What the first of these steps finds: a row to cache is the table's, the *)
(* provider of an adapter to make is cached, the adapter of a provider to  *)
(* delete is removed, and a provider to save is not deleted or was revived.*)
Heads ==
    todo # <<>> =>
        /\ todo[1].do = "cache" =>
              IF todo[1].row = NoRow THEN todo[1].id \notin DOMAIN db[todo[1].table]
              ELSE /\ todo[1].id \in DOMAIN db[todo[1].table]
                   /\ db[todo[1].table][todo[1].id] = RowWritten(todo[1])
        /\ todo[1].do = "refresh" =>
              todo[1].id \in DOMAIN mem.providers /\ mem.providers[todo[1].id] = todo[1].row
        /\ IsDelete(todo[1]) => todo[1].id \notin DOMAIN mem.adapters
        /\ (IsSave(todo[1]) \/ todo[1].do = "refresh") /\ todo[1].id \in Gone(db) =>
              todo[1].id \in ghost.revived

(* Caches and adapters are of rows there are, an adapter is not newer than *)
(* its provider, and none is left of a deleted provider.                   *)
Founded ==
    /\ DOMAIN mem.adapters \subseteq DOMAIN db.providers
    /\ DOMAIN mem.providers \subseteq DOMAIN db.providers
    /\ mem.default \in DOMAIN mem.configs \cup {NoId}
    /\ \A p \in DOMAIN mem.adapters \cap DOMAIN mem.providers :
          mem.adapters[p] <= mem.providers[p].version
    /\ \A p \in Gone(db) \cap DOMAIN mem.adapters : p \in ghost.revived

(* A cache and its table differ where a write to the cache is due, or was  *)
(* made before a statement that is due or was refused.                     *)
Due(table, id) ==
    todo # <<>> /\ todo[1].do = "cache" /\ todo[1].table = table /\ todo[1].id = id

EditedBefore(r) ==
    /\ todo # <<>> /\ todo[1].do = "statement" /\ todo[1].table = "routes"
    /\ todo[1].id = r /\ todo[1].row # NoRow /\ r \in DOMAIN mem.routes

Agree(f, g, x) == (x \in DOMAIN f <=> x \in DOMAIN g) /\ (x \in DOMAIN f => f[x] = g[x])

RoutesAgree ==
    \A r \in Nat : \/ Agree(mem.routes, db.routes, r) \/ <<"routes", r>> \in ghost.drifted
                   \/ Due("routes", r) \/ EditedBefore(r)

ProvidersAgree ==
    \A p \in Nat : \/ Agree(mem.providers, LoadProviders(db), p) \/ p \in ghost.revived
                   \/ Due("providers", p)

ConfigsAgree ==
    \A c \in Nat : (c \in DOMAIN mem.configs <=> c \in DOMAIN db.configs) \/ Due("configs", c)

DefaultFlagged ==
    mem.default \in Flagged(db) \cup {NoId} \/ Due("configs", mem.default)

Held(e, project) ==
    /\ e.id \in DOMAIN db.strategies
    /\ db.strategies[e.id] = [project |-> project, type |-> e.type]

StrategiesAgree ==
    \A p \in DOMAIN mem.strategies :
        Held(mem.strategies[p], p) \/ Due("strategies", mem.strategies[p].id)

(* The adapter of a provider is about to be made or removed.               *)
Awaits(p) ==
    /\ todo # <<>>
    /\ \/ todo[1].do = "refresh" \/ Due("providers", p)
       \/ todo[1].do = "statement" /\ IsDelete(todo[1])
    /\ todo[1].id = p

AdaptersFit ==
    ~ghost.partial => \A p \in DOMAIN mem.providers : mem.providers[p].ok =>
        \/ p \in DOMAIN mem.adapters /\ mem.adapters[p] = mem.providers[p].version
        \/ <<"providers", p>> \in ghost.drifted \/ Awaits(p)

Agreement ==
    /\ RoutesAgree /\ ProvidersAgree /\ ConfigsAgree /\ DefaultFlagged /\ StrategiesAgree
    /\ AdaptersFit

GoneStays == match.pc # "idle" => match.gone \subseteq Gone(db)

AdminInv == Types /\ Heads /\ Founded /\ Agreement /\ GoneStays /\ MatchedFits

-------------------------------------------------------------------------------
(* The start, and the start after a stop.                                  *)

LEMMA LoadedProviders ==
  ASSUME NEW n \in Numbers, NEW k \in Nat, NEW d \in Tables(n, k)
  PROVE  /\ LoadProviders(d) \in Maps(n.providers, ProviderRows(k))
         /\ DOMAIN LoadProviders(d) = DOMAIN d.providers \ Gone(d)
         /\ \A p \in DOMAIN LoadProviders(d) : LoadProviders(d)[p] = d.providers[p]
<1>1. d.providers \in Maps(n.providers, ProviderRows(k)) /\ n.providers \in Nat
  BY DEF Tables, Numbers
<1> DEFINE S == {p \in DOMAIN d.providers : ~d.providers[p].deleted}
<1>2. Restrict(d.providers, S) \in Maps(n.providers, ProviderRows(k))
  BY <1>1, MapRestrict
<1>3. S = DOMAIN d.providers \ Gone(d)
  BY DEF Gone
<1> QED
  BY <1>2, <1>3 DEF LoadProviders, Restrict

LEMMA LoadedStrategies ==
  ASSUME NEW n \in Numbers, NEW k \in Nat, NEW d \in Tables(n, k)
  PROVE  /\ LoadStrategies(d) \in Plans
         /\ \A p \in DOMAIN LoadStrategies(d) : LET e == LoadStrategies(d)[p] IN
               e.id \in DOMAIN d.strategies
                  /\ d.strategies[e.id] = [project |-> p, type |-> e.type]
<1>1. d.strategies \in Maps(n.strategies, PlanRows) /\ n.strategies \in Nat
  BY DEF Tables, Numbers
<1>2. /\ DOMAIN d.strategies \subseteq 1..n.strategies - 1 /\ DOMAIN d.strategies \subseteq Nat
      /\ \A s \in DOMAIN d.strategies : d.strategies[s] \in PlanRows
  BY <1>1, MapFacts
<1> DEFINE D == {d.strategies[s].project : s \in DOMAIN d.strategies}
           T(p) == Max(StrategyRows(d, p))
<1>3. D \in SUBSET Projects
  BY <1>2 DEF PlanRows
<1>4. ASSUME NEW p \in D
      PROVE  T(p) \in DOMAIN d.strategies /\ d.strategies[T(p)].project = p
  <2>1. StrategyRows(d, p) # {} /\ StrategyRows(d, p) \in SUBSET (1..n.strategies - 1)
    BY <1>2 DEF StrategyRows
  <2>2. T(p) \in StrategyRows(d, p)
    BY <1>1, <2>1, MaxOf
  <2> QED
    BY <2>2 DEF StrategyRows
<1>5. LoadStrategies(d) = [p \in D |-> Entry(d, T(p))]
  BY DEF LoadStrategies
<1> HIDE DEF D, T
<1>6. ASSUME NEW p \in D
      PROVE  LET e == LoadStrategies(d)[p] IN
               /\ e \in [id : Nat, type : StrategyTypes]
               /\ e.id \in DOMAIN d.strategies
               /\ d.strategies[e.id] = [project |-> p, type |-> e.type]
  <2>1. LoadStrategies(d)[p] = [id |-> T(p), type |-> d.strategies[T(p)].type]
    BY <1>5 DEF Entry
  <2>2. d.strategies[T(p)] \in PlanRows /\ T(p) \in Nat
    BY <1>2, <1>4
  <2>3. d.strategies[T(p)] = [project |-> p, type |-> d.strategies[T(p)].type]
    BY <1>4, <2>2 DEF PlanRows
  <2> QED
    BY <1>4, <2>1, <2>2, <2>3 DEF PlanRows
<1>7. DOMAIN LoadStrategies(d) = D
  BY <1>5
<1>8. LoadStrategies(d) \in [D -> [id : Nat, type : StrategyTypes]]
  BY <1>5, <1>6
<1> QED
  BY <1>3, <1>6, <1>7, <1>8 DEF Plans

(* What a start finds in the tables is what it caches.                     *)
LEMMA LoadedFacts ==
  ASSUME NEW n \in Numbers, NEW k \in Nat, NEW d \in Tables(n, k), NEW m \in Reloaded(d)
  PROVE  /\ m \in Caches(n, k)
         /\ m.providers = LoadProviders(d) /\ m.routes = d.routes /\ m.configs = d.configs
         /\ m.default \in Flagged(d) \cup {NoId} /\ (m.default = NoId <=> Flagged(d) = {})
         /\ m.strategies = LoadStrategies(d)
         /\ DOMAIN m.adapters \subseteq DOMAIN m.providers
         /\ \A p \in DOMAIN m.adapters : m.adapters[p] = m.providers[p].version
                                            /\ m.providers[p].ok
         /\ (\A p \in DOMAIN m.providers : m.providers[p].ok) =>
               DOMAIN m.adapters = DOMAIN m.providers
<1>1. PICK a \in InitAdapters(LoadProviders(d)) :
        m = [providers |-> LoadProviders(d), routes |-> d.routes, configs |-> d.configs,
             default |-> LoadDefault(d), strategies |-> LoadStrategies(d), adapters |-> a]
  BY DEF Reloaded
<1> DEFINE P == LoadProviders(d)
           ok == {p \in DOMAIN P : P[p].ok}
<1>2. P \in Maps(n.providers, ProviderRows(k)) /\ n.providers \in Nat
      /\ DOMAIN P \subseteq 1..n.providers - 1 /\ \A p \in DOMAIN P : P[p] \in ProviderRows(k)
  BY LoadedProviders, MapFacts DEF Numbers
<1>3. PICK s \in (IF ok = DOMAIN P THEN {ok} ELSE SUBSET ok) :
        a = [p \in s |-> P[p].version]
  BY DEF InitAdapters
<1> HIDE DEF P
<1>4. s \subseteq ok /\ (ok = DOMAIN P => s = ok) /\ ok \subseteq DOMAIN P
  BY <1>3
<1>5. a \in Maps(n.providers, 0..k)
  <2>1. \A p \in s : P[p].version \in 0..k
    BY <1>2, <1>4 DEF ProviderRows
  <2>2. a \in [s -> 0..k]
    BY <1>3, <2>1
  <2>3. s \in SUBSET (1..n.providers - 1)
    BY <1>2, <1>4
  <2> QED
    BY <2>2, <2>3, MapMade
<1>6. LoadDefault(d) \in Flagged(d) \cup {NoId} /\ (LoadDefault(d) = NoId <=> Flagged(d) = {})
      /\ LoadDefault(d) \in Nat
  <2>1. d.configs \in Maps(n.configs, ConfigRows) /\ n.configs \in Nat
    BY DEF Tables, Numbers
  <2>2. Flagged(d) \in SUBSET (1..n.configs - 1)
    BY <2>1, MapFacts DEF Flagged
  <2>3. Flagged(d) # {} => Max(Flagged(d)) \in Flagged(d)
    BY <2>1, <2>2, MaxOf
  <2>4. \A c \in Flagged(d) : c # NoId /\ c \in Nat
    BY <2>1, <2>2 DEF NoId
  <2> QED
    BY <2>3, <2>4 DEF LoadDefault, NoId
<1>7. LoadStrategies(d) \in Plans
  BY LoadedStrategies
<1>8. d.routes \in Maps(n.routes, RouteRows) /\ d.configs \in Maps(n.configs, ConfigRows)
  BY DEF Tables
<1>9. m \in Caches(n, k)
  BY <1>1, <1>2, <1>5, <1>6, <1>7, <1>8 DEF Caches, P
<1>10. /\ m.providers = P /\ m.routes = d.routes /\ m.configs = d.configs
       /\ m.default = LoadDefault(d) /\ m.strategies = LoadStrategies(d) /\ m.adapters = a
  BY <1>1 DEF P
<1>11. DOMAIN a = s /\ \A p \in s : a[p] = P[p].version
  BY <1>3, ZenonT(60)
<1> QED
  BY <1>4, <1>6, <1>9, <1>10, <1>11 DEF P

(* The tables and caches are as they were, and what an operation has left. *)
LEMMA Untouched ==
  ASSUME Heads, Founded, Agreement, UNCHANGED <<db, mem, todo, ghost>>
  PROVE  Heads' /\ Founded' /\ Agreement'
<1>1. Heads'
  BY DEF Heads, Gone, IsSave, IsDelete, RowWritten
<1>2. Founded'
  BY DEF Founded, Gone
<1>3. RoutesAgree' /\ ProvidersAgree'
  BY DEF Agreement, RoutesAgree, ProvidersAgree, Due, EditedBefore, Agree,
         Gone, LoadProviders
<1>4. ConfigsAgree' /\ DefaultFlagged'
  BY DEF Agreement, ConfigsAgree, DefaultFlagged, Due, Flagged
<1>5. StrategiesAgree' /\ AdaptersFit'
  BY DEF Agreement, StrategiesAgree, AdaptersFit, Due, Held, Awaits, IsDelete
<1> QED
  BY <1>1, <1>2, <1>3, <1>4, <1>5 DEF Agreement

LEMMA MatchSteps ==
  ASSUME AdminInv, MatchGoesOn
  PROVE  AdminInv'
<1> USE DEF AdminInv
<1>1. /\ UNCHANGED <<db, mem, todo, next, ops, ghost>>
  BY DEF MatchGoesOn, MatchStarts, MatchEnds, MatchReturns
<1>2. Heads' /\ Founded' /\ Agreement'
  BY <1>1, Untouched
<1>3. ASSUME match'.pc \in {"idle", "filtered", "matched"},
             match' = [pc |-> match'.pc, routes |-> match'.routes, default |-> match'.default,
                       gone |-> match'.gone, matched |-> match'.matched]
      PROVE  Types'
  BY <1>1, <1>3 DEF Types
<1>4. ASSUME NEW client \in ClientTypes, NEW project \in Projects,
             MatchStarts(client, project)
      PROVE  AdminInv'
  <2> DEFINE routes == Filtered(mem, client, project)
             default == GetDefault(mem, db)
  <2>1. match' = [pc |-> "filtered", routes |-> routes, default |-> default, gone |-> Gone(db),
                  matched |-> <<>>]
    BY <1>4 DEF MatchStarts, Idle
  <2> HIDE DEF routes, default
  <2>2. Types'
    BY <1>3, <2>1
  <2>3. GoneStays' /\ MatchedFits'
    BY <1>1, <2>1 DEF GoneStays, MatchedFits, Gone
  <2> QED
    BY <1>2, <2>2, <2>3
<1>5. CASE MatchEnds
  <2> DEFINE matched == Matched(mem, db, match.routes, match.default)
  <2>1. match' = [pc |-> "matched", routes |-> <<>>, default |-> NoId, gone |-> match.gone,
                  matched |-> matched]
    BY <1>5 DEF MatchEnds, Types
  <2>2. \A r \in DOMAIN matched :
          /\ matched[r].provider \in DOMAIN mem.providers \cap DOMAIN mem.adapters
          /\ matched[r].version = mem.providers[matched[r].provider].version
          /\ matched[r].adapter = mem.adapters[matched[r].provider]
    BY ZenonT(60) DEF Matched
  <2> HIDE DEF matched
  <2>3. Types'
    BY <1>3, <2>1
  <2>4. match.gone \subseteq Gone(db)
    BY <1>5 DEF GoneStays, MatchEnds
  <2>5. \A r \in DOMAIN matched :
          /\ matched[r].provider \notin match.gone \/ matched[r].provider \in ghost.revived
          /\ matched[r].adapter <= matched[r].version
    BY <2>2, <2>4 DEF Founded
  <2>6. GoneStays' /\ MatchedFits'
    BY <1>1, <2>1, <2>4, <2>5 DEF GoneStays, MatchedFits, Gone
  <2> QED
    BY <1>2, <2>3, <2>6
<1>6. CASE MatchReturns
  <2>1. match' = [pc |-> "idle", routes |-> <<>>, default |-> NoId, gone |-> {},
                  matched |-> <<>>]
    BY <1>6 DEF MatchReturns, Idle
  <2>2. Types'
    BY <1>3, <2>1
  <2> QED
    BY <1>2, <2>1, <2>2 DEF GoneStays, MatchedFits
<1> QED
  BY <1>4, <1>5, <1>6 DEF MatchGoesOn

LEMMA NothingLeft ==
  ASSUME NEW n, NEW k
  PROVE  Shaped(<<>>, n, k)
BY DEF Shaped

(* What a start caches agrees with the tables.                             *)
Started ==
    /\ ops \in Nat /\ next \in Numbers /\ db \in Tables(next, ops) /\ mem \in Reloaded(db)
    /\ todo = <<>> /\ (~ghost.partial => DOMAIN mem.adapters = DOMAIN mem.providers)

Afresh == mem \in Caches(next, ops) /\ Heads /\ Founded /\ Agreement

LEMMA StartAgrees == Started => Afresh
<1> SUFFICES ASSUME Started PROVE Afresh
  OBVIOUS
<1> USE DEF Started
<1>1. /\ mem \in Caches(next, ops)
      /\ mem.providers = LoadProviders(db) /\ mem.routes = db.routes
      /\ mem.configs = db.configs
      /\ mem.default \in Flagged(db) \cup {NoId}
      /\ mem.strategies = LoadStrategies(db)
      /\ DOMAIN mem.adapters \subseteq DOMAIN mem.providers
      /\ \A p \in DOMAIN mem.adapters : mem.adapters[p] = mem.providers[p].version
  BY LoadedFacts
<1>2. /\ DOMAIN mem.providers = DOMAIN db.providers \ Gone(db)
      /\ LoadProviders(db) \in Maps(next.providers, ProviderRows(ops))
  BY <1>1, LoadedProviders
<1>3. \A p \in DOMAIN mem.providers : mem.providers[p].version \in Nat
  <2>1. next.providers \in Nat /\ mem.providers \in Maps(next.providers, ProviderRows(ops))
    BY <1>1, <1>2 DEF Numbers
  <2>2. \A p \in DOMAIN mem.providers : mem.providers[p] \in ProviderRows(ops)
    BY <2>1, MapFacts
  <2> QED
    BY <2>2 DEF ProviderRows
<1>4. Founded
  <2>1. mem.default \in DOMAIN mem.configs \cup {NoId}
    BY <1>1 DEF Flagged
  <2>2. \A p \in DOMAIN mem.adapters : mem.adapters[p] <= mem.providers[p].version
    BY <1>1, <1>3
  <2> QED
    BY <1>1, <1>2, <2>1, <2>2 DEF Founded
<1>5. StrategiesAgree
  BY <1>1, LoadedStrategies DEF StrategiesAgree, Held
<1>6. RoutesAgree /\ ProvidersAgree /\ ConfigsAgree /\ DefaultFlagged /\ AdaptersFit
  BY <1>1 DEF RoutesAgree, ProvidersAgree, ConfigsAgree, DefaultFlagged, AdaptersFit, Agree
<1> QED
  BY <1>1, <1>4, <1>5, <1>6 DEF Heads, Agreement, Afresh

LEMMA RestartAgrees == Started' => Afresh'
BY StartAgrees, PTL

LEMMA Starts ==
  ASSUME Init
  PROVE  AdminInv
<1> USE ProjectsAssumption, TypesAssumption
<1>1. PICK types \in TypeSets :
        LET served == SetToSeq(types) IN
        db = [providers |-> [p \in {1} |-> [types |-> types, ok |-> TRUE, version |-> 0,
                                            deleted |-> FALSE]],
              routes |-> [r \in DOMAIN served |-> Native(1, served[r])],
              configs |-> [c \in {1} |-> [flag |-> TRUE]],
              strategies |-> [s \in {} |-> NoRow]]
  BY DEF Init
<1> DEFINE served == SetToSeq(types)
           c == Cardinality(types)
<1>2. types \subseteq ClientTypes /\ IsFiniteSet(types)
  BY FS_Subset
<1>3. c \in Nat /\ served \in [1..c -> types]
  BY <1>2, Listed, FS_CardinalityType
<1>4. /\ db.providers = [p \in {1} |-> [types |-> types, ok |-> TRUE, version |-> 0,
                                         deleted |-> FALSE]]
      /\ db.routes = [r \in DOMAIN served |-> Native(1, served[r])]
      /\ db.configs = [x \in {1} |-> [flag |-> TRUE]]
      /\ db.strategies = [s \in {} |-> NoRow]
      /\ db = [providers |-> db.providers, routes |-> db.routes, configs |-> db.configs,
               strategies |-> db.strategies]
  BY <1>1
<1> HIDE DEF served, c
<1>5. db.providers \in Maps(2, ProviderRows(0))
  <2>1. [types |-> types, ok |-> TRUE, version |-> 0, deleted |-> FALSE] \in ProviderRows(0)
    BY <1>2 DEF ProviderRows
  <2>2. db.providers \in [{1} -> ProviderRows(0)] /\ {1} \in SUBSET (1..2 - 1)
    BY <1>4, <2>1
  <2> QED
    BY <2>2, MapMade
<1>6. db.configs \in Maps(2, ConfigRows)
  <2>1. db.configs \in [{1} -> ConfigRows] /\ {1} \in SUBSET (1..2 - 1)
    BY <1>4 DEF ConfigRows
  <2> QED
    BY <2>1, MapMade
<1>7. db.strategies \in Maps(1, PlanRows)
  <2>1. db.strategies \in [{} -> PlanRows] /\ {} \in SUBSET (1..1 - 1)
    BY <1>4
  <2> QED
    BY <2>1, MapMade
<1>8. DOMAIN db.routes = 1..c /\ db.routes \in [1..c -> RouteRows]
  <2>1. DOMAIN served = 1..c /\ \A r \in 1..c : served[r] \in ClientTypes
    BY <1>2, <1>3
  <2>2. \A ct \in ClientTypes : Native(1, ct) \in RouteRows
    BY DEF Native, RouteRows, NoId
  <2> QED
    BY <1>4, <2>1, <2>2
<1>9. Cardinality(DOMAIN db.routes) = c
  <2>1. 1 \in Int /\ c \in Int
    BY <1>3
  <2>2. Cardinality(1..c) = IF 1 > c THEN 0 ELSE c - 1 + 1
    BY <2>1, FS_Interval
  <2>3. Cardinality(1..c) = c
    BY <1>3, <2>2
  <2> QED
    BY <1>8, <2>3
<1>10. db.routes \in Maps(c + 1, RouteRows)
  <2>1. 1..c \in SUBSET (1..(c + 1) - 1)
    BY <1>3
  <2> QED
    BY <1>8, <2>1, MapMade
<1>11. /\ next = [providers |-> 2, routes |-> Cardinality(DOMAIN db.routes) + 1,
                  configs |-> 2, strategies |-> 1]
       /\ todo = <<>> /\ match = Idle /\ ops = 0 /\ mem \in Reloaded(db)
       /\ ghost = [drifted |-> {}, manual |-> {}, torn |-> FALSE, partial |-> FALSE,
                   revived |-> {}]
  BY DEF Init
<1>12. next \in Numbers /\ next.providers = 2 /\ next.routes = c + 1 /\ next.configs = 2
       /\ next.strategies = 1
  BY <1>3, <1>9, <1>11 DEF Numbers
<1>13. db \in Tables(next, ops)
  <2>1. ops = 0
    BY <1>11
  <2> QED
    BY <1>4, <1>5, <1>6, <1>7, <1>10, <1>12, <2>1 DEF Tables
<1>14. DOMAIN mem.adapters = DOMAIN mem.providers
  <2>1. mem.providers = LoadProviders(db) /\
        ((\A p \in DOMAIN mem.providers : mem.providers[p].ok) =>
            DOMAIN mem.adapters = DOMAIN mem.providers)
    BY <1>11, <1>12, <1>13, LoadedFacts
  <2>0. ops \in Nat /\ next \in Numbers /\ db \in Tables(next, ops)
    BY <1>11, <1>12, <1>13
  <2>2. DOMAIN LoadProviders(db) \subseteq DOMAIN db.providers
    BY <2>0, LoadedProviders, ZenonT(60)
  <2>4. \A p \in DOMAIN LoadProviders(db) : LoadProviders(db)[p] = db.providers[p]
    BY <2>0, LoadedProviders
  <2>3. \A p \in DOMAIN db.providers : db.providers[p].ok
    BY <1>4
  <2>5. \A p \in DOMAIN LoadProviders(db) : LoadProviders(db)[p].ok
    BY <2>2, <2>3, <2>4
  <2> QED
    BY <2>1, <2>5
<1>15. mem \in Caches(next, ops) /\ Heads /\ Founded /\ Agreement
  BY <1>11, <1>12, <1>13, <1>14, StartAgrees DEF Started, Afresh
<1>16. Types
  <2>1. Shaped(todo, next, ops)
    BY <1>11, NothingLeft
  <2>2. match.pc = "idle" /\ match = [pc |-> match.pc, routes |-> match.routes,
           default |-> match.default, gone |-> match.gone, matched |-> match.matched]
    BY <1>11 DEF Idle
  <2>3. ghost \in Ghosts
    BY <1>11 DEF Ghosts
  <2> QED
    BY <1>11, <1>12, <1>13, <1>15, <2>1, <2>2, <2>3 DEF Types
<1>17. GoneStays /\ MatchedFits
  BY <1>11 DEF GoneStays, MatchedFits, Idle
<1> QED
  BY <1>15, <1>16, <1>17 DEF AdminInv

LEMMA RestartStep ==
  ASSUME AdminInv, Restart
  PROVE  AdminInv'
<1>1. /\ mem' \in Reloaded(db) /\ todo' = <<>> /\ match' = Idle /\ db' = db /\ next' = next
      /\ ops' = ops
      /\ ghost' = [ghost EXCEPT !.torn = @ \/ todo # <<>>, !.drifted = {},
                       !.partial = DOMAIN mem'.adapters # DOMAIN mem'.providers]
  BY DEF Restart
<1>2. Types
  BY DEF AdminInv
<1>3. /\ ghost'.partial = (DOMAIN mem'.adapters # DOMAIN mem'.providers)
      /\ ghost' \in Ghosts
  <2> DEFINE t == ghost.torn \/ todo # <<>>
             u == DOMAIN mem'.adapters # DOMAIN mem'.providers
  <2>1. t \in BOOLEAN /\ u \in BOOLEAN
    OBVIOUS
  <2>2. ghost' = [ghost EXCEPT !.torn = t, !.drifted = {}, !.partial = u]
    BY <1>1
  <2> HIDE DEF t, u
  <2>3. ghost'.partial = u
    BY <1>2, <2>2 DEF Types, Ghosts
  <2>4. ghost' \in Ghosts
    BY <1>2, <2>1, <2>2 DEF Types, Ghosts
  <2> QED
    BY <2>3, <2>4 DEF u
<1>4. next \in Numbers /\ ops \in Nat /\ db \in Tables(next, ops)
  BY <1>2 DEF Types
<1>5. mem' \in Caches(next, ops) /\ Heads' /\ Founded' /\ Agreement'
  <2>1. ops' \in Nat /\ next' \in Numbers /\ db' \in Tables(next', ops') /\ mem' \in Reloaded(db')
        /\ todo' = <<>>
    BY <1>1, <1>4
  <2>2. ~ghost'.partial => DOMAIN mem'.adapters = DOMAIN mem'.providers
    BY <1>3
  <2>3. mem' \in Caches(next', ops') /\ Heads' /\ Founded' /\ Agreement'
    BY <2>1, <2>2, RestartAgrees DEF Started, Afresh
  <2> QED
    BY <1>1, <2>3
<1>6. Types'
  <2>1. Shaped(todo', next', ops')
    BY <1>1, NothingLeft
  <2>2. match'.pc = "idle" /\ match' = [pc |-> match'.pc, routes |-> match'.routes,
           default |-> match'.default, gone |-> match'.gone, matched |-> match'.matched]
    BY <1>1 DEF Idle
  <2> QED
    BY <1>1, <1>3, <1>4, <1>5, <2>1, <2>2 DEF Types
<1>7. GoneStays' /\ MatchedFits'
  BY <1>1 DEF GoneStays, MatchedFits, Idle
<1> QED
  BY <1>5, <1>6, <1>7 DEF AdminInv

-------------------------------------------------------------------------------
(* An operation begins, or a sync makes its last step the steps of routes. *)
AtRest == todo = <<>> \/ todo[1].do \notin {"cache", "statement", "refresh"}

LEMMA NothingDue ==
  ASSUME AtRest
  PROVE  /\ \A table, id : ~Due(table, id)
         /\ \A r : ~EditedBefore(r)
         /\ \A p : ~Awaits(p)
BY DEF AtRest, Due, EditedBefore, Awaits

Grown(n, m) ==
    /\ n \in Numbers /\ m \in Numbers /\ n.providers <= m.providers /\ n.routes <= m.routes
    /\ n.configs <= m.configs /\ n.strategies <= m.strategies

LEMMA TablesGrow ==
  ASSUME NEW n, NEW m, Grown(n, m), NEW k \in Nat, NEW j \in {k, k + 1},
         NEW d \in Tables(n, k), NEW c \in Caches(n, k)
  PROVE  d \in Tables(m, j) /\ c \in Caches(m, j)
<1> USE DEF Grown
<1>1. /\ d = [providers |-> d.providers, routes |-> d.routes, configs |-> d.configs,
              strategies |-> d.strategies]
      /\ d.providers \in Maps(n.providers, ProviderRows(k))
      /\ d.routes \in Maps(n.routes, RouteRows) /\ d.configs \in Maps(n.configs, ConfigRows)
      /\ d.strategies \in Maps(n.strategies, PlanRows)
  BY DEF Tables
<1>2. /\ c = [providers |-> c.providers, routes |-> c.routes, configs |-> c.configs,
              default |-> c.default, strategies |-> c.strategies, adapters |-> c.adapters]
      /\ c.providers \in Maps(n.providers, ProviderRows(k))
      /\ c.routes \in Maps(n.routes, RouteRows) /\ c.configs \in Maps(n.configs, ConfigRows)
      /\ c.default \in Nat /\ c.strategies \in Plans
      /\ c.adapters \in Maps(n.providers, 0..k)
  BY DEF Caches
<1>3. /\ n.providers \in Nat /\ n.routes \in Nat /\ n.configs \in Nat /\ n.strategies \in Nat
      /\ m.providers \in Nat /\ m.routes \in Nat /\ m.configs \in Nat /\ m.strategies \in Nat
  BY DEF Numbers
<1>4. 0..k \subseteq 0..j
  OBVIOUS
<1>5. ProviderRows(k) \subseteq ProviderRows(j)
  BY <1>4 DEF ProviderRows
<1>6. /\ d.providers \in Maps(m.providers, ProviderRows(j))
      /\ c.providers \in Maps(m.providers, ProviderRows(j))
  BY <1>1, <1>2, <1>3, <1>5, MapGrow, SMTT(60)
<1>7. d.routes \in Maps(m.routes, RouteRows) /\ c.routes \in Maps(m.routes, RouteRows)
  BY <1>1, <1>2, <1>3, MapGrow, SMTT(60)
<1>8. d.configs \in Maps(m.configs, ConfigRows) /\ c.configs \in Maps(m.configs, ConfigRows)
  BY <1>1, <1>2, <1>3, MapGrow
<1>9. d.strategies \in Maps(m.strategies, PlanRows) /\ c.adapters \in Maps(m.providers, 0..j)
  <2>1. d.strategies \in Maps(m.strategies, PlanRows)
    BY <1>1, <1>3, MapGrow
  <2>2. c.adapters \in Maps(m.providers, 0..j)
    BY <1>2, <1>3, <1>4, MapGrow
  <2> QED
    BY <2>1, <2>2
<1>10. d \in Tables(m, j)
  BY <1>1, <1>6, <1>7, <1>8, <1>9 DEF Tables
<1>11. c \in Caches(m, j)
  BY <1>2, <1>6, <1>7, <1>8, <1>9 DEF Caches
<1> QED
  BY <1>10, <1>11

LEMMA Begun ==
  ASSUME AdminInv, AtRest, db' = db, mem' = mem, match' = match,
         Grown(next, next'), ops' \in {ops, ops + 1},
         Shaped(todo', next', ops'), Heads',
         ghost' \in Ghosts, ghost'.drifted = ghost.drifted, ghost'.partial = ghost.partial,
         ghost.revived \subseteq ghost'.revived
  PROVE  AdminInv'
<1>1. Types /\ Founded /\ Agreement /\ GoneStays /\ MatchedFits
  BY DEF AdminInv
<1>2. ops \in Nat /\ next \in Numbers /\ db \in Tables(next, ops) /\ mem \in Caches(next, ops)
  BY <1>1 DEF Types
<1>3. db \in Tables(next', ops') /\ mem \in Caches(next', ops') /\ ops' \in Nat
  BY <1>2, TablesGrow
<1>4. Types'
  BY <1>1, <1>3 DEF Types, Grown
<1>5. Founded'
  BY <1>1 DEF Founded, Gone
<1>6. /\ \A table, id : ~Due(table, id)
      /\ \A r : ~EditedBefore(r)
      /\ \A p : ~Awaits(p)
  BY NothingDue
<1>7. RoutesAgree'
  BY <1>1, <1>6 DEF Agreement, RoutesAgree, Agree
<1>8. ProvidersAgree'
  BY <1>1, <1>6 DEF Agreement, ProvidersAgree, Agree, LoadProviders
<1>9. ConfigsAgree' /\ DefaultFlagged'
  BY <1>1, <1>6 DEF Agreement, ConfigsAgree, DefaultFlagged, Flagged
<1>10. StrategiesAgree'
  BY <1>1, <1>6 DEF Agreement, StrategiesAgree, Held
<1>11. AdaptersFit'
  BY <1>1, <1>6 DEF Agreement, AdaptersFit
<1>12. GoneStays' /\ MatchedFits'
  BY <1>1 DEF GoneStays, MatchedFits, Gone
<1> QED
  BY <1>4, <1>5, <1>7, <1>8, <1>9, <1>10, <1>11, <1>12 DEF AdminInv, Agreement

(* The first step that is left says nothing of caches and tables.          *)
Plain(x) == x.do \notin {"cache", "refresh"} /\ ~IsWrite(x, "providers")

LEMMA PlainHeads ==
  ASSUME todo' = <<>> \/ Plain(todo'[1])
  PROVE  Heads'
BY DEF Heads, Plain, IsSave, IsDelete

(* Steps of routes alone, each edit with its statement after it.           *)
RouteStatements(n) == {w \in RouteWrites(n) : w.do = "statement"}

RouteRuns(n) ==
    {q \in Seq(Edits(n) \cup RouteStatements(n)) : \A i \in 1..Len(q) :
        q[i].do = "edit" =>
           i + 1 <= Len(q) /\ q[i + 1].do = "statement" /\ q[i + 1].table = "routes"
              /\ Same(q[i + 1], q[i])}

LEMMA RunSteps ==
  ASSUME NEW n, NEW k, NEW x \in Edits(n) \cup RouteStatements(n)
  PROVE  x \in Steps(n, k) /\ x.do \in {"edit", "statement"} /\ Plain(x)
<1>1. CASE x \in Edits(n)
  BY <1>1 DEF Edits, Steps, Plain, IsWrite, Do
<1>2. CASE x \in RouteStatements(n)
  BY <1>2 DEF RouteStatements, RouteWrites, Writes, Steps, Plain, IsWrite, Do
<1> QED
  BY <1>1, <1>2

LEMMA RunShaped ==
  ASSUME NEW n, NEW k, NEW q \in RouteRuns(n)
  PROVE  Shaped(q, n, k) /\ (q = <<>> \/ Plain(q[1]))
<1> DEFINE S == Edits(n) \cup RouteStatements(n)
<1>1. q \in Seq(S) /\ Len(q) \in Nat
  BY DEF RouteRuns
<1>2. \A x \in S : x \in Steps(n, k) /\ x.do \in {"edit", "statement"} /\ Plain(x)
  BY RunSteps
<1>3. \A i \in 1..Len(q) : q[i].do = "edit" =>
         i + 1 <= Len(q) /\ q[i + 1].do = "statement" /\ q[i + 1].table = "routes"
              /\ Same(q[i + 1], q[i])
  BY DEF RouteRuns
<1> HIDE DEF S
<1>4. \A i \in 1..Len(q) : q[i] \in S
  BY <1>1
<1>5. ASSUME NEW i \in 1..Len(q) PROVE Placed(q, i, k)
  <2>1. q[i].do \in {"edit", "statement"} /\ Plain(q[i])
    BY <1>2, <1>4
  <2> QED
    BY <1>3, <2>1 DEF Placed, Plain, IsSave, IsDelete
<1>6. q \in Seq(Steps(n, k))
  BY <1>1, <1>2
<1>7. q # <<>> => 1 \in 1..Len(q)
  BY <1>1
<1> QED
  BY <1>2, <1>4, <1>5, <1>6, <1>7 DEF Shaped

LEMMA StatementRuns ==
  ASSUME NEW n, NEW s \in RouteStatements(n)
  PROVE  <<s>> \in RouteRuns(n)
<1>1. s.do = "statement"
  BY DEF RouteStatements
<1>2. <<s>> \in Seq(Edits(n) \cup RouteStatements(n)) /\ Len(<<s>>) = 1 /\ <<s>>[1] = s
  OBVIOUS
<1>3. \A i \in 1..1 : i = 1
  OBVIOUS
<1> QED
  BY <1>1, <1>2, <1>3 DEF RouteRuns

LEMMA EditRuns ==
  ASSUME NEW n, NEW e \in Edits(n), NEW s \in RouteStatements(n), Same(s, e)
  PROVE  <<e, s>> \in RouteRuns(n)
<1>1. s.do = "statement" /\ s.table = "routes"
  BY DEF RouteStatements, RouteWrites
<1>2. /\ <<e, s>> \in Seq(Edits(n) \cup RouteStatements(n)) /\ Len(<<e, s>>) = 2
      /\ <<e, s>>[1] = e /\ <<e, s>>[2] = s
  OBVIOUS
<1>3. \A i \in 1..2 : (i = 1 /\ i + 1 = 2 /\ i + 1 <= 2) \/ i = 2
  OBVIOUS
<1> QED
  BY <1>1, <1>2, <1>3 DEF RouteRuns

LEMMA RunsFollow ==
  ASSUME NEW n, NEW p \in RouteRuns(n), NEW q \in RouteRuns(n)
  PROVE  p \o q \in RouteRuns(n)
<1> DEFINE S == Edits(n) \cup RouteStatements(n)
           P(r, i) == r[i].do = "edit" =>
              i + 1 <= Len(r) /\ r[i + 1].do = "statement" /\ r[i + 1].table = "routes"
                 /\ Same(r[i + 1], r[i])
           c == p \o q
<1>1. /\ p \in Seq(S) /\ q \in Seq(S) /\ Len(p) \in Nat /\ Len(q) \in Nat
      /\ \A i \in 1..Len(p) : P(p, i)
      /\ \A i \in 1..Len(q) : P(q, i)
  BY DEF RouteRuns
<1>2. /\ c \in Seq(S) /\ Len(c) = Len(p) + Len(q)
      /\ \A i \in 1..Len(p) : c[i] = p[i]
      /\ \A i \in 1..Len(q) : c[Len(p) + i] = q[i]
  BY <1>1
<1> HIDE DEF c, S
<1>3. ASSUME NEW i \in 1..Len(c) PROVE P(c, i)
  <2>1. CASE i \in 1..Len(p)
    <3>1. P(p, i) /\ c[i] = p[i]
      BY <1>1, <1>2, <2>1
    <3>2. i + 1 <= Len(p) => i + 1 \in 1..Len(p) /\ i + 1 <= Len(c)
      BY <1>1, <1>2, <2>1
    <3>3. i + 1 <= Len(p) => c[i + 1] = p[i + 1]
      BY <1>2, <3>2
    <3> QED
      BY <3>1, <3>2, <3>3
  <2>2. CASE i \notin 1..Len(p)
    <3> DEFINE j == i - Len(p)
    <3>1. j \in 1..Len(q) /\ i = Len(p) + j /\ i + 1 = Len(p) + (j + 1)
      BY <1>1, <1>2, <2>2
    <3> HIDE DEF j
    <3>2. P(q, j) /\ c[i] = q[j]
      <4>1. j \in 1..Len(q) /\ c[Len(p) + j] = q[j]
        BY <1>2, <3>1
      <4> QED
        BY <1>1, <3>1, <4>1
    <3>3. j + 1 <= Len(q) => j + 1 \in 1..Len(q) /\ i + 1 <= Len(c)
      BY <1>1, <1>2, <3>1
    <3>4. j + 1 <= Len(q) => c[i + 1] = q[j + 1]
      <4>1. j + 1 \in 1..Len(q) => c[Len(p) + (j + 1)] = q[j + 1]
        BY <1>2
      <4>2. j + 1 <= Len(q) => c[Len(p) + (j + 1)] = q[j + 1]
        BY <3>3, <4>1
      <4> QED
        BY <3>1, <4>2
    <3> QED
      BY <3>2, <3>3, <3>4
  <2> QED
    BY <2>1, <2>2
<1> QED
  BY <1>2, <1>3 DEF RouteRuns, S, c

LEMMA NoRun ==
  ASSUME NEW n
  PROVE  <<>> \in RouteRuns(n)
BY DEF RouteRuns

LEMMA Numbered ==
  ASSUME NEW n \in Numbers, NEW m \in Nat \ {0}
  PROVE  /\ Grown(n, n)
         /\ n.providers <= m => Grown(n, [n EXCEPT !.providers = m])
         /\ n.routes <= m => Grown(n, [n EXCEPT !.routes = m])
         /\ n.configs <= m => Grown(n, [n EXCEPT !.configs = m])
         /\ n.strategies <= m => Grown(n, [n EXCEPT !.strategies = m])
<1>1. n.providers \in Nat /\ n.routes \in Nat /\ n.configs \in Nat /\ n.strategies \in Nat
  BY DEF Numbers
<1>2. Grown(n, n)
  BY <1>1 DEF Grown
<1>3. n.providers <= m => Grown(n, [n EXCEPT !.providers = m])
  BY <1>1 DEF Grown, Numbers
<1>4. n.routes <= m => Grown(n, [n EXCEPT !.routes = m])
  BY <1>1 DEF Grown, Numbers
<1>5. n.configs <= m => Grown(n, [n EXCEPT !.configs = m])
  BY <1>1 DEF Grown, Numbers
<1>6. n.strategies <= m => Grown(n, [n EXCEPT !.strategies = m])
  BY <1>1 DEF Grown, Numbers
<1> QED
  BY <1>2, <1>3, <1>4, <1>5, <1>6

(* An operation that begins between others and has no provider to save.    *)
LEMMA BegunPlainly ==
  ASSUME AdminInv, todo = <<>>, db' = db, mem' = mem, match' = match, ops' = ops + 1,
         Grown(next, next'), Shaped(todo', next', ops'), todo' = <<>> \/ Plain(todo'[1]),
         ghost' \in Ghosts, ghost'.drifted = ghost.drifted, ghost'.partial = ghost.partial,
         ghost.revived \subseteq ghost'.revived
  PROVE  AdminInv'
<1>1. AtRest
  BY DEF AtRest
<1>2. Heads'
  BY PlainHeads
<1> QED
  BY <1>1, <1>2, Begun

LEMMA OneStatement ==
  ASSUME NEW n, NEW k, NEW w \in Writes(n, k), w.do = "statement", w.table # "providers"
  PROVE  Shaped(<<w>>, n, k) /\ Plain(<<w>>[1])
<1>1. w \in Steps(n, k)
  BY DEF Steps
<1>2. <<w>> \in Seq(Steps(n, k)) /\ Len(<<w>>) = 1 /\ <<w>>[1] = w
  BY <1>1
<1>3. Plain(w)
  BY DEF Plain, IsWrite
<1>4. ASSUME NEW i \in 1..1 PROVE Placed(<<w>>, i, k)
  <2>1. i = 1
    OBVIOUS
  <2> QED
    BY <1>2, <1>3, <2>1 DEF Placed, Plain, IsSave, IsDelete
<1> QED
  BY <1>2, <1>3, <1>4 DEF Shaped

LEMMA MemFacts ==
  ASSUME Types
  PROVE  /\ ops \in Nat /\ next \in Numbers /\ ghost \in Ghosts
         /\ next.providers \in Nat /\ next.routes \in Nat /\ next.configs \in Nat
         /\ next.strategies \in Nat
         /\ next.providers # 0 /\ next.routes # 0 /\ next.configs # 0 /\ next.strategies # 0
         /\ DOMAIN mem.providers \subseteq 1..next.providers - 1
         /\ DOMAIN mem.routes \subseteq 1..next.routes - 1
         /\ DOMAIN mem.configs \subseteq 1..next.configs - 1
         /\ DOMAIN db.providers \subseteq 1..next.providers - 1
         /\ DOMAIN db.routes \subseteq 1..next.routes - 1
         /\ DOMAIN db.configs \subseteq 1..next.configs - 1
         /\ DOMAIN db.strategies \subseteq 1..next.strategies - 1
         /\ \A p \in DOMAIN mem.providers : mem.providers[p] \in ProviderRows(ops)
         /\ \A p \in DOMAIN db.providers : db.providers[p] \in ProviderRows(ops)
         /\ \A r \in DOMAIN mem.routes : mem.routes[r] \in RouteRows
         /\ \A r \in DOMAIN db.routes : db.routes[r] \in RouteRows
<1>1. /\ ops \in Nat /\ next \in Numbers /\ ghost \in Ghosts
      /\ db \in Tables(next, ops) /\ mem \in Caches(next, ops)
  BY DEF Types
<1>2. /\ next.providers \in Nat /\ next.routes \in Nat /\ next.configs \in Nat
      /\ next.strategies \in Nat
      /\ next.providers # 0 /\ next.routes # 0 /\ next.configs # 0 /\ next.strategies # 0
  BY <1>1 DEF Numbers
<1>3. /\ db.providers \in Maps(next.providers, ProviderRows(ops))
      /\ db.routes \in Maps(next.routes, RouteRows)
      /\ db.configs \in Maps(next.configs, ConfigRows)
      /\ db.strategies \in Maps(next.strategies, PlanRows)
  BY <1>1 DEF Tables
<1>4. /\ mem.providers \in Maps(next.providers, ProviderRows(ops))
      /\ mem.routes \in Maps(next.routes, RouteRows)
      /\ mem.configs \in Maps(next.configs, ConfigRows)
  BY <1>1 DEF Caches
<1>5. /\ DOMAIN db.providers \subseteq 1..next.providers - 1
      /\ \A p \in DOMAIN db.providers : db.providers[p] \in ProviderRows(ops)
  BY <1>2, <1>3, MapFacts
<1>6. /\ DOMAIN db.routes \subseteq 1..next.routes - 1
      /\ \A r \in DOMAIN db.routes : db.routes[r] \in RouteRows
  BY <1>2, <1>3, MapFacts
<1>7. DOMAIN db.configs \subseteq 1..next.configs - 1
  BY <1>2, <1>3, MapFacts
<1>8. DOMAIN db.strategies \subseteq 1..next.strategies - 1
  BY <1>2, <1>3, MapFacts
<1>9. /\ DOMAIN mem.providers \subseteq 1..next.providers - 1
      /\ \A p \in DOMAIN mem.providers : mem.providers[p] \in ProviderRows(ops)
  BY <1>2, <1>4, MapFacts
<1>10. /\ DOMAIN mem.routes \subseteq 1..next.routes - 1
      /\ \A r \in DOMAIN mem.routes : mem.routes[r] \in RouteRows
  BY <1>2, <1>4, MapFacts
<1>11. DOMAIN mem.configs \subseteq 1..next.configs - 1
  BY <1>2, <1>4, MapFacts
<1> QED
  BY <1>1, <1>2, <1>5, <1>6, <1>7, <1>8, <1>9, <1>10, <1>11

LEMMA RouteWritten ==
  ASSUME NEW n, NEW id \in 1..n.routes - 1, NEW row \in RouteRows \cup {NoRow},
         NEW heed \in BOOLEAN
  PROVE  Statement("routes", id, row, heed) \in RouteStatements(n)
BY DEF Statement, RouteStatements, RouteWrites, Do

LEMMA NativeRow ==
  ASSUME NEW p \in Nat, NEW ct \in ClientTypes
  PROVE  Native(p, ct) \in RouteRows
BY ProjectsAssumption DEF Native, RouteRows, NoId

(* A route that is posted, or changed by a PUT, is a route.                *)
LEMMA RowsOfRoutes ==
  Posted \subseteq RouteRows /\ \A row \in RouteRows : Changes(row) \subseteq RouteRows
<1>1. Ids \subseteq Nat /\ NoId \in Nat /\ Projects \subseteq Nat
  BY BoundsAssumption, ProjectsAssumption DEF Ids, NoId
<1>2. Posted \subseteq RouteRows
  BY <1>1 DEF Posted, RouteRows
<1>3. ASSUME NEW row \in RouteRows PROVE Changes(row) \subseteq RouteRows
  <2>1. /\ row.project \in Projects /\ row.client \in ClientTypes /\ row.provider \in Nat
        /\ row.enabled \in BOOLEAN /\ row.native \in BOOLEAN /\ row.config \in Nat
    BY DEF RouteRows
  <2>2. [row EXCEPT !.enabled = ~@] \in RouteRows /\ [row EXCEPT !.native = ~@] \in RouteRows
    BY DEF RouteRows
  <2>3. \A project \in Projects : [row EXCEPT !.project = project] \in RouteRows
    BY DEF RouteRows
  <2>4. \A ct \in ClientTypes : [row EXCEPT !.client = ct] \in RouteRows
    BY DEF RouteRows
  <2>5. \A p \in Nat : [row EXCEPT !.provider = p] \in RouteRows
    BY DEF RouteRows
  <2>6. \A c \in Nat : [row EXCEPT !.config = c] \in RouteRows
    BY DEF RouteRows
  <2> QED
    BY <1>1, <2>2, <2>3, <2>4, <2>5, <2>6 DEF Changes
<1> QED
  BY <1>2, <1>3

(* An administrator who takes routes over changes no other ghost.          *)
LEMMA TakenOverFacts ==
  ASSUME ghost \in Ghosts, NEW keys \in SUBSET (Nat \X ClientTypes), ghost' = TakenOver(keys)
  PROVE  /\ ghost' \in Ghosts /\ ghost'.manual = ghost.manual \cup keys
         /\ ghost'.drifted = ghost.drifted /\ ghost'.partial = ghost.partial
         /\ ghost'.revived = ghost.revived /\ ghost'.torn = ghost.torn
BY DEF TakenOver, Ghosts

LEMMA KeyFacts ==
  ASSUME NEW row \in RouteRows
  PROVE  Key(row) \in SUBSET (Nat \X ClientTypes)
BY DEF Key, RouteRows

LEMMA CreateRouteStep ==
  ASSUME AdminInv, NEW row \in Posted, CreateRoute(row)
  PROVE  AdminInv'
<1> USE BoundsAssumption
<1> DEFINE id == next.routes
           s == Statement("routes", id, row, TRUE)
<1>1. Types /\ ops \in Nat /\ next \in Numbers /\ ghost \in Ghosts /\ id \in Nat /\ id # 0
  BY MemFacts DEF AdminInv
<1>2. row \in RouteRows
  BY RowsOfRoutes
<1> PICK keys : keys = IF /\ ~row.native /\ row.provider \in DOMAIN mem.providers
                          /\ Keyed(mem.routes, row.provider, row.client) = {}
                       THEN {} ELSE Key(row)
  OBVIOUS
<1>3. /\ todo = <<>> /\ todo' = <<s>> /\ ops' = ops + 1 /\ ghost' = TakenOver(keys)
      /\ next' = [next EXCEPT !.routes = id + 1] /\ db' = db /\ mem' = mem /\ match' = match
  BY DEF CreateRoute, Begin
<1>4. Grown(next, next') /\ id \in 1..next'.routes - 1
  <2>1. Grown(next, next')
    <3>1. id + 1 \in Nat \ {0} /\ next.routes <= id + 1
      BY <1>1
    <3> QED
      BY <1>1, <1>3, <3>1, Numbered
  <2>2. next'.routes = id + 1
    BY <1>1, <1>3 DEF Numbers
  <2> QED
    BY <1>1, <2>1, <2>2
<1> HIDE DEF id
<1>5. <<s>> \in RouteRuns(next')
  BY <1>2, <1>4, RouteWritten, StatementRuns
<1>6. Shaped(todo', next', ops') /\ (todo' = <<>> \/ Plain(todo'[1]))
  BY <1>3, <1>5, RunShaped
<1>7. keys \in SUBSET (Nat \X ClientTypes)
  BY <1>2, KeyFacts
<1>8. /\ ghost' \in Ghosts /\ ghost'.drifted = ghost.drifted
      /\ ghost'.partial = ghost.partial /\ ghost'.revived = ghost.revived
  BY <1>1, <1>3, <1>7, TakenOverFacts
<1> QED
  BY <1>1, <1>3, <1>4, <1>6, <1>8, BegunPlainly

LEMMA UpdateRouteStep ==
  ASSUME AdminInv, NEW r \in DOMAIN mem.routes, NEW row \in Changes(mem.routes[r]),
         UpdateRoute(r, row)
  PROVE  AdminInv'
<1> DEFINE e == [do |-> "edit", id |-> r, row |-> row]
           s == Statement("routes", r, row, TRUE)
<1>1. Types /\ ops \in Nat /\ next \in Numbers /\ ghost \in Ghosts
  BY MemFacts DEF AdminInv
<1>2. r \in 1..next.routes - 1 /\ mem.routes[r] \in RouteRows /\ row \in RouteRows
  <2>1. mem.routes[r] \in RouteRows /\ r \in 1..next.routes - 1
    BY <1>1, MemFacts
  <2> QED
    BY <2>1, RowsOfRoutes
<1> PICK keys : keys = IF SameKey(mem.routes[r], row) THEN {}
                       ELSE Key(mem.routes[r]) \cup Key(row)
  OBVIOUS
<1>3. /\ todo = <<>> /\ todo' = <<e, s>> /\ ops' = ops + 1 /\ ghost' = TakenOver(keys)
      /\ next' = next /\ db' = db /\ mem' = mem /\ match' = match
  BY DEF UpdateRoute, Begin
<1>4. <<e, s>> \in RouteRuns(next)
  <2>1. s \in RouteStatements(next)
    BY <1>2, RouteWritten
  <2>2. e \in Edits(next) /\ Same(s, e)
    BY <1>2 DEF Edits, Same, Statement
  <2> HIDE DEF e, s
  <2> QED
    BY <2>1, <2>2, EditRuns
<1>5. Shaped(todo', next', ops') /\ (todo' = <<>> \/ Plain(todo'[1]))
  BY <1>3, <1>4, RunShaped
<1>6. Grown(next, next)
  <2>1. 1 \in Nat \ {0}
    OBVIOUS
  <2> QED
    BY <1>1, <2>1, Numbered
<1>7. keys \in SUBSET (Nat \X ClientTypes)
  BY <1>2, KeyFacts
<1>8. /\ ghost' \in Ghosts /\ ghost'.drifted = ghost.drifted
      /\ ghost'.partial = ghost.partial /\ ghost'.revived = ghost.revived
  BY <1>1, <1>3, <1>7, TakenOverFacts
<1> QED
  BY <1>1, <1>3, <1>5, <1>6, <1>8, BegunPlainly

LEMMA DeleteRouteStep ==
  ASSUME AdminInv, NEW r \in Ids, DeleteRoute(r)
  PROVE  AdminInv'
<1> DEFINE s == Statement("routes", r, NoRow, TRUE)
<1>1. Types /\ ops \in Nat /\ next \in Numbers /\ ghost \in Ghosts
  BY MemFacts DEF AdminInv
<1>2. r \in 1..next.routes - 1 /\ mem.routes[r] \in RouteRows
  BY <1>1, MemFacts DEF DeleteRoute
<1> PICK keys : keys = Key(mem.routes[r])
  OBVIOUS
<1>3. /\ todo = <<>> /\ todo' = <<s>> /\ ops' = ops + 1
      /\ next' = next /\ db' = db /\ mem' = mem /\ match' = match /\ ghost' = TakenOver(keys)
  BY DEF DeleteRoute, Begin
<1>4. /\ ghost' \in Ghosts /\ ghost'.drifted = ghost.drifted
      /\ ghost'.partial = ghost.partial /\ ghost'.revived = ghost.revived
  <2>1. keys \in SUBSET (Nat \X ClientTypes)
    BY <1>2, KeyFacts
  <2> QED
    BY <1>1, <1>3, <2>1, TakenOverFacts
<1>5. <<s>> \in RouteRuns(next)
  BY <1>2, RouteWritten, StatementRuns
<1>6. Shaped(todo', next', ops') /\ (todo' = <<>> \/ Plain(todo'[1]))
  BY <1>3, <1>5, RunShaped
<1>7. Grown(next, next)
  <2>1. 1 \in Nat \ {0}
    OBVIOUS
  <2> QED
    BY <1>1, <2>1, Numbered
<1> QED
  BY <1>1, <1>3, <1>4, <1>6, <1>7, BegunPlainly

(* A configuration or a strategy is written by one statement.              *)
LEMMA BegunByOne ==
  ASSUME AdminInv, NEW m, Grown(next, m), NEW w \in Writes(m, ops + 1),
         w.do = "statement", w.table # "providers", next' = m, Begin(<<w>>),
         UNCHANGED <<db, mem, match, ghost>>
  PROVE  AdminInv'
<1>1. ghost \in Ghosts
  BY MemFacts DEF AdminInv
<1>2. todo = <<>> /\ todo' = <<w>> /\ ops' = ops + 1
  BY DEF Begin
<1>3. Shaped(todo', next', ops') /\ (todo' = <<>> \/ Plain(todo'[1]))
  BY <1>2, OneStatement
<1> QED
  BY <1>1, <1>2, <1>3, BegunPlainly

LEMMA ConfigWritten ==
  ASSUME NEW n, NEW k, NEW c \in 1..n.configs - 1, NEW row \in ConfigRows \cup {NoRow}
  PROVE  LET w == Statement("configs", c, row, TRUE)
         IN  w \in Writes(n, k) /\ w.do = "statement" /\ w.table = "configs"
BY DEF Statement, ConfigWrites, Writes, Do

LEMMA PlanWritten ==
  ASSUME NEW n, NEW k, NEW s \in 1..n.strategies - 1, NEW row \in PlanRows \cup {NoRow}
  PROVE  LET w == Statement("strategies", s, row, TRUE)
         IN  w \in Writes(n, k) /\ w.do = "statement" /\ w.table = "strategies"
BY DEF Statement, PlanWrites, Writes, Do

LEMMA StaysNumbered ==
  ASSUME AdminInv
  PROVE  Grown(next, next)
<1>1. next \in Numbers /\ 1 \in Nat \ {0}
  BY MemFacts DEF AdminInv
<1> QED
  BY <1>1, Numbered

LEMMA SaveConfigStep ==
  ASSUME AdminInv, NEW c \in Ids, NEW flag \in BOOLEAN, SaveConfig(c, flag)
  PROVE  AdminInv'
<1> DEFINE w == Statement("configs", c, [flag |-> flag], TRUE)
           m == IF c = next.configs THEN c + 1 ELSE next.configs
<1>1. /\ next \in Numbers /\ next.configs \in Nat /\ next.configs # 0
      /\ DOMAIN mem.configs \subseteq 1..next.configs - 1
  BY MemFacts DEF AdminInv
<1>2. /\ c \in DOMAIN mem.configs \cup {next.configs}
      /\ next' = [next EXCEPT !.configs = m]
      /\ Begin(<<w>>) /\ UNCHANGED <<db, mem, match, ghost>>
  BY DEF SaveConfig
<1>3. m \in Nat \ {0} /\ next.configs <= m /\ c \in 1..m - 1
  BY <1>1, <1>2
<1> HIDE DEF m
<1>4. Grown(next, next')
  BY <1>1, <1>2, <1>3, Numbered
<1>5. next'.configs = m
  BY <1>1, <1>2 DEF Numbers
<1>6. [flag |-> flag] \in ConfigRows
  BY DEF ConfigRows
<1>7. w \in Writes(next', ops + 1) /\ w.do = "statement" /\ w.table = "configs"
  BY <1>3, <1>5, <1>6, ConfigWritten
<1> HIDE DEF w
<1> QED
  BY <1>2, <1>4, <1>7, BegunByOne

LEMMA DeleteConfigStep ==
  ASSUME AdminInv, NEW c \in Ids, DeleteConfig(c)
  PROVE  AdminInv'
<1> DEFINE w == Statement("configs", c, NoRow, TRUE)
<1>1. /\ c \in 1..next.configs - 1
      /\ next' = next /\ Begin(<<w>>) /\ UNCHANGED <<db, mem, match, ghost>>
  BY MemFacts DEF AdminInv, DeleteConfig
<1>2. w \in Writes(next, ops + 1) /\ w.do = "statement" /\ w.table = "configs"
  BY <1>1, ConfigWritten
<1> HIDE DEF w
<1> QED
  BY <1>1, <1>2, StaysNumbered, BegunByOne

LEMMA CreateStrategyStep ==
  ASSUME AdminInv, NEW project \in Projects, NEW type \in StrategyTypes,
         CreateStrategy(project, type)
  PROVE  AdminInv'
<1> DEFINE id == next.strategies
           w == Statement("strategies", id, [project |-> project, type |-> type], TRUE)
<1>1. next \in Numbers /\ id \in Nat /\ id # 0
  BY MemFacts DEF AdminInv
<1>2. /\ next' = [next EXCEPT !.strategies = id + 1]
      /\ Begin(<<w>>) /\ UNCHANGED <<db, mem, match, ghost>>
  BY DEF CreateStrategy
<1>3. id + 1 \in Nat \ {0} /\ id <= id + 1 /\ id \in 1..(id + 1) - 1
  BY <1>1
<1>4. Grown(next, next')
  BY <1>1, <1>2, <1>3, Numbered
<1>5. next'.strategies = id + 1
  BY <1>1, <1>2 DEF Numbers
<1>6. [project |-> project, type |-> type] \in PlanRows
  BY DEF PlanRows
<1> HIDE DEF id
<1>7. w \in Writes(next', ops + 1) /\ w.do = "statement" /\ w.table = "strategies"
  BY <1>3, <1>5, <1>6, PlanWritten
<1> HIDE DEF w
<1> QED
  BY <1>2, <1>4, <1>7, BegunByOne

LEMMA UpdateStrategyStep ==
  ASSUME AdminInv, NEW project \in Projects, NEW row \in PlanRows,
         UpdateStrategy(project, row)
  PROVE  AdminInv'
<1> DEFINE id == mem.strategies[project].id
           w == Statement("strategies", id, row, TRUE)
<1>1. /\ project \in DOMAIN mem.strategies /\ next' = next
      /\ Begin(<<w>>) /\ UNCHANGED <<db, mem, match, ghost>>
  BY DEF UpdateStrategy
<1>2. Held(mem.strategies[project], project)
  <2>1. AtRest
    BY <1>1 DEF Begin, AtRest
  <2> QED
    BY <1>1, <2>1, NothingDue DEF AdminInv, Agreement, StrategiesAgree
<1>3. id \in 1..next.strategies - 1
  BY <1>2, MemFacts DEF Held, AdminInv
<1> HIDE DEF id
<1>4. w \in Writes(next, ops + 1) /\ w.do = "statement" /\ w.table = "strategies"
  BY <1>3, PlanWritten
<1> HIDE DEF w
<1> QED
  BY <1>1, <1>4, StaysNumbered, BegunByOne

LEMMA DeleteStrategyStep ==
  ASSUME AdminInv, NEW id \in Ids, DeleteStrategy(id)
  PROVE  AdminInv'
<1> DEFINE w == Statement("strategies", id, NoRow, TRUE)
<1>1. /\ id < next.strategies /\ next' = next
      /\ Begin(<<w>>) /\ UNCHANGED <<db, mem, match, ghost>>
  BY DEF DeleteStrategy
<1>2. id \in 1..next.strategies - 1
  <2>1. next.strategies \in Nat
    BY MemFacts DEF AdminInv
  <2> QED
    BY <1>1, <2>1, BoundsAssumption DEF Ids
<1>3. w \in Writes(next, ops + 1) /\ w.do = "statement" /\ w.table = "strategies"
  BY <1>2, PlanWritten
<1> HIDE DEF w
<1> QED
  BY <1>1, <1>3, StaysNumbered, BegunByOne

(* A provider is saved, and its adapter and its routes follow.             *)
LEMMA SavedShaped ==
  ASSUME NEW n, NEW k \in Nat, NEW id \in 1..n.providers - 1, NEW row \in ProviderRows(k),
         row.version = k, ~row.deleted, NEW old \in SUBSET ClientTypes,
         NEW q, q = Saved(id, row, old)
  PROVE  /\ Shaped(q, n, k) /\ q # <<>>
         /\ q[1].do = "statement" /\ IsSave(q[1]) /\ ~IsDelete(q[1]) /\ q[1].id = id
<1> DEFINE a == Statement("providers", id, row, TRUE)
           b == [do |-> "refresh", id |-> id, row |-> row]
           c == [do |-> "sync", id |-> id, types |-> row.types, old |-> old]
<1>1. /\ a \in ProviderWrites(n, k) /\ a.do = "statement" /\ a.id = id /\ a.row = row
      /\ a.table = "providers"
  BY DEF Statement, ProviderWrites, Do
<1>2. /\ b \in Refreshes(n, k) /\ b.do = "refresh" /\ b.row = row /\ b.id = id
  BY DEF Refreshes
<1>3. c \in Syncs(n) /\ c.do = "sync"
  BY DEF Syncs, ProviderRows
<1>4. a \in Steps(n, k) /\ b \in Steps(n, k) /\ c \in Steps(n, k)
  BY <1>1, <1>2, <1>3 DEF Steps, Writes
<1>5. q = <<a, b, c>>
  BY DEF Saved
<1> HIDE DEF a, b, c
<1>6. q \in Seq(Steps(n, k)) /\ Len(q) = 3 /\ q[1] = a /\ q[2] = b /\ q[3] = c
  BY <1>4, <1>5
<1>7. IsSave(a) /\ ~IsDelete(a) /\ Same(b, a)
  BY <1>1, <1>2 DEF IsSave, IsDelete, IsWrite, Do, Same
<1>8. ~IsSave(b) /\ ~IsDelete(b) /\ ~IsSave(c) /\ ~IsDelete(c)
  BY <1>2, <1>3 DEF IsSave, IsDelete, IsWrite, Do
<1>9. Same(a, b)
  BY <1>7 DEF Same
<1>10. Placed(q, 1, k)
  <2>1. a.do = "statement" /\ a.row.version = k /\ b.do = "refresh" /\ 2 <= Len(q)
    BY <1>1, <1>2, <1>6
  <2> QED
    BY ONLY <1>6, <1>7, <2>1 DEF Placed
<1>11. Placed(q, 2, k)
  BY <1>2, <1>6, <1>7, <1>8, <1>9 DEF Placed
<1>12. Placed(q, 3, k)
  BY <1>3, <1>6, <1>8 DEF Placed
<1>13. \A i \in 1..3 : i = 1 \/ i = 2 \/ i = 3
  OBVIOUS
<1>14. Shaped(q, n, k)
  BY <1>6, <1>10, <1>11, <1>12, <1>13 DEF Shaped
<1>15. q # <<>>
  <2>1. Len(<<>>) = 0
    OBVIOUS
  <2> QED
    BY <1>6, <2>1
<1> QED
  BY <1>1, <1>6, <1>7, <1>14, <1>15

LEMMA CreateProviderStep ==
  ASSUME AdminInv, NEW types \in TypeSets, NEW ok \in BOOLEAN, CreateProvider(types, ok)
  PROVE  AdminInv'
<1> DEFINE id == next.providers
           row == [types |-> types, ok |-> ok, version |-> ops + 1, deleted |-> FALSE]
<1>1. /\ next \in Numbers /\ id \in Nat /\ id # 0 /\ ops \in Nat /\ ghost \in Ghosts
      /\ DOMAIN db.providers \subseteq 1..id - 1
  BY MemFacts DEF AdminInv
<1>2. /\ todo = <<>> /\ todo' = Saved(id, row, {}) /\ ops' = ops + 1 /\ db' = db
      /\ next' = [next EXCEPT !.providers = id + 1]
      /\ mem' = mem /\ match' = match /\ ghost' = ghost
  BY DEF CreateProvider, Begin
<1>3. row \in ProviderRows(ops + 1) /\ row.version = ops + 1 /\ ~row.deleted
  BY <1>1, TypesAssumption DEF ProviderRows
<1> HIDE DEF row
<1>4. id + 1 \in Nat \ {0} /\ id <= id + 1 /\ id \in 1..(id + 1) - 1
  BY <1>1
<1>5. Grown(next, next') /\ next'.providers = id + 1
  <2>1. Grown(next, next')
    BY <1>1, <1>2, <1>4, Numbered
  <2> QED
    BY <1>1, <1>2, <2>1 DEF Numbers
<1>6. id \notin Gone(db)
  BY <1>1 DEF Gone
<1> HIDE DEF id
<1>7. /\ Shaped(todo', next', ops') /\ todo' # <<>> /\ todo'[1].do = "statement"
      /\ IsSave(todo'[1]) /\ ~IsDelete(todo'[1]) /\ todo'[1].id = id
  <2>1. ops + 1 \in Nat /\ {} \in SUBSET ClientTypes
    BY <1>1
  <2>2. id \in 1..next'.providers - 1
    BY <1>4, <1>5
  <2>3. Shaped(todo', next', ops + 1) /\ todo' # <<>> /\ todo'[1].do = "statement"
        /\ IsSave(todo'[1]) /\ ~IsDelete(todo'[1]) /\ todo'[1].id = id
    <3> DEFINE none == {}
    <3>1. none \in SUBSET ClientTypes /\ todo' = Saved(id, row, none)
      BY <1>2
    <3> HIDE DEF none
    <3> QED
      BY <1>3, <2>1, <2>2, <3>1, SavedShaped
  <2> QED
    BY <1>2, <2>3
<1>8. Heads'
  BY <1>2, <1>6, <1>7 DEF Heads, Gone
<1>9. AtRest
  BY <1>2 DEF AtRest
<1> QED
  BY <1>1, <1>2, <1>5, <1>7, <1>8, <1>9, Begun

LEMMA UpdateProviderStep ==
  ASSUME AdminInv, NEW types \in TypeSets, NEW ok \in BOOLEAN, NEW id \in Ids,
         UpdateProvider(id, types, ok)
  PROVE  AdminInv'
<1> DEFINE old == (IF id \in DOMAIN mem.providers THEN mem.providers[id]
                   ELSE db.providers[id]).types
           row == [types |-> types, ok |-> ok, version |-> ops + 1, deleted |-> FALSE]
           revived == IF id \in Gone(db) THEN ghost.revived \cup {id} ELSE ghost.revived
<1>1. /\ next \in Numbers /\ ops \in Nat /\ ghost \in Ghosts
  BY MemFacts DEF AdminInv
<1>2. /\ todo = <<>> /\ todo' = Saved(id, row, old) /\ ops' = ops + 1 /\ db' = db
      /\ next' = next /\ mem' = mem /\ match' = match
      /\ ghost' = [ghost EXCEPT !.revived = revived]
  BY DEF UpdateProvider, Begin
<1>3. id \in 1..next.providers - 1 /\ old \in SUBSET ClientTypes
  <2>1. id \in DOMAIN mem.providers \/ id \in DOMAIN db.providers
    BY DEF UpdateProvider
  <2>2. /\ DOMAIN mem.providers \subseteq 1..next.providers - 1
        /\ DOMAIN db.providers \subseteq 1..next.providers - 1
        /\ \A p \in DOMAIN mem.providers : mem.providers[p] \in ProviderRows(ops)
        /\ \A p \in DOMAIN db.providers : db.providers[p] \in ProviderRows(ops)
    BY MemFacts DEF AdminInv
  <2> QED
    BY <2>1, <2>2 DEF ProviderRows
<1>4. row \in ProviderRows(ops + 1) /\ row.version = ops + 1 /\ ~row.deleted
  BY <1>1, TypesAssumption DEF ProviderRows
<1> HIDE DEF row, old
<1>5. id \in Nat
  BY <1>3
<1>6. /\ ghost' \in Ghosts /\ ghost'.drifted = ghost.drifted /\ ghost'.partial = ghost.partial
      /\ ghost'.revived = revived
  <2>1. revived \in SUBSET Nat
    BY <1>1, <1>5 DEF Ghosts
  <2> HIDE DEF revived
  <2> QED
    BY <1>1, <1>2, <2>1 DEF Ghosts
<1>7. ghost.revived \subseteq ghost'.revived /\ (id \in Gone(db) => id \in ghost'.revived)
  BY <1>6
<1>8. /\ Shaped(todo', next', ops') /\ todo' # <<>> /\ todo'[1].do = "statement"
      /\ IsSave(todo'[1]) /\ ~IsDelete(todo'[1]) /\ todo'[1].id = id
  <2>1. ops + 1 \in Nat
    BY <1>1
  <2> QED
    <3>1. Shaped(todo', next, ops + 1) /\ todo' # <<>> /\ todo'[1].do = "statement"
          /\ IsSave(todo'[1]) /\ ~IsDelete(todo'[1]) /\ todo'[1].id = id
      BY <1>2, <1>3, <1>4, <2>1, SavedShaped
    <3> QED
      BY <1>2, <3>1
<1>9. Heads'
  BY <1>2, <1>7, <1>8 DEF Heads, Gone
<1>10. AtRest
  BY <1>2 DEF AtRest
<1> QED
  BY <1>2, <1>6, <1>7, <1>8, <1>9, <1>10, StaysNumbered, Begun

(* A provider is deleted after its routes and its adapter.                 *)
LEMMA StatementsRun ==
  ASSUME NEW n, NEW q \in Seq(RouteStatements(n))
  PROVE  q \in RouteRuns(n)
<1>1. \A i \in 1..Len(q) : q[i] \in RouteStatements(n)
  OBVIOUS
<1>2. \A x \in RouteStatements(n) : x.do # "edit"
  BY DEF RouteStatements
<1>3. q \in Seq(Edits(n) \cup RouteStatements(n))
  OBVIOUS
<1> QED
  BY <1>1, <1>2, <1>3 DEF RouteRuns

LEMMA RemovalsRun ==
  ASSUME NEW n, NEW c \in Nat, NEW ids \in [1..c -> 1..n.routes - 1]
  PROVE  /\ [i \in 1..c |-> Statement("routes", ids[i], NoRow, FALSE)] \in RouteRuns(n)
         /\ [i \in DOMAIN ids |-> Statement("routes", ids[i], NoRow, FALSE)] \in RouteRuns(n)
<1> DEFINE q == [i \in 1..c |-> Statement("routes", ids[i], NoRow, FALSE)]
<1>1. \A i \in 1..c : Statement("routes", ids[i], NoRow, FALSE) \in RouteStatements(n)
  <2>1. ASSUME NEW i \in 1..c
        PROVE  Statement("routes", ids[i], NoRow, FALSE) \in RouteStatements(n)
    <3>1. ids[i] \in 1..n.routes - 1
      OBVIOUS
    <3> QED
      BY <3>1, RouteWritten
  <2> QED
    BY <2>1
<1>2. q \in [1..c -> RouteStatements(n)]
  BY <1>1
<1> HIDE DEF q
<1>3. q \in RouteRuns(n)
  BY <1>2, StatementsRun
<1>4. DOMAIN ids = 1..c
  OBVIOUS
<1> QED
  BY <1>3, <1>4 DEF q

LEMMA DeletionShaped ==
  ASSUME NEW n, NEW k, NEW p \in RouteRuns(n), NEW r \in Removals(n),
         NEW d \in ProviderWrites(n, k), d.do = "statement", d.row.deleted, d.id = r.id,
         NEW q, q = p \o <<r, d>>
  PROVE  Shaped(q, n, k) /\ Plain(q[1])
<1> DEFINE S == Steps(n, k)
           m == Len(p)
<1>1. r \in S /\ d \in S /\ r.do = "remove adapter" /\ d.table = "providers"
  BY DEF Steps, Writes, Removals, ProviderWrites
<1>2. Shaped(p, n, k) /\ (p = <<>> \/ Plain(p[1])) /\ p \in Seq(S) /\ m \in Nat
  <2>1. Shaped(p, n, k) /\ (p = <<>> \/ Plain(p[1]))
    BY RunShaped
  <2>2. p \in Seq(S)
    BY <2>1 DEF Shaped
  <2>3. m \in Nat
    BY <2>2
  <2> QED
    BY <2>1, <2>2, <2>3
<1>3. \A i \in 1..m : p[i].do \in {"edit", "statement"} /\ Plain(p[i])
  <2> DEFINE R == Edits(n) \cup RouteStatements(n)
  <2>1. p \in Seq(R)
    BY DEF RouteRuns
  <2>2. \A x \in R : x.do \in {"edit", "statement"} /\ Plain(x)
    BY RunSteps
  <2> HIDE DEF R
  <2>3. \A i \in 1..m : p[i] \in R
    BY <2>1
  <2> QED
    BY <2>2, <2>3
<1>4. \A i \in 1..m : p[i].do = "edit" =>
         i + 1 <= m /\ p[i + 1].do = "statement" /\ p[i + 1].table = "routes"
              /\ Same(p[i + 1], p[i])
  BY DEF RouteRuns
<1> HIDE DEF S, m
<1>5. <<r, d>> \in Seq(S) /\ Len(<<r, d>>) = 2 /\ <<r, d>>[1] = r /\ <<r, d>>[2] = d
  BY <1>1, OneAndTwo
<1> DEFINE t == <<r, d>>
<1> HIDE DEF t
<1>6. t \in Seq(S) /\ Len(t) = 2 /\ t[1] = r /\ t[2] = d /\ q = p \o t
  BY <1>5 DEF t
<1>7. q \in Seq(S) /\ Len(q) = m + 2 /\ q[m + 1] = r /\ q[m + 2] = d
  <2>1. q \in Seq(S) /\ Len(q) = Len(p) + Len(t)
    BY <1>2, <1>6
  <2>2. /\ m + 1 \in Len(p) + 1..Len(p) + Len(t) /\ (m + 1) - Len(p) = 1
        /\ m + 2 \in Len(p) + 1..Len(p) + Len(t) /\ (m + 2) - Len(p) = 2
    BY <1>2, <1>6 DEF m
  <2>3. q[m + 1] = t[(m + 1) - Len(p)]
    BY <1>2, <1>6, <2>2
  <2>4. q[m + 2] = t[(m + 2) - Len(p)]
    BY <1>2, <1>6, <2>2
  <2> QED
    BY <1>6, <2>1, <2>2, <2>3, <2>4 DEF m
<1>8. \A i \in 1..m : q[i] = p[i]
  BY <1>2, <1>6 DEF m
<1>9. ASSUME NEW i \in 1..m + 2 PROVE Placed(q, i, k)
  <2>1. CASE i = m + 2
    <3>1. q[i] = d /\ i - 1 = m + 1 /\ q[i - 1] = r
      BY <1>2, <1>7, <2>1
    <3>2. ~IsSave(d) /\ d.do = "statement"
      BY <1>1 DEF IsSave
    <3>3. q[i - 1].do = "remove adapter" /\ q[i - 1].id = q[i].id
      BY <1>1, <3>1
    <3>4. q[i].do = "statement" /\ ~IsSave(q[i])
      BY <3>1, <3>2
    <3> QED
      BY ONLY <3>3, <3>4 DEF Placed
  <2>2. CASE i = m + 1
    <3>1. q[i] = r /\ q[i + 1] = d /\ i + 1 <= Len(q)
      <4>1. i + 1 = m + 2
        BY <1>2, <2>2
      <4>2. q[i] = r /\ q[i + 1] = d
        BY <1>7, <2>2, <4>1
      <4>3. i + 1 <= Len(q)
        BY <1>2, <1>7, <4>1
      <4> QED
        BY <4>2, <4>3
    <3>2. IsDelete(d) /\ ~IsSave(r) /\ ~IsDelete(r)
      BY <1>1 DEF IsDelete, IsSave, IsWrite, Do
    <3> QED
      BY <1>1, <3>1, <3>2 DEF Placed
  <2>3. CASE i \in 1..m
    <3>1. q[i] = p[i] /\ q[i].do \in {"edit", "statement"} /\ Plain(q[i])
      BY <1>3, <1>8, <2>3
    <3>2. ~IsSave(q[i]) /\ ~IsDelete(q[i])
      BY <3>1 DEF Plain, IsSave, IsDelete
    <3>3. i + 1 <= m => i + 1 <= Len(q) /\ q[i + 1] = p[i + 1]
      <4>1. i + 1 <= m => i + 1 \in 1..m /\ i + 1 <= m + 2
        BY <1>2, <2>3
      <4> QED
        BY <1>7, <1>8, <4>1
    <3>4. q[i].do = "edit" =>
             i + 1 <= Len(q) /\ q[i + 1].do = "statement" /\ q[i + 1].table = "routes"
              /\ Same(q[i + 1], q[i])
      BY <1>4, <2>3, <3>1, <3>3
    <3> QED
      BY <3>1, <3>2, <3>4 DEF Placed
  <2>4. i \in 1..m \/ i = m + 1 \/ i = m + 2
    BY <1>2
  <2> QED
    BY <2>1, <2>2, <2>3, <2>4
<1>10. Shaped(q, n, k)
  BY <1>7, <1>9 DEF Shaped, S
<1>11. Plain(q[1])
  <2>1. CASE m = 0
    <3>1. Plain(r)
      BY <1>1 DEF Plain, IsWrite, Do
    <3>2. m + 1 = 1
      BY <2>1
    <3> QED
      BY <1>7, <3>1, <3>2
  <2>2. CASE m # 0
    <3>1. 1 \in 1..m
      BY <1>2, <2>2
    <3> QED
      BY <1>3, <1>8, <3>1
  <2> QED
    BY <2>1, <2>2
<1> QED
  BY <1>10, <1>11

LEMMA DeleteProviderStep ==
  ASSUME AdminInv, NEW id \in Ids, DeleteProvider(id)
  PROVE  AdminInv'
<1> DEFINE D == {r \in DOMAIN mem.routes : mem.routes[r].provider = id}
           ids == SetToSeq(D)
           p == [i \in DOMAIN ids |-> Statement("routes", ids[i], NoRow, FALSE)]
           row == [db.providers[id] EXCEPT !.deleted = TRUE]
           a == [do |-> "remove adapter", id |-> id]
           d == Statement("providers", id, row, TRUE)
<1>1. /\ next \in Numbers /\ ops \in Nat /\ ghost \in Ghosts
      /\ DOMAIN mem.routes \subseteq 1..next.routes - 1 /\ next.routes \in Nat
      /\ DOMAIN db.providers \subseteq 1..next.providers - 1
      /\ \A x \in DOMAIN db.providers : db.providers[x] \in ProviderRows(ops)
  BY MemFacts DEF AdminInv
<1>2. IsFiniteSet(D)
  <2>1. 1 \in Int /\ next.routes - 1 \in Int
    BY <1>1
  <2>2. IsFiniteSet(1..next.routes - 1)
    BY <2>1, FS_Interval
  <2>3. D \subseteq 1..next.routes - 1
    BY <1>1
  <2> HIDE DEF D
  <2> QED
    BY <2>2, <2>3, FS_Subset
<1>3. p \in RouteRuns(next)
  <2>1. D \subseteq 1..next.routes - 1
    BY <1>1
  <2> HIDE DEF D
  <2>2. Cardinality(D) \in Nat /\ ids \in [1..Cardinality(D) -> D]
    BY <1>2, Listed, FS_CardinalityType
  <2>3. ids \in [1..Cardinality(D) -> 1..next.routes - 1]
    BY <2>1, <2>2
  <2> HIDE DEF ids
  <2> QED
    BY <2>2, <2>3, RemovalsRun
<1>4. /\ todo = <<>> /\ todo' = p \o <<a, d>> /\ ops' = ops + 1 /\ ghost' = ghost
      /\ next' = next /\ db' = db /\ mem' = mem /\ match' = match
  BY DEF DeleteProvider, Begin, Deleted
<1> HIDE DEF p
<1>5. id \in 1..next.providers - 1 /\ db.providers[id] \in ProviderRows(ops)
  BY <1>1 DEF DeleteProvider
<1>6. row \in ProviderRows(ops + 1) /\ row.deleted
  <2> DEFINE old == db.providers[id]
  <2>1. old \in ProviderRows(ops) /\ ops \in Nat
    BY <1>1, <1>5
  <2> HIDE DEF old
  <2>2. [old EXCEPT !.deleted = TRUE] \in ProviderRows(ops + 1)
    <3>1. old \in ProviderRows(ops + 1)
      <4>1. 0..ops \subseteq 0..ops + 1
        BY <2>1
      <4> QED
        BY <2>1, <4>1 DEF ProviderRows
    <3> QED
      BY <3>1 DEF ProviderRows
  <2>3. [old EXCEPT !.deleted = TRUE].deleted
    BY <2>1 DEF ProviderRows
  <2> QED
    BY <2>2, <2>3 DEF old
<1> HIDE DEF row
<1>7. a \in Removals(next) /\ a.id = id
  BY <1>5 DEF Removals
<1>8. d \in ProviderWrites(next, ops + 1) /\ d.do = "statement" /\ d.row.deleted /\ d.id = id
  BY <1>5, <1>6 DEF Statement, ProviderWrites, Do
<1> HIDE DEF a, d
<1>9. Shaped(todo', next, ops + 1) /\ Plain(todo'[1])
  BY <1>3, <1>4, <1>7, <1>8, DeletionShaped
<1>10. Shaped(todo', next', ops')
  BY <1>4, <1>9
<1> QED
  BY <1>1, <1>4, <1>9, <1>10, StaysNumbered, BegunPlainly

(* The steps that give a provider the routes of its types, for the routes  *)
(* f that were found.                                                      *)
LEMMA FoundRow ==
  ASSUME Types, NEW p, NEW ct, NEW r \in FindByKey(p, ct), r # NoId
  PROVE  /\ r \in 1..next.routes - 1 /\ next.routes \in Nat
         /\ Found(p, ct, r) \in RouteRows
<1>1. /\ DOMAIN mem.routes \subseteq 1..next.routes - 1
      /\ DOMAIN db.routes \subseteq 1..next.routes - 1 /\ next.routes \in Nat
      /\ \A x \in DOMAIN mem.routes : mem.routes[x] \in RouteRows
      /\ \A x \in DOMAIN db.routes : db.routes[x] \in RouteRows
  BY MemFacts
<1>2. r \in Keyed(mem.routes, p, ct) \/ r \in Keyed(db.routes, p, ct)
  BY DEF FindByKey
<1>3. r \in Keyed(mem.routes, p, ct) => r \in DOMAIN mem.routes
  BY DEF Keyed
<1>4. r \in Keyed(db.routes, p, ct) => r \in DOMAIN db.routes
  BY DEF Keyed
<1>5. Found(p, ct, r) = IF r \in Keyed(mem.routes, p, ct) THEN mem.routes[r] ELSE db.routes[r]
  BY DEF Found
<1> QED
  BY <1>1, <1>2, <1>3, <1>4, <1>5

LEMMA RemoveRouteRuns ==
  ASSUME Types, NEW n, next.routes <= n.routes, n.routes \in Nat, NEW p, NEW ct,
         NEW r \in FindByKey(p, ct)
  PROVE  RemoveRoute(p, ct, r) \in RouteRuns(n)
<1>1. <<>> \in RouteRuns(n)
  BY NoRun
<1>2. ASSUME r # NoId PROVE <<Statement("routes", r, NoRow, FALSE)>> \in RouteRuns(n)
  <2>1. r \in 1..n.routes - 1
    BY <1>2, FoundRow
  <2> QED
    BY <2>1, RouteWritten, StatementRuns
<1> QED
  BY <1>1, <1>2 DEF RemoveRoute

LEMMA AddRouteRuns ==
  ASSUME Types, NEW n, next.routes <= n.routes, n.routes \in Nat, NEW p \in Nat,
         NEW ct \in ClientTypes, NEW r \in FindByKey(p, ct), NEW new \in 1..n.routes - 1
  PROVE  AddRoute(p, ct, r, new) \in RouteRuns(n)
<1> DEFINE row == [Found(p, ct, r) EXCEPT !.native = TRUE]
           e == [do |-> "edit", id |-> r, row |-> row]
           s == Statement("routes", r, row, FALSE)
           a == Statement("routes", new, Native(p, ct), FALSE)
<1>1. AddRoute(p, ct, r, new) = IF r = NoId THEN <<a>>
                                ELSE IF Found(p, ct, r).native THEN <<>>
                                ELSE IF r \in Keyed(mem.routes, p, ct) THEN <<e, s>> ELSE <<s>>
  BY DEF AddRoute
<1>2. <<a>> \in RouteRuns(n)
  BY NativeRow, RouteWritten, StatementRuns
<1>3. <<>> \in RouteRuns(n)
  BY NoRun
<1>4. ASSUME r # NoId PROVE <<e, s>> \in RouteRuns(n) /\ <<s>> \in RouteRuns(n)
  <2>1. r \in 1..n.routes - 1 /\ Found(p, ct, r) \in RouteRows
    BY <1>4, FoundRow
  <2>2. row \in RouteRows
    BY <2>1 DEF RouteRows
  <2> HIDE DEF row
  <2>3. s \in RouteStatements(n)
    BY <2>1, <2>2, RouteWritten
  <2>4. e \in Edits(n) /\ Same(s, e)
    BY <2>1, <2>2 DEF Edits, Same, Statement
  <2> HIDE DEF e, s
  <2> QED
    BY <2>3, <2>4, EditRuns, StatementRuns
<1> HIDE DEF a, e, s
<1> QED
  BY <1>1, <1>2, <1>3, <1>4

(* A sync works on what it found, one part for each type that changed.     *)
Synced(s, f) == f \in Finds(s) /\ todo' = RoutesRemoved(s, f) \o RoutesAdded(s, f)

RemovedRuns(s, f, removed) ==
    [i \in DOMAIN removed |-> RemoveRoute(s.id, removed[i], f[removed[i]])]
AddedRuns(s, f, added) ==
    [i \in DOMAIN added |-> AddRoute(s.id, added[i], f[added[i]], next.routes + i - 1)]

LEMMA SyncBegins ==
  ASSUME AdminInv, SyncProviderRoutes, NEW s, s = todo[1],
         NEW removed, removed = SetToSeq(s.old \ s.types),
         NEW added, added = SetToSeq(s.types \ s.old)
  PROVE  /\ todo # <<>> /\ s \in Syncs(next) /\ s.do = "sync"
         /\ s.id \in Nat /\ s.types \subseteq ClientTypes /\ s.old \subseteq ClientTypes
         /\ removed \in Seq(s.old \ s.types) /\ added \in Seq(s.types \ s.old)
         /\ IsFiniteSet(s.old \ s.types) /\ IsFiniteSet(s.types \ s.old)
         /\ db' = db /\ mem' = mem /\ match' = match /\ ops' = ops /\ ghost' = ghost
         /\ next' = [next EXCEPT !.routes = next.routes + Len(added)]
         /\ \E f : Synced(s, f)
<1>1. Types /\ todo # <<>> /\ Head(todo).do = "sync"
  BY ZenonT(60) DEF AdminInv, SyncProviderRoutes, Head1
<1>2. todo \in Seq(Steps(next, ops))
  BY <1>1 DEF Types, Shaped
<1>3. s = Head(todo) /\ s.do = "sync" /\ s \in Steps(next, ops)
  BY <1>1, <1>2, TailFacts
<1>4. s \in Syncs(next)
  BY <1>3, StepKinds
<1>5. s.id \in Nat /\ s.types \subseteq ClientTypes /\ s.old \subseteq ClientTypes
  <2>1. next.providers \in Nat
    BY <1>1, MemFacts, ZenonT(60)
  <2> QED
    BY <1>4, <2>1 DEF Syncs
<1>6. /\ db' = db /\ mem' = mem /\ match' = match /\ ops' = ops /\ ghost' = ghost
      /\ next' = [next EXCEPT !.routes = @ + Cardinality(s.types \ s.old)]
  BY <1>3, ZenonT(60) DEF SyncProviderRoutes
<1>7. \E f : Synced(s, f)
  BY <1>3, ZenonT(60) DEF SyncProviderRoutes, Synced
<1>8. IsFiniteSet(s.old \ s.types) /\ IsFiniteSet(s.types \ s.old)
  <2>1. IsFiniteSet(ClientTypes) /\ s.old \ s.types \subseteq ClientTypes
        /\ s.types \ s.old \subseteq ClientTypes
    BY <1>5, TypesAssumption
  <2>2. IsFiniteSet(s.old \ s.types)
    BY <2>1, FS_Subset
  <2>3. IsFiniteSet(s.types \ s.old)
    BY <2>1, FS_Subset
  <2> QED
    BY <2>2, <2>3
<1>9. removed \in Seq(s.old \ s.types) /\ added \in Seq(s.types \ s.old)
  BY <1>8, Listed, ZenonT(60)
<1>10. Len(added) = Cardinality(s.types \ s.old)
  <2> DEFINE A == s.types \ s.old
  <2>1. IsFiniteSet(A) /\ added = SetToSeq(A)
    BY <1>8
  <2> HIDE DEF A
  <2>2. Len(added) = Cardinality(A)
    BY <2>1, ListedOnce
  <2> QED
    BY <2>2 DEF A
<1> QED
  BY <1>1, <1>3, <1>4, <1>5, <1>6, <1>7, <1>8, <1>9, <1>10, ZenonT(60)

LEMMA SyncMakes ==
  ASSUME NEW s, NEW f, Synced(s, f), NEW removed, removed = SetToSeq(s.old \ s.types),
         NEW added, added = SetToSeq(s.types \ s.old)
  PROVE  todo' = FlattenSeq(RemovedRuns(s, f, removed)) \o FlattenSeq(AddedRuns(s, f, added))
BY ZenonT(60) DEF Synced, RoutesRemoved, RoutesAdded, RemovedRuns, AddedRuns

LEMMA ListFacts ==
  ASSUME NEW D
  PROVE  /\ \A q \in Seq(D) : /\ Len(q) \in Nat /\ DOMAIN q = 1..Len(q)
                             /\ \A i \in 1..Len(q) : q[i] \in D
         /\ \A n \in Nat : [1..n -> D] \subseteq Seq(D)
OBVIOUS

(* Each part is a run of steps on routes.                                  *)
LEMMA SyncRuns ==
  ASSUME AdminInv, SyncProviderRoutes, NEW s, s = todo[1], NEW f, Synced(s, f),
         NEW removed, removed = SetToSeq(s.old \ s.types),
         NEW added, added = SetToSeq(s.types \ s.old)
  PROVE  /\ next'.routes = next.routes + Len(added) /\ Grown(next, next')
         /\ DOMAIN removed = 1..Len(removed) /\ DOMAIN added = 1..Len(added)
         /\ \A i \in 1..Len(removed) :
               RemoveRoute(s.id, removed[i], f[removed[i]]) \in RouteRuns(next')
         /\ \A i \in 1..Len(added) :
               AddRoute(s.id, added[i], f[added[i]], next.routes + i - 1) \in RouteRuns(next')
<1> DEFINE x == Len(removed)
           y == Len(added)
<1>1. Types /\ next \in Numbers /\ next.routes \in Nat /\ next.routes # 0
  BY MemFacts DEF AdminInv
<1>2. /\ s.id \in Nat /\ s.types \subseteq ClientTypes /\ s.old \subseteq ClientTypes
      /\ removed \in Seq(s.old \ s.types) /\ added \in Seq(s.types \ s.old)
      /\ next' = [next EXCEPT !.routes = next.routes + Len(added)]
  BY SyncBegins
<1>3. /\ x \in Nat /\ DOMAIN removed = 1..x /\ \A i \in 1..x : removed[i] \in s.old \ s.types
  BY ONLY <1>2, ListFacts, ZenonT(60) DEF x, y
<1>4. /\ y \in Nat /\ DOMAIN added = 1..y /\ \A i \in 1..y : added[i] \in s.types \ s.old
  BY ONLY <1>2, ListFacts, ZenonT(60) DEF x, y
<1>5. \A ct \in (s.old \ s.types) \cup (s.types \ s.old) : f[ct] \in FindByKey(s.id, ct)
  BY DEF Synced, Finds
<1>6. next'.routes = next.routes + y
  BY <1>1, <1>2 DEF Numbers
<1> HIDE DEF x, y
<1>7. next'.routes \in Nat /\ next.routes <= next'.routes /\ Grown(next, next')
  <2>1. next.routes + y \in Nat \ {0} /\ next.routes <= next.routes + y
    BY <1>1, <1>4
  <2> QED
    BY <1>1, <1>2, <1>6, <2>1, Numbered DEF y
<1>8. ASSUME NEW i \in 1..x
      PROVE  RemoveRoute(s.id, removed[i], f[removed[i]]) \in RouteRuns(next')
  <2> DEFINE ct == removed[i]
  <2>1. f[ct] \in FindByKey(s.id, ct)
    BY <1>3, <1>5
  <2> HIDE DEF ct
  <2>2. RemoveRoute(s.id, ct, f[ct]) \in RouteRuns(next')
    BY <1>1, <1>7, <2>1, RemoveRouteRuns
  <2> QED
    BY <2>2 DEF ct
<1>9. ASSUME NEW i \in 1..y
      PROVE  AddRoute(s.id, added[i], f[added[i]], next.routes + i - 1) \in RouteRuns(next')
  <2> DEFINE ct == added[i]
             new == next.routes + i - 1
  <2>1. f[ct] \in FindByKey(s.id, ct) /\ ct \in ClientTypes
    BY <1>2, <1>4, <1>5
  <2>2. new \in 1..next'.routes - 1
    BY <1>1, <1>4, <1>6
  <2> HIDE DEF ct, new
  <2>3. AddRoute(s.id, ct, f[ct], new) \in RouteRuns(next')
    BY <1>1, <1>2, <1>7, <2>1, <2>2, AddRouteRuns
  <2> QED
    BY <2>3 DEF ct, new
<1> QED
  BY <1>3, <1>4, <1>6, <1>7, <1>8, <1>9 DEF x, y

LEMMA SyncStep ==
  ASSUME AdminInv, SyncProviderRoutes
  PROVE  AdminInv'
<1> PICK s : s = todo[1]
  OBVIOUS
<1> PICK removed : removed = SetToSeq(s.old \ s.types)
  OBVIOUS
<1> PICK added : added = SetToSeq(s.types \ s.old)
  OBVIOUS
<1>1. PICK f : Synced(s, f)
  BY SyncBegins
<1> DEFINE C == RouteRuns(next')
           A == RemovedRuns(s, f, removed)
           B == AddedRuns(s, f, added)
<1>2. /\ todo # <<>> /\ s.do = "sync"
      /\ db' = db /\ mem' = mem /\ match' = match /\ ops' = ops /\ ghost' = ghost
  BY SyncBegins
<1>3. /\ Grown(next, next')
      /\ DOMAIN removed = 1..Len(removed) /\ DOMAIN added = 1..Len(added)
      /\ \A i \in 1..Len(removed) : RemoveRoute(s.id, removed[i], f[removed[i]]) \in C
      /\ \A i \in 1..Len(added) :
            AddRoute(s.id, added[i], f[added[i]], next.routes + i - 1) \in C
  BY <1>1, SyncRuns, ZenonT(60) DEF C
<1>4. todo' = FlattenSeq(A) \o FlattenSeq(B)
  BY <1>1, SyncMakes
<1>5. Len(removed) \in Nat /\ Len(added) \in Nat
  BY SyncBegins
<1> HIDE DEF C
<1>6. A \in Seq(C)
  <2>1. A \in [1..Len(removed) -> C]
    BY <1>3 DEF RemovedRuns
  <2> HIDE DEF A
  <2> QED
    BY <1>5, <2>1, ListFacts, ZenonT(60)
<1>7. B \in Seq(C)
  <2>1. B \in [1..Len(added) -> C]
    BY <1>3 DEF AddedRuns
  <2> HIDE DEF B
  <2> QED
    BY <1>5, <2>1, ListFacts, ZenonT(60)
<1> HIDE DEF A, B
<1>8. todo' \in C
  <2>1. <<>> \in C /\ \A p, q \in C : p \o q \in C
    BY NoRun, RunsFollow DEF C
  <2>2. FlattenSeq(A) \in C
    BY <1>6, <2>1, FlattenClosed
  <2>3. FlattenSeq(B) \in C
    BY <1>7, <2>1, FlattenClosed
  <2> QED
    BY <1>4, <2>1, <2>2, <2>3
<1>9. Shaped(todo', next', ops') /\ Heads'
  BY <1>8, RunShaped, PlainHeads DEF C
<1>10. AtRest
  BY <1>2 DEF AtRest
<1>11. Types /\ ghost \in Ghosts /\ ops \in Nat /\ next \in Numbers
  BY MemFacts DEF AdminInv
<1> QED
  BY <1>2, <1>3, <1>9, <1>10, <1>11, Begun

-------------------------------------------------------------------------------
(* The steps of an operation.                                              *)
LEMMA SecondStep ==
  ASSUME Types, todo # <<>>, NEW t, t = Tail(todo)
  PROVE  /\ Shaped(t, next, ops) /\ Head(todo) = todo[1] /\ todo[1] \in Steps(next, ops)
         /\ t # <<>> =>
               /\ t[1].do # "cache" /\ ~IsSave(t[1])
               /\ t[1].do = "refresh" => IsSave(todo[1]) /\ Same(todo[1], t[1])
               /\ IsDelete(t[1]) => todo[1].do = "remove adapter" /\ todo[1].id = t[1].id
         /\ todo[1].do = "edit" =>
               t # <<>> /\ t[1].do = "statement" /\ t[1].table = "routes" /\ Same(t[1], todo[1])
         /\ IsSave(todo[1]) =>
               /\ todo[1].row.version = ops
               /\ t # <<>> /\ t[1].do = "refresh" /\ Same(t[1], todo[1])
         /\ todo[1].do = "remove adapter" =>
               t # <<>> /\ t[1].do = "statement" /\ IsDelete(t[1]) /\ t[1].id = todo[1].id
         /\ todo[1].do = "refresh" => ~todo[1].row.deleted /\ todo[1].row.version = ops
<1> DEFINE q == todo
<1>1. q \in Seq(Steps(next, ops)) /\ \A i \in 1..Len(q) : Placed(q, i, ops)
  BY DEF Types, Shaped
<1>2. Shaped(t, next, ops)
  BY TailShaped DEF Types
<1>3. /\ Len(q) \in Nat \ {0} /\ Head(q) = q[1] /\ q[1] \in Steps(next, ops)
      /\ t \in Seq(Steps(next, ops)) /\ Len(t) = Len(q) - 1
      /\ \A i \in 1..Len(q) - 1 : t[i] = q[i + 1]
  BY <1>1, TailFacts
<1>4. 2 <= Len(q) => t # <<>> /\ t[1] = q[2]
  <2>1. 2 <= Len(q) => 1 \in 1..Len(q) - 1 /\ 1 + 1 = 2 /\ Len(t) # 0
    BY <1>3
  <2>2. Len(<<>>) = 0
    OBVIOUS
  <2>3. 2 <= Len(q) => t[1] = q[1 + 1]
    BY <1>3, <2>1
  <2> QED
    BY <2>1, <2>2, <2>3
<1>5. t # <<>> => 2 <= Len(q)
  BY <1>3
<1>6. Placed(q, 1, ops) /\ (2 <= Len(q) => Placed(q, 2, ops))
  BY <1>1, <1>3
<1> HIDE DEF q
<1>7. ASSUME t # <<>>
      PROVE  /\ t[1].do # "cache" /\ ~IsSave(t[1])
             /\ t[1].do = "refresh" => IsSave(q[1]) /\ Same(q[1], t[1])
             /\ IsDelete(t[1]) => q[1].do = "remove adapter" /\ q[1].id = t[1].id
  <2>1. t[1] = q[2] /\ Placed(q, 2, ops)
    BY <1>4, <1>5, <1>6, <1>7
  <2>2. 2 # 1 /\ 2 - 1 = 1
    OBVIOUS
  <2> QED
    BY <2>1, <2>2 DEF Placed
<1>8. /\ q[1].do = "edit" =>
            2 <= Len(q) /\ q[2].do = "statement" /\ q[2].table = "routes" /\ Same(q[2], q[1])
      /\ q[1].do = "remove adapter" =>
            2 <= Len(q) /\ q[2].do = "statement" /\ IsDelete(q[2]) /\ q[2].id = q[1].id
  <2>1. 1 + 1 = 2
    OBVIOUS
  <2> QED
    BY <1>6, <2>1 DEF Placed
<1>9. /\ IsSave(q[1]) =>
            /\ q[1].row.version = ops
            /\ 2 <= Len(q) /\ q[2].do = "refresh" /\ Same(q[2], q[1])
      /\ q[1].do = "refresh" => ~q[1].row.deleted /\ q[1].row.version = ops
  BY <1>6 DEF Placed
<1> QED
  BY <1>2, <1>3, <1>4, <1>7, <1>8, <1>9 DEF q

LEMMA RefusedStep ==
  ASSUME AdminInv, Refused
  PROVE  AdminInv'
<1> DEFINE s == todo[1]
           t == Tail(todo)
           key == <<s.table, s.id>>
           drifted == IF ChangedBefore(s) THEN ghost.drifted \cup {key} ELSE ghost.drifted
<1>1. Types /\ Heads /\ Founded /\ Agreement /\ GoneStays /\ MatchedFits
  BY DEF AdminInv
<1>2. todo # <<>> /\ Head(todo).do = "statement"
  BY DEF Refused, Head1
<1>3. /\ Shaped(t, next, ops) /\ Head(todo) = s /\ s \in Steps(next, ops)
      /\ t # <<>> =>
            /\ t[1].do # "cache" /\ ~IsSave(t[1])
            /\ t[1].do = "refresh" => IsSave(s)
            /\ IsDelete(t[1]) => s.do = "remove adapter"
  BY <1>1, <1>2, SecondStep
<1>4. /\ todo' = (IF s.heed THEN <<>> ELSE t)
      /\ ghost' = [ghost EXCEPT !.torn = TRUE, !.drifted = drifted]
      /\ db' = db /\ mem' = mem /\ next' = next /\ match' = match /\ ops' = ops
  BY <1>3 DEF Refused
<1>5. s \in Writes(next, ops) /\ s.do = "statement"
  BY <1>2, <1>3, StepKinds DEF Do
<1>6. s.table \in TableNames /\ s.id \in Nat
  <2>1. ops \in Nat /\ next \in Numbers
    BY <1>1 DEF Types
  <2> QED
    BY <1>5, <2>1, WriteFields
<1>7. ~s.heed => s.table = "routes"
  BY <1>5 DEF Writes, ProviderWrites, RouteWrites, ConfigWrites, PlanWrites
<1> HIDE DEF s, t
<1>8. todo' = <<>> \/ Plain(todo'[1])
  BY <1>3, <1>4, <1>5, <1>7 DEF Plain, IsSave, IsDelete, IsWrite
<1>9. Shaped(todo', next, ops)
  BY <1>3, <1>4, NothingLeft
<1>10. /\ ghost' \in Ghosts /\ ghost'.drifted = drifted /\ ghost'.partial = ghost.partial
       /\ ghost'.revived = ghost.revived
  <2>1. ghost \in Ghosts
    BY <1>1 DEF Types
  <2>2. drifted \in SUBSET (TableNames \X Nat)
    BY <1>6, <2>1 DEF Ghosts
  <2> HIDE DEF drifted
  <2> QED
    BY <1>4, <2>1, <2>2 DEF Ghosts
<1>11. Types'
  BY <1>1, <1>4, <1>9, <1>10 DEF Types
<1>12. Heads'
  BY <1>8, PlainHeads
<1>13. Founded'
  BY <1>1, <1>4, <1>10 DEF Founded, Gone
<1>14. GoneStays' /\ MatchedFits'
  BY <1>1, <1>4, <1>10 DEF GoneStays, MatchedFits, Gone
<1>15. /\ \A table, id : ~Due(table, id)
       /\ \A r : EditedBefore(r) => <<"routes", r>> \in drifted
       /\ \A p : Awaits(p) => <<"providers", p>> \in drifted
  <2>1. \A table, id : ~Due(table, id)
    BY <1>5 DEF Due, s
  <2>2. ASSUME NEW r, EditedBefore(r) PROVE <<"routes", r>> \in drifted
    <3>1. s.table = "routes" /\ s.id = r /\ ChangedBefore(s)
      BY <2>2 DEF EditedBefore, ChangedBefore, s
    <3> QED
      BY <3>1
  <2>3. ASSUME NEW p, Awaits(p) PROVE <<"providers", p>> \in drifted
    <3>1. IsDelete(s) /\ s.id = p
      BY <1>5, <2>1, <2>3 DEF Awaits, s
    <3>2. ChangedBefore(s) /\ s.table = "providers"
      BY <3>1 DEF ChangedBefore, IsDelete, IsWrite
    <3> QED
      BY <3>1, <3>2
  <2> QED
    BY <2>1, <2>2, <2>3
<1>16. ghost.drifted \subseteq ghost'.drifted
  BY <1>10
<1> HIDE DEF drifted
<1>17. RoutesAgree'
  BY <1>1, <1>4, <1>10, <1>15, <1>16 DEF Agreement, RoutesAgree, Agree
<1>18. ProvidersAgree'
  BY <1>1, <1>4, <1>10, <1>15 DEF Agreement, ProvidersAgree, Agree, LoadProviders
<1>19. ConfigsAgree' /\ DefaultFlagged'
  BY <1>1, <1>4, <1>15 DEF Agreement, ConfigsAgree, DefaultFlagged, Flagged
<1>20. StrategiesAgree'
  BY <1>1, <1>4, <1>15 DEF Agreement, StrategiesAgree, Held
<1>21. AdaptersFit'
  BY <1>1, <1>4, <1>10, <1>15, <1>16 DEF Agreement, AdaptersFit
<1> QED
  BY <1>11, <1>12, <1>13, <1>14, <1>17, <1>18, <1>19, <1>20, <1>21 DEF AdminInv, Agreement

(* The fields that a step on the caches alone leaves as they are.          *)
LEMMA CacheFields ==
  ASSUME Types
  PROVE  /\ mem = [providers |-> mem.providers, routes |-> mem.routes,
                   configs |-> mem.configs, default |-> mem.default,
                   strategies |-> mem.strategies, adapters |-> mem.adapters]
         /\ mem.providers \in Maps(next.providers, ProviderRows(ops))
         /\ mem.routes \in Maps(next.routes, RouteRows)
         /\ mem.configs \in Maps(next.configs, ConfigRows)
         /\ mem.default \in Nat /\ mem.strategies \in Plans
         /\ mem.adapters \in Maps(next.providers, 0..ops)
<1>1. mem \in Caches(next, ops)
  BY DEF Types
<1> QED
  BY <1>1 DEF Caches

(* The adapters alone change.                                              *)
LEMMA AdaptersChanged ==
  ASSUME Types, NEW a \in Maps(next.providers, 0..ops),
         mem' = [mem EXCEPT !.adapters = a]
  PROVE  /\ mem' \in Caches(next, ops) /\ mem'.adapters = a
         /\ mem'.providers = mem.providers /\ mem'.routes = mem.routes
         /\ mem'.configs = mem.configs /\ mem'.default = mem.default
         /\ mem'.strategies = mem.strategies
<1> DEFINE m == [providers |-> mem.providers, routes |-> mem.routes,
                   configs |-> mem.configs, default |-> mem.default,
                   strategies |-> mem.strategies, adapters |-> a]
<1>1. mem' = m
  BY CacheFields
<1>2. m \in Caches(next, ops)
  BY CacheFields DEF Caches
<1> QED
  BY <1>1, <1>2

LEMMA AdapterStep ==
  ASSUME AdminInv, NEW a \in Maps(next.providers, 0..ops),
         mem' = [mem EXCEPT !.adapters = a], todo # <<>>, todo' = Tail(todo),
         todo[1].do \in {"refresh", "remove adapter"},
         UNCHANGED <<db, next, match, ops, ghost>>,
         DOMAIN a \subseteq DOMAIN db.providers,
         \A p \in DOMAIN a \cap DOMAIN mem.providers : a[p] <= mem.providers[p].version,
         \A p \in Gone(db) \cap DOMAIN a : p \in ghost.revived,
         \A p : p # todo[1].id => (p \in DOMAIN a <=> p \in DOMAIN mem.adapters)
                                  /\ (p \in DOMAIN a => a[p] = mem.adapters[p]),
         ~ghost.partial /\ todo[1].id \in DOMAIN mem.providers
            /\ mem.providers[todo[1].id].ok =>
               \/ todo[1].id \in DOMAIN a /\ a[todo[1].id] = mem.providers[todo[1].id].version
               \/ todo[1].do = "remove adapter",
         todo[1].do = "remove adapter" => todo[1].id \notin DOMAIN a
  PROVE  AdminInv'
<1> DEFINE s == todo[1]
           t == Tail(todo)
<1>1. Types /\ Heads /\ Founded /\ Agreement /\ GoneStays /\ MatchedFits
  BY DEF AdminInv
<1>2. /\ mem' \in Caches(next, ops) /\ mem'.adapters = a
      /\ mem'.providers = mem.providers /\ mem'.routes = mem.routes
      /\ mem'.configs = mem.configs /\ mem'.default = mem.default
      /\ mem'.strategies = mem.strategies
  BY <1>1, AdaptersChanged
<1>3. /\ Shaped(t, next, ops) /\ s \in Steps(next, ops)
      /\ t # <<>> =>
            /\ t[1].do # "cache" /\ ~IsSave(t[1])
            /\ t[1].do = "refresh" => IsSave(s)
            /\ IsDelete(t[1]) => s.do = "remove adapter" /\ s.id = t[1].id
      /\ s.do = "remove adapter" =>
            t # <<>> /\ t[1].do = "statement" /\ IsDelete(t[1]) /\ t[1].id = s.id
  BY <1>1, SecondStep
<1>4. ~IsSave(s)
  BY DEF IsSave, IsWrite, Do
<1> HIDE DEF s, t
<1>5. todo' = t
  BY DEF t
<1>6. Types'
  BY <1>1, <1>2, <1>3, <1>5 DEF Types
<1>7. Heads'
  <2>1. ASSUME t # <<>>, IsDelete(t[1]) PROVE t[1].id \notin DOMAIN a
    BY <1>3, <2>1 DEF s
  <2> QED
    BY <1>2, <1>3, <1>4, <1>5, <2>1 DEF Heads
<1>8. Founded'
  <2>1. DOMAIN mem.providers \subseteq DOMAIN db.providers
        /\ mem.default \in DOMAIN mem.configs \cup {NoId}
    BY <1>1 DEF Founded
  <2> QED
    BY <1>2, <2>1 DEF Founded, Gone
<1>9. GoneStays' /\ MatchedFits'
  BY <1>1 DEF GoneStays, MatchedFits, Gone
<1>10. /\ \A table, id : ~Due(table, id)
       /\ \A r : ~EditedBefore(r)
       /\ \A p : Awaits(p) => s.do = "refresh" /\ s.id = p
  BY DEF Due, EditedBefore, Awaits, s
<1>11. RoutesAgree'
  BY <1>1, <1>2, <1>10 DEF Agreement, RoutesAgree, Agree
<1>12. ProvidersAgree'
  <2>1. LoadProviders(db)' = LoadProviders(db)
    BY DEF LoadProviders
  <2>2. \A p \in Nat : Agree(mem.providers, LoadProviders(db), p) \/ p \in ghost.revived
    BY <1>1, <1>10 DEF Agreement, ProvidersAgree
  <2> QED
    BY <1>2, <2>1, <2>2 DEF ProvidersAgree, Agree
<1>13. ConfigsAgree' /\ DefaultFlagged'
  BY <1>1, <1>2, <1>10 DEF Agreement, ConfigsAgree, DefaultFlagged, Flagged
<1>14. StrategiesAgree'
  BY <1>1, <1>2, <1>10 DEF Agreement, StrategiesAgree, Held
<1>15. AdaptersFit'
  <2>1. SUFFICES ASSUME ~ghost.partial, NEW p \in DOMAIN mem.providers, mem.providers[p].ok
                 PROVE  \/ p \in DOMAIN a /\ a[p] = mem.providers[p].version
                        \/ <<"providers", p>> \in ghost.drifted \/ Awaits(p)'
    BY <1>2 DEF AdaptersFit
  <2>2. CASE p = s.id
    <3>1. s.do = "remove adapter" => Awaits(p)'
      BY <1>3, <1>5, <2>2 DEF Awaits
    <3> QED
      BY <2>1, <2>2, <3>1 DEF s
  <2>3. CASE p # s.id
    <3>1. \/ p \in DOMAIN mem.adapters /\ mem.adapters[p] = mem.providers[p].version
          \/ <<"providers", p>> \in ghost.drifted
      BY <1>1, <1>10, <2>1, <2>3 DEF Agreement, AdaptersFit
    <3> QED
      BY <2>3, <3>1 DEF s
  <2> QED
    BY <2>2, <2>3
<1> QED
  BY <1>6, <1>7, <1>8, <1>9, <1>11, <1>12, <1>13, <1>14, <1>15 DEF AdminInv, Agreement

LEMMA RefreshStep ==
  ASSUME AdminInv, Refresh
  PROVE  AdminInv'
<1> DEFINE s == todo[1]
           a == IF s.row.ok THEN Put(mem.adapters, s.id, s.row.version) ELSE mem.adapters
<1>1. Types /\ Heads /\ Founded
  BY DEF AdminInv
<1>2. todo # <<>> /\ Head(todo) = s /\ s.do = "refresh" /\ s \in Steps(next, ops)
  BY <1>1, SecondStep DEF Refresh, Head1
<1>3. s \in Refreshes(next, ops)
  BY <1>2, StepKinds
<1>4. s.id \in DOMAIN mem.providers /\ mem.providers[s.id] = s.row
      /\ (s.id \in Gone(db) => s.id \in ghost.revived)
  BY <1>1, <1>2 DEF Heads
<1>5. /\ mem' = [mem EXCEPT !.adapters = a] /\ todo' = Tail(todo)
      /\ UNCHANGED <<db, next, match, ops, ghost>>
  BY <1>2 DEF Refresh
<1>6. s.id \in 1..next.providers - 1 /\ s.row.version \in 0..ops /\ s.row.version \in Int
  BY <1>3 DEF Refreshes, ProviderRows
<1>7. next.providers \in Nat /\ mem.adapters \in Maps(next.providers, 0..ops)
  BY <1>1, MemFacts, CacheFields
<1> HIDE DEF s
<1>8. a \in Maps(next.providers, 0..ops)
  BY <1>6, <1>7, MapPut
<1>9. /\ DOMAIN a \subseteq DOMAIN mem.adapters \cup {s.id}
      /\ s.row.ok => s.id \in DOMAIN a /\ a[s.id] = s.row.version
      /\ \A p : p # s.id => (p \in DOMAIN a <=> p \in DOMAIN mem.adapters)
                            /\ (p \in DOMAIN a => a[p] = mem.adapters[p])
      /\ ~s.row.ok => a = mem.adapters
  <2> DEFINE b == Put(mem.adapters, s.id, s.row.version)
  <2>1. /\ DOMAIN b = DOMAIN mem.adapters \cup {s.id} /\ b[s.id] = s.row.version
        /\ \A y \in DOMAIN mem.adapters : y # s.id => b[y] = mem.adapters[y]
    BY DEF Put
  <2>2. a = IF s.row.ok THEN b ELSE mem.adapters
    OBVIOUS
  <2> HIDE DEF a, b
  <2> QED
    BY <2>1, <2>2
<1> HIDE DEF a
<1>10. DOMAIN a \subseteq DOMAIN db.providers
  BY <1>1, <1>4, <1>9 DEF Founded
<1>11. \A p \in DOMAIN a \cap DOMAIN mem.providers : a[p] <= mem.providers[p].version
  BY <1>1, <1>4, <1>6, <1>9 DEF Founded
<1>12. \A p \in Gone(db) \cap DOMAIN a : p \in ghost.revived
  BY <1>1, <1>4, <1>9 DEF Founded
<1>13. mem.providers[s.id].ok => s.id \in DOMAIN a /\ a[s.id] = mem.providers[s.id].version
  BY <1>4, <1>9
<1> QED
  BY <1>2, <1>5, <1>8, <1>9, <1>10, <1>11, <1>12, <1>13, AdapterStep DEF s

LEMMA RemoveAdapterStep ==
  ASSUME AdminInv, RemoveAdapter
  PROVE  AdminInv'
<1> DEFINE s == todo[1]
           a == Drop(mem.adapters, s.id)
<1>1. Types /\ Founded
  BY DEF AdminInv
<1>2. todo # <<>> /\ Head(todo) = s /\ s.do = "remove adapter"
  BY <1>1, SecondStep DEF RemoveAdapter, Head1
<1>3. /\ mem' = [mem EXCEPT !.adapters = a] /\ todo' = Tail(todo)
      /\ UNCHANGED <<db, next, match, ops, ghost>>
  BY <1>2 DEF RemoveAdapter
<1>4. a \in Maps(next.providers, 0..ops)
  BY <1>1, MemFacts, CacheFields, MapDrop
<1>5. /\ DOMAIN a = DOMAIN mem.adapters \ {s.id}
      /\ \A y \in DOMAIN mem.adapters : y # s.id => a[y] = mem.adapters[y]
  BY DropFacts
<1> HIDE DEF a
<1>6. DOMAIN a \subseteq DOMAIN db.providers
  BY <1>1, <1>5 DEF Founded
<1>7. \A p \in DOMAIN a \cap DOMAIN mem.providers : a[p] <= mem.providers[p].version
  BY <1>1, <1>5 DEF Founded
<1>8. \A p \in Gone(db) \cap DOMAIN a : p \in ghost.revived
  BY <1>1, <1>5 DEF Founded
<1>9. \A p : p # s.id => (p \in DOMAIN a <=> p \in DOMAIN mem.adapters)
                         /\ (p \in DOMAIN a => a[p] = mem.adapters[p])
  BY <1>5
<1> QED
  BY <1>2, <1>3, <1>4, <1>5, <1>6, <1>7, <1>8, <1>9, AdapterStep

LEMMA EditStep ==
  ASSUME AdminInv, Edit
  PROVE  AdminInv'
<1> DEFINE s == todo[1]
           t == Tail(todo)
           f == Edited(mem.routes, s.id, s.row)
           g == Edited(match.routes, s.id, s.row)
<1>1. Types /\ Heads /\ Founded /\ Agreement /\ GoneStays /\ MatchedFits
  BY DEF AdminInv
<1>2. /\ todo # <<>> /\ Head(todo) = s /\ s.do = "edit" /\ s \in Steps(next, ops)
      /\ Shaped(t, next, ops)
      /\ t # <<>> /\ t[1].do = "statement" /\ t[1].table = "routes" /\ Same(t[1], s)
  BY <1>1, SecondStep DEF Edit, Head1
<1>3. s \in Edits(next)
  BY <1>2, StepKinds
<1>4. s.id \in 1..next.routes - 1 /\ s.row \in RouteRows
  BY <1>3 DEF Edits
<1>5. /\ mem' = [mem EXCEPT !.routes = f] /\ match' = [match EXCEPT !.routes = g]
      /\ todo' = t /\ UNCHANGED <<db, next, ops, ghost>>
  BY <1>2 DEF Edit
<1> HIDE DEF s, t
<1>6. f \in Maps(next.routes, RouteRows)
  <2>1. next.routes \in Nat /\ mem.routes \in Maps(next.routes, RouteRows)
    BY <1>1, MemFacts, CacheFields
  <2>2. Put(mem.routes, s.id, s.row) \in Maps(next.routes, RouteRows)
    BY <1>4, <2>1, MapPut
  <2> QED
    BY <2>1, <2>2 DEF Edited
<1>7. /\ s.id \notin DOMAIN mem.routes => f = mem.routes
      /\ \A y : y # s.id => (y \in DOMAIN f <=> y \in DOMAIN mem.routes)
                            /\ (y \in DOMAIN f => f[y] = mem.routes[y])
      /\ s.id \in DOMAIN mem.routes => s.id \in DOMAIN f
  <2> DEFINE b == Put(mem.routes, s.id, s.row)
  <2>1. /\ DOMAIN b = DOMAIN mem.routes \cup {s.id}
        /\ \A y \in DOMAIN mem.routes : y # s.id => b[y] = mem.routes[y]
    BY DEF Put
  <2>2. f = IF s.id \in DOMAIN mem.routes THEN b ELSE mem.routes
    BY DEF Edited
  <2> HIDE DEF f, b
  <2> QED
    BY <2>1, <2>2
<1> HIDE DEF f, g
<1>8. /\ mem' \in Caches(next, ops) /\ mem'.routes = f /\ mem'.adapters = mem.adapters
      /\ mem'.providers = mem.providers /\ mem'.configs = mem.configs
      /\ mem'.default = mem.default /\ mem'.strategies = mem.strategies
  <2> DEFINE m == [providers |-> mem.providers, routes |-> f,
                   configs |-> mem.configs, default |-> mem.default,
                   strategies |-> mem.strategies, adapters |-> mem.adapters]
  <2>1. mem' = m
    BY <1>1, <1>5, CacheFields
  <2>2. m \in Caches(next, ops)
    BY <1>1, <1>6, CacheFields DEF Caches
  <2> QED
    BY <2>1, <2>2
<1>9. /\ match'.pc = match.pc /\ match'.gone = match.gone /\ match'.matched = match.matched
      /\ match' = [pc |-> match'.pc, routes |-> match'.routes, default |-> match'.default,
                   gone |-> match'.gone, matched |-> match'.matched]
  <2> DEFINE m == [pc |-> match.pc, routes |-> g, default |-> match.default,
                   gone |-> match.gone, matched |-> match.matched]
  <2>1. match' = m
    BY <1>1, <1>5 DEF Types
  <2> QED
    BY <2>1
<1>10. Types'
  BY <1>1, <1>2, <1>5, <1>8, <1>9 DEF Types
<1>11. Heads'
  <2>1. Plain(t[1])
    BY <1>2 DEF Plain, IsWrite
  <2> QED
    BY <1>5, <2>1, PlainHeads
<1>12. Founded'
  BY <1>1, <1>5, <1>8 DEF Founded, Gone
<1>13. GoneStays' /\ MatchedFits'
  BY <1>1, <1>5, <1>9 DEF GoneStays, MatchedFits, Gone
<1>14. /\ \A table, id : ~Due(table, id)
       /\ \A r : ~EditedBefore(r)
       /\ \A p : ~Awaits(p)
  BY <1>2 DEF Due, EditedBefore, Awaits, s
<1>15. RoutesAgree'
  <2>1. SUFFICES ASSUME NEW r \in Nat, s.id # r \/ r \notin DOMAIN mem.routes
                 PROVE  Agree(mem.routes, db.routes, r)' \/ <<"routes", r>> \in ghost.drifted
    <3>1. ASSUME NEW x \in Nat, x = s.id, x \in DOMAIN mem.routes PROVE EditedBefore(x)'
      <4>1. s.row # NoRow
        BY <1>4, RowsAreRows
      <4> QED
        BY <1>2, <1>5, <1>7, <1>8, <3>1, <4>1 DEF EditedBefore, Same
    <3> QED
      BY <1>5, <2>1, <3>1 DEF RoutesAgree
  <2>2. Agree(mem.routes, db.routes, r) \/ <<"routes", r>> \in ghost.drifted
    BY <1>1, <1>14 DEF Agreement, RoutesAgree
  <2>3. (r \in DOMAIN f <=> r \in DOMAIN mem.routes)
        /\ (r \in DOMAIN f => f[r] = mem.routes[r])
    BY <1>7, <2>1
  <2> QED
    BY <1>5, <1>8, <2>2, <2>3 DEF Agree
<1>16. ProvidersAgree'
  <2>1. LoadProviders(db)' = LoadProviders(db)
    BY <1>5 DEF LoadProviders
  <2>2. \A p \in Nat : Agree(mem.providers, LoadProviders(db), p) \/ p \in ghost.revived
    BY <1>1, <1>14 DEF Agreement, ProvidersAgree
  <2> QED
    BY <1>5, <1>8, <2>1, <2>2 DEF ProvidersAgree, Agree
<1>17. ConfigsAgree' /\ DefaultFlagged'
  BY <1>1, <1>5, <1>8, <1>14 DEF Agreement, ConfigsAgree, DefaultFlagged, Flagged
<1>18. StrategiesAgree'
  BY <1>1, <1>5, <1>8, <1>14 DEF Agreement, StrategiesAgree, Held
<1>19. AdaptersFit'
  BY <1>1, <1>5, <1>8, <1>14 DEF Agreement, AdaptersFit
<1> QED
  BY <1>10, <1>11, <1>12, <1>13, <1>15, <1>16, <1>17, <1>18, <1>19 DEF AdminInv, Agreement

(* A statement writes one row of one table.                                *)
OnlyAt(f, g, x) ==
    \A y : y # x => (y \in DOMAIN f <=> y \in DOMAIN g) /\ (y \in DOMAIN f => f[y] = g[y])

LEMMA WriteOnlyAt ==
  ASSUME NEW f, NEW x, NEW v
  PROVE  /\ OnlyAt(Write(f, x, v), f, x)
         /\ v = NoRow => x \notin DOMAIN Write(f, x, v)
         /\ v # NoRow => x \in DOMAIN Write(f, x, v) /\ Write(f, x, v)[x] = v
         /\ v # NoRow => DOMAIN Write(f, x, v) = DOMAIN f \cup {x}
<1> DEFINE g == Write(f, x, v)
<1>1. /\ v = NoRow => DOMAIN g = DOMAIN f \ {x}
      /\ v # NoRow => x \in DOMAIN g /\ g[x] = v
      /\ v # NoRow => DOMAIN g = DOMAIN f \cup {x}
      /\ \A y : y # x => (y \in DOMAIN g <=> y \in DOMAIN f)
      /\ \A y \in DOMAIN f : y # x => g[y] = f[y]
  BY WriteFacts
<1> HIDE DEF g
<1>2. OnlyAt(g, f, x)
  BY <1>1 DEF OnlyAt
<1> QED
  BY <1>1, <1>2 DEF g

LEMMA DeletedRow ==
  ASSUME NEW k, NEW row \in ProviderRows(k)
  PROVE  LET v == [row EXCEPT !.deleted = TRUE]
         IN  /\ v \in ProviderRows(k) /\ v.deleted /\ v.version = row.version
             /\ row.deleted => v = row
<1> DEFINE v == [row EXCEPT !.deleted = TRUE]
<1>1. v \in ProviderRows(k) /\ v.deleted /\ v.version = row.version
  BY DEF ProviderRows
<1>2. row.deleted => v = row
  <2>1. row = [types |-> row.types, ok |-> row.ok, version |-> row.version,
               deleted |-> row.deleted] /\ row.deleted \in BOOLEAN
    BY DEF ProviderRows
  <2> QED
    BY <2>1
<1> QED
  BY <1>1, <1>2

LEMMA RowsWritten ==
  ASSUME Types, NEW s \in Writes(next, ops)
  PROVE  /\ s.table = "providers" =>
               /\ RowWritten(s) \in ProviderRows(ops) /\ s.id \in 1..next.providers - 1
               /\ s.row \in ProviderRows(ops)
               /\ RowWritten(s).deleted <=> (s.row.deleted \/ s.id \in Gone(db))
               /\ s.id \notin Gone(db) => RowWritten(s) = s.row
               /\ s.id \in Gone(db) => RowWritten(s) = [s.row EXCEPT !.deleted = TRUE]
         /\ s.table # "providers" => RowWritten(s) = s.row
         /\ s.table = "routes" => s.row \in RouteRows \cup {NoRow} /\ s.id \in 1..next.routes - 1
         /\ s.table = "configs" => s.row \in ConfigRows \cup {NoRow} /\ s.id \in 1..next.configs - 1
         /\ s.table = "strategies" =>
               s.row \in PlanRows \cup {NoRow} /\ s.id \in 1..next.strategies - 1
<1>1. CASE s.table = "providers"
  <2>1. s \in ProviderWrites(next, ops)
    BY <1>1, WriteKinds
  <2>2. s.id \in 1..next.providers - 1 /\ s.row \in ProviderRows(ops)
    BY <2>1 DEF ProviderWrites
  <2> DEFINE row == s.row
             v == [row EXCEPT !.deleted = TRUE]
  <2>3. RowWritten(s) = IF s.id \in Gone(db) THEN v ELSE row
    BY <1>1 DEF RowWritten
  <2>4. v \in ProviderRows(ops) /\ v.deleted
    BY <2>2, DeletedRow
  <2>5. row \in ProviderRows(ops)
    BY <2>2
  <2> HIDE DEF v, row
  <2> QED
    BY <1>1, <2>2, <2>3, <2>4, <2>5 DEF row, v
<1>2. CASE s.table # "providers"
  <2>1. s.table = "routes" => s.row \in RouteRows \cup {NoRow} /\ s.id \in 1..next.routes - 1
    <3>1. s.table = "routes" => s \in RouteWrites(next)
      BY WriteKinds
    <3> QED
      BY <3>1 DEF RouteWrites
  <2>2. s.table = "configs" => s.row \in ConfigRows \cup {NoRow} /\ s.id \in 1..next.configs - 1
    <3>1. s.table = "configs" => s \in ConfigWrites(next)
      BY WriteKinds
    <3> QED
      BY <3>1 DEF ConfigWrites
  <2>3. s.table = "strategies" =>
               s.row \in PlanRows \cup {NoRow} /\ s.id \in 1..next.strategies - 1
    <3>1. s.table = "strategies" => s \in PlanWrites(next)
      BY WriteKinds
    <3> QED
      BY <3>1 DEF PlanWrites
  <2> QED
    BY <1>2, <2>1, <2>2, <2>3 DEF RowWritten
<1> QED
  BY <1>1, <1>2

LEMMA TableWritten ==
  ASSUME Types, NEW s \in Writes(next, ops),
         db' = [db EXCEPT ![s.table] = Write(@, s.id, RowWritten(s))]
  PROVE  /\ db' \in Tables(next, ops)
         /\ IF s.table = "providers"
            THEN db'.providers = Write(db.providers, s.id, RowWritten(s))
            ELSE db'.providers = db.providers
         /\ IF s.table = "routes" THEN db'.routes = Write(db.routes, s.id, s.row)
            ELSE db'.routes = db.routes
         /\ IF s.table = "configs" THEN db'.configs = Write(db.configs, s.id, s.row)
            ELSE db'.configs = db.configs
         /\ IF s.table = "strategies" THEN db'.strategies = Write(db.strategies, s.id, s.row)
            ELSE db'.strategies = db.strategies
<1> DEFINE p == Write(db.providers, s.id, RowWritten(s))
           r == Write(db.routes, s.id, RowWritten(s))
           c == Write(db.configs, s.id, RowWritten(s))
           g == Write(db.strategies, s.id, RowWritten(s))
<1>1. /\ db = [providers |-> db.providers, routes |-> db.routes, configs |-> db.configs,
               strategies |-> db.strategies]
      /\ db.providers \in Maps(next.providers, ProviderRows(ops))
      /\ db.routes \in Maps(next.routes, RouteRows)
      /\ db.configs \in Maps(next.configs, ConfigRows)
      /\ db.strategies \in Maps(next.strategies, PlanRows)
  BY DEF Types, Tables
<1>2. next.providers \in Nat /\ next.routes \in Nat /\ next.configs \in Nat
      /\ next.strategies \in Nat
  BY MemFacts
<1>3. CASE s.table = "providers"
  <2>1. p \in Maps(next.providers, ProviderRows(ops))
    <3>1. RowWritten(s) \in ProviderRows(ops) \cup {NoRow} /\ s.id \in 1..next.providers - 1
      BY <1>3, RowsWritten
    <3> QED
      BY <1>1, <1>2, <3>1, MapWrite
  <2>2. db' = [db EXCEPT !.providers = p]
    BY <1>3
  <2> HIDE DEF p
  <2>3. db' = [providers |-> p, routes |-> db.routes, configs |-> db.configs,
               strategies |-> db.strategies]
    BY <1>1, <2>2
  <2>4. db' \in Tables(next, ops)
    BY <1>1, <2>1, <2>3 DEF Tables
  <2> QED
    BY <1>3, <2>3, <2>4 DEF p
<1>4. CASE s.table = "routes"
  <2>1. RowWritten(s) = s.row /\ s.row \in RouteRows \cup {NoRow}
        /\ s.id \in 1..next.routes - 1
    BY <1>4, RowsWritten
  <2>2. r \in Maps(next.routes, RouteRows)
    BY <1>1, <1>2, <2>1, MapWrite
  <2>3. db' = [db EXCEPT !.routes = r]
    BY <1>4
  <2>4. r = Write(db.routes, s.id, s.row)
    BY <2>1
  <2> HIDE DEF r
  <2>5. db' = [providers |-> db.providers, routes |-> r, configs |-> db.configs,
               strategies |-> db.strategies]
    BY <1>1, <2>3
  <2>6. db' \in Tables(next, ops)
    BY <1>1, <2>2, <2>5 DEF Tables
  <2> QED
    BY <1>4, <2>4, <2>5, <2>6
<1>5. CASE s.table = "configs"
  <2>1. RowWritten(s) = s.row /\ s.row \in ConfigRows \cup {NoRow}
        /\ s.id \in 1..next.configs - 1
    BY <1>5, RowsWritten
  <2>2. c \in Maps(next.configs, ConfigRows)
    BY <1>1, <1>2, <2>1, MapWrite
  <2>3. db' = [db EXCEPT !.configs = c]
    BY <1>5
  <2>4. c = Write(db.configs, s.id, s.row)
    BY <2>1
  <2> HIDE DEF c
  <2>5. db' = [providers |-> db.providers, routes |-> db.routes, configs |-> c,
               strategies |-> db.strategies]
    BY <1>1, <2>3
  <2>6. db' \in Tables(next, ops)
    BY <1>1, <2>2, <2>5 DEF Tables
  <2> QED
    BY <1>5, <2>4, <2>5, <2>6
<1>6. CASE s.table = "strategies"
  <2>1. RowWritten(s) = s.row /\ s.row \in PlanRows \cup {NoRow}
        /\ s.id \in 1..next.strategies - 1
    BY <1>6, RowsWritten
  <2>2. g \in Maps(next.strategies, PlanRows)
    BY <1>1, <1>2, <2>1, MapWrite
  <2>3. db' = [db EXCEPT !.strategies = g]
    BY <1>6
  <2>4. g = Write(db.strategies, s.id, s.row)
    BY <2>1
  <2> HIDE DEF g
  <2>5. db' = [providers |-> db.providers, routes |-> db.routes, configs |-> db.configs,
               strategies |-> g]
    BY <1>1, <2>3
  <2>6. db' \in Tables(next, ops)
    BY <1>1, <2>2, <2>5 DEF Tables
  <2> QED
    BY <1>6, <2>4, <2>5, <2>6
<1>7. s.table \in TableNames
  BY WriteKinds DEF TableNames
<1> QED
  BY <1>3, <1>4, <1>5, <1>6, <1>7 DEF TableNames

(* What a statement does to the deleted providers.                         *)
LEMMA GoneAfter ==
  ASSUME Types, NEW s \in Writes(next, ops),
         db' = [db EXCEPT ![s.table] = Write(@, s.id, RowWritten(s))]
  PROVE  /\ DOMAIN db.providers \subseteq DOMAIN db'.providers
         /\ Gone(db) \subseteq Gone(db')
         /\ \A p \in Gone(db') : p \in Gone(db) \/ (s.table = "providers" /\ s.id = p /\ s.row.deleted)
         /\ s.table = "providers" => /\ s.id \in DOMAIN db'.providers
                                     /\ db'.providers[s.id] = RowWritten(s)
         /\ s.table = "providers" => OnlyAt(db'.providers, db.providers, s.id)
<1>1. CASE s.table = "providers"
  <2> DEFINE v == RowWritten(s)
             g == db'.providers
  <2>1. v \in ProviderRows(ops) /\ (v.deleted <=> s.row.deleted \/ s.id \in Gone(db))
    BY <1>1, RowsWritten
  <2>2. v # NoRow
    BY <2>1, RowsAreRows
  <2>3. g = Write(db.providers, s.id, v)
    BY <1>1, TableWritten
  <2> HIDE DEF v, g
  <2>4. /\ OnlyAt(g, db.providers, s.id) /\ s.id \in DOMAIN g /\ g[s.id] = v
        /\ DOMAIN g = DOMAIN db.providers \cup {s.id}
    <3> DEFINE h == db.providers
               id == s.id
               w == Write(h, id, v)
    <3>1. g = w
      BY <2>3
    <3>2. OnlyAt(w, h, id) /\ (v # NoRow => id \in DOMAIN w /\ w[id] = v /\ DOMAIN w = DOMAIN h \cup {id})
      <4>1. ASSUME NEW f, NEW x, NEW u
            PROVE  /\ OnlyAt(Write(f, x, u), f, x)
                   /\ u # NoRow => /\ x \in DOMAIN Write(f, x, u) /\ Write(f, x, u)[x] = u
                                   /\ DOMAIN Write(f, x, u) = DOMAIN f \cup {x}
        <5>1. OnlyAt(Write(f, x, u), f, x)
          BY WriteOnlyAt
        <5>2. u # NoRow => x \in DOMAIN Write(f, x, u) /\ Write(f, x, u)[x] = u
          BY WriteOnlyAt
        <5>3. u # NoRow => DOMAIN Write(f, x, u) = DOMAIN f \cup {x}
          BY WriteOnlyAt, Zenon
        <5> QED
          BY <5>1, <5>2, <5>3
      <4> QED
        BY ONLY <4>1
    <3> HIDE DEF h, id
    <3> HIDE DEF w
    <3>3. OnlyAt(g, h, id) /\ id \in DOMAIN g /\ g[id] = v /\ DOMAIN g = DOMAIN h \cup {id}
      BY <2>2, <3>1, <3>2
    <3> QED
      BY <3>3 DEF h, id
  <2>5. \A p : p # s.id => (p \in Gone(db') <=> p \in Gone(db))
    BY <2>4 DEF Gone, OnlyAt, g
  <2>6. s.id \in Gone(db') <=> (s.row.deleted \/ s.id \in Gone(db))
    BY <2>1, <2>4 DEF Gone, g
  <2> QED
    BY <1>1, <2>4, <2>5, <2>6 DEF g, v
<1>2. CASE s.table # "providers"
  <2>1. db'.providers = db.providers
    BY <1>2, TableWritten
  <2> QED
    BY <1>2, <2>1 DEF Gone
<1> QED
  BY <1>1, <1>2

LEMMA ExecutedStep ==
  ASSUME AdminInv, Executed
  PROVE  AdminInv'
<1> DEFINE s == todo[1]
           w == [s EXCEPT !.do = "cache"]
           key == <<s.table, s.id>>
<1>1. Types /\ Heads /\ Founded /\ Agreement /\ GoneStays /\ MatchedFits
  BY DEF AdminInv
<1>2. /\ todo # <<>> /\ Head(todo) = s /\ s.do = "statement" /\ s \in Steps(next, ops)
  BY <1>1, SecondStep DEF Executed, Head1
<1>3. s \in Writes(next, ops)
  BY <1>2, StepKinds DEF Do
<1>4. /\ db' = [db EXCEPT ![s.table] = Write(@, s.id, RowWritten(s))]
      /\ todo' = <<w>> \o Tail(todo)
      /\ ghost' = [ghost EXCEPT !.drifted = @ \ {key}]
      /\ mem' = mem /\ next' = next /\ match' = match /\ ops' = ops
  BY <1>2 DEF Executed
<1>5. /\ Shaped(todo', next, ops) /\ todo' # <<>> /\ todo'[1].do = "cache"
      /\ todo'[1].table = s.table /\ Same(todo'[1], s)
  BY <1>1, <1>2, <1>4, ReplacedShaped DEF Types
<1>6. /\ db' \in Tables(next, ops)
      /\ s.table # "providers" => db'.providers = db.providers
      /\ IF s.table = "routes" THEN db'.routes = Write(db.routes, s.id, s.row)
         ELSE db'.routes = db.routes
      /\ IF s.table = "configs" THEN db'.configs = Write(db.configs, s.id, s.row)
         ELSE db'.configs = db.configs
      /\ IF s.table = "strategies" THEN db'.strategies = Write(db.strategies, s.id, s.row)
         ELSE db'.strategies = db.strategies
  BY <1>1, <1>3, <1>4, TableWritten
<1>7. /\ DOMAIN db.providers \subseteq DOMAIN db'.providers
      /\ Gone(db) \subseteq Gone(db')
      /\ \A p \in Gone(db') : p \in Gone(db) \/ (s.table = "providers" /\ s.id = p /\ s.row.deleted)
      /\ s.table = "providers" => /\ s.id \in DOMAIN db'.providers
                                  /\ db'.providers[s.id] = RowWritten(s)
      /\ s.table = "providers" => OnlyAt(db'.providers, db.providers, s.id)
  BY <1>1, <1>3, <1>4, GoneAfter
<1>8. /\ ghost' \in Ghosts /\ ghost'.drifted = ghost.drifted \ {key}
      /\ ghost'.partial = ghost.partial /\ ghost'.revived = ghost.revived
  <2>1. ghost \in Ghosts
    BY <1>1 DEF Types
  <2> HIDE DEF key
  <2> QED
    BY <1>4, <2>1 DEF Ghosts
<1>9. /\ s.table = "providers" =>
            /\ s.row \in ProviderRows(ops)
            /\ s.id \notin Gone(db) => RowWritten(s) = s.row
            /\ s.id \in Gone(db) => RowWritten(s) = [s.row EXCEPT !.deleted = TRUE]
      /\ s.table # "providers" => RowWritten(s) = s.row
  BY <1>1, <1>3, RowsWritten
<1> DEFINE x == todo'[1]
<1>10. x.do = "cache" /\ x.table = s.table /\ x.id = s.id /\ x.row = s.row
  BY <1>5 DEF Same
<1>11. IsSave(x) => IsSave(s)
  BY <1>2, <1>10 DEF IsSave, IsWrite, Do
<1>12. IsDelete(x) => IsDelete(s)
  BY <1>2, <1>10 DEF IsDelete, IsWrite, Do
<1> HIDE DEF s, w
<1>13. Types'
  BY <1>1, <1>4, <1>5, <1>6, <1>8 DEF Types
<1>14. ASSUME NEW y, y = x PROVE RowWritten(y)' = RowWritten(s)
  <2>1. CASE s.table # "providers"
    BY <1>9, <1>10, <1>14, <2>1 DEF RowWritten
  <2>2. CASE s.table = "providers"
    <3> DEFINE row == s.row
               v == [row EXCEPT !.deleted = TRUE]
    <3>1. row.deleted => v = row
      BY <1>9, <2>2, DeletedRow
    <3>2. RowWritten(y)' = IF s.id \in Gone(db') THEN v ELSE row
      BY <1>10, <1>14, <2>2 DEF RowWritten, Gone
    <3>3. RowWritten(s) = IF s.id \in Gone(db) THEN v ELSE row
      BY <1>9, <2>2
    <3> HIDE DEF v
    <3> QED
      BY <1>7, <3>1, <3>2, <3>3
  <2> QED
    BY <2>1, <2>2
<1>15. IF s.row = NoRow THEN s.id \notin DOMAIN db'[s.table]
       ELSE s.id \in DOMAIN db'[s.table] /\ db'[s.table][s.id] = RowWritten(s)
  <2>1. CASE s.table = "providers"
    <3>1. s.row # NoRow /\ db'[s.table] = db'.providers
      BY <1>9, <2>1, RowsAreRows
    <3> QED
      BY <1>7, <2>1, <3>1
  <2>2. CASE s.table # "providers"
    <3>1. s.table \in {"routes", "configs", "strategies"}
      BY <1>3, <2>2, WriteKinds
    <3>2. /\ s.table = "routes" => db'[s.table] = Write(db.routes, s.id, s.row)
          /\ s.table = "configs" => db'[s.table] = Write(db.configs, s.id, s.row)
          /\ s.table = "strategies" => db'[s.table] = Write(db.strategies, s.id, s.row)
      BY <1>6
    <3>3. PICK f : db'[s.table] = Write(f, s.id, s.row)
      BY <3>1, <3>2
    <3>4. RowWritten(s) = s.row
      BY <1>9, <2>2
    <3> DEFINE row == s.row
               id == s.id
               g == db'[s.table]
               z == Write(f, id, row)
    <3>5. g = z
      BY <3>3
    <3>6. IF row = NoRow THEN id \notin DOMAIN z ELSE id \in DOMAIN z /\ z[id] = row
      <4>1. ASSUME NEW h, NEW y, NEW u
            PROVE  IF u = NoRow THEN y \notin DOMAIN Write(h, y, u)
                   ELSE y \in DOMAIN Write(h, y, u) /\ Write(h, y, u)[y] = u
        BY WriteOnlyAt
      <4> QED
        BY ONLY <4>1
    <3> HIDE DEF row, g, id
    <3> HIDE DEF z
    <3>7. IF row = NoRow THEN id \notin DOMAIN g ELSE id \in DOMAIN g /\ g[id] = row
      BY <3>5, <3>6
    <3> QED
      BY <3>4, <3>7 DEF row, g, id
  <2> QED
    BY <2>1, <2>2
<1>16. Heads'
  <2>1. ASSUME NEW y, y = x
        PROVE  IF y.row = NoRow THEN y.id \notin DOMAIN db'[y.table]
               ELSE y.id \in DOMAIN db'[y.table] /\ db'[y.table][y.id] = RowWritten(y)'
    BY <1>10, <1>14, <1>15, <2>1
  <2>2. IsDelete(x) => x.id \notin DOMAIN mem.adapters
    BY <1>1, <1>2, <1>10, <1>12 DEF Heads, s
  <2>3. IsSave(x) /\ x.id \in Gone(db') => x.id \in ghost.revived
    <3>1. IsSave(x) => ~s.row.deleted
      BY <1>11 DEF IsSave
    <3>2. IsSave(x) /\ x.id \in Gone(db) => x.id \in ghost.revived
      BY <1>1, <1>2, <1>10, <1>11 DEF Heads, s
    <3> QED
      BY <1>7, <3>1, <3>2
  <2>4. RowWritten(todo[1])' = RowWritten(s)
    <3>1. \A y : y = x => RowWritten(y)' = RowWritten(s)
      BY <1>14
    <3> QED
      BY <3>1 DEF RowWritten
  <2> QED
    BY <1>4, <1>8, <1>10, <1>15, <2>2, <2>3, <2>4 DEF Heads, Gone
<1>17. Founded'
  <2>1. \A p \in Gone(db') \cap DOMAIN mem.adapters : p \in ghost.revived
    <3>1. ASSUME s.table = "providers", s.row.deleted PROVE s.id \notin DOMAIN mem.adapters
      <4>1. IsDelete(s)
        BY <1>2, <3>1 DEF IsDelete, IsWrite, Do
      <4> QED
        BY <1>1, <1>2, <4>1 DEF Heads, s
    <3> QED
      BY <1>1, <1>7, <3>1 DEF Founded
  <2> QED
    BY <1>1, <1>4, <1>7, <1>8, <2>1 DEF Founded, Gone
<1>18. GoneStays' /\ MatchedFits'
  BY <1>1, <1>4, <1>7, <1>8 DEF GoneStays, MatchedFits, Gone
<1>19. /\ \A table, id : ~Due(table, id)
       /\ \A r : EditedBefore(r) => s.table = "routes" /\ s.id = r
       /\ \A p : Awaits(p) => s.table = "providers" /\ s.id = p
       /\ \A r : Due("routes", r)' <=> s.table = "routes" /\ s.id = r
       /\ \A p : Due("providers", p)' <=> s.table = "providers" /\ s.id = p
       /\ \A c : Due("configs", c)' <=> s.table = "configs" /\ s.id = c
       /\ \A g : Due("strategies", g)' <=> s.table = "strategies" /\ s.id = g
  <2>1. \A table, id : ~Due(table, id)
    BY <1>2 DEF Due, s
  <2>2. \A r : EditedBefore(r) => s.table = "routes" /\ s.id = r
    BY DEF EditedBefore, s
  <2>3. \A p : Awaits(p) => s.table = "providers" /\ s.id = p
    BY <1>2, <2>1 DEF Awaits, IsDelete, IsWrite, s
  <2>4. \A table, id : Due(table, id)' <=> (s.table = table /\ s.id = id)
    BY <1>5, <1>10 DEF Due
  <2> QED
    BY <2>1, <2>2, <2>3, <2>4
<1> HIDE DEF x
<1>20. RoutesAgree'
  <2>1. SUFFICES ASSUME NEW r \in Nat, ~(s.table = "routes" /\ s.id = r)
                 PROVE  Agree(mem.routes, db.routes, r)' \/ <<"routes", r>> \in ghost'.drifted
    BY <1>19 DEF RoutesAgree
  <2>2. Agree(mem.routes, db.routes, r) \/ <<"routes", r>> \in ghost.drifted
    BY <1>1, <1>19, <2>1 DEF Agreement, RoutesAgree
  <2>3. <<"routes", r>> \in ghost.drifted => <<"routes", r>> \in ghost'.drifted
    BY <1>8, <2>1
  <2>4. (r \in DOMAIN db'.routes <=> r \in DOMAIN db.routes)
        /\ (r \in DOMAIN db'.routes => db'.routes[r] = db.routes[r])
    <3>1. s.table = "routes" => OnlyAt(db'.routes, db.routes, s.id)
      <4>1. OnlyAt(Write(db.routes, s.id, s.row), db.routes, s.id)
        BY WriteOnlyAt
      <4> QED
        BY <1>6, <4>1
    <3> QED
      BY <1>6, <2>1, <3>1 DEF OnlyAt
  <2> QED
    BY <1>4, <2>2, <2>3, <2>4 DEF Agree
<1>21. ProvidersAgree'
  <2>1. SUFFICES ASSUME NEW p \in Nat, ~(s.table = "providers" /\ s.id = p)
                 PROVE  Agree(mem.providers, LoadProviders(db), p)' \/ p \in ghost.revived
    BY <1>8, <1>19 DEF ProvidersAgree
  <2>2. Agree(mem.providers, LoadProviders(db), p) \/ p \in ghost.revived
    BY <1>1, <1>19, <2>1 DEF Agreement, ProvidersAgree
  <2> DEFINE f == LoadProviders(db)
             g == LoadProviders(db')
  <2>3. /\ (p \in DOMAIN db'.providers <=> p \in DOMAIN db.providers)
        /\ (p \in DOMAIN db'.providers => db'.providers[p] = db.providers[p])
    BY <1>6, <1>7, <2>1 DEF OnlyAt
  <2>4. (p \in DOMAIN g <=> p \in DOMAIN f) /\ (p \in DOMAIN g => g[p] = f[p])
    BY <2>3 DEF LoadProviders, Restrict
  <2> QED
    BY <1>4, <2>2, <2>4 DEF Agree, LoadProviders
<1>22. \A c : (s.table = "configs" /\ s.id = c) \/
          ((c \in DOMAIN db'.configs <=> c \in DOMAIN db.configs)
              /\ (c \in DOMAIN db'.configs => db'.configs[c] = db.configs[c]))
  <2>1. s.table = "configs" => OnlyAt(db'.configs, db.configs, s.id)
    <3>1. OnlyAt(Write(db.configs, s.id, s.row), db.configs, s.id)
      BY WriteOnlyAt
    <3> QED
      BY <1>6, <3>1
  <2> QED
    BY <1>6, <2>1 DEF OnlyAt
<1>23. ConfigsAgree' /\ DefaultFlagged'
  <2>1. ConfigsAgree'
    BY <1>1, <1>4, <1>19, <1>22 DEF Agreement, ConfigsAgree
  <2>2. \A c : (s.table = "configs" /\ s.id = c) \/ (c \in Flagged(db') <=> c \in Flagged(db))
    BY <1>22 DEF Flagged
  <2>3. mem.default \in Flagged(db) \cup {NoId}
    BY <1>1, <1>19 DEF Agreement, DefaultFlagged
  <2>4. DefaultFlagged'
    <3> DEFINE c == mem.default
    <3>1. c \in Flagged(db') \cup {NoId} \/ (s.table = "configs" /\ s.id = c)
      BY <2>2, <2>3
    <3>2. (s.table = "configs" /\ s.id = c) => Due("configs", mem.default)'
      BY <1>4, <1>5, <1>10 DEF Due, x
    <3> QED
      BY <1>4, <3>1, <3>2 DEF DefaultFlagged, Flagged
  <2> QED
    BY <2>1, <2>4
<1>24. StrategiesAgree'
  <2>1. SUFFICES ASSUME NEW p \in DOMAIN mem.strategies
                 PROVE  Held(mem.strategies[p], p)' \/ Due("strategies", mem.strategies[p].id)'
    BY <1>4 DEF StrategiesAgree
  <2> DEFINE e == mem.strategies[p]
  <2>2. Held(e, p)
    BY <1>1, <1>19, <2>1 DEF Agreement, StrategiesAgree
  <2>3. (s.table = "strategies" /\ s.id = e.id) => Due("strategies", mem.strategies[p].id)'
    BY <1>4, <1>5, <1>10 DEF Due, x
  <2>4. s.table = "strategies" => OnlyAt(db'.strategies, db.strategies, s.id)
    <3>1. OnlyAt(Write(db.strategies, s.id, s.row), db.strategies, s.id)
      BY WriteOnlyAt
    <3> QED
      BY <1>6, <3>1
  <2>5. ~(s.table = "strategies" /\ s.id = e.id) =>
           /\ e.id \in DOMAIN db'.strategies
           /\ db'.strategies[e.id] = db.strategies[e.id]
    BY <1>6, <2>2, <2>4 DEF OnlyAt, Held
  <2>6. ~(s.table = "strategies" /\ s.id = e.id) => Held(mem.strategies[p], p)'
    BY <1>4, <2>2, <2>5 DEF Held
  <2> QED
    BY <2>3, <2>6
<1>25. AdaptersFit'
  <2>1. SUFFICES ASSUME ~ghost.partial, NEW p \in DOMAIN mem.providers, mem.providers[p].ok,
                        ~(s.table = "providers" /\ s.id = p)
                 PROVE  \/ p \in DOMAIN mem.adapters /\ mem.adapters[p] = mem.providers[p].version
                        \/ <<"providers", p>> \in ghost'.drifted
    <3>1. ASSUME NEW p, s.table = "providers", s.id = p PROVE Awaits(p)'
      BY <1>5, <1>10, <3>1 DEF Awaits, Due, x
    <3> QED
      BY <1>4, <1>8, <3>1 DEF AdaptersFit
  <2>2. \/ p \in DOMAIN mem.adapters /\ mem.adapters[p] = mem.providers[p].version
        \/ <<"providers", p>> \in ghost.drifted
    BY <1>1, <1>19, <2>1 DEF Agreement, AdaptersFit
  <2> QED
    BY <1>8, <2>1, <2>2
<1> QED
  BY <1>13, <1>16, <1>17, <1>18, <1>20, <1>21, <1>23, <1>24, <1>25 DEF AdminInv, Agreement

(* A step's write to a cache, and what it leaves.                          *)
Wrote(g, f, x, v) ==
    OnlyAt(g, f, x) /\ IF v = NoRow THEN x \notin DOMAIN g ELSE x \in DOMAIN g /\ g[x] = v

LEMMA WriteWrote ==
  ASSUME NEW f, NEW x, NEW v
  PROVE  Wrote(Write(f, x, v), f, x, v)
<1> DEFINE g == Write(f, x, v)
<1>1. OnlyAt(g, f, x)
  BY WriteOnlyAt
<1>2. (v = NoRow => x \notin DOMAIN g) /\ (v # NoRow => x \in DOMAIN g /\ g[x] = v)
  BY WriteOnlyAt
<1> HIDE DEF g
<1>3. Wrote(g, f, x, v)
  BY <1>1, <1>2 DEF Wrote
<1> QED
  BY <1>3 DEF g

CacheBegun ==
    /\ todo # <<>> /\ todo[1].do = "cache" /\ todo' = Tail(todo)
    /\ UNCHANGED <<db, next, match, ops, ghost>>

LEMMA CacheMade ==
  ASSUME Types, NEW p \in Maps(next.providers, ProviderRows(ops)),
         NEW r \in Maps(next.routes, RouteRows), NEW c \in Maps(next.configs, ConfigRows),
         NEW d \in Nat, NEW g \in Plans,
         NEW m, m = [providers |-> p, routes |-> r, configs |-> c, default |-> d,
                     strategies |-> g, adapters |-> mem.adapters]
  PROVE  m \in Caches(next, ops)
BY CacheFields DEF Caches

LEMMA CacheLeaves ==
  ASSUME Types, Heads, CacheBegun, mem' \in Caches(next, ops),
         IsSave(todo[1]) => todo[1].id \in DOMAIN mem'.providers
                            /\ mem'.providers[todo[1].id] = todo[1].row
  PROVE  /\ Types' /\ Heads'
         /\ \A table, id : Due(table, id) <=> todo[1].table = table /\ todo[1].id = id
         /\ \A r : ~EditedBefore(r)
         /\ \A p : Awaits(p) => todo[1].table = "providers" /\ todo[1].id = p
         /\ \A p : IsSave(todo[1]) /\ todo[1].id = p => Awaits(p)'
<1> DEFINE s == todo[1]
           t == Tail(todo)
<1>1. /\ Shaped(t, next, ops)
      /\ t # <<>> =>
            /\ t[1].do # "cache" /\ ~IsSave(t[1])
            /\ t[1].do = "refresh" => IsSave(s) /\ Same(s, t[1])
            /\ IsDelete(t[1]) => s.do = "remove adapter"
      /\ IsSave(s) => t # <<>> /\ t[1].do = "refresh" /\ Same(t[1], s)
  BY SecondStep DEF CacheBegun
<1>2. s.do = "cache" /\ todo # <<>> /\ todo' = t
      /\ UNCHANGED <<db, next, match, ops, ghost>>
  BY DEF CacheBegun
<1>3. IsSave(s) /\ s.id \in Gone(db) => s.id \in ghost.revived
  BY <1>2 DEF Heads
<1>4. /\ \A table, id : Due(table, id) <=> s.table = table /\ s.id = id
      /\ \A r : ~EditedBefore(r)
      /\ \A p : Awaits(p) => s.table = "providers" /\ s.id = p
  BY <1>2 DEF Due, EditedBefore, Awaits
<1>5. IsSave(s) => s.id \in DOMAIN mem'.providers /\ mem'.providers[s.id] = s.row
  OBVIOUS
<1> HIDE DEF s, t
<1>6. Types'
  BY <1>1, <1>2 DEF Types
<1>7. ~IsDelete(t[1]) \/ t = <<>>
  BY <1>1, <1>2
<1>8. Heads'
  <2>1. t # <<>> /\ t[1].do = "refresh" =>
           /\ t[1].id \in DOMAIN mem'.providers /\ mem'.providers[t[1].id] = t[1].row
           /\ t[1].id \in Gone(db) => t[1].id \in ghost.revived
    BY <1>1, <1>3, <1>5 DEF Same
  <2>2. Gone(db)' = Gone(db)
    BY <1>2 DEF Gone
  <2>3. t # <<>> => t[1].do # "cache" /\ ~IsSave(t[1]) /\ ~IsDelete(t[1])
    BY <1>1, <1>7
  <2>4. t # <<>> => ~IsSave(todo'[1]) /\ ~IsDelete(todo'[1])
    BY <1>2, <2>3
  <2> QED
    BY <1>2, <2>1, <2>2, <2>3, <2>4 DEF Heads, IsSave, IsDelete, IsWrite
<1>9. ASSUME NEW p, p = s.id, IsSave(s) PROVE Awaits(p)'
  <2>1. t # <<>> /\ t[1].do = "refresh" /\ t[1].id = p
    BY <1>1, <1>9 DEF Same
  <2> QED
    BY <1>2, <2>1 DEF Awaits
<1> QED
  BY <1>4, <1>6, <1>8, <1>9 DEF s

LEMMA CacheRouteStep ==
  ASSUME AdminInv, CacheBegun, todo[1].table = "routes",
         mem' = CacheRoute(mem, todo[1].id, todo[1].row)
  PROVE  AdminInv'
<1> DEFINE s == todo[1]
           id == s.id
           row == s.row
           f == mem.routes
           g == Write(f, id, row)
<1>1. Types /\ Heads /\ Founded /\ Agreement /\ GoneStays /\ MatchedFits
  BY DEF AdminInv
<1>2. todo # <<>> /\ s.do = "cache" /\ s \in Steps(next, ops)
      /\ UNCHANGED <<db, next, match, ops, ghost>>
  BY <1>1, SecondStep DEF CacheBegun
<1>3. s \in RouteWrites(next)
  BY <1>2, StepKinds, WriteKinds DEF Do
<1>4. row \in RouteRows \cup {NoRow} /\ id \in 1..next.routes - 1
  BY <1>3 DEF RouteWrites
<1>5. IF row = NoRow THEN id \notin DOMAIN db.routes
      ELSE id \in DOMAIN db.routes /\ db.routes[id] = row
  BY <1>1, <1>2 DEF Heads, RowWritten
<1>6. mem' = [mem EXCEPT !.routes = g]
  BY DEF CacheRoute
<1>7. /\ OnlyAt(g, f, id)
      /\ IF row = NoRow THEN id \notin DOMAIN g ELSE id \in DOMAIN g /\ g[id] = row
  BY WriteWrote DEF Wrote
<1>8. g \in Maps(next.routes, RouteRows)
  <2>1. next.routes \in Nat /\ f \in Maps(next.routes, RouteRows)
    BY <1>1, MemFacts, CacheFields
  <2> HIDE DEF f, id, row
  <2> QED
    BY <1>4, <2>1, MapWrite
<1>9. ~IsSave(s)
  BY DEF IsSave, IsWrite
<1> HIDE DEF g
<1>10. mem' = [providers |-> mem.providers, routes |-> g, configs |-> mem.configs,
               default |-> mem.default, strategies |-> mem.strategies,
               adapters |-> mem.adapters]
  BY <1>1, <1>6, CacheFields
<1>11. mem' \in Caches(next, ops)
  BY <1>1, <1>8, <1>10, CacheFields, CacheMade
<1>12. /\ Types' /\ Heads'
       /\ \A table, x : Due(table, x) <=> s.table = table /\ s.id = x
       /\ \A r : ~EditedBefore(r)
       /\ \A p : ~Awaits(p)
  BY <1>1, <1>9, <1>11, CacheLeaves
<1>13. /\ mem'.providers = mem.providers /\ mem'.routes = g /\ mem'.configs = mem.configs
       /\ mem'.default = mem.default /\ mem'.strategies = mem.strategies
       /\ mem'.adapters = mem.adapters
  BY <1>10
<1> HIDE DEF s
<1>14. Founded'
  BY <1>1, <1>2, <1>13 DEF Founded, Gone
<1>15. GoneStays' /\ MatchedFits'
  BY <1>1, <1>2 DEF GoneStays, MatchedFits, Gone
<1>16. RoutesAgree'
  <2>1. SUFFICES ASSUME NEW r \in Nat
                 PROVE  Agree(mem.routes, db.routes, r)' \/ <<"routes", r>> \in ghost.drifted
    BY <1>2 DEF RoutesAgree
  <2>2. CASE r = id
    BY <1>2, <1>5, <1>7, <1>13, <2>2 DEF Agree
  <2>3. CASE r # id
    <3>1. Agree(f, db.routes, r) \/ <<"routes", r>> \in ghost.drifted
      BY <1>1, <1>12, <2>3 DEF Agreement, RoutesAgree
    <3>2. (r \in DOMAIN g <=> r \in DOMAIN f) /\ (r \in DOMAIN g => g[r] = f[r])
      BY <1>7, <2>3 DEF OnlyAt
    <3> QED
      BY <1>2, <1>13, <3>1, <3>2 DEF Agree
  <2> QED
    BY <2>2, <2>3
<1>17. s.table = "routes"
  BY DEF s
<1>18. ProvidersAgree'
  <2>1. LoadProviders(db)' = LoadProviders(db)
    BY <1>2 DEF LoadProviders
  <2>2. \A p \in Nat : Agree(mem.providers, LoadProviders(db), p) \/ p \in ghost.revived
    BY <1>1, <1>12, <1>17 DEF Agreement, ProvidersAgree
  <2> QED
    BY <1>2, <1>13, <2>1, <2>2 DEF ProvidersAgree, Agree
<1>19. ConfigsAgree' /\ DefaultFlagged'
  BY <1>1, <1>2, <1>12, <1>13, <1>17 DEF Agreement, ConfigsAgree, DefaultFlagged, Flagged
<1>20. StrategiesAgree'
  BY <1>1, <1>2, <1>12, <1>13, <1>17 DEF Agreement, StrategiesAgree, Held
<1>21. AdaptersFit'
  BY <1>1, <1>2, <1>12, <1>13 DEF Agreement, AdaptersFit
<1> QED
  BY <1>12, <1>14, <1>15, <1>16, <1>18, <1>19, <1>20, <1>21 DEF AdminInv, Agreement

LEMMA CacheConfigStep ==
  ASSUME AdminInv, CacheBegun, todo[1].table = "configs",
         mem' = CacheConfig(mem, todo[1].id, todo[1].row)
  PROVE  AdminInv'
<1> DEFINE s == todo[1]
           id == s.id
           row == s.row
           flagged == row # NoRow /\ row.flag
           f == mem.configs
           u == IF flagged /\ mem.default \in DOMAIN f THEN [f EXCEPT ![mem.default].flag = FALSE]
                ELSE f
           g == Write(u, id, row)
           d == IF flagged THEN id ELSE IF mem.default = id THEN NoId ELSE mem.default
<1>1. Types /\ Heads /\ Founded /\ Agreement /\ GoneStays /\ MatchedFits
  BY DEF AdminInv
<1>2. todo # <<>> /\ s.do = "cache" /\ s \in Steps(next, ops)
      /\ UNCHANGED <<db, next, match, ops, ghost>>
  BY <1>1, SecondStep DEF CacheBegun
<1>3. s \in ConfigWrites(next)
  BY <1>2, StepKinds, WriteKinds DEF Do
<1>4. row \in ConfigRows \cup {NoRow} /\ id \in 1..next.configs - 1
  BY <1>3 DEF ConfigWrites
<1>5. IF row = NoRow THEN id \notin DOMAIN db.configs
      ELSE id \in DOMAIN db.configs /\ db.configs[id] = row
  BY <1>1, <1>2 DEF Heads, RowWritten
<1>6. mem' = [mem EXCEPT !.configs = g, !.default = d]
  BY DEF CacheConfig
<1>7. OnlyAt(g, u, id)
      /\ IF row = NoRow THEN id \notin DOMAIN g ELSE id \in DOMAIN g /\ g[id] = row
  BY WriteWrote DEF Wrote
<1>8. next.configs \in Nat /\ f \in Maps(next.configs, ConfigRows)
  BY <1>1, MemFacts, CacheFields
<1>9. u \in Maps(next.configs, ConfigRows) /\ DOMAIN u = DOMAIN f
  <2>1. f \in [DOMAIN f -> ConfigRows] /\ DOMAIN f \in SUBSET (1..next.configs - 1)
    BY <1>8, MapFacts
  <2>2. CASE flagged /\ mem.default \in DOMAIN f
    <3> DEFINE x == mem.default
               v == [f[x] EXCEPT !.flag = FALSE]
    <3>1. u = [f EXCEPT ![x] = v]
      BY <2>2
    <3>2. v \in ConfigRows
      BY <2>1, <2>2 DEF ConfigRows
    <3> HIDE DEF f, v, x, u
    <3>3. u \in [DOMAIN f -> ConfigRows] /\ DOMAIN u = DOMAIN f
      BY <2>1, <3>1, <3>2
    <3> QED
      BY <2>1, <3>3, MapMade
  <2>3. CASE ~(flagged /\ mem.default \in DOMAIN f)
    BY <1>8, <2>3
  <2> QED
    BY <2>2, <2>3
<1> HIDE DEF u
<1>10. g \in Maps(next.configs, ConfigRows)
  <2> HIDE DEF f, id, row
  <2> QED
    BY <1>4, <1>8, <1>9, MapWrite
<1>11. ~IsSave(s)
  BY DEF IsSave, IsWrite
<1>12. d \in Nat
  <2>1. id \in Nat /\ mem.default \in Nat /\ NoId \in Nat
    <3>1. mem.default \in Nat /\ NoId \in Nat
      BY <1>1, CacheFields DEF NoId
    <3>2. \A x \in 1..next.configs - 1 : x \in Nat
      BY <1>8
    <3> QED
      BY <1>4, <3>1, <3>2
  <2> HIDE DEF id, flagged
  <2> QED
    BY <2>1
<1> HIDE DEF g, d
<1>13. mem' = [providers |-> mem.providers, routes |-> mem.routes, configs |-> g,
               default |-> d, strategies |-> mem.strategies, adapters |-> mem.adapters]
  BY <1>1, <1>6, CacheFields
<1>14. mem' \in Caches(next, ops)
  BY <1>1, <1>10, <1>12, <1>13, CacheFields, CacheMade
<1>15. /\ Types' /\ Heads'
       /\ \A table, x : Due(table, x) <=> s.table = table /\ s.id = x
       /\ \A r : ~EditedBefore(r)
       /\ \A p : ~Awaits(p)
  BY <1>1, <1>11, <1>14, CacheLeaves
<1>16. /\ mem'.providers = mem.providers /\ mem'.routes = mem.routes /\ mem'.configs = g
       /\ mem'.default = d /\ mem'.strategies = mem.strategies
       /\ mem'.adapters = mem.adapters
  BY <1>13
<1>17. s.table = "configs"
  OBVIOUS
<1> DEFINE held == DOMAIN f
<1>18. \A c : c # id => (c \in DOMAIN g <=> c \in held)
  BY <1>7, <1>9 DEF OnlyAt
<1>19. d = (IF flagged THEN id ELSE IF mem.default = id THEN NoId ELSE mem.default)
  BY DEF d
<1>20. Founded'
  <2>1. d \in DOMAIN g \cup {NoId}
    <3>1. flagged => id \in DOMAIN g
      BY <1>7
    <3>2. mem.default \in held \cup {NoId}
      BY <1>1 DEF Founded
    <3> HIDE DEF flagged, id, held
    <3> QED
      BY <1>18, <1>19, <3>1, <3>2
  <2> QED
    BY <1>1, <1>2, <1>16, <2>1 DEF Founded, Gone
<1>21. GoneStays' /\ MatchedFits'
  BY <1>1, <1>2 DEF GoneStays, MatchedFits, Gone
<1>22. ConfigsAgree'
  <2>1. SUFFICES ASSUME NEW c \in Nat PROVE c \in DOMAIN g <=> c \in DOMAIN db.configs
    BY <1>2, <1>16 DEF ConfigsAgree
  <2>2. c # id => (c \in held <=> c \in DOMAIN db.configs)
    BY <1>1, <1>15 DEF Agreement, ConfigsAgree
  <2>3. id \in DOMAIN g <=> id \in DOMAIN db.configs
    BY <1>5, <1>7
  <2> QED
    BY <1>18, <2>2, <2>3
<1>23. DefaultFlagged'
  <2>1. d \in Flagged(db) \cup {NoId}
    <3>1. flagged => id \in Flagged(db)
      BY <1>5 DEF Flagged
    <3>2. mem.default # id => mem.default \in Flagged(db) \cup {NoId}
      BY <1>1, <1>15 DEF Agreement, DefaultFlagged
    <3> HIDE DEF flagged, id
    <3> QED
      BY <1>19, <3>1, <3>2
  <2> QED
    BY <1>2, <1>16, <2>1 DEF DefaultFlagged, Flagged
<1> HIDE DEF s
<1>24. RoutesAgree'
  BY <1>1, <1>2, <1>15, <1>16, <1>17 DEF Agreement, RoutesAgree, Agree
<1>25. ProvidersAgree'
  <2>1. LoadProviders(db)' = LoadProviders(db)
    BY <1>2 DEF LoadProviders
  <2>2. \A p \in Nat : Agree(mem.providers, LoadProviders(db), p) \/ p \in ghost.revived
    BY <1>1, <1>15, <1>17 DEF Agreement, ProvidersAgree
  <2> QED
    BY <1>2, <1>16, <2>1, <2>2 DEF ProvidersAgree, Agree
<1>26. StrategiesAgree'
  BY <1>1, <1>2, <1>15, <1>16, <1>17 DEF Agreement, StrategiesAgree, Held
<1>27. AdaptersFit'
  BY <1>1, <1>2, <1>15, <1>16 DEF Agreement, AdaptersFit
<1> QED
  BY <1>15, <1>20, <1>21, <1>22, <1>23, <1>24, <1>25, <1>26, <1>27 DEF AdminInv, Agreement

LEMMA CacheStrategyStep ==
  ASSUME AdminInv, CacheBegun, todo[1].table = "strategies",
         mem' = CacheStrategy(mem, todo[1].id, todo[1].row)
  PROVE  AdminInv'
<1> DEFINE s == todo[1]
           id == s.id
           row == s.row
           f == mem.strategies
           at == {p \in DOMAIN f : f[p].id = id}
           others == Restrict(f, DOMAIN f \ at)
           e == [id |-> id, type |-> row.type]
           g == CASE row # NoRow -> Put(others, row.project, e)
                  [] row = NoRow /\ at # {} -> others
                  [] OTHER -> Drop(f, Global)
<1>1. Types /\ Heads /\ Founded /\ Agreement /\ GoneStays /\ MatchedFits
  BY DEF AdminInv
<1>2. todo # <<>> /\ s.do = "cache" /\ s \in Steps(next, ops)
      /\ UNCHANGED <<db, next, match, ops, ghost>>
  BY <1>1, SecondStep DEF CacheBegun
<1>3. s \in PlanWrites(next)
  BY <1>2, StepKinds, WriteKinds DEF Do
<1>4. row \in PlanRows \cup {NoRow} /\ id \in Nat
  <2>1. row \in PlanRows \cup {NoRow} /\ id \in 1..next.strategies - 1
    BY <1>3 DEF PlanWrites
  <2>2. next.strategies \in Nat
    BY <1>1, MemFacts
  <2>3. \A x \in 1..next.strategies - 1 : x \in Nat
    BY <2>2
  <2> QED
    BY <2>1, <2>3
<1>5. row # NoRow => id \in DOMAIN db.strategies /\ db.strategies[id] = row
  BY <1>1, <1>2 DEF Heads, RowWritten
<1>6. mem' = [mem EXCEPT !.strategies = g]
  BY DEF CacheStrategy
<1>7. f \in Plans
  BY <1>1, CacheFields
<1>8. PICK D \in SUBSET Projects : f \in [D -> [id : Nat, type : StrategyTypes]]
  BY <1>7, ZenonT(60) DEF Plans
<1>9. g \in Plans
      /\ \A p \in DOMAIN g : \/ row # NoRow /\ p = row.project /\ g[p] = e
                             \/ p \in DOMAIN f /\ g[p] = f[p] /\ f[p].id # id
  <2> DEFINE E == [id : Nat, type : StrategyTypes]
  <2>1. DOMAIN f = D /\ \A p \in D : f[p] \in E
    BY <1>8
  <2>2. DOMAIN others = D \ at /\ \A p \in D \ at : others[p] = f[p]
    BY <2>1 DEF Restrict
  <2>3. others \in [D \ at -> E]
    BY <2>1 DEF Restrict
  <2>4. \A p \in D \ at : f[p].id # id
    BY <2>1
  <2>5. CASE row # NoRow
    <3>1. g = Put(others, row.project, e)
      BY <2>5
    <3>2. row.project \in Projects /\ e \in E
      BY <1>4, <2>5, ZenonT(60) DEF PlanRows
    <3> DEFINE x == row.project
               U == (D \ at) \cup {x}
    <3>3. g = [y \in U |-> IF y = x THEN e ELSE others[y]]
      BY <2>2, <3>1 DEF Put
    <3> HIDE DEF g, e, E, others, at, x, f
    <3>4. g \in [U -> E] /\ U \in SUBSET Projects
      BY <2>3, <3>2, <3>3 DEF x
    <3>5. \A p \in DOMAIN g : \/ p = x /\ g[p] = e
                              \/ p \in DOMAIN f /\ g[p] = f[p] /\ f[p].id # id
      BY <2>1, <2>2, <2>4, <3>3
    <3>6. g \in Plans
      BY <3>4 DEF Plans, E
    <3> QED
      BY <2>5, <3>5, <3>6 DEF x
  <2>6. CASE row = NoRow /\ at # {}
    <3>1. g = others
      BY <2>6
    <3> HIDE DEF g, others, at, f, E
    <3>2. g \in Plans
      BY <2>3, <3>1 DEF Plans, E
    <3> QED
      BY <2>1, <2>2, <2>4, <3>1, <3>2
  <2>7. CASE row = NoRow /\ at = {}
    <3>1. g = Drop(f, Global)
      BY <2>7
    <3>2. DOMAIN g = D \ {Global} /\ \A p \in D \ {Global} : g[p] = f[p]
      BY <2>1, <3>1 DEF Drop, Restrict
    <3>3. g \in [D \ {Global} -> E]
      BY <2>1, <3>1 DEF Drop, Restrict
    <3>4. \A p \in D : f[p].id # id
      BY <2>1, <2>7
    <3> HIDE DEF g, f, E
    <3>5. g \in Plans
      BY <3>3 DEF Plans, E
    <3> QED
      BY <2>1, <3>2, <3>4, <3>5
  <2> QED
    BY <2>5, <2>6, <2>7, ZenonT(60)
<1>10. ~IsSave(s)
  BY DEF IsSave, IsWrite
<1> HIDE DEF g
<1>11. mem' = [providers |-> mem.providers, routes |-> mem.routes, configs |-> mem.configs,
               default |-> mem.default, strategies |-> g, adapters |-> mem.adapters]
  BY <1>1, <1>6, CacheFields
<1>12. mem' \in Caches(next, ops)
  BY <1>1, <1>9, <1>11, CacheFields, CacheMade
<1>13. /\ Types' /\ Heads'
       /\ \A table, x : Due(table, x) <=> s.table = table /\ s.id = x
       /\ \A r : ~EditedBefore(r)
       /\ \A p : ~Awaits(p)
  BY <1>1, <1>10, <1>12, CacheLeaves
<1>14. /\ mem'.providers = mem.providers /\ mem'.routes = mem.routes
       /\ mem'.configs = mem.configs /\ mem'.default = mem.default /\ mem'.strategies = g
       /\ mem'.adapters = mem.adapters
  BY <1>11
<1>15. s.table = "strategies"
  OBVIOUS
<1>16. Founded'
  BY <1>1, <1>2, <1>14 DEF Founded, Gone
<1>17. GoneStays' /\ MatchedFits'
  BY <1>1, <1>2 DEF GoneStays, MatchedFits, Gone
<1>18. StrategiesAgree'
  <2>1. SUFFICES ASSUME NEW p \in DOMAIN g PROVE Held(mem.strategies[p], p)'
    BY <1>14 DEF StrategiesAgree
  <2>2. CASE row # NoRow /\ p = row.project /\ g[p] = e
    <3>1. row = [project |-> row.project, type |-> row.type]
      BY <1>4, <2>2 DEF PlanRows
    <3> QED
      BY <1>2, <1>5, <1>14, <2>2, <3>1 DEF Held
  <2>3. CASE p \in DOMAIN f /\ g[p] = f[p] /\ f[p].id # id
    <3>1. Held(f[p], p)
      BY <1>1, <1>13, <2>3 DEF Agreement, StrategiesAgree
    <3> QED
      BY <1>2, <1>14, <2>3, <3>1 DEF Held
  <2> QED
    BY <1>9, <2>2, <2>3
<1> HIDE DEF s
<1>19. RoutesAgree'
  BY <1>1, <1>2, <1>13, <1>14, <1>15 DEF Agreement, RoutesAgree, Agree
<1>20. ProvidersAgree'
  <2>1. LoadProviders(db)' = LoadProviders(db)
    BY <1>2 DEF LoadProviders
  <2>2. \A p \in Nat : Agree(mem.providers, LoadProviders(db), p) \/ p \in ghost.revived
    BY <1>1, <1>13, <1>15 DEF Agreement, ProvidersAgree
  <2> QED
    BY <1>2, <1>14, <2>1, <2>2 DEF ProvidersAgree, Agree
<1>21. ConfigsAgree' /\ DefaultFlagged'
  BY <1>1, <1>2, <1>13, <1>14, <1>15 DEF Agreement, ConfigsAgree, DefaultFlagged, Flagged
<1>22. AdaptersFit'
  BY <1>1, <1>2, <1>13, <1>14 DEF Agreement, AdaptersFit
<1> QED
  BY <1>13, <1>16, <1>17, <1>18, <1>19, <1>20, <1>21, <1>22 DEF AdminInv, Agreement

LEMMA CacheProviderStep ==
  ASSUME AdminInv, CacheBegun, todo[1].table = "providers",
         mem' = CacheProvider(mem, todo[1].id, todo[1].row)
  PROVE  AdminInv'
<1> DEFINE s == todo[1]
           id == s.id
           row == s.row
           f == mem.providers
           v == IF row.deleted THEN NoRow ELSE row
           g == Write(f, id, v)
<1>1. Types /\ Heads /\ Founded /\ Agreement /\ GoneStays /\ MatchedFits
  BY DEF AdminInv
<1>2. todo # <<>> /\ s.do = "cache" /\ s \in Steps(next, ops)
      /\ UNCHANGED <<db, next, match, ops, ghost>>
      /\ (IsSave(s) => row.version = ops)
  BY <1>1, SecondStep DEF CacheBegun
<1>3. s \in Writes(next, ops) /\ s \in ProviderWrites(next, ops)
  BY <1>2, StepKinds, WriteKinds DEF Do
<1>4. row \in ProviderRows(ops) /\ id \in 1..next.providers - 1 /\ row # NoRow
  BY <1>3, RowsAreRows DEF ProviderWrites
<1>5. /\ id \in DOMAIN db.providers /\ db.providers[id] = RowWritten(s)
      /\ db.providers[id].deleted <=> (row.deleted \/ id \in Gone(db))
      /\ id \notin Gone(db) => db.providers[id] = row
  <2>1. id \in DOMAIN db.providers /\ db.providers[id] = RowWritten(s)
    BY <1>1, <1>2, <1>4 DEF Heads
  <2>2. /\ RowWritten(s).deleted <=> (row.deleted \/ id \in Gone(db))
        /\ id \notin Gone(db) => RowWritten(s) = row
    BY <1>1, <1>3, RowsWritten
  <2> QED
    BY <2>1, <2>2
<1>6. IsSave(s) <=> ~row.deleted
  BY <1>2 DEF IsSave, IsWrite, Do
<1>7. IsSave(s) /\ id \in Gone(db) => id \in ghost.revived
  BY <1>1, <1>2 DEF Heads
<1>8. mem' = [mem EXCEPT !.providers = g]
  BY DEF CacheProvider
<1>9. OnlyAt(g, f, id) /\ IF v = NoRow THEN id \notin DOMAIN g ELSE id \in DOMAIN g /\ g[id] = v
  BY WriteWrote DEF Wrote
<1>10. IF row.deleted THEN id \notin DOMAIN g ELSE id \in DOMAIN g /\ g[id] = row
  BY <1>4, <1>9
<1>11. g \in Maps(next.providers, ProviderRows(ops))
  <2>1. next.providers \in Nat /\ f \in Maps(next.providers, ProviderRows(ops))
    BY <1>1, MemFacts, CacheFields
  <2>2. v \in ProviderRows(ops) \cup {NoRow}
    BY <1>4
  <2> HIDE DEF f, id, v
  <2> QED
    BY <1>4, <2>1, <2>2, MapWrite
<1> HIDE DEF g, v
<1>12. mem' = [providers |-> g, routes |-> mem.routes, configs |-> mem.configs,
               default |-> mem.default, strategies |-> mem.strategies,
               adapters |-> mem.adapters]
  BY <1>1, <1>8, CacheFields
<1>13. mem' \in Caches(next, ops)
  BY <1>1, <1>11, <1>12, CacheFields, CacheMade
<1>14. /\ mem'.providers = g /\ mem'.routes = mem.routes /\ mem'.configs = mem.configs
       /\ mem'.default = mem.default /\ mem'.strategies = mem.strategies
       /\ mem'.adapters = mem.adapters
  BY <1>12
<1>15. /\ Types' /\ Heads'
       /\ \A table, x : Due(table, x) <=> s.table = table /\ s.id = x
       /\ \A r : ~EditedBefore(r)
       /\ \A p : Awaits(p) => s.id = p
       /\ \A p : IsSave(s) /\ s.id = p => Awaits(p)'
  BY <1>1, <1>6, <1>10, <1>13, <1>14, CacheLeaves
<1>16. s.table = "providers"
  OBVIOUS
<1>17. \A p : p # id => (p \in DOMAIN g <=> p \in DOMAIN f) /\ (p \in DOMAIN g => g[p] = f[p])
  BY <1>9 DEF OnlyAt
<1>18. Gone(db)' = Gone(db)
  BY <1>2 DEF Gone
<1> HIDE DEF s
<1>19. Founded'
  <2>1. DOMAIN g \subseteq DOMAIN db.providers
    BY <1>1, <1>5, <1>17 DEF Founded
  <2>2. ASSUME NEW p \in DOMAIN mem.adapters \cap DOMAIN g PROVE mem.adapters[p] <= g[p].version
    <3>1. CASE p = id
      <4>1. mem.adapters[p] \in 0..ops /\ ops \in Nat
        <5>1. mem.adapters \in Maps(next.providers, 0..ops) /\ next.providers \in Nat
          BY <1>1, MemFacts, CacheFields
        <5>2. mem.adapters[p] \in 0..ops
          BY <5>1, MapFacts
        <5> QED
          BY <1>1, <5>2 DEF Types
      <4>2. g[p].version = ops
        BY <1>2, <1>6, <1>10, <2>2, <3>1
      <4> QED
        BY <4>1, <4>2
    <3>2. CASE p # id
      BY <1>1, <1>17, <2>2, <3>2 DEF Founded
    <3> QED
      BY <3>1, <3>2
  <2> QED
    BY <1>1, <1>2, <1>14, <1>18, <2>1, <2>2 DEF Founded
<1>20. GoneStays' /\ MatchedFits'
  BY <1>1, <1>2 DEF GoneStays, MatchedFits, Gone
<1>21. ProvidersAgree'
  <2> DEFINE l == LoadProviders(db)
  <2>1. LoadProviders(db)' = l
    BY <1>2 DEF LoadProviders
  <2>2. SUFFICES ASSUME NEW p \in Nat PROVE Agree(g, l, p) \/ p \in ghost.revived
    BY <1>2, <1>14, <2>1 DEF ProvidersAgree, Agree
  <2>3. CASE p = id
    <3>1. (p \in DOMAIN l <=> ~db.providers[id].deleted)
          /\ (p \in DOMAIN l => l[p] = db.providers[id])
      BY <1>5, <2>3 DEF LoadProviders, Restrict
    <3> HIDE DEF l
    <3> QED
      BY <1>5, <1>6, <1>7, <1>10, <2>3, <3>1 DEF Agree
  <2>4. CASE p # id
    <3>1. Agree(f, l, p) \/ p \in ghost.revived
      BY <1>1, <1>15, <2>4 DEF Agreement, ProvidersAgree
    <3> QED
      BY <1>17, <2>4, <3>1 DEF Agree
  <2> QED
    BY <2>3, <2>4
<1>22. AdaptersFit'
  <2>1. SUFFICES ASSUME ~ghost.partial, NEW p \in DOMAIN g, g[p].ok
                 PROVE  \/ p \in DOMAIN mem.adapters /\ mem.adapters[p] = g[p].version
                        \/ <<"providers", p>> \in ghost.drifted \/ Awaits(p)'
    BY <1>2, <1>14 DEF AdaptersFit
  <2>2. CASE p = id
    BY <1>6, <1>10, <1>15, <2>1, <2>2
  <2>3. CASE p # id
    <3>1. p \in DOMAIN f /\ f[p] = g[p] /\ ~Awaits(p)
      BY <1>15, <1>17, <2>1, <2>3
    <3> QED
      BY <1>1, <2>1, <3>1 DEF Agreement, AdaptersFit
  <2> QED
    BY <2>2, <2>3
<1>23. RoutesAgree'
  BY <1>1, <1>2, <1>14, <1>15, <1>16 DEF Agreement, RoutesAgree, Agree
<1>24. ConfigsAgree' /\ DefaultFlagged'
  BY <1>1, <1>2, <1>14, <1>15, <1>16 DEF Agreement, ConfigsAgree, DefaultFlagged, Flagged
<1>25. StrategiesAgree'
  BY <1>1, <1>2, <1>14, <1>15, <1>16 DEF Agreement, StrategiesAgree, Held
<1> QED
  BY <1>15, <1>19, <1>20, <1>21, <1>22, <1>23, <1>24, <1>25 DEF AdminInv, Agreement

LEMMA CacheWrittenStep ==
  ASSUME AdminInv, CacheWritten
  PROVE  AdminInv'
<1>1. Types
  BY DEF AdminInv
<1>2. CacheBegun /\ Head(todo) = todo[1] /\ todo[1] \in Steps(next, ops)
      /\ mem' = Cached(mem, todo[1])
  BY <1>1, SecondStep DEF CacheWritten, Head1, CacheBegun
<1>3. todo[1].table \in TableNames
  <2>1. todo[1] \in Writes(next, ops)
    BY <1>2, StepKinds DEF CacheBegun, Do
  <2> QED
    BY <2>1, WriteKinds DEF TableNames
<1>4. CASE todo[1].table = "providers"
  BY <1>2, <1>4, CacheProviderStep DEF Cached
<1>5. CASE todo[1].table = "routes"
  BY <1>2, <1>5, CacheRouteStep DEF Cached
<1>6. CASE todo[1].table = "configs"
  BY <1>2, <1>6, CacheConfigStep DEF Cached
<1>7. CASE todo[1].table = "strategies"
  BY <1>2, <1>7, CacheStrategyStep DEF Cached
<1> QED
  BY <1>3, <1>4, <1>5, <1>6, <1>7 DEF TableNames

LEMMA NothingStirs ==
  ASSUME AdminInv, UNCHANGED vars
  PROVE  AdminInv'
<1>1. /\ UNCHANGED <<db, mem, todo, next, match, ops, ghost>>
      /\ Types /\ Heads /\ Founded /\ Agreement /\ GoneStays /\ MatchedFits
  BY DEF vars, AdminInv
<1>2. Heads' /\ Founded' /\ Agreement'
  BY <1>1, Untouched
<1>3. Types'
  BY <1>1 DEF Types
<1>4. GoneStays' /\ MatchedFits'
  BY <1>1 DEF GoneStays, MatchedFits, Gone
<1> QED
  BY <1>2, <1>3, <1>4 DEF AdminInv

LEMMA AdminBeginsStep ==
  ASSUME AdminInv, AdminBegins
  PROVE  AdminInv'
<1>1. ASSUME NEW types \in TypeSets, NEW ok \in BOOLEAN,
             CreateProvider(types, ok) \/ \E p \in Ids : UpdateProvider(p, types, ok)
      PROVE  AdminInv'
  BY <1>1, CreateProviderStep, UpdateProviderStep
<1>2. ASSUME NEW id \in Ids,
             DeleteProvider(id) \/ DeleteRoute(id) \/ DeleteConfig(id) \/ DeleteStrategy(id)
      PROVE  AdminInv'
  BY <1>2, DeleteProviderStep, DeleteRouteStep, DeleteConfigStep, DeleteStrategyStep
<1>3. ASSUME NEW row \in Posted, CreateRoute(row)
      PROVE  AdminInv'
  BY <1>3, CreateRouteStep
<1>4. ASSUME NEW r \in DOMAIN mem.routes, NEW row \in Changes(mem.routes[r]),
             UpdateRoute(r, row)
      PROVE  AdminInv'
  BY <1>4, UpdateRouteStep
<1>5. ASSUME NEW c \in Ids, NEW flag \in BOOLEAN, SaveConfig(c, flag)
      PROVE  AdminInv'
  BY <1>5, SaveConfigStep
<1>6. ASSUME NEW project \in Projects, NEW type \in StrategyTypes,
             CreateStrategy(project, type)
      PROVE  AdminInv'
  BY <1>6, CreateStrategyStep
<1>7. ASSUME NEW project \in Projects, NEW type \in StrategyTypes, NEW to \in Projects,
             UpdateStrategy(project, [project |-> to, type |-> type])
      PROVE  AdminInv'
  <2> DEFINE row == [project |-> to, type |-> type]
  <2>1. row \in PlanRows
    BY DEF PlanRows
  <2> HIDE DEF row
  <2> QED
    BY <1>7, <2>1, UpdateStrategyStep DEF row
<1> QED
  BY <1>1, <1>2, <1>3, <1>4, <1>5, <1>6, <1>7 DEF AdminBegins

LEMMA AdminGoesOnStep ==
  ASSUME AdminInv, AdminGoesOn
  PROVE  AdminInv'
BY ExecutedStep, RefusedStep, CacheWrittenStep, RefreshStep, RemoveAdapterStep, EditStep,
   SyncStep DEF AdminGoesOn

(* In every state the caches and the tables agree, except where a write to *)
(* a cache is due, an object was changed before its statement or a deleted *)
(* provider was updated; each step of an operation finds what the steps    *)
(* before it left; and what a Match holds fits the tables.                 *)
THEOREM AdminInvariant == Spec => []AdminInv
<1>1. Init => AdminInv
  BY Starts
<1>2. AdminInv /\ [Next]_vars => AdminInv'
  <2> SUFFICES ASSUME AdminInv, [Next]_vars PROVE AdminInv'
    OBVIOUS
  <2>1. CASE AdminBegins
    BY <2>1, AdminBeginsStep
  <2>2. CASE AdminGoesOn
    BY <2>2, AdminGoesOnStep
  <2>3. CASE MatchGoesOn
    BY <2>3, MatchSteps
  <2>4. CASE Restart
    BY <2>4, RestartStep
  <2>5. CASE UNCHANGED vars
    BY <2>5, NothingStirs
  <2> QED
    BY <2>1, <2>2, <2>3, <2>4, <2>5 DEF Next
<1> QED
  BY <1>1, <1>2, PTL DEF Spec

(* The tables hold only ids that were given out, caches and adapters only  *)
(* rows there are, and the default configuration is a cached one.          *)
THEOREM AdminTyped == Spec => []TypeInvariant
<1>1. AdminInv => TypeInvariant
  <2> SUFFICES ASSUME AdminInv PROVE TypeInvariant
    OBVIOUS
  <2>1. Types /\ Founded
    BY DEF AdminInv
  <2>2. /\ db.providers \in Maps(next.providers, ProviderRows(ops))
        /\ db.routes \in Maps(next.routes, RouteRows)
        /\ db.configs \in Maps(next.configs, ConfigRows)
        /\ db.strategies \in Maps(next.strategies, PlanRows)
        /\ DOMAIN db = TableNames
    BY <2>1 DEF Types, Tables, TableNames
  <2>3. /\ next.providers \in Nat /\ next.routes \in Nat /\ next.configs \in Nat
        /\ next.strategies \in Nat
    BY <2>1, MemFacts
  <2>4. /\ DOMAIN db.providers \subseteq 1..next.providers - 1
        /\ DOMAIN db.routes \subseteq 1..next.routes - 1
        /\ DOMAIN db.configs \subseteq 1..next.configs - 1
        /\ DOMAIN db.strategies \subseteq 1..next.strategies - 1
        /\ \A r \in DOMAIN db.routes : db.routes[r] \in RouteRows
    BY <2>2, <2>3, MapFacts
  <2>5. \A t \in DOMAIN db : DOMAIN db[t] \subseteq 1..next[t] - 1
    BY <2>2, <2>4 DEF TableNames
  <2>6. \A r \in DOMAIN db.routes : /\ db.routes[r].client \in ClientTypes
                                   /\ db.routes[r].project \in Projects
    BY <2>4 DEF RouteRows
  <2> QED
    BY <2>1, <2>5, <2>6 DEF TypeInvariant, Types, Founded
<1> QED
  BY <1>1, AdminInvariant, PTL

(* However a Match and an operation interleave, a matched route's provider *)
(* was not deleted when the match began or was updated since, and its      *)
(* adapter is not newer than its provider.                                 *)
THEOREM MatchesFit == Spec => []MatchedFits
<1>1. AdminInv => MatchedFits
  BY DEF AdminInv
<1> QED
  BY <1>1, AdminInvariant, PTL

-------------------------------------------------------------------------------
(* Match after a restart.                                                  *)
LEMMA OneAtMost ==
  ASSUME NEW S, IsFiniteSet(S), Cardinality(S) <= 1, NEW x \in S, NEW y \in S
  PROVE  x = y
<1> SUFFICES ASSUME x # y PROVE FALSE
  OBVIOUS
<1>1. IsFiniteSet({x}) /\ Cardinality({x}) = 1
  BY FS_Singleton
<1>2. IsFiniteSet({x} \cup {y}) /\ Cardinality({x} \cup {y}) = Cardinality({x}) + 1
  <2>1. y \notin {x}
    OBVIOUS
  <2> QED
    BY <1>1, <2>1, FS_AddElement
<1>3. {x} \cup {y} \subseteq S
  OBVIOUS
<1>4. Cardinality({x} \cup {y}) <= Cardinality(S)
  BY <1>3, FS_Subset
<1>5. Cardinality(S) \in Nat
  BY FS_CardinalityType
<1> QED
  BY <1>1, <1>2, <1>4, <1>5

LEMMA SameMaps ==
  ASSUME NEW n \in Nat, NEW k \in Nat, NEW R, NEW S, NEW f \in Maps(n, R), NEW g \in Maps(k, S),
         \A x \in Nat : Agree(f, g, x)
  PROVE  f = g
<1>1. /\ f = [x \in DOMAIN f |-> f[x]] /\ DOMAIN f \subseteq Nat
      /\ g = [x \in DOMAIN g |-> g[x]] /\ DOMAIN g \subseteq Nat
  BY MapFacts
<1>2. DOMAIN f = DOMAIN g
  BY <1>1 DEF Agree
<1>3. \A x \in DOMAIN f : f[x] = g[x]
  BY <1>1 DEF Agree
<1> QED
  BY <1>1, <1>2, <1>3

LEMMA Disturbed ==
  ASSUME AdminInv, Quiet, Ordinary
  PROVE  /\ \A r \in Nat : Agree(mem.routes, db.routes, r)
         /\ \A p \in Nat : Agree(mem.providers, LoadProviders(db), p)
         /\ \A c \in Nat : c \in DOMAIN mem.configs <=> c \in DOMAIN db.configs
         /\ mem.default \in Flagged(db) \cup {NoId}
         /\ \A p \in DOMAIN mem.strategies : Held(mem.strategies[p], p)
         /\ \A p \in DOMAIN mem.providers :
               p \in DOMAIN mem.adapters /\ mem.adapters[p] = mem.providers[p].version
         /\ DOMAIN mem.adapters \subseteq DOMAIN db.providers \ Gone(db)
<1>1. Types /\ Founded /\ Agreement
  BY DEF AdminInv
<1>2. /\ \A table, id : ~Due(table, id)
      /\ \A r : ~EditedBefore(r)
      /\ \A p : ~Awaits(p)
  BY DEF Quiet, Due, EditedBefore, Awaits
<1>3. /\ ghost.revived = {} /\ ghost.drifted = {} /\ ~ghost.partial
      /\ \A p \in DOMAIN mem.providers : mem.providers[p].ok
  BY DEF Ordinary
<1>4. /\ \A r \in Nat : Agree(mem.routes, db.routes, r)
      /\ \A p \in Nat : Agree(mem.providers, LoadProviders(db), p)
  BY <1>1, <1>2, <1>3 DEF Agreement, RoutesAgree, ProvidersAgree
<1>5. /\ \A c \in Nat : c \in DOMAIN mem.configs <=> c \in DOMAIN db.configs
      /\ mem.default \in Flagged(db) \cup {NoId}
  BY <1>1, <1>2 DEF Agreement, ConfigsAgree, DefaultFlagged
<1>6. \A p \in DOMAIN mem.strategies : Held(mem.strategies[p], p)
  BY <1>1, <1>2 DEF Agreement, StrategiesAgree
<1>7. \A p \in DOMAIN mem.providers :
         p \in DOMAIN mem.adapters /\ mem.adapters[p] = mem.providers[p].version
  BY <1>1, <1>2, <1>3 DEF Agreement, AdaptersFit
<1>8. DOMAIN mem.adapters \subseteq DOMAIN db.providers \ Gone(db)
  BY <1>1, <1>3 DEF Founded
<1> QED
  BY <1>4, <1>5, <1>6, <1>7, <1>8

(* The strategy of a project is found in the cache or in the table.        *)
LEMMA StrategyFound ==
  ASSUME NEW n \in Numbers, NEW k \in Nat, db \in Tables(n, k),
         NEW project, Cardinality(StrategyRows(db, project)) <= 1,
         NEW m, \A p \in DOMAIN m.strategies : Held(m.strategies[p], p)
  PROVE  GetStrategy(m, db, project) =
            (IF StrategyRows(db, project) = {} THEN {}
             ELSE {db.strategies[Min(StrategyRows(db, project))].type})
<1> DEFINE S == StrategyRows(db, project)
           e == m.strategies[project]
<1>1. db.strategies \in Maps(n.strategies, PlanRows) /\ n.strategies \in Nat
  BY DEF Tables, Numbers
<1>2. IsFiniteSet(S) /\ S \in SUBSET (1..n.strategies - 1)
  <2>1. IsFiniteSet(DOMAIN db.strategies) /\ DOMAIN db.strategies \subseteq 1..n.strategies - 1
    BY <1>1, MapFacts
  <2>2. S \subseteq DOMAIN db.strategies
    BY DEF StrategyRows
  <2> QED
    BY <2>1, <2>2, FS_Subset
<1>3. CASE project \in DOMAIN m.strategies
  <2>1. Held(e, project)
    BY <1>3
  <2>2. e.id \in S /\ db.strategies[e.id].type = e.type
    BY <2>1 DEF Held, StrategyRows
  <2>3. Min(S) \in S
    BY <1>1, <1>2, <2>2, MaxOf
  <2> HIDE DEF S, e
  <2>4. Cardinality(S) <= 1
    BY DEF S
  <2>5. Min(S) = e.id
    BY <1>2, <2>2, <2>3, <2>4, OneAtMost
  <2>6. GetStrategy(m, db, project) = {e.type}
    BY <1>3 DEF GetStrategy, e
  <2> QED
    BY <2>2, <2>5, <2>6 DEF S
<1>4. CASE project \notin DOMAIN m.strategies
  BY <1>4 DEF GetStrategy
<1> QED
  BY <1>3, <1>4

LEMMA DefaultFound ==
  ASSUME NEW n \in Numbers, NEW k \in Nat, db \in Tables(n, k), Cardinality(Flagged(db)) <= 1,
         NEW m, m.default \in Flagged(db) \cup {NoId}
  PROVE  GetDefault(m, db) = (IF Flagged(db) = {} THEN NoId ELSE Min(Flagged(db)))
<1> DEFINE S == Flagged(db)
<1>1. db.configs \in Maps(n.configs, ConfigRows) /\ n.configs \in Nat
  BY DEF Tables, Numbers
<1>2. IsFiniteSet(S) /\ S \in SUBSET (1..n.configs - 1)
  <2>1. IsFiniteSet(DOMAIN db.configs) /\ DOMAIN db.configs \subseteq 1..n.configs - 1
    BY <1>1, MapFacts
  <2>2. S \subseteq DOMAIN db.configs
    BY DEF Flagged
  <2> QED
    BY <2>1, <2>2, FS_Subset
<1>3. CASE m.default # NoId
  <2>1. m.default \in S
    BY <1>3
  <2>2. Min(S) \in S
    BY <1>1, <1>2, <2>1, MaxOf
  <2> HIDE DEF S
  <2>3. Cardinality(S) <= 1
    BY DEF S
  <2>4. Min(S) = m.default
    BY <1>2, <2>1, <2>2, <2>3, OneAtMost
  <2>5. GetDefault(m, db) = m.default
    BY <1>3 DEF GetDefault
  <2> QED
    BY <2>1, <2>4, <2>5 DEF S
<1>4. CASE m.default = NoId
  BY <1>4 DEF GetDefault
<1> QED
  BY <1>3, <1>4

(* Caches alike in what Match reads of them give it the same result.       *)
LEMMA SameMatched ==
  ASSUME NEW a, NEW b, a.routes = b.routes, a.providers = b.providers,
         a.adapters = b.adapters, DOMAIN a.configs = DOMAIN b.configs,
         NEW d, NEW client, NEW project, NEW x, NEW y, x = y
  PROVE  Matched(a, d, Filtered(a, client, project), x)
            = Matched(b, d, Filtered(b, client, project), y)
<1>1. Filtered(a, client, project) = Filtered(b, client, project)
  BY DEF Filtered
<1>2. \A c : GetConfig(a, d, c) = GetConfig(b, d, c)
  BY DEF GetConfig
<1> DEFINE f == Filtered(a, client, project)
<1>3. Filtered(b, client, project) = f
  BY <1>1
<1> HIDE DEF f
<1>4. Matched(a, d, f, x) = Matched(b, d, f, y)
  BY <1>2 DEF Matched
<1> QED
  BY <1>3, <1>4 DEF f

LEMMA SameStrategy ==
  ASSUME NEW a, NEW b, NEW d, NEW project,
         GetStrategy(a, d, project) = GetStrategy(b, d, project),
         GetStrategy(a, d, Global) = GetStrategy(b, d, Global)
  PROVE  Strategy(a, d, project) = Strategy(b, d, project)
BY DEF Strategy

LEMMA RestartKeeps ==
  ASSUME AdminInv
  PROVE  SameAfterRestart
<1> USE ProjectsAssumption
<1>1. SUFFICES ASSUME Quiet, Ordinary, NEW m \in Reloaded(db), NEW client \in ClientTypes,
                      NEW project \in Projects
      PROVE  /\ Matched(mem, db, Filtered(mem, client, project), GetDefault(mem, db))
                  = Matched(m, db, Filtered(m, client, project), GetDefault(m, db))
             /\ Strategy(mem, db, project) = Strategy(m, db, project)
  BY DEF SameAfterRestart
<1>2. /\ Types /\ next \in Numbers /\ ops \in Nat /\ db \in Tables(next, ops)
  BY DEF AdminInv, Types
<1>3. /\ m \in Caches(next, ops)
      /\ m.providers = LoadProviders(db) /\ m.routes = db.routes /\ m.configs = db.configs
      /\ m.default \in Flagged(db) \cup {NoId}
      /\ m.strategies = LoadStrategies(db)
      /\ \A p \in DOMAIN m.adapters : m.adapters[p] = m.providers[p].version
      /\ (\A p \in DOMAIN m.providers : m.providers[p].ok) =>
            DOMAIN m.adapters = DOMAIN m.providers
  BY <1>2, LoadedFacts
<1>4. /\ \A r \in Nat : Agree(mem.routes, db.routes, r)
      /\ \A p \in Nat : Agree(mem.providers, LoadProviders(db), p)
      /\ \A c \in Nat : c \in DOMAIN mem.configs <=> c \in DOMAIN db.configs
      /\ mem.default \in Flagged(db) \cup {NoId}
      /\ \A p \in DOMAIN mem.strategies : Held(mem.strategies[p], p)
      /\ \A p \in DOMAIN mem.providers :
            p \in DOMAIN mem.adapters /\ mem.adapters[p] = mem.providers[p].version
      /\ DOMAIN mem.adapters \subseteq DOMAIN db.providers \ Gone(db)
  BY <1>1, Disturbed
<1>5. /\ mem.providers \in Maps(next.providers, ProviderRows(ops))
      /\ mem.routes \in Maps(next.routes, RouteRows)
      /\ mem.configs \in Maps(next.configs, ConfigRows)
      /\ mem.adapters \in Maps(next.providers, 0..ops)
      /\ next.providers \in Nat /\ next.routes \in Nat /\ next.configs \in Nat
  BY <1>2, CacheFields, MemFacts
<1>6. /\ db.routes \in Maps(next.routes, RouteRows)
      /\ db.configs \in Maps(next.configs, ConfigRows)
      /\ LoadProviders(db) \in Maps(next.providers, ProviderRows(ops))
      /\ DOMAIN LoadProviders(db) = DOMAIN db.providers \ Gone(db)
      /\ m.adapters \in Maps(next.providers, 0..ops)
  BY <1>2, <1>3, LoadedProviders DEF Tables, Caches
<1>7. mem.routes = m.routes
  BY <1>3, <1>4, <1>5, <1>6, SameMaps
<1>8. mem.providers = m.providers
  <2> DEFINE l == LoadProviders(db)
  <2>1. l \in Maps(next.providers, ProviderRows(ops)) /\ \A p \in Nat : Agree(mem.providers, l, p)
    BY <1>4, <1>6
  <2> HIDE DEF l
  <2>2. mem.providers = l
    BY <1>5, <2>1, SameMaps
  <2> QED
    BY <1>3, <2>2 DEF l
<1>9. mem.adapters = m.adapters
  <2>1. \A p \in DOMAIN m.providers : m.providers[p].ok
    BY <1>1, <1>8 DEF Ordinary
  <2>2. DOMAIN m.adapters = DOMAIN m.providers
    BY <1>3, <2>1
  <2>3. DOMAIN mem.adapters = DOMAIN m.providers
    BY <1>3, <1>4, <1>6, <1>8
  <2>4. \A p \in DOMAIN m.providers : mem.adapters[p] = m.adapters[p]
    BY <1>3, <1>4, <1>8, <2>2
  <2>5. \A p \in Nat : Agree(mem.adapters, m.adapters, p)
    BY <2>2, <2>3, <2>4 DEF Agree
  <2> QED
    BY <1>2, <1>5, <1>6, <2>5, SameMaps
<1>10. DOMAIN mem.configs = DOMAIN m.configs
  <2>1. DOMAIN mem.configs \subseteq Nat /\ DOMAIN db.configs \subseteq Nat
    BY <1>5, <1>6, MapFacts
  <2> QED
    BY <1>3, <1>4, <2>1
<1>11. GetDefault(mem, db) = GetDefault(m, db)
  <2>1. Cardinality(Flagged(db)) <= 1
    BY <1>1 DEF Ordinary
  <2> DEFINE d == IF Flagged(db) = {} THEN NoId ELSE Min(Flagged(db))
  <2>2. GetDefault(mem, db) = d
    BY <1>2, <1>4, <2>1, DefaultFound
  <2>3. GetDefault(m, db) = d
    BY <1>2, <1>3, <2>1, DefaultFound
  <2> QED
    BY <2>2, <2>3
<1>12. ASSUME NEW p \in Projects PROVE GetStrategy(mem, db, p) = GetStrategy(m, db, p)
  <2>1. Cardinality(StrategyRows(db, p)) <= 1
    BY <1>1 DEF Ordinary
  <2>2. \A x \in DOMAIN m.strategies : Held(m.strategies[x], x)
    BY <1>2, <1>3, LoadedStrategies DEF Held
  <2> DEFINE t == IF StrategyRows(db, p) = {} THEN {}
                  ELSE {db.strategies[Min(StrategyRows(db, p))].type}
  <2>3. GetStrategy(mem, db, p) = t
    BY <1>2, <1>4, <2>1, StrategyFound
  <2>4. GetStrategy(m, db, p) = t
    BY <1>2, <2>1, <2>2, StrategyFound
  <2> QED
    BY <2>3, <2>4
<1>13. Strategy(mem, db, project) = Strategy(m, db, project)
  BY <1>12, SameStrategy
<1> QED
  BY <1>7, <1>8, <1>9, <1>10, <1>11, <1>13, SameMatched

(* Between two operations, whichever of their statements were refused,     *)
(* Match returns what it would after a restart: no cache has lost or kept  *)
(* anything that a request could notice.                                   *)
THEOREM RestartChangesNothing == Spec => []SameAfterRestart
BY AdminInvariant, RestartKeeps, PTL

-------------------------------------------------------------------------------
(* The routes of the providers. An operation removes, edits and adds them  *)
(* one by one, so the invariant is about the routes there will be once the *)
(* writes it has left are made.                                            *)
Ordered(q, r, v) ==
    \E i \in 1..Len(q) : IsWrite(q[i], "routes") /\ q[i].id = r /\ q[i].row = v

Touched(q, r) == \E i \in 1..Len(q) : IsWrite(q[i], "routes") /\ q[i].id = r

Becomes(q, f, r, v) ==
    IF Touched(q, r) THEN Ordered(q, r, v) /\ v # NoRow ELSE r \in DOMAIN f /\ f[r] = v

Once(q) ==
    \A i, j \in 1..Len(q) :
        /\ IsWrite(q[i], "routes") /\ IsWrite(q[j], "routes") /\ q[i].id = q[j].id
        => q[i].row = q[j].row

(* A global route of a provider and a client type that the administrator   *)
(* has not taken over.                                                     *)
Has(p, ct, r, v) ==
    /\ Becomes(todo, mem.routes, r, v) /\ v.project = Global /\ v.provider = p /\ v.client = ct
    /\ <<p, ct>> \notin ghost.manual

OneEach ==
    \A p \in Nat, ct \in ClientTypes, r, s \in Nat, v, w \in RouteRows :
        Has(p, ct, r, v) /\ Has(p, ct, s, w) => r = s

Owned ==
    \A p \in Nat, ct \in ClientTypes, r \in Nat, v \in RouteRows :
        Has(p, ct, r, v) => p \in DOMAIN db.providers

NoneOf(p) == \A ct \in ClientTypes, r \in Nat, v \in RouteRows : ~Has(p, ct, r, v)

(* A type that is served has a route of the proxy's own, and another has   *)
(* none but the administrator's.                                           *)
Backed(p, ct) ==
    \/ <<p, ct>> \in ghost.manual
    \/ \E r \in Nat, v \in RouteRows : Has(p, ct, r, v) /\ v.native

Foreign(p, ct) == \A r \in Nat, v \in RouteRows : Has(p, ct, r, v) => ~v.native

(* The last step is the one that makes the routes those of new types, or   *)
(* the one that deletes the provider.                                      *)
Syncing(q, p) == q # <<>> /\ q[Len(q)].do = "sync" /\ q[Len(q)].id = p
Deleting(q, p) == q # <<>> /\ IsDelete(q[Len(q)]) /\ q[Len(q)].id = p

Served(p) == IF Syncing(todo, p) THEN todo[Len(todo)].old ELSE db.providers[p].types

Fit(p) ==
    \A ct \in ClientTypes : IF ct \in Served(p) THEN Backed(p, ct) ELSE Foreign(p, ct)

Suits(p) ==
    IF p \in Gone(db) THEN p \in ghost.revived \/ NoneOf(p)
    ELSE IF Deleting(todo, p) THEN NoneOf(p) ELSE Fit(p)

Serves == \A p \in DOMAIN db.providers : Suits(p)

(* The types the last step gives are those of the row that is saved first. *)
Saves(q) == q # <<>> /\ q[1].do = "statement" /\ IsSave(q[1])

Planned ==
    /\ Saves(todo) =>
          LET z == todo[Len(todo)]
          IN  /\ Syncing(todo, todo[1].id) /\ z.types = todo[1].row.types
              /\ z.id \notin DOMAIN db.providers => z.old = {}
    /\ ~Saves(todo) => \A p \in Nat : Syncing(todo, p) =>
          p \in DOMAIN db.providers /\ db.providers[p].types = todo[Len(todo)].types
    /\ \A p \in Gone(db) : Syncing(todo, p) => p \in ghost.revived
    /\ \A i \in 1..Len(todo) : IsDelete(todo[i]) => i = Len(todo)

(* A state in which no operation was left half done.                       *)
Orderly == ghost.drifted = {} /\ Once(todo) /\ OneEach /\ Owned /\ Serves /\ Planned

RoutesInv == ghost.revived \subseteq Gone(db) /\ (~ghost.torn => Orderly)

(* The last step is the same when the first one is done.                   *)
LEMMA StepDone ==
  ASSUME NEW S, NEW q \in Seq(S), q # <<>>, NEW t, t = Tail(q)
  PROVE  /\ \A r : Touched(q, r) <=> \/ Touched(t, r)
                                     \/ IsWrite(q[1], "routes") /\ q[1].id = r
         /\ \A r, v : Ordered(q, r, v) <=>
               \/ Ordered(t, r, v)
               \/ IsWrite(q[1], "routes") /\ q[1].id = r /\ q[1].row = v
         /\ Once(q) => Once(t)
         /\ t # <<>> => t[Len(t)] = q[Len(q)]
         /\ t = <<>> => q[Len(q)] = q[1]
         /\ Len(t) = Len(q) - 1 /\ \A i \in 1..Len(t) : i + 1 \in 1..Len(q) /\ t[i] = q[i + 1]
<1>1. /\ Len(q) \in Nat \ {0} /\ t \in Seq(S) /\ Len(t) = Len(q) - 1
      /\ \A i \in 1..Len(q) - 1 : t[i] = q[i + 1]
  BY TailFacts
<1>2. \A i \in 1..Len(t) : i + 1 \in 1..Len(q) /\ t[i] = q[i + 1]
  BY <1>1
<1>3. \A i \in 1..Len(q) : i = 1 \/ (i - 1 \in 1..Len(t) /\ t[i - 1] = q[i])
  <2>1. ASSUME NEW i \in 1..Len(q), i # 1 PROVE i - 1 \in 1..Len(t) /\ (i - 1) + 1 = i
    BY <1>1, <2>1
  <2> QED
    BY <1>2, <2>1
<1>4. 1 \in 1..Len(q)
  BY <1>1
<1>5. t # <<>> => t[Len(t)] = q[Len(q)]
  <2>1. t # <<>> => Len(t) \in 1..Len(t) /\ Len(t) + 1 = Len(q)
    BY <1>1
  <2> QED
    BY <1>2, <2>1
<1>6. t = <<>> => q[Len(q)] = q[1]
  <2>1. t = <<>> => Len(t) = 0
    OBVIOUS
  <2>2. t = <<>> => Len(q) = 1
    BY <1>1, <2>1
  <2> QED
    BY <2>2
<1>7. \A r : Touched(q, r) <=> Touched(t, r) \/ (IsWrite(q[1], "routes") /\ q[1].id = r)
  BY <1>2, <1>3, <1>4 DEF Touched
<1>8. \A r, v : Ordered(q, r, v) <=>
         Ordered(t, r, v) \/ (IsWrite(q[1], "routes") /\ q[1].id = r /\ q[1].row = v)
  BY <1>2, <1>3, <1>4 DEF Ordered
<1>9. Once(q) => Once(t)
  BY <1>2 DEF Once
<1> QED
  BY <1>1, <1>2, <1>5, <1>6, <1>7, <1>8, <1>9

(* Nor does a statement that was executed order another write.             *)
LEMMA StepCached ==
  ASSUME NEW q, NEW t, Len(q) \in Nat \ {0}, Len(t) = Len(q),
         q[1].do = "statement", t[1].do = "cache", t[1].table = q[1].table, Same(t[1], q[1]),
         \A i \in 2..Len(q) : t[i] = q[i]
  PROVE  /\ \A r : Touched(q, r) <=> Touched(t, r)
         /\ \A r, v : Ordered(q, r, v) <=> Ordered(t, r, v)
         /\ Once(q) => Once(t)
         /\ \A i \in 1..Len(q) : IsDelete(t[i]) <=> IsDelete(q[i])
         /\ \A i \in 1..Len(q) : t[i].do = "sync" <=> q[i].do = "sync"
         /\ q[Len(q)].do = "sync" => t[Len(t)] = q[Len(q)]
         /\ t[Len(t)].id = q[Len(q)].id
<1>1. \A i \in 1..Len(q) : i = 1 \/ i \in 2..Len(q)
  OBVIOUS
<1>2. IsWrite(t[1], "routes") <=> IsWrite(q[1], "routes")
  BY DEF IsWrite, Do
<1>3. IsDelete(t[1]) <=> IsDelete(q[1])
  BY DEF IsDelete, IsWrite, Do, Same
<1>4. \A i \in 1..Len(q) : /\ IsWrite(t[i], "routes") <=> IsWrite(q[i], "routes")
                           /\ t[i].id = q[i].id /\ t[i].row = q[i].row
                           /\ IsDelete(t[i]) <=> IsDelete(q[i])
                           /\ t[i].do = "sync" <=> q[i].do = "sync"
  BY <1>1, <1>2, <1>3 DEF Same
<1>5. \A r : Touched(q, r) <=> Touched(t, r)
  BY <1>4 DEF Touched
<1>6. \A r, v : Ordered(q, r, v) <=> Ordered(t, r, v)
  BY <1>4 DEF Ordered
<1>7. Once(q) => Once(t)
  BY <1>4 DEF Once
<1>8. Len(q) \in 1..Len(q)
  OBVIOUS
<1>9. q[Len(q)].do = "sync" => t[Len(t)] = q[Len(q)]
  <2>1. q[Len(q)].do = "sync" => Len(q) # 1
    OBVIOUS
  <2>2. q[Len(q)].do = "sync" => Len(q) \in 2..Len(q)
    BY <1>1, <1>8, <2>1
  <2> QED
    BY <2>2
<1> QED
  BY <1>4, <1>5, <1>6, <1>7, <1>8, <1>9

SameRoutes ==
    \A r \in Nat, v \in RouteRows :
        Becomes(todo', mem'.routes, r, v) <=> Becomes(todo, mem.routes, r, v)

(* Routes that keep their key and their native mark, unless the            *)
(* administrator takes them over.                                          *)
LikeRoutes ==
    \A p, ct : \A r \in Nat, v \in RouteRows :
        /\ Has(p, ct, r, v)' =>
              \E w \in RouteRows : Has(p, ct, r, w) /\ (v.native <=> w.native)
        /\ Has(p, ct, r, v) /\ <<p, ct>> \notin ghost'.manual =>
              \E w \in RouteRows : Has(p, ct, r, w)' /\ (v.native <=> w.native)

LEMMA SameAlike ==
  ASSUME SameRoutes, ghost.manual \subseteq ghost'.manual
  PROVE  LikeRoutes
<1>1. ASSUME NEW p, NEW ct, NEW r \in Nat, NEW v \in RouteRows
      PROVE  /\ Has(p, ct, r, v)' => Has(p, ct, r, v)
             /\ Has(p, ct, r, v) /\ <<p, ct>> \notin ghost'.manual => Has(p, ct, r, v)'
  BY DEF SameRoutes, Has
<1>2. ASSUME NEW p, NEW ct, NEW r \in Nat, NEW v \in RouteRows
      PROVE  /\ Has(p, ct, r, v)' =>
                   \E w \in RouteRows : Has(p, ct, r, w) /\ (v.native <=> w.native)
             /\ Has(p, ct, r, v) /\ <<p, ct>> \notin ghost'.manual =>
                   \E w \in RouteRows : Has(p, ct, r, w)' /\ (v.native <=> w.native)
  BY <1>1, ZenonT(60)
<1> QED
  BY <1>2, ZenonT(60) DEF LikeRoutes

(* What stays true of the routes when they stay alike.                     *)
LEMMA RoutesStay ==
  ASSUME LikeRoutes, DOMAIN db.providers \subseteq DOMAIN db'.providers,
         ghost.manual \subseteq ghost'.manual
  PROVE  /\ OneEach => OneEach'
         /\ Owned => Owned'
         /\ \A p : NoneOf(p) => NoneOf(p)'
         /\ \A p, ct : Backed(p, ct) => Backed(p, ct)'
         /\ \A p, ct : Foreign(p, ct) => Foreign(p, ct)'
<1>0. \A p, ct : \A r \in Nat, v \in RouteRows :
         /\ Has(p, ct, r, v)' =>
               \E w \in RouteRows : Has(p, ct, r, w) /\ (v.native <=> w.native)
         /\ Has(p, ct, r, v) /\ <<p, ct>> \notin ghost'.manual =>
               \E w \in RouteRows : Has(p, ct, r, w)' /\ (v.native <=> w.native)
  BY ONLY LikeRoutes, ZenonT(60) DEF LikeRoutes
<1>1. ASSUME NEW p, NEW ct, NEW r \in Nat, NEW v \in RouteRows, Has(p, ct, r, v)'
      PROVE  \E w \in RouteRows : Has(p, ct, r, w) /\ (v.native <=> w.native)
  BY ONLY <1>0, <1>1
<1>2. ASSUME NEW p, NEW ct, NEW r \in Nat, NEW v \in RouteRows, Has(p, ct, r, v),
             <<p, ct>> \notin ghost'.manual
      PROVE  \E w \in RouteRows : Has(p, ct, r, w)' /\ (v.native <=> w.native)
  BY ONLY <1>0, <1>2
<1>3. OneEach => OneEach'
  BY <1>1 DEF OneEach
<1>4. Owned => Owned'
  BY <1>1 DEF Owned
<1>5. \A p : NoneOf(p) => NoneOf(p)'
  BY <1>1 DEF NoneOf
<1>6. \A p, ct : Backed(p, ct) => Backed(p, ct)'
  BY <1>2 DEF Backed
<1>7. \A p, ct : Foreign(p, ct) => Foreign(p, ct)'
  BY <1>1 DEF Foreign
<1> QED
  BY <1>3, <1>4, <1>5, <1>6, <1>7

(* A provider whose row and last step stay the same keeps what it has.     *)
LEMMA SuitsStay ==
  ASSUME LikeRoutes, DOMAIN db.providers \subseteq DOMAIN db'.providers,
         ghost.manual \subseteq ghost'.manual, ghost.revived \subseteq ghost'.revived,
         NEW p \in DOMAIN db.providers, db'.providers[p] = db.providers[p], Suits(p),
         p \notin Gone(db) =>
            (Deleting(todo', p) <=> Deleting(todo, p)) /\ Served(p)' = Served(p)
  PROVE  Suits(p)'
<1>1. /\ NoneOf(p) => NoneOf(p)'
      /\ \A ct : Backed(p, ct) => Backed(p, ct)'
      /\ \A ct : Foreign(p, ct) => Foreign(p, ct)'
  BY RoutesStay
<1>2. p \in Gone(db') <=> p \in Gone(db)
  BY DEF Gone
<1>3. ASSUME p \notin Gone(db), Fit(p) PROVE Fit(p)'
  <2>1. Served(p)' = Served(p)
    BY <1>3
  <2> QED
    BY <1>1, <1>3, <2>1 DEF Fit
<1>4. IF p \in Gone(db) THEN p \in ghost.revived \/ NoneOf(p)
      ELSE IF Deleting(todo, p) THEN NoneOf(p) ELSE Fit(p)
  BY DEF Suits
<1>5. IF p \in Gone(db') THEN p \in ghost'.revived \/ NoneOf(p)'
      ELSE IF Deleting(todo', p) THEN NoneOf(p)' ELSE Fit(p)'
  BY <1>1, <1>2, <1>3, <1>4
<1> QED
  BY <1>5 DEF Suits

LEMMA ServesStay ==
  ASSUME Orderly, LikeRoutes, db'.providers = db.providers,
         ghost.manual \subseteq ghost'.manual, ghost.revived \subseteq ghost'.revived,
         \A p \in DOMAIN db.providers \ Gone(db) :
            /\ Deleting(todo', p) <=> Deleting(todo, p)
            /\ Syncing(todo', p) <=> Syncing(todo, p)
            /\ Syncing(todo, p) => todo'[Len(todo')].old = todo[Len(todo)].old
  PROVE  OneEach' /\ Owned' /\ Serves'
<1>1. OneEach /\ Owned /\ Serves
  BY DEF Orderly
<1>2. OneEach' /\ Owned'
  BY <1>1, RoutesStay
<1>3. ASSUME NEW p \in DOMAIN db.providers PROVE Suits(p)'
  <2>1. Suits(p)
    BY <1>1 DEF Serves
  <2>2. p \notin Gone(db) =>
           (Deleting(todo', p) <=> Deleting(todo, p)) /\ Served(p)' = Served(p)
    BY DEF Served
  <2> QED
    BY <2>1, <2>2, SuitsStay
<1> QED
  BY <1>2, <1>3 DEF Serves

(* A step that is done, other than a statement, changes no routes to be.   *)
LEMMA StepOver ==
  ASSUME AdminInv, Orderly, SameRoutes, todo # <<>>, todo' = Tail(todo),
         todo[1].do \notin {"statement", "sync"}, UNCHANGED <<db, ghost>>
  PROVE  Orderly'
<1> DEFINE q == todo
           t == todo'
<1>1. Types /\ Heads
  BY DEF AdminInv
<1>2. q \in Seq(Steps(next, ops)) /\ q # <<>> /\ t = Tail(q)
  BY <1>1 DEF Types, Shaped
<1>3. /\ t # <<>> => ~IsSave(t[1])
      /\ q[1] \in Steps(next, ops)
  BY <1>1, SecondStep
<1>4. /\ Once(q) => Once(t)
      /\ t # <<>> => t[Len(t)] = q[Len(q)]
      /\ t = <<>> => q[Len(q)] = q[1]
      /\ Len(t) = Len(q) - 1 /\ \A i \in 1..Len(t) : i + 1 \in 1..Len(q) /\ t[i] = q[i + 1]
  <2> HIDE DEF q, t
  <2> QED
    BY ONLY <1>2, StepDone, ZenonT(60)
<1>5. Len(q) \in Nat
  BY <1>2
<1>6. ASSUME NEW p \in DOMAIN db.providers \ Gone(db)
      PROVE  /\ Deleting(t, p) <=> Deleting(q, p)
             /\ Syncing(t, p) <=> Syncing(q, p)
             /\ Syncing(q, p) => t[Len(t)].old = q[Len(q)].old
  <2>1. CASE t # <<>>
    BY <1>2, <1>4, <2>1 DEF Deleting, Syncing
  <2>2. CASE t = <<>>
    <3>1. q[Len(q)] = q[1] /\ q[1].do # "sync" /\ q[1].do # "statement"
      BY <1>4, <2>2
    <3>2. ~Syncing(q, p) /\ ~Syncing(t, p) /\ ~Deleting(t, p)
      BY <2>2, <3>1 DEF Syncing, Deleting
    <3>3. ASSUME Deleting(q, p) PROVE FALSE
      <4> DEFINE s == q[1]
      <4>1. IsDelete(s) /\ s.id = p /\ s.do = "cache"
        BY <3>1, <3>3 DEF Deleting, IsDelete, IsWrite, Do
      <4>2. s \in Writes(next, ops) /\ s.table = "providers" /\ s.row.deleted
        BY <1>3, <4>1, StepKinds DEF IsDelete, IsWrite
      <4>3. s.row \in ProviderRows(ops)
            /\ (RowWritten(s).deleted <=> (s.row.deleted \/ s.id \in Gone(db)))
        BY <1>1, <4>2, RowsWritten
      <4>4. s.row # NoRow
        BY <4>3, RowsAreRows
      <4>5. db.providers[p] = RowWritten(s)
        BY <1>1, <1>2, <4>1, <4>2, <4>4 DEF Heads
      <4>6. p \in Gone(db)
        BY <4>2, <4>3, <4>5 DEF Gone
      <4> QED
        BY <4>6
    <3> QED
      BY <3>2, <3>3
  <2> QED
    BY <2>1, <2>2
<1>7. OneEach' /\ Owned' /\ Serves'
  BY <1>6, SameAlike, ServesStay
<1>8. Planned'
  <2>1. Planned /\ ~Saves(q) /\ ~Saves(t)
    BY <1>3 DEF Orderly, Saves
  <2>2. \A p : Syncing(t, p) => Syncing(q, p) /\ t[Len(t)] = q[Len(q)]
    BY <1>2, <1>4 DEF Syncing
  <2>3. \A p \in Nat : Syncing(t, p) =>
           p \in DOMAIN db.providers /\ db.providers[p].types = t[Len(t)].types
    BY <2>1, <2>2 DEF Planned
  <2>4. ASSUME NEW i \in 1..Len(t), IsDelete(t[i]) PROVE i = Len(t)
    <3>1. i + 1 \in 1..Len(q) /\ IsDelete(q[i + 1])
      BY <1>4, <2>4
    <3>2. i + 1 = Len(q)
      BY <2>1, <3>1 DEF Planned
    <3>3. i \in Nat /\ Len(t) = Len(q) - 1
      BY <1>4, <1>5
    <3> QED
      BY ONLY <1>5, <3>2, <3>3
  <2>5. \A p \in Gone(db)' : Syncing(t, p) => p \in ghost'.revived
    BY <2>1, <2>2 DEF Planned, Gone
  <2> QED
    BY <2>1, <2>3, <2>4, <2>5 DEF Planned
<1>9. ghost'.drifted = {} /\ Once(t)
  BY <1>4 DEF Orderly
<1> QED
  BY <1>7, <1>8, <1>9 DEF Orderly

(* A step that is done, and what it did to the cached routes.              *)
LEMMA SameTail ==
  ASSUME Types, todo # <<>>, todo' = Tail(todo), ~IsWrite(todo[1], "routes"),
         \A r \in Nat : Agree(mem'.routes, mem.routes, r) \/ Touched(todo', r)
  PROVE  SameRoutes
<1> DEFINE q == todo
           t == todo'
<1>1. q \in Seq(Steps(next, ops)) /\ q # <<>> /\ t = Tail(q)
  BY DEF Types, Shaped
<1>2. /\ \A r : Touched(q, r) <=> Touched(t, r) \/ (IsWrite(q[1], "routes") /\ q[1].id = r)
      /\ \A r, v : Ordered(q, r, v) <=>
            Ordered(t, r, v) \/ (IsWrite(q[1], "routes") /\ q[1].id = r /\ q[1].row = v)
  BY <1>1, StepDone
<1>3. /\ \A r : Touched(q, r) <=> Touched(t, r)
      /\ \A r, v : Ordered(q, r, v) <=> Ordered(t, r, v)
  BY <1>2
<1>4. ASSUME NEW r \in Nat, NEW v \in RouteRows
      PROVE  Becomes(t, mem'.routes, r, v) <=> Becomes(q, mem.routes, r, v)
  <2>1. CASE Touched(t, r)
    BY <1>3, <2>1 DEF Becomes
  <2>2. CASE ~Touched(t, r)
    <3>1. Agree(mem'.routes, mem.routes, r)
      BY <2>2
    <3> QED
      BY <1>3, <2>2, <3>1 DEF Becomes, Agree
  <2> QED
    BY <2>1, <2>2
<1> QED
  BY <1>4 DEF SameRoutes

LEMMA SameCached ==
  ASSUME Types, Once(todo), todo # <<>>, todo' = Tail(todo), IsWrite(todo[1], "routes"),
         Wrote(mem'.routes, mem.routes, todo[1].id, todo[1].row)
  PROVE  SameRoutes
<1> DEFINE q == todo
           t == todo'
<1>1. q \in Seq(Steps(next, ops)) /\ q # <<>> /\ t = Tail(q)
  BY DEF Types, Shaped
<1>0. /\ \A r : Touched(q, r) <=> Touched(t, r) \/ (IsWrite(q[1], "routes") /\ q[1].id = r)
      /\ \A r, v : Ordered(q, r, v) <=>
            Ordered(t, r, v) \/ (IsWrite(q[1], "routes") /\ q[1].id = r /\ q[1].row = v)
  <2>1. \A r, v : Ordered(q, r, v) <=>
            Ordered(t, r, v) \/ (IsWrite(q[1], "routes") /\ q[1].id = r /\ q[1].row = v)
    BY <1>1, StepDone
  <2>2. \A p, r : Touched(p, r) <=> \E v : Ordered(p, r, v)
    BY DEF Touched, Ordered
  <2>3. ASSUME NEW r
        PROVE  Touched(q, r) <=> Touched(t, r) \/ (IsWrite(q[1], "routes") /\ q[1].id = r)
    <3>1. Touched(q, r) <=> \E v : Ordered(q, r, v)
      BY <2>2
    <3>2. Touched(t, r) <=> \E v : Ordered(t, r, v)
      BY <2>2
    <3> HIDE DEF q, t
    <3> QED
      BY <2>1, <3>1, <3>2
  <2> QED
    BY <2>1, <2>3
<1> DEFINE x == todo[1]
           f == mem.routes
           g == mem'.routes
<1>2. /\ \A r : Touched(q, r) <=> Touched(t, r) \/ (IsWrite(x, "routes") /\ x.id = r)
      /\ \A r, v : Ordered(q, r, v) <=>
            Ordered(t, r, v) \/ (IsWrite(x, "routes") /\ x.id = r /\ x.row = v)
      /\ \A i \in 1..Len(t) : i + 1 \in 1..Len(q) /\ t[i] = q[i + 1]
  <2>1. \A i \in 1..Len(t) : i + 1 \in 1..Len(q) /\ t[i] = q[i + 1]
    BY <1>1, StepDone
  <2> QED
    BY <1>0, <2>1
<1>3. 1 \in 1..Len(q)
  BY <1>1
<1>4. Touched(t, x.id) => Ordered(t, x.id, x.row)
  <2>1. ASSUME NEW i \in 1..Len(t), IsWrite(t[i], "routes"), t[i].id = x.id
        PROVE  t[i].row = x.row
    <3>1. i + 1 \in 1..Len(q) /\ IsWrite(q[i + 1], "routes") /\ q[i + 1].id = x.id
      BY <1>2, <2>1
    <3>2. q[1].row = q[i + 1].row
      BY <1>3, <3>1 DEF Once
    <3> QED
      BY <1>2, <3>2
  <2> QED
    BY <2>1 DEF Touched, Ordered
<1>5. \A r, v : Ordered(t, r, v) => Touched(t, r)
  BY DEF Touched, Ordered
<1>6. OnlyAt(g, f, x.id) /\ IF x.row = NoRow THEN x.id \notin DOMAIN g
                            ELSE x.id \in DOMAIN g /\ g[x.id] = x.row
  BY DEF Wrote
<1>7. \A r, v : Becomes(t, g, r, v) <=>
                   IF Touched(t, r) THEN Ordered(t, r, v) /\ v # NoRow ELSE r \in DOMAIN g /\ g[r] = v
  BY DEF Becomes
<1>8. \A r, v : Becomes(q, f, r, v) <=>
                   IF Touched(q, r) THEN Ordered(q, r, v) /\ v # NoRow ELSE r \in DOMAIN f /\ f[r] = v
  BY DEF Becomes
<1> HIDE DEF q, t, x, f, g
<1>9. ASSUME NEW r \in Nat, NEW v \in RouteRows
      PROVE  Becomes(t, g, r, v) <=> Becomes(q, f, r, v)
  <2>0. v # NoRow
    BY RowsAreRows
  <2>1. CASE r # x.id
    BY <1>2, <1>6, <1>7, <1>8, <2>1 DEF OnlyAt
  <2>2. CASE r = x.id
    <3>1. IsWrite(x, "routes")
      BY DEF x
    <3>2. Becomes(q, f, r, v) <=> (Ordered(t, r, v) \/ v = x.row)
      BY <1>2, <1>8, <2>0, <2>2, <3>1
    <3>3. CASE Touched(t, r)
      BY <1>4, <1>7, <2>0, <2>2, <3>2, <3>3
    <3>4. CASE ~Touched(t, r)
      <4>1. Becomes(t, g, r, v) <=> r \in DOMAIN g /\ g[r] = v
        BY <1>7, <3>4
      <4>2. Becomes(q, f, r, v) <=> v = x.row
        BY <1>5, <3>2, <3>4
      <4> QED
        BY <1>6, <2>0, <2>2, <4>1, <4>2
    <3> QED
      BY <3>3, <3>4
  <2> QED
    BY <2>1, <2>2
<1> QED
  BY <1>9 DEF SameRoutes, t, g, q, f

(* The routes to be are those that the step before gave.                   *)
LEMMA CacheWrittenRoutes ==
  ASSUME AdminInv, Orderly, CacheWritten
  PROVE  Orderly'
<1> DEFINE s == todo[1]
<1>1. Types
  BY DEF AdminInv
<1>2. /\ todo # <<>> /\ Head(todo) = s /\ s \in Steps(next, ops) /\ s.do = "cache"
      /\ todo' = Tail(todo) /\ UNCHANGED <<db, ghost>> /\ mem' = Cached(mem, s)
  BY <1>1, SecondStep DEF CacheWritten, Head1
<1>3. s \in Writes(next, ops)
  BY <1>2, StepKinds DEF Do
<1>4. s.table \in TableNames
  BY <1>1, <1>3, MemFacts, WriteFields
<1>5. CASE s.table = "routes"
  <2>1. mem' = CacheRoute(mem, s.id, s.row)
    BY <1>2, <1>5 DEF Cached
  <2>2. mem'.routes = Write(mem.routes, s.id, s.row)
    BY <1>1, <2>1, CacheFields DEF CacheRoute
  <2>3. IsWrite(s, "routes")
    BY <1>2, <1>5 DEF IsWrite, Do
  <2>4. Wrote(mem'.routes, mem.routes, s.id, s.row)
    BY <2>2, WriteWrote
  <2>5. SameRoutes
    BY <1>1, <1>2, <2>3, <2>4, SameCached DEF Orderly
  <2> QED
    BY <1>2, <2>5, StepOver
<1>6. CASE s.table # "routes"
  <2>1. mem'.routes = mem.routes
    <3>1. CASE s.table = "providers"
      <4>1. mem' = CacheProvider(mem, s.id, s.row)
        BY <1>2, <3>1 DEF Cached
      <4> QED
        BY <1>1, <4>1, CacheFields DEF CacheProvider
    <3>2. CASE s.table = "configs"
      <4>1. mem' = CacheConfig(mem, s.id, s.row)
        BY <1>2, <3>2 DEF Cached
      <4> QED
        BY <1>1, <4>1, CacheFields DEF CacheConfig
    <3>3. CASE s.table = "strategies"
      <4>1. mem' = CacheStrategy(mem, s.id, s.row)
        BY <1>2, <3>3 DEF Cached
      <4> QED
        BY <1>1, <4>1, CacheFields DEF CacheStrategy
    <3> QED
      BY <1>4, <1>6, <3>1, <3>2, <3>3 DEF TableNames
  <2>2. ~IsWrite(s, "routes")
    BY <1>6 DEF IsWrite
  <2>3. SameRoutes
    BY <1>1, <1>2, <2>1, <2>2, SameTail DEF Agree
  <2> QED
    BY <1>2, <2>3, StepOver
<1> QED
  BY <1>5, <1>6

LEMMA AdapterRoutes ==
  ASSUME AdminInv, Orderly, Refresh \/ RemoveAdapter
  PROVE  Orderly'
<1> DEFINE s == todo[1]
<1>1. Types
  BY DEF AdminInv
<1>2. /\ todo # <<>> /\ Head(todo) = s
      /\ s.do \in {"refresh", "remove adapter"} /\ todo' = Tail(todo) /\ UNCHANGED <<db, ghost>>
      /\ mem'.routes = mem.routes
  <2>1. todo # <<>>
    BY DEF Refresh, RemoveAdapter, Head1
  <2>2. Head(todo) = s
    BY <1>1, <2>1, SecondStep
  <2> QED
    BY <1>1, <2>1, <2>2, CacheFields DEF Refresh, RemoveAdapter, Head1
<1>3. ~IsWrite(s, "routes")
  BY <1>2 DEF IsWrite, Do
<1>4. SameRoutes
  BY <1>1, <1>2, <1>3, SameTail DEF Agree
<1> QED
  BY <1>2, <1>4, StepOver

LEMMA EditRoutes ==
  ASSUME AdminInv, Orderly, Edit
  PROVE  Orderly'
<1> DEFINE s == todo[1]
           t == todo'
<1>1. Types
  BY DEF AdminInv
<1>2. /\ todo # <<>> /\ Head(todo) = s /\ s.do = "edit"
      /\ t = Tail(todo) /\ UNCHANGED <<db, ghost>>
      /\ t # <<>> /\ t[1].do = "statement" /\ t[1].table = "routes" /\ Same(t[1], s)
  BY <1>1, SecondStep DEF Edit, Head1
<1>3. mem'.routes = Edited(mem.routes, s.id, s.row)
  BY <1>1, <1>2, CacheFields DEF Edit
<1>4. Touched(t, s.id)
  <2>1. 1 \in 1..Len(t)
    BY <1>1, <1>2, SecondStep DEF Shaped
  <2> QED
    BY <1>2, <2>1 DEF Touched, IsWrite, Do, Same
<1>5. \A r \in Nat : Agree(mem'.routes, mem.routes, r) \/ Touched(t, r)
  <2> DEFINE f == mem.routes
             g == Edited(f, s.id, s.row)
  <2>1. OnlyAt(g, f, s.id)
    <3> DEFINE h == Put(f, s.id, s.row)
    <3>1. /\ DOMAIN h = DOMAIN f \cup {s.id} /\ \A y \in DOMAIN f : y # s.id => h[y] = f[y]
      BY DEF Put
    <3>2. g = IF s.id \in DOMAIN f THEN h ELSE f
      BY DEF Edited
    <3> HIDE DEF h, f, g
    <3> QED
      BY <3>1, <3>2 DEF OnlyAt
  <2>2. \A r : r # s.id => Agree(g, f, r)
    BY <2>1 DEF OnlyAt, Agree
  <2> QED
    BY <1>3, <1>4, <2>2
<1>6. ~IsWrite(s, "routes")
  BY <1>2 DEF IsWrite, Do
<1>7. SameRoutes
  BY <1>1, <1>2, <1>5, <1>6, SameTail
<1> QED
  BY <1>2, <1>7, StepOver

(* What a statement leaves as it was.                                      *)
LEMMA ExecutedFacts ==
  ASSUME AdminInv, Executed, NEW q, q = todo, NEW t, t = todo', NEW s, s = todo[1]
  PROVE  /\ q # <<>> /\ t # <<>> /\ Len(q) \in Nat \ {0} /\ Len(t) = Len(q)
         /\ s \in Writes(next, ops) /\ s.do = "statement"
         /\ t[1].do = "cache" /\ t[1].table = s.table /\ Same(t[1], s)
         /\ \A i \in 2..Len(q) : t[i] = q[i]
         /\ db' = [db EXCEPT ![s.table] = Write(@, s.id, RowWritten(s))]
         /\ mem' = mem
         /\ ghost'.drifted \subseteq ghost.drifted /\ ghost'.torn = ghost.torn
         /\ ghost'.manual = ghost.manual /\ ghost'.revived = ghost.revived
<1> DEFINE w == [s EXCEPT !.do = "cache"]
           p == <<w>> \o Tail(todo)
<1>1. Types
  BY DEF AdminInv
<1>2. /\ todo # <<>> /\ Head(todo) = s /\ s.do = "statement" /\ s \in Steps(next, ops)
  BY <1>1, SecondStep DEF Executed, Head1
<1>3. s \in Writes(next, ops)
  BY <1>2, StepKinds DEF Do
<1>4. /\ db' = [db EXCEPT ![s.table] = Write(@, s.id, RowWritten(s))]
      /\ t = p /\ mem' = mem
      /\ ghost' = [ghost EXCEPT !.drifted = @ \ {<<s.table, s.id>>}]
  BY <1>2 DEF Executed
<1>5. /\ p # <<>> /\ Len(p) = Len(todo)
      /\ p[1].do = "cache" /\ p[1].table = s.table /\ Same(p[1], s)
  BY <1>1, <1>2, ReplacedShaped DEF Types
<1>6. todo \in Seq(Steps(next, ops)) /\ w \in Steps(next, ops)
  <2>1. w \in Writes(next, ops)
    BY <1>3, AsCached
  <2> QED
    BY <1>1, <2>1 DEF Types, Shaped, Steps
<1>7. \A i \in 2..Len(todo) : p[i] = todo[i]
  <2> HIDE DEF w
  <2> QED
    BY <1>2, <1>6, ReplacedFacts
<1>8. Len(todo) \in Nat \ {0}
  BY <1>2, <1>6
<1>9. /\ ghost'.drifted \subseteq ghost.drifted /\ ghost'.torn = ghost.torn
      /\ ghost'.manual = ghost.manual /\ ghost'.revived = ghost.revived
  <2>1. ghost \in Ghosts
    BY <1>1 DEF Types
  <2> QED
    BY <1>4, <2>1 DEF Ghosts
<1> HIDE DEF p, w
<1> QED
  BY <1>2, <1>3, <1>4, <1>5, <1>7, <1>8, <1>9

(* The rows of a deleted or of a saved provider.                           *)
LEMMA ProviderWritten ==
  ASSUME Types, NEW s \in Writes(next, ops), s.table = "providers",
         db' = [db EXCEPT ![s.table] = Write(@, s.id, RowWritten(s))]
  PROVE  /\ DOMAIN db.providers \subseteq DOMAIN db'.providers /\ s.id \in DOMAIN db'.providers
         /\ \A p \in DOMAIN db'.providers : p # s.id =>
               p \in DOMAIN db.providers /\ db'.providers[p] = db.providers[p]
         /\ db'.providers[s.id].types = s.row.types
         /\ s.id \in Gone(db') <=> s.row.deleted \/ s.id \in Gone(db)
<1>1. /\ DOMAIN db.providers \subseteq DOMAIN db'.providers
      /\ s.id \in DOMAIN db'.providers /\ db'.providers[s.id] = RowWritten(s)
      /\ OnlyAt(db'.providers, db.providers, s.id)
  BY GoneAfter
<1>2. /\ s.row \in ProviderRows(ops) /\ RowWritten(s) \in ProviderRows(ops)
      /\ RowWritten(s).deleted <=> (s.row.deleted \/ s.id \in Gone(db))
      /\ s.id \notin Gone(db) => RowWritten(s) = s.row
      /\ s.id \in Gone(db) => RowWritten(s) = [s.row EXCEPT !.deleted = TRUE]
  BY RowsWritten
<1>3. RowWritten(s).types = s.row.types
  <2> DEFINE row == s.row
             v == [row EXCEPT !.deleted = TRUE]
  <2>1. v.types = row.types
    BY <1>2 DEF ProviderRows
  <2> QED
    BY <1>2, <2>1
<1>4. s.id \in Gone(db') <=> RowWritten(s).deleted
  BY <1>1 DEF Gone
<1> QED
  BY <1>1, <1>2, <1>3, <1>4 DEF OnlyAt

LEMMA ExecutedRoutes ==
  ASSUME AdminInv, Orderly, Executed
  PROVE  Orderly'
<1> DEFINE q == todo
           t == todo'
           s == todo[1]
<1>1. /\ q # <<>> /\ t # <<>> /\ Len(q) \in Nat \ {0} /\ Len(t) = Len(q)
      /\ s \in Writes(next, ops) /\ s.do = "statement"
      /\ t[1].do = "cache" /\ t[1].table = s.table /\ Same(t[1], s)
      /\ \A i \in 2..Len(q) : t[i] = q[i]
      /\ db' = [db EXCEPT ![s.table] = Write(@, s.id, RowWritten(s))]
      /\ mem' = mem
      /\ ghost'.drifted \subseteq ghost.drifted
      /\ ghost'.manual = ghost.manual /\ ghost'.revived = ghost.revived
  BY ExecutedFacts
<1>2. /\ \A r : Touched(q, r) <=> Touched(t, r)
      /\ \A r, v : Ordered(q, r, v) <=> Ordered(t, r, v)
      /\ Once(q) => Once(t)
      /\ \A i \in 1..Len(q) : IsDelete(t[i]) <=> IsDelete(q[i])
      /\ \A i \in 1..Len(q) : t[i].do = "sync" <=> q[i].do = "sync"
      /\ q[Len(q)].do = "sync" => t[Len(t)] = q[Len(q)]
      /\ t[Len(t)].id = q[Len(q)].id
  BY <1>1, StepCached
<1>3. LikeRoutes
  <2>1. SameRoutes
    BY <1>1, <1>2 DEF SameRoutes, Becomes
  <2> QED
    BY <1>1, <2>1, SameAlike
<1>4. Len(q) \in 1..Len(q)
  BY <1>1
<1>5. \A p : /\ Deleting(t, p) <=> Deleting(q, p)
             /\ Syncing(t, p) <=> Syncing(q, p)
             /\ Syncing(q, p) => t[Len(t)] = q[Len(q)]
  <2>1. /\ IsDelete(t[Len(q)]) <=> IsDelete(q[Len(q)])
        /\ t[Len(q)].do = "sync" <=> q[Len(q)].do = "sync"
    BY <1>2, <1>4
  <2> QED
    BY <1>1, <1>2, <2>1 DEF Deleting, Syncing
<1>6. ghost'.drifted = {} /\ Once(t) /\ Types /\ Heads /\ OneEach /\ Owned /\ Serves /\ Planned
  BY <1>1, <1>2 DEF Orderly, AdminInv
<1>7. ~Saves(t)
  BY <1>1 DEF Saves
<1>8. \A i \in 1..Len(t) : IsDelete(t[i]) => i = Len(t)
  BY <1>1, <1>2, <1>6 DEF Planned
<1>9. CASE s.table # "providers"
  <2>1. db'.providers = db.providers
    BY <1>1, <1>6, <1>9, TableWritten
  <2>2. OneEach' /\ Owned' /\ Serves'
    BY <1>1, <1>3, <1>5, <2>1, ServesStay
  <2>3. ~Saves(q)
    BY <1>9 DEF Saves, IsSave, IsWrite
  <2>4. \A p \in Nat : Syncing(t, p) =>
           p \in DOMAIN db'.providers /\ db'.providers[p].types = t[Len(t)].types
    BY <1>5, <1>6, <2>1, <2>3 DEF Planned
  <2>5. \A p \in Gone(db)' : Syncing(t, p) => p \in ghost'.revived
    BY <1>1, <1>5, <1>6, <2>1 DEF Planned, Gone
  <2>6. Planned'
    BY <1>7, <1>8, <2>4, <2>5 DEF Planned
  <2> QED
    BY <1>6, <2>2, <2>6 DEF Orderly
<1>10. CASE s.table = "providers"
  <2>0. PICK id : id = s.id
    OBVIOUS
  <2>1. /\ DOMAIN db.providers \subseteq DOMAIN db'.providers /\ id \in DOMAIN db'.providers
        /\ \A p \in DOMAIN db'.providers : p # id =>
              p \in DOMAIN db.providers /\ db'.providers[p] = db.providers[p]
        /\ db'.providers[id].types = s.row.types
        /\ id \in Gone(db') <=> s.row.deleted \/ id \in Gone(db)
    BY <1>1, <1>6, <1>10, <2>0, ProviderWritten
  <2>2. OneEach' /\ Owned'
    BY <1>1, <1>3, <1>6, <2>1, RoutesStay
  <2>3. \A p : NoneOf(p) => NoneOf(p)'
    BY <1>1, <1>3, <2>1, RoutesStay, ZenonT(60)
  <2>4. ASSUME NEW p \in DOMAIN db'.providers, p # id PROVE Suits(p)'
    <3>1. p \in DOMAIN db.providers /\ db'.providers[p] = db.providers[p]
      BY <2>1, <2>4
    <3>2. Suits(p)
      BY <1>6, <3>1 DEF Serves
    <3>3. Served(p)' = Served(p)
      BY <1>5, <3>1 DEF Served
    <3> QED
      BY <1>1, <1>3, <1>5, <2>1, <3>1, <3>2, <3>3, SuitsStay
  <2>5. id \notin DOMAIN db.providers => NoneOf(id)
    <3>1. id \in Nat
      BY <1>1, <1>6, <2>0, MemFacts, WriteFields
    <3> QED
      BY <1>6, <3>1 DEF Owned, NoneOf
  <2>6. CASE s.row.deleted
    <3>1. IsDelete(s) /\ 1 \in 1..Len(q)
      BY <1>1, <1>10, <2>6 DEF IsDelete, IsWrite, Do
    <3>2. Len(q) = 1
      BY <1>6, <3>1 DEF Planned
    <3>3. Deleting(q, id) /\ \A p : ~Syncing(q, p)
      BY <1>1, <2>0, <3>1, <3>2 DEF Deleting, Syncing
    <3>4. id \in ghost.revived \/ NoneOf(id)
      <4>1. id \in DOMAIN db.providers => Suits(id)
        BY <1>6 DEF Serves
      <4> QED
        BY <2>5, <3>3, <4>1 DEF Suits
    <3>5. Suits(id)'
      <4>1. id \in Gone(db') /\ (id \in ghost'.revived \/ NoneOf(id)')
        BY <1>1, <2>1, <2>3, <2>6, <3>4
      <4> QED
        BY <4>1 DEF Suits
    <3>6. Serves'
      BY <2>4, <3>5 DEF Serves
    <3>7. Planned'
      BY <1>5, <1>7, <1>8, <3>3 DEF Planned
    <3> QED
      BY <1>6, <2>2, <3>6, <3>7 DEF Orderly
  <2>7. CASE ~s.row.deleted
    <3> DEFINE z == q[Len(q)]
    <3>1. IsSave(s)
      BY <1>1, <1>10, <2>7 DEF IsSave, IsWrite, Do
    <3>2. /\ Syncing(q, id) /\ z.types = s.row.types
          /\ id \notin DOMAIN db.providers => z.old = {}
      BY <1>1, <1>6, <2>0, <3>1 DEF Planned, Saves, Syncing
    <3>3. t[Len(t)] = z /\ Syncing(t, id) /\ ~Deleting(q, id) /\ ~Deleting(t, id)
      <4>1. z.do = "sync"
        BY <3>2 DEF Syncing
      <4>2. ~IsDelete(z)
        BY <4>1 DEF IsDelete, IsWrite, Do
      <4> QED
        BY <1>5, <3>2, <4>2 DEF Deleting
    <3>4. id \in Gone(db) => id \in ghost.revived
      BY <1>1, <1>6, <2>0, <3>1 DEF Heads
    <3>5. Suits(id)'
      <4>1. CASE id \in Gone(db)
        <5>1. id \in ghost'.revived /\ id \in Gone(db')
          BY <1>1, <2>1, <3>4, <4>1
        <5> QED
          BY <5>1 DEF Suits
      <4>2. CASE id \notin Gone(db)
        <5>1. id \notin Gone(db') /\ Served(id)' = z.old
          BY <2>1, <2>7, <3>3, <4>2 DEF Served
        <5>2. CASE id \in DOMAIN db.providers
          <6>1. Fit(id) /\ Served(id) = z.old
            <7>1. Suits(id)
              BY <1>6, <5>2 DEF Serves
            <7> QED
              BY <3>2, <3>3, <4>2, <7>1 DEF Suits, Served
          <6>2. /\ \A p, ct : Backed(p, ct) => Backed(p, ct)'
                /\ \A p, ct : Foreign(p, ct) => Foreign(p, ct)'
            BY <1>1, <1>3, <2>1, RoutesStay
          <6>3. Fit(id)'
            BY <5>1, <6>1, <6>2 DEF Fit
          <6> QED
            BY <3>3, <5>1, <6>3 DEF Suits
        <5>3. CASE id \notin DOMAIN db.providers
          <6>1. NoneOf(id)' /\ Served(id)' = {}
            BY <2>3, <2>5, <3>2, <5>1, <5>3
          <6>2. Fit(id)'
            BY <6>1 DEF Fit, NoneOf, Foreign
          <6> QED
            BY <3>3, <5>1, <6>2 DEF Suits
        <5> QED
          BY <5>2, <5>3
      <4> QED
        BY <4>1, <4>2
    <3>6. Serves'
      BY <2>4, <3>5 DEF Serves
    <3>7. Planned'
      <4>1. \A p : Syncing(t, p) => p = id
        BY <3>3 DEF Syncing
      <4>2. db'.providers[id].types = t[Len(t)].types
        BY <2>1, <3>2, <3>3
      <4>3. id \in Gone(db)' => id \in ghost'.revived
        BY <1>1, <2>1, <2>7, <3>4
      <4> QED
        BY <1>7, <1>8, <2>1, <4>1, <4>2, <4>3 DEF Planned
    <3> QED
      BY <1>6, <2>2, <3>6, <3>7 DEF Orderly
  <2> QED
    BY <2>6, <2>7
<1> QED
  BY <1>9, <1>10

(* The same steps are left, with the same providers.                       *)
LEMMA RoutesUnmoved ==
  ASSUME Orderly, SameRoutes, todo' = todo, db' = db, ghost'.drifted = {},
         ghost'.manual = ghost.manual, ghost'.revived = ghost.revived
  PROVE  Orderly'
<1>1. OneEach' /\ Owned' /\ Serves'
  BY SameAlike, ServesStay
<1>2. Planned'
  BY DEF Orderly, Planned
<1> QED
  BY <1>1, <1>2 DEF Orderly

LEMMA RestartRoutes ==
  ASSUME AdminInv, Orderly, Restart, todo = <<>>
  PROVE  Orderly'
<1>1. Types /\ Agreement /\ ghost \in Ghosts
  BY DEF AdminInv, Types
<1>2. /\ db' = db /\ todo' = <<>> /\ mem' \in Reloaded(db)
      /\ ghost'.drifted = {} /\ ghost'.manual = ghost.manual /\ ghost'.revived = ghost.revived
  BY <1>1 DEF Restart, Ghosts
<1>3. /\ ops \in Nat /\ next \in Numbers /\ db \in Tables(next, ops) /\ next.routes \in Nat
      /\ mem.routes \in Maps(next.routes, RouteRows)
  BY <1>1, CacheFields, MemFacts DEF Types
<1>4. db.routes \in Maps(next.routes, RouteRows)
  BY <1>3 DEF Tables
<1>5. mem'.routes = db.routes
  BY <1>2, <1>3, LoadedFacts
<1>6. \A r \in Nat : Agree(mem.routes, db.routes, r)
  <2>1. /\ \A table, id : ~Due(table, id)
        /\ \A r : ~EditedBefore(r)
    BY NothingDue DEF AtRest
  <2> QED
    BY <1>1, <2>1 DEF Agreement, RoutesAgree, Orderly
<1>7. mem.routes = db.routes
  BY <1>3, <1>4, <1>6, SameMaps
<1>8. SameRoutes
  BY <1>2, <1>5, <1>7 DEF SameRoutes
<1> QED
  BY <1>2, <1>8, RoutesUnmoved

LEMMA MatchRoutes ==
  ASSUME Orderly, UNCHANGED <<db, mem, todo, ghost>>
  PROVE  Orderly'
<1>1. SameRoutes
  BY DEF SameRoutes
<1> QED
  BY <1>1, RoutesUnmoved DEF Orderly

-------------------------------------------------------------------------------
(* An operation begins: no step is left, and the cached routes are those   *)
(* there will be.                                                          *)
LEMMA AtRestRoutes ==
  ASSUME todo = <<>>
  PROVE  /\ \A f, r, v : Becomes(todo, f, r, v) <=> r \in DOMAIN f /\ f[r] = v
         /\ \A p : ~Syncing(todo, p) /\ ~Deleting(todo, p) /\ Served(p) = db.providers[p].types
<1>1. \A r : ~Touched(todo, r)
  BY DEF Touched
<1>2. \A p : ~Syncing(todo, p) /\ ~Deleting(todo, p)
  BY DEF Syncing, Deleting
<1> QED
  BY <1>1, <1>2 DEF Becomes, Served

(* Steps that write no route.                                              *)
LEMMA NoRouteBegun ==
  ASSUME todo = <<>>, mem' = mem, NEW q, q = todo', Len(q) \in Nat,
         \A i \in 1..Len(q) : ~IsWrite(q[i], "routes")
  PROVE  SameRoutes /\ Once(q)
<1>1. \A r : ~Touched(q, r)
  BY DEF Touched
<1>2. \A f, r, v : Becomes(q, f, r, v) <=> r \in DOMAIN f /\ f[r] = v
  BY <1>1 DEF Becomes
<1>3. Once(q)
  BY DEF Once
<1> QED
  BY <1>2, <1>3, AtRestRoutes DEF SameRoutes

(* Steps that change no provider.                                          *)
NoProvider(q) == \A i \in 1..Len(q) : ~IsWrite(q[i], "providers") /\ q[i].do # "sync"

LEMMA NoProviderBegun ==
  ASSUME NEW q, Len(q) \in Nat, q # <<>> => Len(q) # 0, NoProvider(q)
  PROVE  /\ \A p : ~Syncing(q, p) /\ ~Deleting(q, p)
         /\ ~Saves(q) /\ \A i \in 1..Len(q) : ~IsDelete(q[i])
<1>1. q # <<>> => Len(q) \in 1..Len(q) /\ 1 \in 1..Len(q)
  OBVIOUS
<1>2. \A i \in 1..Len(q) : ~IsDelete(q[i]) /\ ~IsSave(q[i]) /\ q[i].do # "sync"
  BY DEF NoProvider, IsDelete, IsSave
<1> QED
  BY <1>1, <1>2 DEF Syncing, Deleting, Saves

LEMMA PlainBegun ==
  ASSUME Orderly, todo = <<>>, db' = db, mem' = mem, NEW q, q = todo', Len(q) \in Nat,
         q # <<>> => Len(q) # 0, NoProvider(q), Once(q), LikeRoutes,
         ghost'.drifted = ghost.drifted, ghost.manual \subseteq ghost'.manual,
         ghost.revived \subseteq ghost'.revived
  PROVE  Orderly'
<1>1. /\ \A p : ~Syncing(q, p) /\ ~Deleting(q, p)
      /\ ~Saves(q) /\ \A i \in 1..Len(q) : ~IsDelete(q[i])
  BY NoProviderBegun
<1>2. \A p : ~Syncing(todo, p) /\ ~Deleting(todo, p)
  BY AtRestRoutes
<1>3. OneEach' /\ Owned' /\ Serves'
  BY <1>1, <1>2, ServesStay
<1>4. Planned'
  BY <1>1 DEF Planned
<1> QED
  BY <1>3, <1>4 DEF Orderly

LEMMA OneBegun ==
  ASSUME Orderly, NEW w, w.do = "statement", w.table \notin {"routes", "providers"}, Begin(<<w>>),
         db' = db, mem' = mem, ghost' = ghost
  PROVE  Orderly'
<1> DEFINE q == <<w>>
<1>1. Len(q) = 1 /\ q[1] = w /\ todo' = q /\ todo = <<>>
  BY DEF Begin
<1> HIDE DEF q
<1>2. \A i \in 1..Len(q) : q[i] = w
  BY <1>1
<1>3. ~IsWrite(w, "routes") /\ ~IsWrite(w, "providers")
  BY DEF IsWrite
<1>4. NoProvider(q)
  BY <1>2, <1>3 DEF NoProvider
<1>5. SameRoutes /\ Once(q)
  BY <1>1, <1>2, <1>3, NoRouteBegun
<1> QED
  BY <1>1, <1>4, <1>5, SameAlike, PlainBegun

LEMMA OtherRoutes ==
  ASSUME AdminInv, Orderly, NEW c, NEW flag, NEW project, NEW type, NEW row,
         \/ SaveConfig(c, flag) \/ DeleteConfig(c) \/ CreateStrategy(project, type)
         \/ UpdateStrategy(project, row) \/ DeleteStrategy(c)
  PROVE  Orderly'
<1>1. CASE SaveConfig(c, flag)
  <2> DEFINE w == Statement("configs", c, [flag |-> flag], TRUE)
  <2>1. w.do = "statement" /\ w.table = "configs"
    BY DEF Statement
  <2>2. Begin(<<w>>) /\ db' = db /\ mem' = mem /\ ghost' = ghost
    BY <1>1 DEF SaveConfig
  <2> HIDE DEF w
  <2> QED
    BY <2>1, <2>2, OneBegun
<1>2. CASE DeleteConfig(c)
  <2> DEFINE w == Statement("configs", c, NoRow, TRUE)
  <2>1. w.do = "statement" /\ w.table = "configs"
    BY DEF Statement
  <2>2. Begin(<<w>>) /\ db' = db /\ mem' = mem /\ ghost' = ghost
    BY <1>2 DEF DeleteConfig
  <2> HIDE DEF w
  <2> QED
    BY <2>1, <2>2, OneBegun
<1>3. CASE CreateStrategy(project, type)
  <2> DEFINE w == Statement("strategies", next.strategies, [project |-> project, type |-> type], TRUE)
  <2>1. w.do = "statement" /\ w.table = "strategies"
    BY DEF Statement
  <2>2. Begin(<<w>>) /\ db' = db /\ mem' = mem /\ ghost' = ghost
    BY <1>3 DEF CreateStrategy
  <2> HIDE DEF w
  <2> QED
    BY <2>1, <2>2, OneBegun
<1>4. CASE UpdateStrategy(project, row)
  <2> DEFINE w == Statement("strategies", mem.strategies[project].id, row, TRUE)
  <2>1. w.do = "statement" /\ w.table = "strategies"
    BY DEF Statement
  <2>2. Begin(<<w>>) /\ db' = db /\ mem' = mem /\ ghost' = ghost
    BY <1>4 DEF UpdateStrategy
  <2> HIDE DEF w
  <2> QED
    BY <2>1, <2>2, OneBegun
<1>5. CASE DeleteStrategy(c)
  <2> DEFINE w == Statement("strategies", c, NoRow, TRUE)
  <2>1. w.do = "statement" /\ w.table = "strategies"
    BY DEF Statement
  <2>2. Begin(<<w>>) /\ db' = db /\ mem' = mem /\ ghost' = ghost
    BY <1>5 DEF DeleteStrategy
  <2> HIDE DEF w
  <2> QED
    BY <2>1, <2>2, OneBegun
<1> QED
  BY <1>1, <1>2, <1>3, <1>4, <1>5

(* One route is to be written, perhaps after an edit of its object.        *)
LEMMA RouteBegun ==
  ASSUME todo = <<>>, mem' = mem, NEW q, q = todo', NEW w, w.do = "statement",
         w.table = "routes", Len(q) \in {1, 2}, q[Len(q)] = w,
         Len(q) = 2 => q[1].do = "edit"
  PROVE  /\ Once(q) /\ NoProvider(q) /\ Len(q) \in Nat /\ Len(q) # 0
         /\ \A r, v : Becomes(q, mem'.routes, r, v) <=>
               IF r = w.id THEN v = w.row /\ v # NoRow ELSE Becomes(todo, mem.routes, r, v)
<1>1. \A i \in 1..Len(q) : q[i] = w \/ q[i].do = "edit"
  OBVIOUS
<1>2. /\ IsWrite(w, "routes") /\ ~IsWrite(w, "providers") /\ w.do # "sync"
      /\ \A x : x.do = "edit" => ~IsWrite(x, "routes") /\ ~IsWrite(x, "providers") /\ x.do # "sync"
  BY DEF IsWrite, Do
<1>3. Len(q) \in 1..Len(q) /\ q[Len(q)] = w
  <2>1. \A n \in {1, 2} : n \in 1..n
    OBVIOUS
  <2> QED
    BY <2>1
<1>4. \A i \in 1..Len(q) : IsWrite(q[i], "routes") => q[i] = w
  BY <1>1, <1>2
<1>5. Once(q) /\ NoProvider(q)
  BY <1>1, <1>2, <1>4 DEF Once, NoProvider
<1>6. \A r : Touched(q, r) <=> r = w.id
  BY <1>2, <1>3, <1>4 DEF Touched
<1>7. \A r, v : Ordered(q, r, v) <=> r = w.id /\ v = w.row
  BY <1>2, <1>3, <1>4 DEF Ordered
<1>8. ASSUME NEW r, NEW v
      PROVE  Becomes(q, mem'.routes, r, v) <=>
                IF r = w.id THEN v = w.row /\ v # NoRow ELSE Becomes(todo, mem.routes, r, v)
  <2>1. Becomes(todo, mem.routes, r, v) <=> r \in DOMAIN mem.routes /\ mem.routes[r] = v
    BY AtRestRoutes
  <2> QED
    BY <1>6, <1>7, <2>1 DEF Becomes
<1> QED
  BY <1>5, <1>8

LEMMA KeyIs ==
  \A v, p, ct : <<p, ct>> \in Key(v) <=> v.project = Global /\ v.provider = p /\ v.client = ct
BY DEF Key

(* A route that the administrator writes and whose keys he takes over.     *)
LEMMA TakenRoutes ==
  ASSUME Orderly, todo = <<>>, mem' = mem, db' = db, NEW q, q = todo', NEW w,
         w.do = "statement", w.table = "routes", Len(q) \in {1, 2}, q[Len(q)] = w,
         Len(q) = 2 => q[1].do = "edit", NEW keys, ghost'.manual = ghost.manual \cup keys,
         ghost'.drifted = ghost.drifted, ghost'.revived = ghost.revived,
         w.id \in DOMAIN mem.routes => Key(mem.routes[w.id]) \subseteq keys,
         w.row # NoRow => Key(w.row) \subseteq keys
  PROVE  Orderly'
<1>1. /\ Once(q) /\ NoProvider(q) /\ Len(q) \in Nat /\ Len(q) # 0
      /\ \A r, v : Becomes(q, mem'.routes, r, v) <=>
            IF r = w.id THEN v = w.row /\ v # NoRow ELSE Becomes(todo, mem.routes, r, v)
  BY RouteBegun
<1>2. \A r, v : Becomes(todo, mem.routes, r, v) <=> r \in DOMAIN mem.routes /\ mem.routes[r] = v
  BY AtRestRoutes
<1>3. ASSUME NEW p, NEW ct, NEW v, NEW r, <<p, ct>> \notin ghost'.manual,
             v.project = Global, v.provider = p, v.client = ct,
             Becomes(q, mem'.routes, r, v) \/ Becomes(todo, mem.routes, r, v)
      PROVE  r # w.id
  <2>1. <<p, ct>> \in Key(v) /\ <<p, ct>> \notin keys
    BY <1>3, KeyIs
  <2> QED
    BY <1>1, <1>2, <1>3, <2>1
<1>4. \A p, ct, r, v : <<p, ct>> \notin ghost'.manual => (Has(p, ct, r, v)' <=> Has(p, ct, r, v))
  BY <1>1, <1>3 DEF Has
<1>5. \A p, ct, r, v : Has(p, ct, r, v)' => <<p, ct>> \notin ghost'.manual
  BY DEF Has
<1>6. LikeRoutes
  BY <1>4, <1>5 DEF LikeRoutes
<1> QED
  BY <1>1, <1>6, PlainBegun

LEMMA UpdateRouteRoutes ==
  ASSUME AdminInv, Orderly, NEW id, NEW row \in RouteRows, UpdateRoute(id, row)
  PROVE  Orderly'
<1> DEFINE w == Statement("routes", id, row, TRUE)
           e == [do |-> "edit", id |-> id, row |-> row]
           q == <<e, w>>
<1> PICK keys : keys = IF SameKey(mem.routes[id], row) THEN {}
                       ELSE Key(mem.routes[id]) \cup Key(row)
  OBVIOUS
<1>1. Types /\ ghost \in Ghosts
  BY DEF AdminInv, Types
<1>2. /\ todo = <<>> /\ todo' = q /\ mem' = mem /\ db' = db /\ ghost' = TakenOver(keys)
      /\ id \in DOMAIN mem.routes
  BY DEF UpdateRoute, Begin
<1>3. mem.routes[id] \in RouteRows /\ DOMAIN mem.routes \subseteq Nat
  BY <1>1, <1>2, MemFacts
<1>4. /\ ghost'.manual = ghost.manual \cup keys /\ ghost'.drifted = ghost.drifted
      /\ ghost'.revived = ghost.revived
  <2>1. keys \in SUBSET (Nat \X ClientTypes)
    BY <1>3, KeyFacts
  <2> QED
    BY <1>1, <1>2, <2>1, TakenOverFacts
<1>5. /\ w.do = "statement" /\ w.table = "routes" /\ w.id = id /\ w.row = row /\ e.do = "edit"
  BY DEF Statement
<1> HIDE DEF w, e
<1>6. Len(q) = 2 /\ q[1] = e /\ q[2] = w
  OBVIOUS
<1> HIDE DEF q
<1>7. CASE ~SameKey(mem.routes[id], row)
  <2>1. /\ Key(mem.routes[w.id]) \subseteq keys /\ Key(w.row) \subseteq keys
        /\ Len(q) \in {1, 2} /\ q[Len(q)] = w /\ q[1].do = "edit"
    BY <1>5, <1>6, <1>7
  <2> QED
    BY <1>2, <1>4, <1>5, <2>1, TakenRoutes
<1>8. CASE SameKey(mem.routes[id], row)
  <2>1. /\ Once(q) /\ NoProvider(q) /\ Len(q) \in Nat /\ Len(q) # 0
        /\ \A r, v : Becomes(q, mem'.routes, r, v) <=>
              IF r = w.id THEN v = w.row /\ v # NoRow ELSE Becomes(todo, mem.routes, r, v)
    BY <1>2, <1>5, <1>6, RouteBegun
  <2>2. \A r, v : Becomes(todo, mem.routes, r, v) <=> r \in DOMAIN mem.routes /\ mem.routes[r] = v
    BY <1>2, AtRestRoutes
  <2>3. ghost'.manual = ghost.manual /\ row # NoRow
    BY <1>4, <1>8, RowsAreRows
  <2> PICK old : old = mem.routes[id]
    OBVIOUS
  <2>4. /\ old \in RouteRows /\ old.native = row.native
        /\ \A p, ct : <<p, ct>> \in Key(old) <=> <<p, ct>> \in Key(row)
    BY <1>3, <1>8 DEF SameKey
  <2>5. \A p, ct : old.project = Global /\ old.provider = p /\ old.client = ct
                   <=> row.project = Global /\ row.provider = p /\ row.client = ct
    <3>1. \A p, ct : <<p, ct>> \in Key(old)
                       <=> old.project = Global /\ old.provider = p /\ old.client = ct
      BY ONLY KeyIs
    <3>2. \A p, ct : <<p, ct>> \in Key(row)
                       <=> row.project = Global /\ row.provider = p /\ row.client = ct
      BY ONLY KeyIs
    <3> QED
      BY <2>4, <3>1, <3>2
  <2>6. \A p, ct : Has(p, ct, id, row)' <=> Has(p, ct, id, old)
    BY <1>2, <1>5, <2>1, <2>2, <2>3, <2>5 DEF Has
  <2>7. \A p, ct, r, v : r # id => (Has(p, ct, r, v)' <=> Has(p, ct, r, v))
    BY <1>2, <1>5, <2>1, <2>3 DEF Has
  <2>8. \A p, ct, v : /\ Has(p, ct, id, v)' => v = row
                      /\ Has(p, ct, id, v) => v = old
    BY <1>2, <1>5, <2>1, <2>2 DEF Has
  <2>9. LikeRoutes
    BY <2>4, <2>6, <2>7, <2>8 DEF LikeRoutes
  <2> QED
    BY <1>2, <1>4, <2>1, <2>3, <2>9, PlainBegun
<1> QED
  BY <1>7, <1>8

(* A deleted route was the administrator's to delete.                      *)
LEMMA DeleteRouteRoutes ==
  ASSUME AdminInv, Orderly, NEW id, DeleteRoute(id)
  PROVE  Orderly'
<1> DEFINE w == Statement("routes", id, NoRow, TRUE)
           q == <<w>>
<1> PICK keys : keys = Key(mem.routes[id])
  OBVIOUS
<1>1. Types /\ ghost \in Ghosts
  BY DEF AdminInv, Types
<1>2. /\ todo = <<>> /\ todo' = q /\ mem' = mem /\ db' = db /\ ghost' = TakenOver(keys)
      /\ id \in DOMAIN mem.routes
  BY DEF DeleteRoute, Begin
<1>3. /\ ghost'.manual = ghost.manual \cup keys /\ ghost'.drifted = ghost.drifted
      /\ ghost'.revived = ghost.revived
  <2>1. mem.routes[id] \in RouteRows
    BY <1>1, <1>2, MemFacts
  <2>2. keys \in SUBSET (Nat \X ClientTypes)
    BY <2>1, KeyFacts
  <2> QED
    BY <1>1, <1>2, <2>2, TakenOverFacts
<1>4. w.do = "statement" /\ w.table = "routes" /\ w.id = id /\ w.row = NoRow
  BY DEF Statement
<1> HIDE DEF w
<1>5. Len(q) = 1 /\ q[1] = w
  OBVIOUS
<1> HIDE DEF q
<1>6. /\ Key(mem.routes[w.id]) \subseteq keys /\ Len(q) \in {1, 2} /\ Len(q) # 2
      /\ q[Len(q)] = w
  BY <1>4, <1>5
<1> QED
  BY <1>2, <1>3, <1>4, <1>6, TakenRoutes

(* A cached provider is not deleted, or was revived.                       *)
LEMMA CachedLives ==
  ASSUME AdminInv, todo = <<>>, NEW p \in DOMAIN mem.providers
  PROVE  /\ p \in DOMAIN db.providers
         /\ p \notin ghost.revived => p \notin Gone(db) /\ mem.providers[p] = db.providers[p]
<1>1. Types /\ Founded /\ Agreement
  BY DEF AdminInv
<1>2. p \in DOMAIN db.providers /\ p \in Nat /\ db \in Tables(next, ops) /\ next \in Numbers
      /\ ops \in Nat
  BY <1>1, MemFacts DEF Founded, Types
<1>3. /\ DOMAIN LoadProviders(db) = DOMAIN db.providers \ Gone(db)
      /\ \A x \in DOMAIN LoadProviders(db) : LoadProviders(db)[x] = db.providers[x]
  BY <1>2, LoadedProviders
<1>4. p \notin ghost.revived => Agree(mem.providers, LoadProviders(db), p)
  <2>1. \A table, id : ~Due(table, id)
    BY NothingDue DEF AtRest
  <2> QED
    BY <1>1, <1>2, <2>1 DEF Agreement, ProvidersAgree
<1> QED
  BY <1>2, <1>3, <1>4 DEF Agree

(* A route of a cached provider, the first of its key and not native, is   *)
(* an additional one.                                                      *)
LEMMA AdditionalRoutes ==
  ASSUME AdminInv, Orderly, NEW row \in RouteRows, ~row.native, todo = <<>>, mem' = mem, db' = db,
         ghost'.manual = ghost.manual, ghost'.drifted = ghost.drifted,
         ghost'.revived = ghost.revived, NEW provider, provider = row.provider,
         NEW client, client = row.client, provider \in DOMAIN mem.providers,
         Keyed(mem.routes, provider, client) = {}, NEW id, id = next.routes,
         NEW w, w.do = "statement", w.table = "routes", w.id = id, w.row = row,
         NEW q, q = todo', Len(q) = 1, q[1] = w
  PROVE  Orderly'
<1>1. Types
  BY DEF AdminInv
<1>3. row # NoRow
  BY RowsAreRows
<1>6. id \notin DOMAIN mem.routes /\ id \in Nat
  BY <1>1, MemFacts
<1>2. q[Len(q)] = w /\ Len(q) \in {1, 2} /\ Len(q) # 2
  OBVIOUS
<1>7. /\ Once(q) /\ NoProvider(q) /\ Len(q) \in Nat /\ Len(q) # 0
      /\ \A r, v : Becomes(q, mem'.routes, r, v) <=>
            IF r = w.id THEN v = w.row /\ v # NoRow ELSE Becomes(todo, mem.routes, r, v)
  BY <1>2, RouteBegun
<1>8. \A r, v : Becomes(todo, mem.routes, r, v) <=> r \in DOMAIN mem.routes /\ mem.routes[r] = v
  BY AtRestRoutes
<1>9. PICK new : new = id
  OBVIOUS
<1>10. PICK x : x = row
  OBVIOUS
<1> HIDE DEF Keyed
<1>11. \A r, v : Becomes(q, mem'.routes, r, v) <=>
                    (r = new /\ v = x) \/ Becomes(todo, mem.routes, r, v)
  BY <1>3, <1>6, <1>7, <1>8, <1>9, <1>10
<1>12. \A p, ct, r, v : Has(p, ct, r, v)' <=>
          \/ Has(p, ct, r, v)
          \/ /\ r = new /\ v = x /\ x.project = Global /\ p = provider /\ ct = client
             /\ <<p, ct>> \notin ghost.manual
  BY <1>10, <1>11 DEF Has
<1>13. \A r, v : ~Has(provider, client, r, v)
  BY <1>8 DEF Has, Keyed
<1>14. OneEach'
  <2>1. OneEach
    BY DEF Orderly
  <2>2. ASSUME NEW p \in Nat, NEW ct \in ClientTypes, NEW r \in Nat, NEW t \in Nat,
               NEW v \in RouteRows, NEW y \in RouteRows, Has(p, ct, r, v)', Has(p, ct, t, y)'
        PROVE  r = t
    <3>1. /\ Has(p, ct, r, v) \/ (r = new /\ p = provider /\ ct = client)
          /\ Has(p, ct, t, y) \/ (t = new /\ p = provider /\ ct = client)
      BY <1>12, <2>2
    <3>2. Has(p, ct, r, v) /\ Has(p, ct, t, y) => r = t
      BY <2>1 DEF OneEach
    <3> QED
      BY <1>13, <3>1, <3>2
  <2> QED
    BY <2>2 DEF OneEach
<1>15. provider \in DOMAIN db.providers
       /\ (provider \notin ghost.revived => provider \notin Gone(db))
  BY CachedLives
<1>16. Owned'
  BY <1>12, <1>15 DEF Owned, Orderly
<1>17. \A p : p # provider /\ NoneOf(p) => NoneOf(p)'
  BY <1>12 DEF NoneOf
<1>18. \A p, ct : Backed(p, ct) => Backed(p, ct)'
  BY <1>12 DEF Backed
<1>19. \A p, ct : Foreign(p, ct) => Foreign(p, ct)'
  BY <1>10, <1>12 DEF Foreign
<1>20. /\ \A p : ~Syncing(q, p) /\ ~Deleting(q, p)
       /\ ~Saves(q) /\ \A i \in 1..Len(q) : ~IsDelete(q[i])
  BY <1>7, NoProviderBegun
<1>21. \A p : ~Syncing(todo, p) /\ ~Deleting(todo, p)
  BY AtRestRoutes
<1>22. ASSUME NEW p \in DOMAIN db.providers PROVE Suits(p)'
  <2>1. Suits(p) /\ (Fit(p) => Fit(p)')
    <3>1. Served(p)' = Served(p)
      BY <1>20, <1>21 DEF Served
    <3> QED
      BY <1>18, <1>19, <3>1 DEF Serves, Fit, Orderly
  <2>2. Gone(db') = Gone(db)
    OBVIOUS
  <2> QED
    BY <1>15, <1>17, <1>20, <1>21, <2>1, <2>2 DEF Suits
<1>23. Serves' /\ Planned'
  BY <1>20, <1>22 DEF Serves, Planned
<1> QED
  BY <1>7, <1>14, <1>16, <1>23 DEF Orderly

LEMMA CreateRouteRoutes ==
  ASSUME AdminInv, Orderly, NEW row \in RouteRows, CreateRoute(row)
  PROVE  Orderly'
<1> DEFINE id == next.routes
           w == Statement("routes", id, row, TRUE)
           q == <<w>>
           additional == /\ ~row.native /\ row.provider \in DOMAIN mem.providers
                         /\ Keyed(mem.routes, row.provider, row.client) = {}
<1> PICK keys : keys = IF additional THEN {} ELSE Key(row)
  OBVIOUS
<1>1. Types /\ ghost \in Ghosts
  BY DEF AdminInv, Types
<1>2. todo = <<>> /\ todo' = q /\ mem' = mem /\ db' = db /\ ghost' = TakenOver(keys)
  BY DEF CreateRoute, Begin
<1>3. /\ ghost'.manual = ghost.manual \cup keys /\ ghost'.drifted = ghost.drifted
      /\ ghost'.revived = ghost.revived
  <2>1. keys \in SUBSET (Nat \X ClientTypes)
    BY KeyFacts
  <2> QED
    BY <1>1, <1>2, <2>1, TakenOverFacts
<1>4. id \notin DOMAIN mem.routes
  BY <1>1, MemFacts
<1>5. w.do = "statement" /\ w.table = "routes" /\ w.id = id /\ w.row = row
  BY DEF Statement
<1> HIDE DEF w
<1>8. Len(q) = 1 /\ q[1] = w
  OBVIOUS
<1> HIDE DEF q
<1>6. CASE additional
  <2>1. ghost'.manual = ghost.manual
    BY <1>3, <1>6
  <2> QED
    BY <1>2, <1>3, <1>5, <1>6, <1>8, <2>1, AdditionalRoutes
<1>7. CASE ~additional
  <2>1. keys = Key(row)
    BY <1>7
  <2> HIDE DEF additional
  <2>2. /\ Key(w.row) \subseteq keys /\ w.id \notin DOMAIN mem.routes
        /\ Len(q) \in {1, 2} /\ Len(q) # 2 /\ q[Len(q)] = w
    BY <1>4, <1>5, <1>8, <2>1
  <2> QED
    BY <1>2, <1>3, <1>4, <1>5, <2>1, <2>2, TakenRoutes
<1> QED
  BY <1>6, <1>7

(* A provider is saved: no route is written yet, and the sync comes last.  *)
LEMMA SavedLast ==
  ASSUME NEW id, NEW row, ~row.deleted, NEW old, NEW q, q = Saved(id, row, old)
  PROVE  /\ Len(q) \in Nat
         /\ \A i \in 1..Len(q) : ~IsWrite(q[i], "routes") /\ ~IsDelete(q[i])
         /\ \A p : (Syncing(q, p) <=> p = id) /\ ~Deleting(q, p)
         /\ q[Len(q)].id = id /\ q[Len(q)].old = old /\ q[Len(q)].types = row.types
         /\ q[1].id = id /\ q[1].row = row /\ Saves(q)
<1> DEFINE a == Statement("providers", id, row, TRUE)
           b == [do |-> "refresh", id |-> id, row |-> row]
           c == [do |-> "sync", id |-> id, types |-> row.types, old |-> old]
<1>1. /\ a.do = "statement" /\ a.table = "providers" /\ a.id = id /\ a.row = row
      /\ b.do = "refresh" /\ c.do = "sync" /\ c.id = id /\ c.types = row.types /\ c.old = old
  BY DEF Statement
<1>2. q = <<a, b, c>>
  BY DEF Saved
<1> HIDE DEF a, b, c
<1>3. Len(q) = 3 /\ q[1] = a /\ q[2] = b /\ q[3] = c /\ q # <<>>
  BY <1>2
<1>4. \A i \in 1..Len(q) : q[i] = a \/ q[i] = b \/ q[i] = c
  BY <1>3
<1>5. /\ ~IsWrite(a, "routes") /\ ~IsWrite(b, "routes") /\ ~IsWrite(c, "routes")
      /\ ~IsDelete(a) /\ ~IsDelete(b) /\ ~IsDelete(c) /\ IsSave(a)
  BY <1>1 DEF IsWrite, IsDelete, IsSave, Do
<1>6. \A i \in 1..Len(q) : ~IsWrite(q[i], "routes") /\ ~IsDelete(q[i])
  BY <1>4, <1>5
<1>7. \A p : (Syncing(q, p) <=> p = id) /\ ~Deleting(q, p)
  BY <1>1, <1>3, <1>5 DEF Syncing, Deleting
<1>8. Saves(q)
  BY <1>1, <1>3, <1>5 DEF Saves
<1> QED
  BY <1>1, <1>3, <1>6, <1>7, <1>8

LEMMA SavedRoutes ==
  ASSUME Orderly, todo = <<>>, mem' = mem, db' = db, NEW id, NEW row, ~row.deleted, NEW old,
         todo' = Saved(id, row, old), ghost'.drifted = ghost.drifted,
         ghost'.manual = ghost.manual, ghost.revived \subseteq ghost'.revived,
         id \in Gone(db) => id \in ghost'.revived,
         IF id \in DOMAIN db.providers THEN id \in Gone(db) \/ old = db.providers[id].types
         ELSE old = {}
  PROVE  Orderly'
<1> DEFINE q == todo'
<1>1. /\ Len(q) \in Nat
      /\ \A i \in 1..Len(q) : ~IsWrite(q[i], "routes") /\ ~IsDelete(q[i])
      /\ \A p : (Syncing(q, p) <=> p = id) /\ ~Deleting(q, p)
      /\ q[Len(q)].id = id /\ q[Len(q)].old = old /\ q[Len(q)].types = row.types
      /\ q[1].id = id /\ q[1].row = row /\ Saves(q)
  <2>1. q = Saved(id, row, old)
    OBVIOUS
  <2> HIDE DEF q
  <2>2. /\ Len(q) \in Nat
        /\ \A i \in 1..Len(q) : ~IsWrite(q[i], "routes") /\ ~IsDelete(q[i])
    BY <2>1, SavedLast
  <2>3. \A p : (Syncing(q, p) <=> p = id) /\ ~Deleting(q, p)
    BY <2>1, SavedLast, ZenonT(60)
  <2>4. q[Len(q)].id = id /\ q[Len(q)].old = old /\ q[Len(q)].types = row.types
    BY <2>1, SavedLast, SMTT(60)
  <2>5. q[1].id = id /\ q[1].row = row /\ Saves(q)
    <3>1. ~row.deleted
      OBVIOUS
    <3> QED
      BY ONLY <2>1, <3>1, SavedLast
  <2> QED
    BY <2>2, <2>3, <2>4, <2>5
<1>2. LikeRoutes /\ Once(q)
  BY <1>1, NoRouteBegun, SameAlike
<1>3. \A p : ~Deleting(todo, p) /\ Served(p) = db.providers[p].types
  BY AtRestRoutes
<1>4. OneEach' /\ Owned'
  BY <1>2, RoutesStay DEF Orderly
<1>5. ASSUME NEW p \in DOMAIN db.providers PROVE Suits(p)'
  <2>1. Suits(p)
    BY DEF Orderly, Serves
  <2>2. CASE p \in Gone(db) /\ p \in ghost'.revived
    BY <2>2 DEF Suits, Gone
  <2>3. CASE ~(p \in Gone(db) /\ p \in ghost'.revived)
    <3>1. Served(p)' = Served(p)
      BY <1>1, <1>3, <2>3 DEF Served
    <3> QED
      BY <1>1, <1>2, <1>3, <2>1, <3>1, SuitsStay
  <2> QED
    BY <2>2, <2>3
<1>6. Serves'
  BY <1>5 DEF Serves
<1>7. Planned'
  <2>1. \A p \in Gone(db)' : Syncing(q, p) => p \in ghost'.revived
    BY <1>1 DEF Gone
  <2> QED
    BY <1>1, <2>1 DEF Planned
<1> QED
  BY <1>2, <1>4, <1>6, <1>7 DEF Orderly

LEMMA CreateProviderRoutes ==
  ASSUME AdminInv, Orderly, NEW types, NEW ok, CreateProvider(types, ok)
  PROVE  Orderly'
<1> DEFINE id == next.providers
           row == [types |-> types, ok |-> ok, version |-> ops + 1, deleted |-> FALSE]
<1>1. /\ todo = <<>> /\ todo' = Saved(id, row, {}) /\ mem' = mem /\ db' = db /\ ghost' = ghost
  BY DEF CreateProvider, Begin
<1>2. id \notin DOMAIN db.providers
  BY MemFacts DEF AdminInv
<1>3. ~row.deleted /\ id \notin Gone(db)
  BY <1>2 DEF Gone
<1> HIDE DEF id, row
<1> QED
  BY <1>1, <1>2, <1>3, SavedRoutes

LEMMA UpdateProviderRoutes ==
  ASSUME AdminInv, Orderly, ghost.revived \subseteq Gone(db), NEW types, NEW ok, NEW id,
         UpdateProvider(id, types, ok)
  PROVE  Orderly'
<1> DEFINE old == IF id \in DOMAIN mem.providers THEN mem.providers[id] ELSE db.providers[id]
           row == [types |-> types, ok |-> ok, version |-> ops + 1, deleted |-> FALSE]
<1>1. /\ todo = <<>> /\ todo' = Saved(id, row, old.types) /\ mem' = mem /\ db' = db
      /\ id \in DOMAIN mem.providers \cup DOMAIN db.providers
      /\ ghost' = [ghost EXCEPT !.revived = IF id \in Gone(db) THEN @ \cup {id} ELSE @]
  BY DEF UpdateProvider, Begin
<1>2. /\ ghost'.drifted = ghost.drifted /\ ghost'.manual = ghost.manual
      /\ ghost'.revived = IF id \in Gone(db) THEN ghost.revived \cup {id} ELSE ghost.revived
  <2>1. ghost \in Ghosts
    BY DEF AdminInv, Types
  <2> QED
    BY <1>1, <2>1 DEF Ghosts
<1>3. ~row.deleted
  OBVIOUS
<1>4. id \in DOMAIN db.providers /\ (id \notin Gone(db) => old = db.providers[id])
  BY <1>1, CachedLives
<1> HIDE DEF old, row
<1> QED
  BY <1>1, <1>2, <1>3, <1>4, SavedRoutes

(* What is ordered depends on which steps there are, not on their places.  *)
LEMMA AsSet ==
  ASSUME NEW T, NEW q \in Seq(T)
  PROVE  /\ \A r, v : Ordered(q, r, v) <=>
               \E x \in ToSet(q) : IsWrite(x, "routes") /\ x.id = r /\ x.row = v
         /\ \A r : Touched(q, r) <=> \E v : Ordered(q, r, v)
         /\ Once(q) <=> \A x, y \in ToSet(q) :
               IsWrite(x, "routes") /\ IsWrite(y, "routes") /\ x.id = y.id => x.row = y.row
         /\ NoProvider(q) <=> \A x \in ToSet(q) : ~IsWrite(x, "providers") /\ x.do # "sync"
<1>1. /\ \A i \in 1..Len(q) : q[i] \in ToSet(q)
      /\ \A x \in ToSet(q) : \E i \in 1..Len(q) : q[i] = x
  <2>1. DOMAIN q = 1..Len(q)
    OBVIOUS
  <2> QED
    BY <2>1 DEF ToSet
<1>2. \A r, v : Ordered(q, r, v) <=>
         \E x \in ToSet(q) : IsWrite(x, "routes") /\ x.id = r /\ x.row = v
  BY <1>1 DEF Ordered
<1>3. \A r : Touched(q, r) <=> \E v : Ordered(q, r, v)
  BY DEF Touched, Ordered
<1>4. Once(q) <=> \A x, y \in ToSet(q) :
         IsWrite(x, "routes") /\ IsWrite(y, "routes") /\ x.id = y.id => x.row = y.row
  BY <1>1 DEF Once
<1>5. NoProvider(q) <=> \A x \in ToSet(q) : ~IsWrite(x, "providers") /\ x.do # "sync"
  BY <1>1 DEF NoProvider
<1> QED
  BY <1>2, <1>3, <1>4, <1>5

(* The statements that remove a set of routes.                             *)
Removing(D) == {Statement("routes", r, NoRow, FALSE) : r \in D}

LEMMA RemovalsListed ==
  ASSUME NEW D, IsFiniteSet(D), NEW f, f = SetToSeq(D), NEW c, c = DOMAIN f
  PROVE  LET p == [i \in c |-> Statement("routes", f[i], NoRow, FALSE)]
         IN  p \in Seq(Removing(D)) /\ ToSet(p) = Removing(D) /\ DOMAIN p = 1..Cardinality(D)
<1> DEFINE W(r) == Statement("routes", r, NoRow, FALSE)
           p == [i \in c |-> W(f[i])]
<1>1. f \in Seq(D)
  BY Listed
<1>2. (\A x \in D : \E i \in 1..Len(f) : f[i] = x) /\ Len(f) = Cardinality(D)
  BY ListedOnce
<1>3. Removing(D) = {W(r) : r \in D}
  BY DEF Removing
<1> HIDE DEF W
<1>4. Len(f) \in Nat /\ c = 1..Len(f) /\ \A i \in 1..Len(f) : f[i] \in D
  BY <1>1
<1>5. p \in [1..Len(f) -> Removing(D)]
  BY <1>3, <1>4
<1>6. p \in Seq(Removing(D)) /\ DOMAIN p = 1..Len(f)
  BY <1>4, <1>5
<1>7. \A i \in 1..Len(f) : p[i] = W(f[i])
  BY <1>4
<1> HIDE DEF p
<1>8. ToSet(p) = {p[i] : i \in 1..Len(f)}
  BY <1>6 DEF ToSet
<1>9. ToSet(p) = Removing(D)
  BY <1>2, <1>3, <1>4, <1>7, <1>8
<1> QED
  BY <1>2, <1>6, <1>9 DEF p, W

LEMMA RemovalFacts ==
  ASSUME NEW D
  PROVE  /\ \A x \in Removing(D) :
               /\ x.do = "statement" /\ IsWrite(x, "routes") /\ x.row = NoRow /\ x.id \in D
               /\ ~IsDelete(x) /\ ~IsSave(x) /\ ~IsWrite(x, "providers") /\ x.do # "sync"
         /\ \A r \in D : \E x \in Removing(D) : x.id = r
<1> DEFINE W(r) == Statement("routes", r, NoRow, FALSE)
<1>1. \A r : W(r).do = "statement" /\ W(r).table = "routes" /\ W(r).id = r /\ W(r).row = NoRow
  BY DEF Statement
<1>2. Removing(D) = {W(r) : r \in D}
  BY DEF Removing
<1> HIDE DEF W
<1>3. \A r \in D : W(r) \in Removing(D)
  BY <1>2
<1>4. \A x \in Removing(D) :
         x.do = "statement" /\ x.table = "routes" /\ x.row = NoRow /\ x.id \in D
  BY <1>1, <1>2
<1> QED
  BY <1>1, <1>3, <1>4 DEF IsWrite, IsDelete, IsSave, Do

(* The steps of a deletion.                                                *)
Deletion(q, m, D, id) ==
    /\ Len(q) = m + 2 /\ \A i \in 1..m : q[i] \in Removing(D)
    /\ \A r \in D : \E i \in 1..m : q[i].id = r
    /\ q[m + 1].do = "remove adapter"
    /\ q[m + 2].do = "statement" /\ IsDelete(q[m + 2]) /\ q[m + 2].id = id

LEMMA DeletionOrders ==
  ASSUME NEW q, NEW m \in Nat, NEW D, NEW id, Deletion(q, m, D, id)
  PROVE  /\ \A r, v : Ordered(q, r, v) <=> r \in D /\ v = NoRow
         /\ \A r : Touched(q, r) <=> r \in D
         /\ Once(q) /\ Deleting(q, id) /\ ~Saves(q) /\ \A x : ~Syncing(q, x)
         /\ Len(q) \in Nat /\ \A i \in 1..Len(q) : IsDelete(q[i]) => i = Len(q)
<1> DEFINE a == q[m + 1]
           d == q[m + 2]
<1>1. /\ Len(q) = m + 2 /\ \A i \in 1..m : q[i] \in Removing(D)
      /\ \A r \in D : \E i \in 1..m : q[i].id = r
      /\ a.do = "remove adapter" /\ d.do = "statement" /\ IsDelete(d) /\ d.id = id
  BY DEF Deletion
<1> HIDE DEF a, d
<1>2. /\ ~IsWrite(a, "routes") /\ ~IsDelete(a) /\ ~IsSave(a)
      /\ ~IsWrite(d, "routes") /\ ~IsSave(d)
  BY <1>1 DEF IsWrite, IsDelete, IsSave, Do
<1>3. \A i \in 1..m : /\ IsWrite(q[i], "routes") /\ q[i].row = NoRow /\ q[i].id \in D
                      /\ ~IsDelete(q[i]) /\ ~IsSave(q[i])
  BY <1>1, RemovalFacts
<1>4. /\ Len(q) \in Nat /\ Len(q) # 0
      /\ \A i \in 1..Len(q) : i \in 1..m \/ i = m + 1 \/ i = m + 2
      /\ \A i \in 1..m : i \in 1..Len(q)
  <2>1. Len(q) = m + 2 /\ m \in Nat
    BY <1>1
  <2> QED
    BY ONLY <2>1
<1>5. q[Len(q)] = d /\ q[m + 1] = a /\ q[m + 2] = d
  BY <1>1 DEF a, d
<1>6. \A i \in 1..Len(q) : IsWrite(q[i], "routes") => i \in 1..m
  BY <1>2, <1>4, <1>5
<1>7. \A r, v : Ordered(q, r, v) <=> r \in D /\ v = NoRow
  BY <1>1, <1>3, <1>4, <1>6 DEF Ordered
<1>8. \A r : Touched(q, r) <=> r \in D
  BY <1>1, <1>3, <1>4, <1>6 DEF Touched
<1>9. Once(q)
  BY <1>3, <1>6 DEF Once
<1>10. \A i \in 1..Len(q) : IsDelete(q[i]) => i = Len(q)
  BY <1>1, <1>2, <1>3, <1>4, <1>5
<1>11. q # <<>>
  BY <1>4
<1>12. Deleting(q, id) /\ \A x : ~Syncing(q, x)
  BY <1>1, <1>5, <1>11 DEF Deleting, Syncing
<1>13. ~Saves(q)
  <2>1. m = 0 \/ 1 \in 1..m
    OBVIOUS
  <2>2. m = 0 => q[1] = a
    BY <1>5
  <2>3. ~IsSave(q[1])
    BY <1>2, <1>3, <2>1, <2>2
  <2> QED
    BY <2>3 DEF Saves
<1> QED
  BY <1>4, <1>7, <1>8, <1>9, <1>10, <1>12, <1>13

LEMMA DeleteProviderRoutes ==
  ASSUME AdminInv, Orderly, NEW id, DeleteProvider(id)
  PROVE  Orderly'
<1> DEFINE D == {r \in DOMAIN mem.routes : mem.routes[r].provider = id}
           f == SetToSeq(D)
           removals == [i \in DOMAIN f |-> Statement("routes", f[i], NoRow, FALSE)]
           row == [db.providers[id] EXCEPT !.deleted = TRUE]
           a == [do |-> "remove adapter", id |-> id]
           d == Statement("providers", id, row, TRUE)
           q == todo'
<1>1. Types
  BY DEF AdminInv
<1>2. IsFiniteSet(D)
  <2>1. DOMAIN mem.routes \subseteq 1..next.routes - 1 /\ next.routes \in Nat
    BY <1>1, MemFacts
  <2>2. 1 \in Int /\ next.routes - 1 \in Int
    BY <2>1
  <2>3. IsFiniteSet(1..next.routes - 1)
    BY <2>2, FS_Interval
  <2>4. D \subseteq 1..next.routes - 1
    BY <2>1
  <2> HIDE DEF D
  <2> QED
    BY <2>3, <2>4, FS_Subset
<1>3. todo = <<>> /\ mem' = mem /\ db' = db /\ ghost' = ghost /\ id \in DOMAIN db.providers
  BY ZenonT(60) DEF DeleteProvider, Begin
<1>4. q = removals \o <<a, d>>
  BY DEF DeleteProvider, Begin, Deleted
<1>5. IsDelete(d) /\ d.do = "statement" /\ d.id = id /\ a.do = "remove adapter"
  <2>1. row.deleted
    <3>1. db.providers[id] \in ProviderRows(ops)
      BY <1>1, <1>3, MemFacts
    <3> QED
      BY <3>1 DEF ProviderRows
  <2> HIDE DEF row
  <2> QED
    BY <2>1 DEF Statement, IsDelete, IsWrite, Do
<1>0. \A r : r \in D <=> r \in DOMAIN mem.routes /\ mem.routes[r].provider = id
  OBVIOUS
<1> HIDE DEF D, q, a, d
<1>22. removals \in Seq(Removing(D)) /\ ToSet(removals) = Removing(D)
  BY <1>2, RemovalsListed
<1> DEFINE e == <<a, d>>
           T == Removing(D) \cup {a, d}
<1>23. removals \in Seq(T) /\ e \in Seq(T) /\ Len(e) = 2 /\ e[1] = a /\ e[2] = d /\ q = removals \o e
  <2>1. Removing(D) \subseteq T /\ a \in T /\ d \in T
    OBVIOUS
  <2> HIDE DEF removals, T
  <2> QED
    BY <1>4, <1>22, <2>1, OneAndTwo
<1> HIDE DEF removals, e, T
<1> DEFINE m == Len(removals)
<1>24. m \in Nat /\ DOMAIN removals = 1..m
  BY <1>23
<1>25. Deletion(q, m, D, id)
  <2>1. /\ Len(q) = m + 2 /\ \A i \in 1..m : q[i] = removals[i]
        /\ q[m + 1] = a /\ q[m + 2] = d
    <3>0. removals \in Seq(T) /\ e \in Seq(T) /\ q = removals \o e
      BY <1>23
    <3>3. /\ Len(removals \o e) = Len(removals) + Len(e)
          /\ \A i \in 1..Len(removals) : (removals \o e)[i] = removals[i]
          /\ \A i \in 1..Len(e) : (removals \o e)[Len(removals) + i] = e[i]
      BY ONLY <3>0, ConcatPlaces
    <3>1. /\ Len(q) = Len(removals) + Len(e)
          /\ \A i \in 1..Len(removals) : q[i] = removals[i]
          /\ \A i \in 1..Len(e) : q[Len(removals) + i] = e[i]
      BY ONLY <3>0, <3>3
    <3>2. 1 \in 1..2 /\ 2 \in 1..2
      OBVIOUS
    <3> QED
      BY <1>23, <3>1, <3>2
  <2>2. /\ \A i \in 1..m : removals[i] \in Removing(D)
        /\ \A x \in Removing(D) : \E i \in 1..m : removals[i] = x
    BY <1>22, <1>24 DEF ToSet
  <2>3. \A r \in D : \E x \in Removing(D) : x.id = r
    BY RemovalFacts
  <2> HIDE DEF m
  <2>4. /\ \A i \in 1..m : q[i] \in Removing(D)
        /\ \A r \in D : \E i \in 1..m : q[i].id = r
    BY <2>1, <2>2, <2>3
  <2> QED
    BY <1>5, <2>1, <2>4 DEF Deletion
<1> HIDE DEF m
<1>6. /\ \A r, v : Ordered(q, r, v) <=> r \in D /\ v = NoRow
      /\ \A r : Touched(q, r) <=> r \in D
  BY <1>24, <1>25, DeletionOrders, ZenonT(60)
<1>7. /\ Once(q) /\ Deleting(q, id) /\ ~Saves(q) /\ \A p : ~Syncing(q, p)
      /\ \A i \in 1..Len(q) : IsDelete(q[i]) => i = Len(q)
  BY <1>24, <1>25, DeletionOrders
<1>8. \A r, v : Becomes(q, mem'.routes, r, v) <=> v.provider # id /\ Becomes(todo, mem.routes, r, v)
  <2>1. \A r, v : Becomes(todo, mem.routes, r, v) <=> r \in DOMAIN mem.routes /\ mem.routes[r] = v
    BY <1>3, AtRestRoutes
  <2> QED
    BY <1>0, <1>3, <1>6, <2>1 DEF Becomes
<1>9. \A p, ct, r, v : Has(p, ct, r, v)' <=> p # id /\ Has(p, ct, r, v)
  BY <1>3, <1>8 DEF Has, q
<1>10. OneEach /\ Owned /\ Serves
  BY DEF Orderly
<1>11. OneEach'
  BY <1>9, <1>10 DEF OneEach
<1>12. Owned'
  BY <1>3, <1>9, <1>10 DEF Owned
<1>13. /\ \A p : NoneOf(p) => NoneOf(p)'
       /\ NoneOf(id)'
  BY <1>9 DEF NoneOf
<1>14. \A p, ct : p # id /\ Backed(p, ct) => Backed(p, ct)'
  BY <1>3, <1>9 DEF Backed
<1>15. \A p, ct : Foreign(p, ct) => Foreign(p, ct)'
  BY <1>9 DEF Foreign
<1>16. \A p : ~Syncing(todo, p) /\ ~Deleting(todo, p)
  BY <1>3, AtRestRoutes
<1>17. Gone(db)' = Gone(db)
  BY <1>3
<1>18. \A p : Deleting(q, p) => p = id
  BY <1>7 DEF Deleting
<1>19. ASSUME NEW p \in DOMAIN db.providers PROVE Suits(p)'
  <2>1. CASE p = id
    BY <1>7, <1>13, <2>1 DEF Suits, q
  <2>2. CASE p # id
    <3>1. Suits(p) /\ Served(p)' = Served(p) /\ ~Deleting(q, p)
      BY <1>3, <1>7, <1>10, <1>16, <1>18, <2>2 DEF Serves, Served, q
    <3>2. Fit(p) => Fit(p)'
      BY <1>14, <1>15, <2>2, <3>1 DEF Fit
    <3> QED
      BY <1>3, <1>13, <1>16, <1>17, <3>1, <3>2 DEF Suits, q
  <2> QED
    BY <2>1, <2>2
<1>20. Serves'
  BY <1>3, <1>19 DEF Serves
<1>21. Planned'
  BY <1>7 DEF Planned, q
<1> QED
  BY <1>3, <1>7, <1>11, <1>12, <1>20, <1>21 DEF Orderly, q

(* What a sync works on: a cached route for each type that has one.        *)
AsNative(v) == [v EXCEPT !.native = TRUE]

Fits(p, ct, r) ==
    IF r = NoId THEN Keyed(mem.routes, p, ct) = {}
    ELSE r \in Keyed(mem.routes, p, ct) /\ Found(p, ct, r) = mem.routes[r]

NativeRoutes(r) == {t \in {r} : r # NoId /\ mem.routes[t].native}

Adds(p, ct, found, new, r, v) ==
    \/ found = NoId /\ r = new /\ v = Native(p, ct)
    \/ found # NoId /\ r = found /\ ~mem.routes[r].native /\ v = AsNative(mem.routes[r])

LEMMA AsNativeFacts ==
  ASSUME NEW v \in RouteRows, NEW w, w = AsNative(v)
  PROVE  /\ w \in RouteRows /\ w.native /\ w # NoRow
         /\ w.project = v.project /\ w.provider = v.provider /\ w.client = v.client
<1>1. w \in RouteRows /\ w.native
      /\ w.project = v.project /\ w.provider = v.provider /\ w.client = v.client
  BY DEF AsNative, RouteRows
<1> QED
  BY <1>1, RowsAreRows

LEMMA KeyedFacts ==
  ASSUME Types, NEW p, NEW ct, NEW r \in Keyed(mem.routes, p, ct)
  PROVE  /\ r \in DOMAIN mem.routes /\ r \in Nat /\ r # NoId /\ mem.routes[r] \in RouteRows
         /\ mem.routes[r].project = Global /\ mem.routes[r].provider = p
         /\ mem.routes[r].client = ct /\ p \in Nat /\ ct \in ClientTypes
<1>1. /\ r \in DOMAIN mem.routes
      /\ mem.routes[r].project = Global /\ mem.routes[r].provider = p
      /\ mem.routes[r].client = ct
  BY DEF Keyed
<1>2. /\ DOMAIN mem.routes \subseteq 1..next.routes - 1 /\ next.routes \in Nat
      /\ mem.routes[r] \in RouteRows
  BY <1>1, MemFacts
<1>3. \A v \in RouteRows : v.provider \in Nat /\ v.client \in ClientTypes
  BY DEF RouteRows
<1> QED
  BY <1>1, <1>2, <1>3 DEF NoId

LEMMA RemoveRouteSet ==
  ASSUME Types, NEW p, NEW ct, NEW r, Fits(p, ct, r)
  PROVE  ToSet(RemoveRoute(p, ct, r)) = Removing(NativeRoutes(r))
<1> DEFINE w == Statement("routes", r, NoRow, FALSE)
<1>1. CASE r # NoId /\ mem.routes[r].native
  <2>1. RemoveRoute(p, ct, r) = <<w>>
    BY <1>1 DEF RemoveRoute, Fits
  <2>2. NativeRoutes(r) = {r}
    BY <1>1 DEF NativeRoutes
  <2>3. Removing({r}) = {w}
    BY DEF Removing
  <2> HIDE DEF w
  <2> QED
    BY <2>1, <2>2, <2>3, SmallSets
<1>2. CASE ~(r # NoId /\ mem.routes[r].native)
  <2>1. RemoveRoute(p, ct, r) = <<>>
    BY <1>2 DEF RemoveRoute, Fits
  <2>2. NativeRoutes(r) = {}
    BY <1>2 DEF NativeRoutes
  <2>3. Removing({}) = {}
    BY DEF Removing
  <2> QED
    BY <2>1, <2>2, <2>3, SmallSets
<1> QED
  BY <1>1, <1>2

LEMMA AddRouteSet ==
  ASSUME Types, NEW p \in Nat, NEW ct \in ClientTypes, NEW found, Fits(p, ct, found), NEW new
  PROVE  \A r, v : (\E x \in ToSet(AddRoute(p, ct, found, new)) :
                       IsWrite(x, "routes") /\ x.id = r /\ x.row = v)
                   <=> Adds(p, ct, found, new, r, v)
<1> DEFINE row == AsNative(mem.routes[found])
           n == Native(p, ct)
           e == [do |-> "edit", id |-> found, row |-> row]
           s == Statement("routes", found, row, FALSE)
           a == Statement("routes", new, n, FALSE)
           q == AddRoute(p, ct, found, new)
<1>1. q = IF found = NoId THEN <<a>> ELSE IF mem.routes[found].native THEN <<>> ELSE <<e, s>>
  <2>1. CASE found = NoId
    BY <2>1 DEF AddRoute
  <2>2. CASE found # NoId
    <3>1. found \in Keyed(mem.routes, p, ct) /\ Found(p, ct, found) = mem.routes[found]
      BY <2>2 DEF Fits
    <3> QED
      BY <2>2, <3>1 DEF AddRoute, AsNative
  <2> QED
    BY <2>1, <2>2
<1>3. \A r, v : Adds(p, ct, found, new, r, v) <=>
         \/ found = NoId /\ r = new /\ v = n
         \/ found # NoId /\ r = found /\ ~mem.routes[found].native /\ v = row
  BY DEF Adds
<1> HIDE DEF row, n, q
<1>4. /\ e.do = "edit" /\ s.do = "statement" /\ s.table = "routes" /\ s.id = found /\ s.row = row
      /\ a.do = "statement" /\ a.table = "routes" /\ a.id = new /\ a.row = n
  BY DEF Statement
<1> HIDE DEF e, s, a
<1>5. ~IsWrite(e, "routes") /\ IsWrite(s, "routes") /\ IsWrite(a, "routes")
  BY <1>4 DEF IsWrite, Do
<1>6. CASE found = NoId
  <2>1. ToSet(q) = {a}
    BY <1>1, <1>6, SmallSets
  <2> QED
    BY <1>3, <1>4, <1>5, <1>6, <2>1 DEF q
<1>7. CASE found # NoId /\ mem.routes[found].native
  <2>1. ToSet(q) = {}
    BY <1>1, <1>7, SmallSets
  <2> QED
    BY <1>3, <1>7, <2>1 DEF q
<1>8. CASE found # NoId /\ ~mem.routes[found].native
  <2>1. ToSet(q) = {e, s}
    BY <1>1, <1>8, SmallSets
  <2>2. \A r, v : Adds(p, ct, found, new, r, v) <=> r = found /\ v = row
    BY <1>3, <1>8
  <2> QED
    BY <1>4, <1>5, <2>1, <2>2 DEF q
<1> QED
  BY <1>6, <1>7, <1>8

LEMMA SyncParts ==
  ASSUME AdminInv, SyncProviderRoutes, NEW s, s = todo[1],
         NEW added, added = SetToSeq(s.types \ s.old)
  PROVE  /\ todo # <<>> /\ s \in Syncs(next) /\ s.do = "sync" /\ todo[Len(todo)] = s
         /\ Len(todo) = 1 /\ s.id \in Nat /\ s.types \subseteq ClientTypes
         /\ s.old \subseteq ClientTypes
         /\ added \in Seq(s.types \ s.old)
         /\ IsFiniteSet(s.old \ s.types) /\ IsFiniteSet(s.types \ s.old)
         /\ db' = db /\ mem' = mem /\ match' = match /\ ops' = ops /\ ghost' = ghost
         /\ \E f : Synced(s, f)
<1> PICK removed : removed = SetToSeq(s.old \ s.types)
  OBVIOUS
<1>1. /\ todo # <<>> /\ s \in Syncs(next) /\ s.do = "sync"
      /\ s.id \in Nat /\ s.types \subseteq ClientTypes /\ s.old \subseteq ClientTypes
      /\ added \in Seq(s.types \ s.old)
      /\ IsFiniteSet(s.old \ s.types) /\ IsFiniteSet(s.types \ s.old)
      /\ db' = db /\ mem' = mem /\ match' = match /\ ops' = ops /\ ghost' = ghost
      /\ \E f : Synced(s, f)
  BY SyncBegins, ZenonT(60)
<1>2. Len(todo) = 1 /\ todo[Len(todo)] = s
  <2>1. todo \in Seq(Steps(next, ops)) /\ \A i \in 1..Len(todo) : Placed(todo, i, ops)
    BY DEF AdminInv, Types, Shaped
  <2>2. 1 \in 1..Len(todo)
    BY <1>1, <2>1
  <2>3. Placed(todo, 1, ops)
    BY <2>1, <2>2
  <2> QED
    BY <1>1, <2>3 DEF Placed
<1> QED
  BY <1>1, <1>2, ZenonT(60)

(* What the steps of a sync order.                                         *)
LEMMA SyncSteps ==
  ASSUME AdminInv, SyncProviderRoutes, NEW s, s = todo[1], NEW f, Synced(s, f),
         NEW removed, removed = SetToSeq(s.old \ s.types),
         NEW added, added = SetToSeq(s.types \ s.old)
  PROVE  /\ todo' \in Seq(Edits(next') \cup RouteStatements(next'))
         /\ \A x : x \in ToSet(todo') <=>
               \/ \E i \in 1..Len(removed) :
                     x \in ToSet(RemoveRoute(s.id, removed[i], f[removed[i]]))
               \/ \E i \in 1..Len(added) :
                     x \in ToSet(AddRoute(s.id, added[i], f[added[i]], next.routes + i - 1))
<1> DEFINE R(i) == RemoveRoute(s.id, removed[i], f[removed[i]])
           A(i) == AddRoute(s.id, added[i], f[added[i]], next.routes + i - 1)
           x == Len(removed)
           y == Len(added)
           T == Edits(next') \cup RouteStatements(next')
           C == RouteRuns(next')
<1>1. removed \in Seq(s.old \ s.types) /\ added \in Seq(s.types \ s.old)
  BY SyncBegins
<1>2. todo' = FlattenSeq(RemovedRuns(s, f, removed)) \o FlattenSeq(AddedRuns(s, f, added))
  BY SyncMakes
<1>3. /\ DOMAIN removed = 1..x /\ DOMAIN added = 1..y
      /\ \A i \in 1..x : R(i) \in C
      /\ \A i \in 1..y : A(i) \in C
  BY SyncRuns, ZenonT(60)
<1>4. x \in Nat /\ y \in Nat
  BY ONLY <1>1, ListFacts, ZenonT(60) DEF x, y
<1> HIDE DEF x, y
<1>8. C \subseteq Seq(T)
  BY DEF RouteRuns
<1> HIDE DEF R, A, T, C
<1> DEFINE RR == [i \in 1..x |-> R(i)]
           AA == [i \in 1..y |-> A(i)]
<1>9. RR \in Seq(Seq(T)) /\ Len(RR) = x /\ \A i \in 1..x : RR[i] = R(i)
  BY <1>3, <1>4, <1>8
<1>10. AA \in Seq(Seq(T)) /\ Len(AA) = y /\ \A i \in 1..y : AA[i] = A(i)
  BY <1>3, <1>4, <1>8
<1>11. todo' = FlattenSeq(RR) \o FlattenSeq(AA)
  <2>1. RR = RemovedRuns(s, f, removed)
    BY <1>3 DEF RemovedRuns, R
  <2>2. AA = AddedRuns(s, f, added)
    BY <1>3 DEF AddedRuns, A
  <2> QED
    BY <1>2, <2>1, <2>2
<1> HIDE DEF RR, AA
<1>12. FlattenSeq(RR) \in Seq(T) /\ FlattenSeq(AA) \in Seq(T)
  BY <1>9, <1>10, FlattenTyped
<1>13. /\ todo' \in Seq(T)
       /\ ToSet(todo') = ToSet(FlattenSeq(RR)) \cup ToSet(FlattenSeq(AA))
  BY <1>11, <1>12, ConcatSet
<1>14. \A z : z \in ToSet(FlattenSeq(RR)) <=> \E i \in 1..x : z \in ToSet(R(i))
  BY <1>9, FlattenHolds
<1>15. \A z : z \in ToSet(FlattenSeq(AA)) <=> \E i \in 1..y : z \in ToSet(A(i))
  BY <1>10, FlattenHolds
<1>16. \A z : z \in ToSet(todo') <=> \/ \E i \in 1..x : z \in ToSet(R(i))
                                     \/ \E i \in 1..y : z \in ToSet(A(i))
  BY <1>13, <1>14, <1>15
<1> QED
  BY <1>13, <1>16 DEF R, A, T, x, y

(* The routes there will be while a sync is the last step. Nothing drifted, *)
(* so the tables hold the same routes.                                     *)
LEMMA AtSyncRoutes ==
  ASSUME AdminInv, Orderly, Len(todo) = 1, todo[1].do = "sync"
  PROVE  /\ \A r, v : Becomes(todo, mem.routes, r, v) <=> r \in DOMAIN mem.routes /\ mem.routes[r] = v
         /\ \A p, ct, r, v : Has(p, ct, r, v) <=>
               /\ r \in Keyed(mem.routes, p, ct) /\ mem.routes[r] = v
               /\ <<p, ct>> \notin ghost.manual
         /\ \A p, ct, r, t :
               r \in Keyed(mem.routes, p, ct) /\ t \in Keyed(mem.routes, p, ct)
               /\ <<p, ct>> \notin ghost.manual => r = t
         /\ mem.routes = db.routes
<1>0. Types /\ Agreement /\ OneEach /\ ghost.drifted = {}
  BY DEF AdminInv, Orderly
<1>1. \A i \in 1..Len(todo) : ~IsWrite(todo[i], "routes")
  <2>1. \A i \in 1..1 : i = 1
    OBVIOUS
  <2> QED
    BY <2>1 DEF IsWrite, Do
<1>2. \A r : ~Touched(todo, r)
  BY <1>1 DEF Touched
<1>3. \A r, v : Becomes(todo, mem.routes, r, v) <=> r \in DOMAIN mem.routes /\ mem.routes[r] = v
  BY <1>2 DEF Becomes
<1>4. \A p, ct, r, v : Has(p, ct, r, v) <=>
         /\ r \in Keyed(mem.routes, p, ct) /\ mem.routes[r] = v
         /\ <<p, ct>> \notin ghost.manual
  BY <1>3 DEF Has, Keyed
<1>5. ASSUME NEW p, NEW ct, NEW r, NEW t, r \in Keyed(mem.routes, p, ct),
             t \in Keyed(mem.routes, p, ct), <<p, ct>> \notin ghost.manual
      PROVE  r = t
  <2>1. Has(p, ct, r, mem.routes[r]) /\ Has(p, ct, t, mem.routes[t])
    BY <1>4, <1>5
  <2>2. /\ p \in Nat /\ ct \in ClientTypes /\ r \in Nat /\ t \in Nat
        /\ mem.routes[r] \in RouteRows /\ mem.routes[t] \in RouteRows
    BY <1>0, <1>5, KeyedFacts
  <2> QED
    BY <1>0, <2>1, <2>2 DEF OneEach
<1>6. \A r \in Nat : Agree(mem.routes, db.routes, r)
  <2>1. /\ \A table, id : ~Due(table, id)
        /\ \A r : ~EditedBefore(r)
    BY NothingDue DEF AtRest
  <2> QED
    BY <1>0, <2>1 DEF Agreement, RoutesAgree
<1>7. mem.routes = db.routes
  <2>1. /\ ops \in Nat /\ next \in Numbers /\ db \in Tables(next, ops) /\ next.routes \in Nat
        /\ mem.routes \in Maps(next.routes, RouteRows)
    BY <1>0, CacheFields, MemFacts DEF Types
  <2>2. db.routes \in Maps(next.routes, RouteRows)
    BY <2>1 DEF Tables
  <2> QED
    BY <1>6, <2>1, <2>2, SameMaps
<1>8. \A p, ct, r, t :
         r \in Keyed(mem.routes, p, ct) /\ t \in Keyed(mem.routes, p, ct)
         /\ <<p, ct>> \notin ghost.manual => r = t
  BY ONLY <1>5
<1> QED
  BY ONLY <1>3, <1>4, <1>7, <1>8

LEMMA FoundFits ==
  ASSUME AdminInv, mem.routes = db.routes, NEW p, NEW ct, NEW r \in FindByKey(p, ct)
  PROVE  Fits(p, ct, r)
<1>1. Types
  BY DEF AdminInv
<1> DEFINE K == Keyed(mem.routes, p, ct)
<1>2. FindByKey(p, ct) = IF K = {} THEN {NoId} ELSE K
  BY DEF FindByKey
<1>3. \A t \in K : t # NoId
  BY <1>1, KeyedFacts
<1>4. r \in K => Found(p, ct, r) = mem.routes[r]
  BY DEF Found
<1> HIDE DEF K
<1>5. IF r = NoId THEN K = {} ELSE r \in K /\ Found(p, ct, r) = mem.routes[r]
  BY <1>2, <1>3, <1>4
<1> QED
  BY <1>5 DEF Fits, K

LEMMA SyncFits ==
  ASSUME AdminInv, Orderly, SyncProviderRoutes, NEW s, s = todo[1], NEW f, Synced(s, f)
  PROVE  \A ct \in (s.old \ s.types) \cup (s.types \ s.old) : Fits(s.id, ct, f[ct])
<1>1. s.do = "sync" /\ Len(todo) = 1
  BY SyncParts
<1>2. mem.routes = db.routes
  BY <1>1, AtSyncRoutes
<1>3. \A ct \in (s.old \ s.types) \cup (s.types \ s.old) : f[ct] \in FindByKey(s.id, ct)
  BY DEF Synced, Finds
<1> QED
  BY <1>2, <1>3, FoundFits

Removes(s, f, r) == \E ct \in s.old \ s.types : r \in NativeRoutes(f[ct])

AddsAny(s, f, added, r, v) ==
    \E i \in 1..Len(added) : Adds(s.id, added[i], f[added[i]], next.routes + i - 1, r, v)

LEMMA SyncOrders ==
  ASSUME AdminInv, Orderly, SyncProviderRoutes, NEW s, s = todo[1], NEW f, Synced(s, f),
         NEW added, added = SetToSeq(s.types \ s.old)
  PROVE  /\ \A r, v : Ordered(todo', r, v) <=>
               (Removes(s, f, r) /\ v = NoRow) \/ AddsAny(s, f, added, r, v)
         /\ \A r : Touched(todo', r) <=> \E v : Ordered(todo', r, v)
         /\ NoProvider(todo') /\ Len(todo') \in Nat /\ (todo' # <<>> => Len(todo') # 0)
         /\ Once(todo') <=> \A r, v, w : Ordered(todo', r, v) /\ Ordered(todo', r, w) => v = w
<1> DEFINE T == Edits(next') \cup RouteStatements(next')
           q == todo'
           Writes1(x, r, v) == IsWrite(x, "routes") /\ x.id = r /\ x.row = v
<1> PICK removed : removed = SetToSeq(s.old \ s.types)
  OBVIOUS
<1>1. Types
  BY DEF AdminInv
<1>2. /\ s.id \in Nat /\ s.types \subseteq ClientTypes /\ s.old \subseteq ClientTypes
      /\ removed \in Seq(s.old \ s.types) /\ added \in Seq(s.types \ s.old)
  BY SyncBegins
<1>3. \A ct \in s.old \ s.types : \E i \in 1..Len(removed) : removed[i] = ct
  <2> DEFINE M == s.old \ s.types
  <2>1. IsFiniteSet(M) /\ removed = SetToSeq(M)
    BY SyncParts
  <2> HIDE DEF M
  <2>2. \A ct \in M : \E i \in 1..Len(removed) : removed[i] = ct
    BY <2>1, ListedOnce
  <2> QED
    BY <2>2 DEF M
<1>4. q \in Seq(T)
  BY SyncSteps
<1>5. \A x : x \in ToSet(q) <=>
         \/ \E i \in 1..Len(removed) :
               x \in ToSet(RemoveRoute(s.id, removed[i], f[removed[i]]))
         \/ \E i \in 1..Len(added) :
               x \in ToSet(AddRoute(s.id, added[i], f[added[i]], next.routes + i - 1))
  BY SyncSteps
<1> HIDE DEF q
<1>6. /\ \A i \in 1..Len(removed) : removed[i] \in s.old \ s.types
      /\ \A i \in 1..Len(added) : added[i] \in s.types \ s.old
  BY ONLY <1>2, ListFacts, ZenonT(60)
<1>15. \A ct \in (s.old \ s.types) \cup (s.types \ s.old) : Fits(s.id, ct, f[ct])
  BY SyncFits
<1>7. \A i \in 1..Len(removed) :
         ToSet(RemoveRoute(s.id, removed[i], f[removed[i]])) = Removing(NativeRoutes(f[removed[i]]))
  <2>1. ASSUME NEW i \in 1..Len(removed)
        PROVE  ToSet(RemoveRoute(s.id, removed[i], f[removed[i]]))
                  = Removing(NativeRoutes(f[removed[i]]))
    <3> DEFINE ct == removed[i]
    <3>1. Fits(s.id, ct, f[ct])
      BY <1>6, <1>15
    <3> HIDE DEF ct
    <3>2. ToSet(RemoveRoute(s.id, ct, f[ct])) = Removing(NativeRoutes(f[ct]))
      BY <1>1, <3>1, RemoveRouteSet
    <3> QED
      BY <3>2 DEF ct
  <2> QED
    BY <2>1
<1>8. \A D, r, v : (\E x \in Removing(D) : Writes1(x, r, v)) <=> r \in D /\ v = NoRow
  BY RemovalFacts
<1>9. \A i \in 1..Len(added) : \A r, v :
         (\E x \in ToSet(AddRoute(s.id, added[i], f[added[i]], next.routes + i - 1)) :
             Writes1(x, r, v))
         <=> Adds(s.id, added[i], f[added[i]], next.routes + i - 1, r, v)
  <2>1. ASSUME NEW i \in 1..Len(added), NEW r, NEW v
        PROVE  (\E x \in ToSet(AddRoute(s.id, added[i], f[added[i]], next.routes + i - 1)) :
                   Writes1(x, r, v))
               <=> Adds(s.id, added[i], f[added[i]], next.routes + i - 1, r, v)
    <3> DEFINE ct == added[i]
               new == next.routes + i - 1
    <3>1. ct \in ClientTypes /\ Fits(s.id, ct, f[ct])
      BY <1>2, <1>6, <1>15
    <3> HIDE DEF ct, new
    <3>2. \A a, b : (\E x \in ToSet(AddRoute(s.id, ct, f[ct], new)) :
                        IsWrite(x, "routes") /\ x.id = a /\ x.row = b)
                    <=> Adds(s.id, ct, f[ct], new, a, b)
      BY <1>1, <1>2, <3>1, AddRouteSet
    <3>3. (\E x \in ToSet(AddRoute(s.id, ct, f[ct], new)) : Writes1(x, r, v))
          <=> Adds(s.id, ct, f[ct], new, r, v)
      BY <3>2
    <3> QED
      BY <3>3 DEF ct, new
  <2> QED
    BY <2>1
<1>10. /\ \A r, v : Ordered(q, r, v) <=> \E x \in ToSet(q) : Writes1(x, r, v)
       /\ \A r : Touched(q, r) <=> \E v : Ordered(q, r, v)
       /\ Once(q) <=> \A x, y \in ToSet(q) :
             IsWrite(x, "routes") /\ IsWrite(y, "routes") /\ x.id = y.id => x.row = y.row
       /\ NoProvider(q) <=> \A x \in ToSet(q) : ~IsWrite(x, "providers") /\ x.do # "sync"
  <2> HIDE DEF T
  <2> QED
    BY <1>4, AsSet
<1>11. Once(q) <=> \A r, v, w : Ordered(q, r, v) /\ Ordered(q, r, w) => v = w
  BY <1>10
<1>12. NoProvider(q)
  <2>1. \A x \in T : Plain(x) /\ x.do \in {"edit", "statement"}
    BY RunSteps
  <2> HIDE DEF T
  <2>2. \A x \in ToSet(q) : x \in T
    <3>1. DOMAIN q = 1..Len(q) /\ \A i \in 1..Len(q) : q[i] \in T
      BY <1>4
    <3> QED
      BY <3>1 DEF ToSet
  <2>3. \A x \in ToSet(q) : ~IsWrite(x, "providers") /\ x.do # "sync"
    BY <2>1, <2>2 DEF Plain
  <2> QED
    BY <1>10, <2>3
<1>13. Len(q) \in Nat /\ (q # <<>> => Len(q) # 0)
  <2> HIDE DEF T
  <2> QED
    BY <1>4
<1> HIDE DEF Writes1, T
<1>14. ASSUME NEW r, NEW v
       PROVE  Ordered(q, r, v) <=> (Removes(s, f, r) /\ v = NoRow) \/ AddsAny(s, f, added, r, v)
  <2>1. Ordered(q, r, v) <=>
           \/ \E i \in 1..Len(removed) :
                 \E x \in ToSet(RemoveRoute(s.id, removed[i], f[removed[i]])) : Writes1(x, r, v)
           \/ \E i \in 1..Len(added) :
                 \E x \in ToSet(AddRoute(s.id, added[i], f[added[i]], next.routes + i - 1)) :
                    Writes1(x, r, v)
    BY <1>5, <1>10, ZenonT(60)
  <2>2. (\E i \in 1..Len(removed) :
            \E x \in ToSet(RemoveRoute(s.id, removed[i], f[removed[i]])) : Writes1(x, r, v))
        <=> \E i \in 1..Len(removed) : r \in NativeRoutes(f[removed[i]]) /\ v = NoRow
    <3>1. ASSUME NEW i \in 1..Len(removed)
          PROVE  (\E x \in ToSet(RemoveRoute(s.id, removed[i], f[removed[i]])) : Writes1(x, r, v))
                 <=> r \in NativeRoutes(f[removed[i]]) /\ v = NoRow
      <4> DEFINE X == ToSet(RemoveRoute(s.id, removed[i], f[removed[i]]))
                 D == NativeRoutes(f[removed[i]])
      <4>1. X = Removing(D)
        BY <1>7
      <4> HIDE DEF X, D
      <4>2. (\E x \in X : Writes1(x, r, v)) <=> r \in D /\ v = NoRow
        BY ONLY <1>8, <4>1
      <4> QED
        BY <4>2 DEF X, D
    <3> QED
      BY ONLY <3>1
  <2>3. (\E i \in 1..Len(removed) : r \in NativeRoutes(f[removed[i]])) <=> Removes(s, f, r)
    <3>1. ASSUME NEW i \in 1..Len(removed), r \in NativeRoutes(f[removed[i]])
          PROVE  Removes(s, f, r)
      <4>1. removed[i] \in s.old \ s.types
        BY ONLY <1>6
      <4> QED
        BY ONLY <3>1, <4>1 DEF Removes
    <3>2. ASSUME Removes(s, f, r)
          PROVE  \E i \in 1..Len(removed) : r \in NativeRoutes(f[removed[i]])
      <4>1. PICK ct \in s.old \ s.types : r \in NativeRoutes(f[ct])
        BY ONLY <3>2 DEF Removes
      <4>2. PICK i \in 1..Len(removed) : removed[i] = ct
        BY ONLY <1>3, <4>1
      <4> QED
        BY ONLY <4>1, <4>2
    <3> QED
      BY ONLY <3>1, <3>2
  <2>4. (\E i \in 1..Len(added) :
            \E x \in ToSet(AddRoute(s.id, added[i], f[added[i]], next.routes + i - 1)) :
               Writes1(x, r, v))
        <=> AddsAny(s, f, added, r, v)
    BY <1>9 DEF AddsAny
  <2> QED
    BY <2>1, <2>2, <2>3, <2>4
<1> QED
  BY <1>10, <1>11, <1>12, <1>13, <1>14 DEF q

(* The routes a sync writes over: native ones of types that go, and others *)
(* of types that come.                                                     *)
Stripped(s, f, r, v) ==
    \/ v.native /\ \E ct \in s.old \ s.types : r = f[ct]
    \/ ~v.native /\ \E ct \in s.types \ s.old : r = f[ct]

(* The number a sync gives out is new.                                     *)
LEMMA NumbersNew ==
  ASSUME Types, NEW i \in Nat \ {0}
  PROVE  /\ next.routes + i - 1 \in Nat /\ next.routes + i - 1 \notin DOMAIN mem.routes
         /\ \A j \in Nat : next.routes + i - 1 = next.routes + j - 1 => i = j
<1>1. DOMAIN mem.routes \subseteq 1..next.routes - 1 /\ next.routes \in Nat
  BY MemFacts
<1> QED
  BY <1>1

LEMMA SyncTouches ==
  ASSUME AdminInv, Orderly, SyncProviderRoutes, NEW s, s = todo[1], NEW f, Synced(s, f),
         NEW added, added = SetToSeq(s.types \ s.old), NEW r \in DOMAIN mem.routes
  PROVE  Removes(s, f, r) \/ (\E b : AddsAny(s, f, added, r, b))
         <=> Stripped(s, f, r, mem.routes[r])
<1> DEFINE v == mem.routes[r]
<1>1. Types /\ added \in Seq(s.types \ s.old)
  BY SyncParts DEF AdminInv
<1>2. r # NoId
  BY <1>1, MemFacts DEF NoId
<1>3. /\ \A i \in 1..Len(added) : added[i] \in s.types \ s.old
      /\ \A ct \in s.types \ s.old : \E i \in 1..Len(added) : added[i] = ct
  <2> DEFINE A == s.types \ s.old
  <2>1. IsFiniteSet(A) /\ added = SetToSeq(A) /\ added \in Seq(A)
    BY SyncParts
  <2> HIDE DEF A
  <2>2. \A ct \in A : \E i \in 1..Len(added) : added[i] = ct
    BY <2>1, ListedOnce
  <2>3. \A i \in 1..Len(added) : added[i] \in A
    BY ONLY <2>1, ListFacts, ZenonT(60)
  <2> QED
    BY <2>2, <2>3 DEF A
<1>4. Removes(s, f, r) <=> v.native /\ \E ct \in s.old \ s.types : r = f[ct]
  BY <1>2, ZenonT(60) DEF Removes, NativeRoutes
<1>5. ASSUME NEW i \in 1..Len(added)
      PROVE  (\E b : Adds(s.id, added[i], f[added[i]], next.routes + i - 1, r, b))
             <=> ~v.native /\ r = f[added[i]]
  <2> DEFINE new == next.routes + i - 1
  <2>1. r # new
    <3>1. i \in Nat \ {0}
      OBVIOUS
    <3> QED
      BY <1>1, <3>1, NumbersNew
  <2> HIDE DEF new
  <2>2. (\E b : Adds(s.id, added[i], f[added[i]], new, r, b)) <=> ~v.native /\ r = f[added[i]]
    BY <1>2, <2>1, ZenonT(60) DEF Adds
  <2> QED
    BY <2>2 DEF new
<1>6. (\E b : AddsAny(s, f, added, r, b)) <=> \E i \in 1..Len(added) : ~v.native /\ r = f[added[i]]
  <2>1. ASSUME NEW b, AddsAny(s, f, added, r, b)
        PROVE  \E i \in 1..Len(added) : ~v.native /\ r = f[added[i]]
    <3>1. PICK i \in 1..Len(added) : Adds(s.id, added[i], f[added[i]], next.routes + i - 1, r, b)
      BY ONLY <2>1, ZenonT(60) DEF AddsAny
    <3>2. ~v.native /\ r = f[added[i]]
      BY <1>5, <3>1, ZenonT(60)
    <3> QED
      BY <3>2
  <2>2. ASSUME NEW i \in 1..Len(added), ~v.native /\ r = f[added[i]]
        PROVE  \E b : AddsAny(s, f, added, r, b)
    <3>1. PICK b : Adds(s.id, added[i], f[added[i]], next.routes + i - 1, r, b)
      BY <1>5, <2>2, ZenonT(60)
    <3>2. AddsAny(s, f, added, r, b)
      BY <3>1, ZenonT(60) DEF AddsAny
    <3> QED
      BY <3>2
  <2> QED
    BY <2>1, <2>2
<1>7. (\E i \in 1..Len(added) : ~v.native /\ r = f[added[i]])
      <=> ~v.native /\ \E ct \in s.types \ s.old : r = f[ct]
  <2>1. ASSUME NEW i \in 1..Len(added), r = f[added[i]]
        PROVE  \E ct \in s.types \ s.old : r = f[ct]
    BY <1>3, <2>1, ZenonT(60)
  <2>2. ASSUME NEW ct \in s.types \ s.old, r = f[ct]
        PROVE  \E i \in 1..Len(added) : r = f[added[i]]
    <3>1. PICK i \in 1..Len(added) : added[i] = ct
      BY ONLY <1>3
    <3> QED
      BY ONLY <2>2, <3>1
  <2> QED
    BY <2>1, <2>2, ZenonT(60)
<1> HIDE DEF v
<1>8. Stripped(s, f, r, v) <=>
         \/ v.native /\ \E ct \in s.old \ s.types : r = f[ct]
         \/ ~v.native /\ \E ct \in s.types \ s.old : r = f[ct]
  BY DEF Stripped
<1> QED
  BY <1>4, <1>6, <1>7, <1>8 DEF v

LEMMA SyncBecomes ==
  ASSUME AdminInv, Orderly, SyncProviderRoutes, NEW s, s = todo[1], NEW f, Synced(s, f),
         NEW added, added = SetToSeq(s.types \ s.old), NEW r \in Nat, NEW v \in RouteRows
  PROVE  Becomes(todo', mem'.routes, r, v) <=>
            \/ AddsAny(s, f, added, r, v)
            \/ Becomes(todo, mem.routes, r, v) /\ ~Stripped(s, f, r, v)
<1> DEFINE q == todo'
           g == mem.routes
<1>1. s.do = "sync" /\ Len(todo) = 1 /\ mem' = mem
  BY SyncParts
<1>2. Becomes(todo, g, r, v) <=> r \in DOMAIN g /\ g[r] = v
  BY <1>1, AtSyncRoutes
<1>3. /\ \A a, b : Ordered(q, a, b) <=>
            (Removes(s, f, a) /\ b = NoRow) \/ AddsAny(s, f, added, a, b)
      /\ \A a : Touched(q, a) <=> \E b : Ordered(q, a, b)
  <2>1. \A a, b : Ordered(todo', a, b) <=>
            (Removes(s, f, a) /\ b = NoRow) \/ AddsAny(s, f, added, a, b)
    BY SyncOrders, ZenonT(60)
  <2>2. \A a : Touched(todo', a) <=> \E b : Ordered(todo', a, b)
    BY SyncOrders
  <2> QED
    BY <2>1, <2>2
<1>4. v # NoRow
  BY RowsAreRows
<1>5. r \in DOMAIN g => (Touched(q, r) <=> Stripped(s, f, r, g[r]))
  <2>1. r \in DOMAIN g => (Removes(s, f, r) \/ (\E b : AddsAny(s, f, added, r, b))
                           <=> Stripped(s, f, r, g[r]))
    BY SyncTouches
  <2>2. Touched(q, r) <=> Removes(s, f, r) \/ \E b : AddsAny(s, f, added, r, b)
    BY ONLY <1>3
  <2> QED
    BY ONLY <2>1, <2>2
<1>6. Becomes(todo', mem'.routes, r, v) <=> Becomes(q, g, r, v)
  BY <1>1
<1> HIDE DEF q, g
<1>7. CASE AddsAny(s, f, added, r, v)
  <2>1. Ordered(q, r, v) /\ Touched(q, r)
    BY <1>3, <1>7
  <2>2. Becomes(q, g, r, v)
    BY ONLY <1>4, <2>1 DEF Becomes
  <2> QED
    BY <1>6, <1>7, <2>2
<1>8. CASE ~AddsAny(s, f, added, r, v)
  <2>1. ~Ordered(q, r, v)
    BY <1>3, <1>4, <1>8
  <2>2. Becomes(q, g, r, v) <=> ~Touched(q, r) /\ r \in DOMAIN g /\ g[r] = v
    BY ONLY <2>1 DEF Becomes
  <2>3. Becomes(q, g, r, v) <=> Becomes(todo, g, r, v) /\ ~Stripped(s, f, r, v)
    BY ONLY <1>2, <1>5, <2>2
  <2> QED
    BY <1>6, <1>8, <2>3 DEF g
<1> QED
  BY <1>7, <1>8

(* A route that is added has the key it is added for.                      *)
LEMMA AddsKey ==
  ASSUME Types, NEW p, NEW c, NEW found, Fits(p, c, found), NEW new, NEW r, NEW v,
         Adds(p, c, found, new, r, v)
  PROVE  v.project = Global /\ v.provider = p /\ v.client = c /\ v.native
<1>1. CASE v = Native(p, c)
  BY <1>1 DEF Native
<1>2. CASE found # NoId /\ v = AsNative(mem.routes[found])
  <2> DEFINE w == mem.routes[found]
  <2>1. found \in Keyed(mem.routes, p, c)
    BY <1>2 DEF Fits
  <2>2. w \in RouteRows /\ w.project = Global /\ w.provider = p /\ w.client = c
    BY <2>1, KeyedFacts
  <2>3. v = AsNative(w)
    BY <1>2
  <2> HIDE DEF w
  <2> QED
    BY <2>2, <2>3, AsNativeFacts
<1> QED
  BY <1>1, <1>2 DEF Adds

Gains(s, f, added, ct, r, v) ==
    \E i \in 1..Len(added) :
        added[i] = ct /\ Adds(s.id, ct, f[ct], next.routes + i - 1, r, v)

Sheds(s, x, ct, v) ==
    /\ x = s.id
    /\ (ct \in s.old \ s.types /\ v.native) \/ (ct \in s.types \ s.old /\ ~v.native)

(* The one route of a key is the one a sync finds.                         *)
LEMMA HasFound ==
  ASSUME AdminInv, Orderly, SyncProviderRoutes, NEW s, s = todo[1], NEW f, Synced(s, f),
         NEW x, NEW ct, NEW r \in Nat, NEW v \in RouteRows, Has(x, ct, r, v)
  PROVE  /\ x = s.id /\ ct \in (s.old \ s.types) \cup (s.types \ s.old) =>
               f[ct] = r /\ r # NoId /\ mem.routes[r] = v
         /\ \A c \in (s.old \ s.types) \cup (s.types \ s.old) : r = f[c] => x = s.id /\ c = ct
<1> DEFINE C == (s.old \ s.types) \cup (s.types \ s.old)
<1>1. s.do = "sync" /\ Len(todo) = 1 /\ Types
  BY SyncParts DEF AdminInv
<1>2. r \in Keyed(mem.routes, x, ct) /\ mem.routes[r] = v /\ <<x, ct>> \notin ghost.manual
  BY <1>1, AtSyncRoutes
<1>3. r # NoId /\ mem.routes[r].provider = x /\ mem.routes[r].client = ct
  BY <1>1, <1>2, KeyedFacts
<1>4. \A t : t \in Keyed(mem.routes, x, ct) => t = r
  BY <1>1, <1>2, AtSyncRoutes
<1>5. \A c \in C : Fits(s.id, c, f[c])
  BY SyncFits
<1> HIDE DEF C
<1>6. ASSUME x = s.id, ct \in C PROVE f[ct] = r
  <2>1. Fits(x, ct, f[ct])
    BY <1>5, <1>6
  <2>2. f[ct] \in Keyed(mem.routes, x, ct)
    BY <1>2, <2>1 DEF Fits
  <2> QED
    BY <1>4, <2>2
<1>7. ASSUME NEW c \in C, r = f[c] PROVE x = s.id /\ c = ct
  <2>1. r \in Keyed(mem.routes, s.id, c)
    BY <1>3, <1>5, <1>7 DEF Fits
  <2>2. mem.routes[r].provider = s.id /\ mem.routes[r].client = c
    BY <1>1, <2>1, KeyedFacts
  <2> QED
    BY <1>3, <2>2
<1> QED
  BY <1>2, <1>3, <1>6, <1>7 DEF C

LEMMA SyncHas ==
  ASSUME AdminInv, Orderly, SyncProviderRoutes, NEW s, s = todo[1], NEW f, Synced(s, f),
         NEW added, added = SetToSeq(s.types \ s.old)
  PROVE  \A x, ct : \A r \in Nat, v \in RouteRows :
            Has(x, ct, r, v)' <=>
               \/ Has(x, ct, r, v) /\ ~Sheds(s, x, ct, v)
               \/ x = s.id /\ <<x, ct>> \notin ghost.manual /\ Gains(s, f, added, ct, r, v)
<1> SUFFICES ASSUME NEW x, NEW ct, NEW r \in Nat, NEW v \in RouteRows
             PROVE  Has(x, ct, r, v)' <=>
                       \/ Has(x, ct, r, v) /\ ~Sheds(s, x, ct, v)
                       \/ /\ x = s.id /\ <<x, ct>> \notin ghost.manual
                          /\ Gains(s, f, added, ct, r, v)
  OBVIOUS
<1>0. Types /\ ghost' = ghost /\ \A i \in 1..Len(added) : added[i] \in s.types \ s.old
  <2>1. added \in Seq(s.types \ s.old) /\ ghost' = ghost
    BY SyncParts
  <2>2. \A i \in 1..Len(added) : added[i] \in s.types \ s.old
    BY ONLY <2>1, ListFacts, ZenonT(60)
  <2> QED
    BY <2>1, <2>2 DEF AdminInv
<1> DEFINE Key1 == v.project = Global /\ v.provider = x /\ v.client = ct
           Free == <<x, ct>> \notin ghost.manual
<1>1. Becomes(todo', mem'.routes, r, v) <=>
         AddsAny(s, f, added, r, v) \/ (Becomes(todo, mem.routes, r, v) /\ ~Stripped(s, f, r, v))
  BY SyncBecomes
<1>2. AddsAny(s, f, added, r, v) /\ Key1 <=> x = s.id /\ Gains(s, f, added, ct, r, v)
  <2>1. ASSUME NEW i \in 1..Len(added),
               Adds(s.id, added[i], f[added[i]], next.routes + i - 1, r, v)
        PROVE  v.project = Global /\ v.provider = s.id /\ v.client = added[i]
    <3> DEFINE c == added[i]
               new == next.routes + i - 1
    <3>1. Fits(s.id, c, f[c])
      BY <1>0, SyncFits
    <3>2. Adds(s.id, c, f[c], new, r, v)
      BY <2>1
    <3> HIDE DEF c, new
    <3>3. v.project = Global /\ v.provider = s.id /\ v.client = c
      BY <1>0, <3>1, <3>2, AddsKey
    <3> QED
      BY <3>3 DEF c
  <2>2. ASSUME AddsAny(s, f, added, r, v), Key1 PROVE x = s.id /\ Gains(s, f, added, ct, r, v)
    <3>1. PICK i \in 1..Len(added) : Adds(s.id, added[i], f[added[i]], next.routes + i - 1, r, v)
      BY ONLY <2>2, ZenonT(60) DEF AddsAny
    <3>2. v.provider = s.id /\ v.client = added[i]
      BY <2>1, <3>1
    <3>3. x = s.id /\ ct = added[i]
      BY <2>2, <3>2
    <3>4. Adds(s.id, ct, f[ct], next.routes + i - 1, r, v)
      BY ONLY <3>1, <3>3
    <3> QED
      BY <3>3, <3>4, ZenonT(60) DEF Gains
  <2>3. ASSUME x = s.id, Gains(s, f, added, ct, r, v) PROVE AddsAny(s, f, added, r, v) /\ Key1
    <3>1. PICK i \in 1..Len(added) :
             added[i] = ct /\ Adds(s.id, ct, f[ct], next.routes + i - 1, r, v)
      BY ONLY <2>3, ZenonT(60) DEF Gains
    <3>2. Adds(s.id, added[i], f[added[i]], next.routes + i - 1, r, v)
      BY ONLY <3>1
    <3>3. Key1
      BY <2>1, <2>3, <3>1, <3>2
    <3> QED
      BY <3>2, <3>3, ZenonT(60) DEF AddsAny
  <2> QED
    BY ONLY <2>2, <2>3
<1>3. /\ Has(x, ct, r, v)' <=> Becomes(todo', mem'.routes, r, v) /\ Key1 /\ Free
      /\ Has(x, ct, r, v) <=> Becomes(todo, mem.routes, r, v) /\ Key1 /\ Free
  BY <1>0 DEF Has
<1> HIDE DEF Key1, Free
<1>4. Has(x, ct, r, v) => (Stripped(s, f, r, v) <=> Sheds(s, x, ct, v))
  <2> SUFFICES ASSUME Has(x, ct, r, v) PROVE Stripped(s, f, r, v) <=> Sheds(s, x, ct, v)
    OBVIOUS
  <2>1. x = s.id /\ ct \in (s.old \ s.types) \cup (s.types \ s.old) => f[ct] = r
    BY HasFound
  <2>2. \A c \in (s.old \ s.types) \cup (s.types \ s.old) : r = f[c] => x = s.id /\ c = ct
    BY HasFound
  <2>3. ASSUME Stripped(s, f, r, v) PROVE Sheds(s, x, ct, v)
    BY ONLY <2>2, <2>3 DEF Stripped, Sheds
  <2>4. ASSUME Sheds(s, x, ct, v) PROVE Stripped(s, f, r, v)
    BY ONLY <2>1, <2>4 DEF Stripped, Sheds
  <2> QED
    BY <2>3, <2>4
<1> QED
  BY ONLY <1>1, <1>2, <1>3, <1>4 DEF Free

LEMMA SyncOnce ==
  ASSUME AdminInv, Orderly, SyncProviderRoutes
  PROVE  /\ Once(todo') /\ NoProvider(todo') /\ Len(todo') \in Nat
         /\ todo' # <<>> => Len(todo') # 0
<1> DEFINE q == todo'
<1> PICK s : s = todo[1]
  OBVIOUS
<1> PICK added : added = SetToSeq(s.types \ s.old)
  OBVIOUS
<1> PICK f : Synced(s, f)
  BY SyncParts, ZenonT(60)
<1>1. s.do = "sync" /\ Len(todo) = 1 /\ added \in Seq(s.types \ s.old) /\ Types
  BY SyncParts DEF AdminInv
<1>2. \A c \in (s.old \ s.types) \cup (s.types \ s.old) : Fits(s.id, c, f[c])
  BY SyncFits
<1>3. \A r, v : Ordered(q, r, v) <=>
         (Removes(s, f, r) /\ v = NoRow) \/ AddsAny(s, f, added, r, v)
  BY SyncOrders, ZenonT(60)
<1>4. Once(q) <=> \A r, v, w : Ordered(q, r, v) /\ Ordered(q, r, w) => v = w
  BY SyncOrders
<1>5. NoProvider(q) /\ Len(q) \in Nat /\ (q # <<>> => Len(q) # 0)
  BY SyncOrders
<1> HIDE DEF q
<1>6. \A i \in 1..Len(added) :
         /\ next.routes + i - 1 \notin DOMAIN mem.routes
         /\ \A j \in 1..Len(added) : next.routes + i - 1 = next.routes + j - 1 => i = j
  <2>1. \A i \in 1..Len(added) : i \in Nat \ {0}
    OBVIOUS
  <2>2. \A i \in Nat \ {0} :
           /\ next.routes + i - 1 \notin DOMAIN mem.routes
           /\ \A j \in Nat : next.routes + i - 1 = next.routes + j - 1 => i = j
    BY <1>1, NumbersNew
  <2> QED
    BY <2>1, <2>2
<1>10. \A i \in 1..Len(added) : added[i] \in s.types \ s.old
  BY ONLY <1>1, ListFacts, ZenonT(60)
(* A route that is added is new, or the one that was found for its type. *)
<1>11. ASSUME NEW i \in 1..Len(added), NEW r, NEW v,
              Adds(s.id, added[i], f[added[i]], next.routes + i - 1, r, v)
       PROVE  \/ /\ r = next.routes + i - 1 /\ r \notin DOMAIN mem.routes
                 /\ v = Native(s.id, added[i])
              \/ /\ r \in DOMAIN mem.routes /\ mem.routes[r].client = added[i]
                 /\ v = AsNative(mem.routes[r])
  <2> DEFINE c == added[i]
             new == next.routes + i - 1
  <2>1. new \notin DOMAIN mem.routes
    BY <1>6
  <2>2. Fits(s.id, c, f[c])
    BY <1>2, <1>10
  <2>3. Adds(s.id, c, f[c], new, r, v)
    BY <1>11
  <2> HIDE DEF c, new
  <2>4. CASE f[c] = NoId
    BY <2>1, <2>3, <2>4 DEF Adds, c, new
  <2>5. CASE f[c] # NoId
    <3>1. f[c] \in Keyed(mem.routes, s.id, c)
      BY <2>2, <2>5 DEF Fits
    <3>2. r = f[c] /\ v = AsNative(mem.routes[f[c]])
      BY <2>3, <2>5 DEF Adds
    <3>3. r \in DOMAIN mem.routes /\ mem.routes[r].client = c
      BY <1>1, <3>1, <3>2, KeyedFacts
    <3> QED
      BY <3>2, <3>3 DEF c
  <2> QED
    BY <2>4, <2>5
<1>7. ASSUME NEW r, NEW v, Removes(s, f, r), AddsAny(s, f, added, r, v) PROVE FALSE
  <2>1. PICK ct \in s.old \ s.types : r \in NativeRoutes(f[ct])
    BY <1>7 DEF Removes
  <2>2. PICK i \in 1..Len(added) : Adds(s.id, added[i], f[added[i]], next.routes + i - 1, r, v)
    BY ONLY <1>7, ZenonT(60) DEF AddsAny
  <2>3. r = f[ct] /\ r # NoId
    BY <2>1 DEF NativeRoutes
  <2>4. r \in Keyed(mem.routes, s.id, ct)
    BY <1>2, <2>3 DEF Fits
  <2>5. r \in DOMAIN mem.routes /\ mem.routes[r].client = ct
    BY <1>1, <2>4, KeyedFacts
  <2>6. mem.routes[r].client = added[i]
    BY <1>11, <2>2, <2>5
  <2> QED
    BY <1>10, <2>5, <2>6
<1>8. ASSUME NEW r, NEW v, NEW w, AddsAny(s, f, added, r, v), AddsAny(s, f, added, r, w)
      PROVE  v = w
  <2>1. PICK i \in 1..Len(added) : Adds(s.id, added[i], f[added[i]], next.routes + i - 1, r, v)
    BY ONLY <1>8, ZenonT(60) DEF AddsAny
  <2>2. PICK j \in 1..Len(added) : Adds(s.id, added[j], f[added[j]], next.routes + j - 1, r, w)
    BY ONLY <1>8, ZenonT(60) DEF AddsAny
  <2>3. \/ /\ r = next.routes + i - 1 /\ r \notin DOMAIN mem.routes
           /\ v = Native(s.id, added[i])
        \/ r \in DOMAIN mem.routes /\ v = AsNative(mem.routes[r])
    BY ONLY <1>11, <2>1
  <2>4. \/ /\ r = next.routes + j - 1 /\ r \notin DOMAIN mem.routes
           /\ w = Native(s.id, added[j])
        \/ r \in DOMAIN mem.routes /\ w = AsNative(mem.routes[r])
    BY ONLY <1>11, <2>2
  <2>5. r = next.routes + i - 1 /\ r = next.routes + j - 1 => i = j
    BY <1>6
  <2> QED
    BY ONLY <2>3, <2>4, <2>5
<1>9. Once(q)
  BY <1>3, <1>4, <1>7, <1>8
<1> QED
  BY <1>5, <1>9 DEF q

(* What a sync adds is one native route for each type that is new.         *)
LEMMA SyncGains ==
  ASSUME AdminInv, Orderly, SyncProviderRoutes, NEW s, s = todo[1], NEW f, Synced(s, f),
         NEW added, added = SetToSeq(s.types \ s.old), NEW ct
  PROVE  /\ \A r, v : Gains(s, f, added, ct, r, v) => ct \in s.types \ s.old
         /\ \A r, v, t, w : Gains(s, f, added, ct, r, v) /\ Gains(s, f, added, ct, t, w) => r = t
         /\ \A r, v : \A t \in Nat, w \in RouteRows :
               Gains(s, f, added, ct, r, v) /\ Has(s.id, ct, t, w) => Sheds(s, s.id, ct, w)
<1> DEFINE C == (s.old \ s.types) \cup (s.types \ s.old)
<1>0. \A t \in Nat, w \in RouteRows :
         Has(s.id, ct, t, w) /\ ct \in C => f[ct] = t /\ t # NoId /\ mem.routes[t] = w
  <2> PICK x : x = s.id
    OBVIOUS
  <2> SUFFICES ASSUME NEW t \in Nat, NEW w \in RouteRows, Has(x, ct, t, w), ct \in C
               PROVE  f[ct] = t /\ t # NoId /\ mem.routes[t] = w
    OBVIOUS
  <2>1. AdminInv /\ Orderly /\ SyncProviderRoutes /\ s = todo[1] /\ Synced(s, f)
    OBVIOUS
  <2>2. Has(x, ct, t, w) /\ t \in Nat /\ w \in RouteRows
    OBVIOUS
  <2>3. x = s.id /\ ct \in C => f[ct] = t /\ t # NoId /\ mem.routes[t] = w
    BY ONLY <2>1, <2>2, HasFound
  <2> QED
    BY <2>3
<1>1. s.do = "sync" /\ Len(todo) = 1 /\ added \in Seq(s.types \ s.old)
  BY SyncParts
<1>2. \A i \in 1..Len(added) : added[i] \in s.types \ s.old
  BY ONLY <1>1, ListFacts, ZenonT(60)
<1>3. \A i, j \in 1..Len(added) : added[i] = added[j] => i = j
  <2> DEFINE A == s.types \ s.old
  <2>1. IsFiniteSet(A) /\ added = SetToSeq(A)
    BY SyncParts
  <2> HIDE DEF A
  <2> QED
    BY <2>1, ListedOnce
<1>4. ASSUME NEW r, NEW v, Gains(s, f, added, ct, r, v) PROVE ct \in s.types \ s.old
  BY ONLY <1>2, <1>4 DEF Gains
<1>5. ASSUME NEW r, NEW v, NEW t, NEW w,
             Gains(s, f, added, ct, r, v), Gains(s, f, added, ct, t, w)
      PROVE  r = t
  <2>1. PICK i \in 1..Len(added) :
           added[i] = ct /\ Adds(s.id, ct, f[ct], next.routes + i - 1, r, v)
    BY ONLY <1>5, ZenonT(60) DEF Gains
  <2>2. PICK j \in 1..Len(added) :
           added[j] = ct /\ Adds(s.id, ct, f[ct], next.routes + j - 1, t, w)
    BY ONLY <1>5, ZenonT(60) DEF Gains
  <2>3. i = j
    <3>1. added[i] = added[j]
      BY ONLY <2>1, <2>2
    <3> QED
      BY ONLY <1>3, <3>1
  <2> QED
    BY ONLY <2>1, <2>2, <2>3 DEF Adds
<1>6. ASSUME NEW r, NEW v, NEW t \in Nat, NEW w \in RouteRows,
             Gains(s, f, added, ct, r, v), Has(s.id, ct, t, w)
      PROVE  Sheds(s, s.id, ct, w)
  <2>1. PICK i \in 1..Len(added) :
           added[i] = ct /\ Adds(s.id, ct, f[ct], next.routes + i - 1, r, v)
    BY ONLY <1>6, ZenonT(60) DEF Gains
  <2>2. ct \in s.types \ s.old
    BY <1>4, <1>6
  <2>3. f[ct] = t /\ t # NoId /\ mem.routes[t] = w
    <3>1. ct \in (s.old \ s.types) \cup (s.types \ s.old)
      BY ONLY <2>2
    <3> QED
      BY <1>0, <1>6, <3>1
  <2>4. ~w.native
    BY ONLY <2>1, <2>3 DEF Adds
  <2> QED
    BY <2>2, <2>4 DEF Sheds
<1> QED
  BY ONLY <1>4, <1>5, <1>6

LEMMA SyncServes ==
  ASSUME AdminInv, Orderly, SyncProviderRoutes, NEW s, s = todo[1], NEW f, Synced(s, f),
         NEW added, added = SetToSeq(s.types \ s.old), NEW ct \in s.types \ s.old,
         <<s.id, ct>> \notin ghost.manual
  PROVE  \E r \in Nat, v \in RouteRows : Has(s.id, ct, r, v)' /\ v.native
<1>1. /\ s.do = "sync" /\ Len(todo) = 1 /\ s.id \in Nat /\ s.types \subseteq ClientTypes
      /\ Types
  BY SyncParts DEF AdminInv
<1>2. Fits(s.id, ct, f[ct])
  BY SyncFits
<1>3. \E i \in 1..Len(added) : added[i] = ct
  <2> DEFINE A == s.types \ s.old
  <2>1. IsFiniteSet(A) /\ added = SetToSeq(A) /\ ct \in A
    BY SyncParts
  <2> HIDE DEF A
  <2> QED
    BY <2>1, ListedOnce
<1>4. PICK i \in 1..Len(added) : added[i] = ct
  BY <1>3
<1> DEFINE new == next.routes + i - 1
<1>5. new \in Nat
  <2>1. i \in Nat \ {0}
    OBVIOUS
  <2> QED
    BY <1>1, <2>1, NumbersNew
<1>6. ASSUME NEW r \in Nat, NEW v \in RouteRows, v.native,
             \/ Has(s.id, ct, r, v) /\ ~Sheds(s, s.id, ct, v)
             \/ Adds(s.id, ct, f[ct], new, r, v)
      PROVE  \E t \in Nat, w \in RouteRows : Has(s.id, ct, t, w)' /\ w.native
  <2>1. Has(s.id, ct, r, v)' <=>
           \/ Has(s.id, ct, r, v) /\ ~Sheds(s, s.id, ct, v)
           \/ Gains(s, f, added, ct, r, v)
    BY SyncHas
  <2>2. Adds(s.id, ct, f[ct], new, r, v) => Gains(s, f, added, ct, r, v)
    BY ONLY <1>4, ZenonT(60) DEF Gains, new
  <2>3. Has(s.id, ct, r, v)'
    BY <1>6, <2>1, <2>2
  <2> QED
    BY <1>6, <2>3
<1> HIDE DEF new
<1>7. CASE f[ct] = NoId
  <2> DEFINE v == Native(s.id, ct)
  <2>1. v \in RouteRows /\ v.native
    BY <1>1, ProjectsAssumption DEF Native, RouteRows, NoId
  <2>2. Adds(s.id, ct, f[ct], new, new, v)
    BY <1>7 DEF Adds
  <2> HIDE DEF v
  <2> QED
    BY <1>5, <1>6, <2>1, <2>2
<1>8. CASE f[ct] # NoId
  <2> DEFINE r == f[ct]
             v == mem.routes[r]
             w == AsNative(v)
  <2>1. r \in Keyed(mem.routes, s.id, ct)
    BY <1>2, <1>8 DEF Fits
  <2>2. r \in Nat /\ v \in RouteRows
    BY <1>1, <2>1, KeyedFacts
  <2>3. Has(s.id, ct, r, v)
    <3>1. Has(s.id, ct, r, v) <=> /\ r \in Keyed(mem.routes, s.id, ct) /\ mem.routes[r] = v
                                  /\ <<s.id, ct>> \notin ghost.manual
      BY <1>1, AtSyncRoutes
    <3> QED
      BY <2>1, <3>1
  <2>4. ~v.native => Adds(s.id, ct, f[ct], new, r, w)
    BY <1>8 DEF Adds
  <2>5. w \in RouteRows /\ w.native
    <3> HIDE DEF v
    <3> QED
      BY <2>2, AsNativeFacts
  <2> HIDE DEF r, v, w
  <2>6. v.native => ~Sheds(s, s.id, ct, v)
    BY DEF Sheds
  <2> QED
    BY <1>6, <2>2, <2>3, <2>4, <2>5, <2>6
<1> QED
  BY <1>7, <1>8

(* A sync leaves a provider the routes of its new types.                   *)
LEMMA SyncRoutes ==
  ASSUME AdminInv, Orderly, SyncProviderRoutes
  PROVE  Orderly'
<1> DEFINE q == todo'
<1> PICK s : s = todo[1]
  OBVIOUS
<1> PICK added : added = SetToSeq(s.types \ s.old)
  OBVIOUS
<1> PICK f : Synced(s, f)
  BY SyncParts, ZenonT(60)
<1>1. /\ todo # <<>> /\ s.do = "sync" /\ Len(todo) = 1 /\ s.id \in Nat /\ todo[Len(todo)] = s
      /\ db' = db /\ ghost' = ghost
  BY SyncParts
<1>2. OneEach /\ Owned /\ Serves /\ Planned /\ ghost.drifted = {}
  BY DEF Orderly
<1>3. Once(q) /\ NoProvider(q) /\ Len(q) \in Nat /\ (q # <<>> => Len(q) # 0)
  BY SyncOnce
<1>4. /\ \A p : ~Syncing(q, p) /\ ~Deleting(q, p)
      /\ ~Saves(q) /\ \A i \in 1..Len(q) : ~IsDelete(q[i])
  <2> HIDE DEF q
  <2> QED
    BY <1>3, NoProviderBegun
<1>5. \A p : (Syncing(todo, p) <=> p = s.id) /\ ~Deleting(todo, p)
  BY <1>1 DEF Syncing, Deleting, IsDelete, IsWrite, Do
<1>6. /\ s.id \in DOMAIN db.providers /\ db.providers[s.id].types = s.types
      /\ s.id \in Gone(db) => s.id \in ghost.revived
  <2>1. ~Saves(todo)
    BY <1>1 DEF Saves
  <2> QED
    BY <1>1, <1>2, <1>5, <2>1 DEF Planned
<1> DEFINE Gained(x, ct, r, v) ==
              x = s.id /\ <<x, ct>> \notin ghost.manual /\ Gains(s, f, added, ct, r, v)
<1>7. \A x, ct : \A r \in Nat, v \in RouteRows :
         Has(x, ct, r, v)' <=> (Has(x, ct, r, v) /\ ~Sheds(s, x, ct, v)) \/ Gained(x, ct, r, v)
  BY SyncHas
<1>8. \A ct : /\ \A r, v : Gains(s, f, added, ct, r, v) => ct \in s.types \ s.old
              /\ \A r, v, t, w :
                    Gains(s, f, added, ct, r, v) /\ Gains(s, f, added, ct, t, w) => r = t
              /\ \A r, v : \A t \in Nat, w \in RouteRows :
                    Gains(s, f, added, ct, r, v) /\ Has(s.id, ct, t, w) => Sheds(s, s.id, ct, w)
  BY SyncGains
<1> HIDE DEF q
<1>9. OneEach'
  <2>1. ASSUME NEW p \in Nat, NEW ct \in ClientTypes, NEW r \in Nat, NEW t \in Nat,
               NEW v \in RouteRows, NEW w \in RouteRows, Has(p, ct, r, v)', Has(p, ct, t, w)'
        PROVE  r = t
    <3>1. (Has(p, ct, r, v) /\ ~Sheds(s, p, ct, v)) \/ (p = s.id /\ Gains(s, f, added, ct, r, v))
      BY <1>7, <2>1
    <3>2. (Has(p, ct, t, w) /\ ~Sheds(s, p, ct, w)) \/ (p = s.id /\ Gains(s, f, added, ct, t, w))
      BY <1>7, <2>1
    <3>3. Has(p, ct, r, v) /\ Has(p, ct, t, w) => r = t
      BY <1>2 DEF OneEach
    <3> QED
      BY <1>8, <3>1, <3>2, <3>3
  <2> QED
    BY <2>1 DEF OneEach
<1>10. Owned'
  <2>1. ASSUME NEW p \in Nat, NEW ct \in ClientTypes, NEW r \in Nat, NEW v \in RouteRows,
               Has(p, ct, r, v)'
        PROVE  p \in DOMAIN db.providers
    <3>1. Has(p, ct, r, v) \/ p = s.id
      BY <1>7, <2>1
    <3> QED
      BY <1>2, <1>6, <3>1 DEF Owned
  <2> QED
    BY <1>1, <2>1 DEF Owned
<1>11. ASSUME NEW p \in DOMAIN db.providers, p # s.id PROVE Suits(p)'
  <2>1. \A ct : \A r \in Nat, v \in RouteRows : Has(p, ct, r, v)' <=> Has(p, ct, r, v)
    BY <1>7, <1>11 DEF Sheds
  <2>2. /\ NoneOf(p) => NoneOf(p)'
        /\ \A ct : Backed(p, ct) => Backed(p, ct)'
        /\ \A ct : Foreign(p, ct) => Foreign(p, ct)'
    BY <1>1, <2>1 DEF NoneOf, Backed, Foreign
  <2>3. Served(p)' = Served(p) /\ ~Deleting(todo, p) /\ ~Deleting(todo', p)
    BY <1>1, <1>4, <1>5, <1>11 DEF Served, q
  <2>4. Suits(p)
    BY <1>2 DEF Serves
  <2>5. Fit(p) => Fit(p)'
    BY <2>2, <2>3 DEF Fit
  <2>6. Gone(db)' = Gone(db)
    BY <1>1
  <2> QED
    BY <1>1, <2>2, <2>3, <2>4, <2>5, <2>6 DEF Suits
<1>12. ASSUME s.id \notin Gone(db), NEW ct \in ClientTypes
       PROVE  IF ct \in s.types THEN Backed(s.id, ct)' ELSE Foreign(s.id, ct)'
  <2>1. IF ct \in s.old THEN Backed(s.id, ct) ELSE Foreign(s.id, ct)
    <3>1. Suits(s.id) /\ Served(s.id) = s.old
      BY <1>1, <1>2, <1>5, <1>6 DEF Serves, Served
    <3> QED
      BY <1>5, <1>12, <3>1 DEF Suits, Fit
  <2>5. <<s.id, ct>> \in ghost.manual => Backed(s.id, ct)'
    BY <1>1 DEF Backed
  <2>2. CASE ct \in s.types /\ ct \in s.old
    <3>1. \A v : ~Sheds(s, s.id, ct, v)
      BY <2>2 DEF Sheds
    <3>2. \A r \in Nat, v \in RouteRows : Has(s.id, ct, r, v) => Has(s.id, ct, r, v)'
      BY <1>7, <3>1
    <3> QED
      BY <1>1, <2>1, <2>2, <3>2 DEF Backed
  <2>3. CASE ct \in s.types /\ ct \notin s.old
    <3>1. <<s.id, ct>> \notin ghost.manual =>
             \E r \in Nat, v \in RouteRows : Has(s.id, ct, r, v)' /\ v.native
      BY <2>3, SyncServes
    <3> QED
      BY <2>3, <2>5, <3>1 DEF Backed
  <2>4. CASE ct \notin s.types
    <3>1. ASSUME NEW r \in Nat, NEW v \in RouteRows, Has(s.id, ct, r, v)'
          PROVE  ~v.native
      <4>1. Has(s.id, ct, r, v) /\ ~Sheds(s, s.id, ct, v)
        BY <1>7, <1>8, <2>4, <3>1
      <4>2. CASE ct \in s.old
        BY <2>4, <4>1, <4>2 DEF Sheds
      <4>3. CASE ct \notin s.old
        BY <2>1, <4>1, <4>3 DEF Foreign
      <4> QED
        BY <4>2, <4>3
    <3> QED
      BY <2>4, <3>1 DEF Foreign
  <2> QED
    BY <2>2, <2>3, <2>4
<1>13. Suits(s.id)'
  <2>1. Served(s.id)' = s.types
    BY <1>1, <1>4, <1>6 DEF Served, q
  <2>2. s.id \notin Gone(db) => Fit(s.id)'
    BY <1>12, <2>1 DEF Fit
  <2>3. Gone(db)' = Gone(db) /\ ghost' = ghost /\ ~Deleting(todo', s.id)
    BY <1>1, <1>4 DEF q
  <2> QED
    BY <1>6, <2>2, <2>3 DEF Suits
<1>14. Serves'
  BY <1>1, <1>11, <1>13 DEF Serves
<1>15. Planned'
  BY <1>1, <1>4 DEF Planned, q
<1> QED
  BY <1>1, <1>2, <1>3, <1>9, <1>10, <1>14, <1>15 DEF Orderly, q

(* At the start the one provider has a native route for each of its types. *)
LEMMA RoutesStart ==
  ASSUME Init
  PROVE  RoutesInv
<1> USE ProjectsAssumption, TypesAssumption
<1>1. PICK types \in TypeSets :
        LET served == SetToSeq(types) IN
        db = [providers |-> [p \in {1} |-> [types |-> types, ok |-> TRUE, version |-> 0,
                                            deleted |-> FALSE]],
              routes |-> [r \in DOMAIN served |-> Native(1, served[r])],
              configs |-> [c \in {1} |-> [flag |-> TRUE]],
              strategies |-> [s \in {} |-> NoRow]]
  BY DEF Init
<1> DEFINE served == SetToSeq(types)
<1>2. types \subseteq ClientTypes /\ IsFiniteSet(types)
  BY FS_Subset
<1>3. served \in Seq(types)
  BY <1>2, Listed
<1>4. /\ \A ct \in types : \E i \in 1..Len(served) : served[i] = ct
      /\ \A i, j \in 1..Len(served) : served[i] = served[j] => i = j
  BY <1>2, ListedOnce
<1>5. /\ DOMAIN db.providers = {1} /\ db.providers[1].types = types
      /\ ~db.providers[1].deleted
      /\ db.routes = [r \in DOMAIN served |-> Native(1, served[r])]
  BY <1>1
<1> HIDE DEF served
<1>6. /\ mem \in Reloaded(db) /\ todo = <<>> /\ ghost.revived = {} /\ ghost.drifted = {}
      /\ ghost.manual = {}
  BY DEF Init
<1>7. mem.routes = db.routes
  BY <1>6 DEF Reloaded
<1>8. DOMAIN served = 1..Len(served) /\ \A r \in 1..Len(served) : served[r] \in types
  BY <1>3
<1>9. \A r, v : Becomes(todo, mem.routes, r, v) <=>
         r \in 1..Len(served) /\ v = Native(1, served[r])
  <2>1. \A r, v : Becomes(todo, mem.routes, r, v) <=> r \in DOMAIN mem.routes /\ mem.routes[r] = v
    BY <1>6, AtRestRoutes
  <2> QED
    BY <1>5, <1>7, <1>8, <2>1
<1>10. \A ct : /\ Native(1, ct).project = Global /\ Native(1, ct).provider = 1
               /\ Native(1, ct).client = ct /\ Native(1, ct).native
  BY DEF Native
<1>11. \A ct \in types : Native(1, ct) \in RouteRows
  BY <1>2 DEF Native, RouteRows, NoId
<1>12. \A p, ct, r, v : Has(p, ct, r, v) <=>
          p = 1 /\ r \in 1..Len(served) /\ served[r] = ct /\ v = Native(1, ct)
  BY <1>6, <1>9, <1>10 DEF Has
<1>13. OneEach
  BY <1>4, <1>12 DEF OneEach
<1>14. Owned
  BY <1>5, <1>12 DEF Owned
<1>15. /\ ~Syncing(todo, 1) /\ ~Deleting(todo, 1) /\ Served(1) = types /\ Gone(db) = {}
       /\ \A p : ~Syncing(todo, p)
  <2>1. \A p : ~Syncing(todo, p) /\ ~Deleting(todo, p) /\ Served(p) = db.providers[p].types
    BY <1>6, AtRestRoutes
  <2> QED
    BY <1>5, <2>1 DEF Gone
<1>16. ASSUME NEW ct \in ClientTypes
       PROVE  IF ct \in types THEN Backed(1, ct) ELSE Foreign(1, ct)
  <2>1. CASE ct \in types
    <3>1. PICK i \in 1..Len(served) : served[i] = ct
      BY <1>4, <2>1
    <3>2. Has(1, ct, i, Native(1, ct)) /\ i \in Nat /\ Native(1, ct) \in RouteRows
      BY <1>11, <1>12, <2>1, <3>1
    <3> QED
      BY <1>10, <2>1, <3>2 DEF Backed
  <2>2. CASE ct \notin types
    BY <1>8, <1>12, <2>2 DEF Foreign
  <2> QED
    BY <2>1, <2>2
<1>17. Serves
  <2>1. Fit(1)
    BY <1>15, <1>16 DEF Fit
  <2> QED
    BY <1>5, <1>15, <2>1 DEF Serves, Suits
<1>18. Planned /\ Once(todo)
  <2>1. Len(todo) = 0 /\ ~Saves(todo)
    BY <1>6 DEF Saves
  <2> QED
    BY <1>15, <2>1 DEF Planned, Once
<1> QED
  BY <1>6, <1>13, <1>14, <1>17, <1>18 DEF RoutesInv, Orderly

LEMMA RoutesBegin ==
  ASSUME AdminInv, Orderly, ghost.revived \subseteq Gone(db), AdminBegins
  PROVE  Orderly'
<1>1. ASSUME NEW types \in TypeSets, NEW ok \in BOOLEAN,
             CreateProvider(types, ok) \/ \E p \in Ids : UpdateProvider(p, types, ok)
      PROVE  Orderly'
  BY <1>1, CreateProviderRoutes, UpdateProviderRoutes
<1>2. ASSUME NEW id \in Ids,
             DeleteProvider(id) \/ DeleteRoute(id) \/ DeleteConfig(id) \/ DeleteStrategy(id)
      PROVE  Orderly'
  <2>1. ASSUME DeleteConfig(id) \/ DeleteStrategy(id) PROVE Orderly'
    BY <2>1, OtherRoutes
  <2> QED
    BY <1>2, <2>1, DeleteProviderRoutes, DeleteRouteRoutes
<1>3. ASSUME NEW row \in Posted, CreateRoute(row)
      PROVE  Orderly'
  <2>1. row \in RouteRows
    BY RowsOfRoutes
  <2> QED
    BY <1>3, <2>1, CreateRouteRoutes
<1>4. ASSUME NEW r \in DOMAIN mem.routes, NEW row \in Changes(mem.routes[r]), UpdateRoute(r, row)
      PROVE  Orderly'
  <2>1. mem.routes[r] \in RouteRows
    BY MemFacts DEF AdminInv
  <2>2. row \in RouteRows
    BY <2>1, RowsOfRoutes
  <2> QED
    BY <1>4, <2>2, UpdateRouteRoutes
<1>5. ASSUME NEW c \in Ids, NEW flag \in BOOLEAN, SaveConfig(c, flag)
      PROVE  Orderly'
  BY <1>5, OtherRoutes
<1>6. ASSUME NEW project \in Projects, NEW type \in StrategyTypes,
             CreateStrategy(project, type)
      PROVE  Orderly'
  BY <1>6, OtherRoutes
<1>7. ASSUME NEW project \in Projects, NEW type \in StrategyTypes, NEW to \in Projects,
             UpdateStrategy(project, [project |-> to, type |-> type])
      PROVE  Orderly'
  <2> DEFINE row == [project |-> to, type |-> type]
  <2>1. UpdateStrategy(project, row)
    BY <1>7
  <2> HIDE DEF row
  <2> QED
    BY <2>1, OtherRoutes
<1> QED
  BY <1>1, <1>2, <1>3, <1>4, <1>5, <1>6, <1>7 DEF AdminBegins

(* A provider that was updated after its deletion was deleted, and a state *)
(* that was left half done stays so.                                       *)
LEMMA GhostsBegin ==
  ASSUME AdminInv, ghost.revived \subseteq Gone(db), AdminBegins
  PROVE  ghost'.revived \subseteq Gone(db)' /\ ghost'.torn = ghost.torn
<1>1. ghost \in Ghosts
  BY DEF AdminInv, Types
<1>2. ASSUME NEW id, NEW types, NEW ok, UpdateProvider(id, types, ok)
      PROVE  ghost'.revived \subseteq Gone(db)' /\ ghost'.torn = ghost.torn
  <2>1. /\ ghost' = [ghost EXCEPT !.revived = IF id \in Gone(db) THEN @ \cup {id} ELSE @]
        /\ db' = db
    BY <1>2 DEF UpdateProvider
  <2>2. /\ ghost'.revived = IF id \in Gone(db) THEN ghost.revived \cup {id} ELSE ghost.revived
        /\ ghost'.torn = ghost.torn
    BY <1>1, <2>1 DEF Ghosts
  <2>3. Gone(db)' = Gone(db)
    BY <2>1
  <2> QED
    BY <2>2, <2>3
<1>3. ASSUME NEW keys, db' = db, ghost' = TakenOver(keys)
      PROVE  ghost'.revived \subseteq Gone(db)' /\ ghost'.torn = ghost.torn
  <2>1. ghost'.revived = ghost.revived /\ ghost'.torn = ghost.torn
    BY <1>1, <1>3 DEF TakenOver, Ghosts
  <2> QED
    BY <1>3, <2>1
<1>6. ASSUME \/ \E id \in Ids : DeleteRoute(id)
             \/ \E row \in Posted : CreateRoute(row)
             \/ \E r \in DOMAIN mem.routes : \E row \in Changes(mem.routes[r]) : UpdateRoute(r, row)
      PROVE  db' = db /\ \E keys : ghost' = TakenOver(keys)
  BY <1>6 DEF DeleteRoute, CreateRoute, UpdateRoute
<1>4. ASSUME db' = db, ghost' = ghost
      PROVE  ghost'.revived \subseteq Gone(db)' /\ ghost'.torn = ghost.torn
  BY <1>4
<1>5. ASSUME ~\E id \in Ids, types \in TypeSets, ok \in BOOLEAN : UpdateProvider(id, types, ok),
             ~\E id \in Ids : DeleteRoute(id),
             ~\E row \in Posted : CreateRoute(row),
             ~\E r \in DOMAIN mem.routes : \E row \in Changes(mem.routes[r]) : UpdateRoute(r, row)
      PROVE  db' = db /\ ghost' = ghost
  BY <1>5 DEF AdminBegins, CreateProvider, DeleteProvider, DeleteConfig, DeleteStrategy,
     SaveConfig, CreateStrategy, UpdateStrategy
<1> QED
  BY <1>2, <1>3, <1>4, <1>5, <1>6

LEMMA GhostsGoOn ==
  ASSUME AdminInv, ghost.revived \subseteq Gone(db), AdminGoesOn \/ MatchGoesOn \/ Restart
  PROVE  /\ ghost'.revived \subseteq Gone(db)'
         /\ Refused => ghost'.torn
         /\ ghost.torn => ghost'.torn
         /\ Restart /\ todo # <<>> => ghost'.torn
<1>1. ghost \in Ghosts /\ Types
  BY DEF AdminInv, Types
<1>2. ASSUME Executed PROVE ghost'.revived \subseteq Gone(db)' /\ ghost'.torn = ghost.torn
  <2> DEFINE s == todo[1]
  <2> PICK q : q = todo
    OBVIOUS
  <2> PICK t : t = todo'
    OBVIOUS
  <2>1. /\ s \in Writes(next, ops)
        /\ db' = [db EXCEPT ![s.table] = Write(@, s.id, RowWritten(s))]
        /\ ghost'.torn = ghost.torn /\ ghost'.revived = ghost.revived
    BY <1>2, ExecutedFacts
  <2> HIDE DEF s
  <2>2. Gone(db) \subseteq Gone(db')
    BY <1>1, <2>1, GoneAfter
  <2> QED
    BY <2>1, <2>2
<1>3. ASSUME Refused
      PROVE  ghost'.revived \subseteq Gone(db)' /\ ghost'.torn
  <2>1. db' = db /\ ghost'.revived = ghost.revived /\ ghost'.torn = TRUE
    BY <1>1, <1>3 DEF Refused, Ghosts
  <2> QED
    BY <2>1
<1>4. ASSUME Restart
      PROVE  ghost'.revived \subseteq Gone(db)' /\ (ghost.torn \/ todo # <<>> => ghost'.torn)
  <2>1. /\ db' = db /\ ghost'.revived = ghost.revived
        /\ ghost'.torn = (ghost.torn \/ todo # <<>>)
    BY <1>1, <1>4 DEF Restart, Ghosts
  <2> QED
    BY <2>1
<1>5. ASSUME \/ CacheWritten \/ Refresh \/ RemoveAdapter \/ Edit \/ SyncProviderRoutes
             \/ MatchGoesOn
      PROVE  ghost'.revived \subseteq Gone(db)' /\ ghost'.torn = ghost.torn
  <2>1. db' = db /\ ghost' = ghost
    BY <1>5, ZenonT(60) DEF CacheWritten, Refresh, RemoveAdapter, Edit, SyncProviderRoutes, MatchGoesOn,
       MatchStarts, MatchEnds, MatchReturns
  <2> QED
    BY <2>1
<1> QED
  BY <1>2, <1>3, <1>4, <1>5 DEF AdminGoesOn

LEMMA RoutesGoOn ==
  ASSUME AdminInv, Orderly, AdminGoesOn, ~Refused
  PROVE  Orderly'
BY ExecutedRoutes, CacheWrittenRoutes, AdapterRoutes, EditRoutes, SyncRoutes DEF AdminGoesOn

(* However the operations of the administrator follow each other, and      *)
(* wherever the process stops between two of them, the routes there will   *)
(* be once the writes that are left are made are those the providers' types *)
(* ask for, except for those that the administrator took over.             *)
THEOREM RoutesInvariant == Spec => [](AdminInv /\ RoutesInv)
<1>1. Init => AdminInv /\ RoutesInv
  BY Starts, RoutesStart
<1>2. AdminInv /\ RoutesInv /\ [Next]_vars => RoutesInv'
  <2> SUFFICES ASSUME AdminInv, RoutesInv, [Next]_vars PROVE RoutesInv'
    OBVIOUS
  <2>0. ghost.revived \subseteq Gone(db) /\ (~ghost.torn => Orderly)
    BY DEF RoutesInv
  <2>1. CASE AdminBegins
    BY <2>0, <2>1, RoutesBegin, GhostsBegin DEF RoutesInv
  <2>2. CASE AdminGoesOn
    BY <2>0, <2>2, RoutesGoOn, GhostsGoOn DEF RoutesInv
  <2>3. CASE MatchGoesOn
    <3>1. UNCHANGED <<db, mem, todo, ghost>>
      BY <2>3 DEF MatchGoesOn, MatchStarts, MatchEnds, MatchReturns
    <3> QED
      BY <2>0, <2>3, <3>1, MatchRoutes, GhostsGoOn DEF RoutesInv
  <2>4. CASE Restart
    BY <2>0, <2>4, RestartRoutes, GhostsGoOn DEF RoutesInv
  <2>5. CASE UNCHANGED vars
    <3>1. UNCHANGED <<db, mem, todo, ghost>>
      BY <2>5 DEF vars
    <3> QED
      BY <2>0, <3>1, MatchRoutes DEF RoutesInv
  <2> QED
    BY <2>1, <2>2, <2>3, <2>4, <2>5 DEF Next
<1>3. Spec => []AdminInv
  BY AdminInvariant
<1>4. Spec => []RoutesInv
  BY <1>1, <1>2, <1>3, PTL DEF Spec
<1> QED
  BY <1>3, <1>4, PTL

(* Between two operations, none of which was left half done, the cached    *)
(* global routes of every provider are those its types ask for, except for *)
(* the types whose routes the administrator took over.                     *)
THEOREM RoutesFollow == Spec => []RoutesFollowProviders
<1>1. AdminInv /\ RoutesInv => RoutesFollowProviders
  <2> SUFFICES ASSUME AdminInv, RoutesInv, Quiet, ~ghost.torn, NEW p \in DOMAIN db.providers,
                      NEW ct \in ClientTypes, <<p, ct>> \notin ghost.manual,
                      NEW routes, routes = Keyed(mem.routes, p, ct)
      PROVE  /\ Cardinality(routes) <= 1
             /\ IF p \in Gone(db) THEN p \in ghost.revived \/ routes = {}
                ELSE IF ct \in db.providers[p].types
                THEN \E r \in routes : mem.routes[r].native
                ELSE \A r \in routes : ~mem.routes[r].native
    BY DEF RoutesFollowProviders
  <2>1. todo = <<>> /\ OneEach /\ Suits(p)
    BY DEF Quiet, RoutesInv, Orderly, Serves
  <2>2. \A r, v : Becomes(todo, mem.routes, r, v) <=> r \in DOMAIN mem.routes /\ mem.routes[r] = v
    BY <2>1, AtRestRoutes
  <2>3. \A r, v : Has(p, ct, r, v) <=> r \in routes /\ mem.routes[r] = v
    BY <2>2 DEF Has, Keyed
  <2>4. \A r \in routes : r \in Nat /\ mem.routes[r] \in RouteRows
    BY KeyedFacts DEF AdminInv
  <2>5. \A r, t \in routes : r = t
    <3>1. p \in Nat
      BY MemFacts DEF AdminInv
    <3> QED
      BY <2>1, <2>3, <2>4, <3>1 DEF OneEach
  <2>6. Cardinality(routes) <= 1
    <3>1. CASE routes = {}
      BY <3>1, FS_EmptySet
    <3>2. ASSUME NEW r \in routes PROVE Cardinality(routes) <= 1
      <4>1. routes = {r}
        BY <2>5, <3>2
      <4>2. Cardinality({r}) = 1
        BY FS_Singleton
      <4> QED
        BY <4>1, <4>2
    <3> QED
      BY <3>1, <3>2
  <2>7. ~Deleting(todo, p) /\ Served(p) = db.providers[p].types
    BY <2>1, AtRestRoutes
  <2>8. CASE p \in Gone(db)
    BY <2>1, <2>3, <2>4, <2>6, <2>8 DEF Suits, NoneOf
  <2>9. CASE p \notin Gone(db)
    <3>1. IF ct \in db.providers[p].types THEN Backed(p, ct) ELSE Foreign(p, ct)
      BY <2>1, <2>7, <2>9 DEF Suits, Fit
    <3>2. CASE ct \in db.providers[p].types
      BY <2>3, <2>6, <2>9, <3>1, <3>2 DEF Backed
    <3>3. CASE ct \notin db.providers[p].types
      BY <2>3, <2>4, <2>6, <2>9, <3>1, <3>3 DEF Foreign
    <3> QED
      BY <3>2, <3>3
  <2> QED
    BY <2>8, <2>9
<1> QED
  BY <1>1, RoutesInvariant, PTL

===============================================================================
