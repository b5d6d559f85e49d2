----------------------------- MODULE AdminRouting -----------------------------
(***************************************************************************)
(* One administrator's operations on providers, routes, retry              *)
(* configurations and strategies, each a sequence of statements and of     *)
(* writes to the caches in front of the tables, and the router, whose      *)
(* Match reads the caches in two steps between any of them. A statement    *)
(* may be refused, and the process may stop and load its caches anew.      *)
(***************************************************************************)
EXTENDS Naturals, FiniteSets, FiniteSetsExt, Sequences, SequencesExt, Functions

CONSTANTS
    ClientTypes,    \* what a client speaks
    TypeSets,       \* bound: the sets of client types given to a provider
    Projects,       \* projects of requests, Global among them
    MaxRows,        \* bounds: rows ever inserted into each table
    MaxOps,         \* bound: operations of the administrator
    MaxFaults       \* bound: refused statements and restarts

Global == 0
ASSUME ProjectsAssumption == Global \in Projects /\ Projects \subseteq Nat
ASSUME TypesAssumption == IsFiniteSet(ClientTypes) /\ TypeSets \subseteq SUBSET ClientTypes
ASSUME BoundsAssumption == MaxRows \in Nat /\ MaxOps \in Nat /\ MaxFaults \in Nat

VARIABLES
    db,     \* the tables: functions from ids to rows
    mem,    \* the cached repositories and the router's table of adapters
    todo,   \* the steps that the administrator's operation has left
    next,   \* the next id of each table
    match,  \* the locals of a Match
    ops, faults,    \* counters
    ghost   \* what the properties look back at: `drifted`, what a refused
            \* statement left changed in memory alone, `manual`, the
            \* providers and types whose global routes the administrator
            \* took over, `torn`, whether an operation was left half done,
            \* `partial`, whether the last start was, and `revived`, the
            \* providers that were updated after their deletion

vars == <<db, mem, todo, next, match, ops, faults, ghost>>

NoId == 0
NoRow == [none |-> TRUE]
Put(f, x, v) == [y \in DOMAIN f \cup {x} |-> IF y = x THEN v ELSE f[y]]
Drop(f, x) == Restrict(f, DOMAIN f \ {x})
Write(f, x, v) == IF v = NoRow THEN Drop(f, x) ELSE Put(f, x, v)

-----------------------------------------------------------------------------
(* The Load of each cached repository. A provider's version stands for its *)
(* contents; `ok` says that its factory accepts its configuration.         *)

LoadProviders(d) == Restrict(d.providers, {p \in DOMAIN d.providers : ~d.providers[p].deleted})

Flagged(d) == {c \in DOMAIN d.configs : d.configs[c].flag}

(* The rows are read by id, and each one that is flagged replaces the last. *)
LoadDefault(d) == IF Flagged(d) = {} THEN NoId ELSE Max(Flagged(d))

StrategyRows(d, project) == {s \in DOMAIN d.strategies : d.strategies[s].project = project}

Entry(d, s) == [id |-> s, type |-> d.strategies[s].type]

LoadStrategies(d) ==
    [project \in {d.strategies[s].project : s \in DOMAIN d.strategies} |->
        Entry(d, Max(StrategyRows(d, project)))]

(* InitAdapters visits the providers in any order, and the first one that  *)
(* its factory refuses ends the visit.                                     *)
InitAdapters(providers) ==
    LET ok == {p \in DOMAIN providers : providers[p].ok}
    IN  {[p \in s |-> providers[p].version] :
            s \in IF ok = DOMAIN providers THEN {ok} ELSE SUBSET ok}

Reloaded(d) ==
    {[providers |-> LoadProviders(d), routes |-> d.routes, configs |-> d.configs,
      default |-> LoadDefault(d), strategies |-> LoadStrategies(d),
      adapters |-> a] : a \in InitAdapters(LoadProviders(d))}

-----------------------------------------------------------------------------
(* What each cached repository does to its cache after a statement.        *)

CacheProvider(m, id, row) ==
    [m EXCEPT !.providers = Write(@, id, IF row.deleted THEN NoRow ELSE row)]

CacheRoute(m, id, row) == [m EXCEPT !.routes = Write(@, id, row)]

(* Mutant of CacheConfig: a default that is deleted stays the default. *)
CacheConfigKept(m, id, row) ==
    [m EXCEPT
        !.configs = Write(@, id, row),
        !.default = IF row = NoRow THEN @ ELSE IF row.flag THEN id
                    ELSE IF @ = id THEN NoId ELSE @]

(* A new default takes the flag from the object of the one before it, not  *)
(* from its row.                                                           *)
CacheConfig(m, id, row) ==
    LET flagged == row # NoRow /\ row.flag
        unflagged == IF flagged /\ m.default \in DOMAIN m.configs
                     THEN [m.configs EXCEPT ![m.default].flag = FALSE] ELSE m.configs
    IN  [m EXCEPT !.configs = Write(unflagged, id, row),
                  !.default = IF flagged THEN id ELSE IF @ = id THEN NoId ELSE @]

(* Mutant of CacheStrategy: a strategy that moves stays where it was. *)
CacheStrategyMoved(m, id, row) ==
    LET at == {p \in DOMAIN m.strategies : m.strategies[p].id = id}
    IN  [m EXCEPT !.strategies =
            IF row # NoRow THEN Put(@, row.project, [id |-> id, type |-> row.type])
            ELSE Restrict(@, DOMAIN @ \ at)]

(* The entry of a strategy is found by its id, and a strategy that is not  *)
(* cached is taken for that of project 0 when it is deleted.               *)
CacheStrategy(m, id, row) ==
    LET at == {p \in DOMAIN m.strategies : m.strategies[p].id = id}
        others == Restrict(m.strategies, DOMAIN m.strategies \ at)
    IN  [m EXCEPT !.strategies =
            CASE row # NoRow -> Put(others, row.project, [id |-> id, type |-> row.type])
              [] row = NoRow /\ at # {} -> others
              [] OTHER -> Drop(@, Global)]

Cached(m, s) ==
    CASE s.table = "providers" -> CacheProvider(m, s.id, s.row)
      [] s.table = "routes" -> CacheRoute(m, s.id, s.row)
      [] s.table = "configs" -> CacheConfig(m, s.id, s.row)
      [] s.table = "strategies" -> CacheStrategy(m, s.id, s.row)

(* A row that is in neither cache nor table is not found. *)
GetDefault(m, d) ==
    IF m.default # NoId THEN m.default
    ELSE IF Flagged(d) # {} THEN Min(Flagged(d)) ELSE NoId

GetConfig(m, d, c) == IF c \in DOMAIN m.configs \cup DOMAIN d.configs THEN c ELSE NoId

GetStrategy(m, d, project) ==
    IF project \in DOMAIN m.strategies THEN {m.strategies[project].type}
    ELSE IF StrategyRows(d, project) = {} THEN {}
    ELSE {d.strategies[Min(StrategyRows(d, project))].type}

-----------------------------------------------------------------------------
(* Match. The cached routes are shared objects, which a later edit changes *)
(* under it. Which providers are cooling is Executor's subject.            *)

Filtered(m, client, project) ==
    LET of(p) == {r \in DOMAIN m.routes : /\ m.routes[r].enabled
                                          /\ m.routes[r].client = client
                                          /\ m.routes[r].project = p}
        own == IF project = Global THEN {} ELSE of(project)
    IN  Restrict(m.routes, IF own = {} THEN of(Global) ELSE own)

Strategy(m, d, project) ==
    LET own == IF project = Global THEN {} ELSE GetStrategy(m, d, project)
    IN  IF own # {} THEN own
        ELSE IF GetStrategy(m, d, Global) # {} THEN GetStrategy(m, d, Global)
        ELSE {"priority"}

(* Each route with its provider, its adapter and its retry configuration. *)
Matched(m, d, routes, default) ==
    LET runs == {r \in DOMAIN routes :
                    routes[r].provider \in DOMAIN m.providers \cap DOMAIN m.adapters}
        config(r) == GetConfig(m, d, routes[r].config)
    IN  [r \in runs |->
            [provider |-> routes[r].provider,
             version |-> m.providers[routes[r].provider].version,
             adapter |-> m.adapters[routes[r].provider],
             config |-> IF config(r) = NoId THEN default ELSE config(r)]]

Idle == [pc |-> "idle", routes |-> <<>>, default |-> NoId, gone |-> {}, matched |-> <<>>]

Gone(d) == {p \in DOMAIN d.providers : d.providers[p].deleted}

MatchStarts(client, project) ==
    /\ match.pc = "idle"
    /\ match' = [Idle EXCEPT !.pc = "filtered", !.routes = Filtered(mem, client, project),
                             !.default = GetDefault(mem, db), !.gone = Gone(db)]
    /\ UNCHANGED <<db, mem, todo, next, ops, faults, ghost>>

(* The second half reads providers and adapters under the router's lock. *)
MatchEnds ==
    /\ match.pc = "filtered"
    /\ match' = [match EXCEPT !.pc = "matched", !.routes = <<>>, !.default = NoId,
                     !.matched = Matched(mem, db, match.routes, match.default)]
    /\ UNCHANGED <<db, mem, todo, next, ops, faults, ghost>>

(* Its caller has the result. *)
MatchReturns ==
    /\ match.pc = "matched"
    /\ match' = Idle
    /\ UNCHANGED <<db, mem, todo, next, ops, faults, ghost>>

-----------------------------------------------------------------------------
(* The steps of an operation. A statement is followed by the write to its  *)
(* cache; one whose error is not heeded only loses that write.             *)

Statement(table, id, row, heed) ==
    [do |-> "statement", table |-> table, id |-> id, row |-> row, heed |-> heed]

Begin(steps) ==
    /\ todo = <<>> /\ ops < MaxOps
    /\ todo' = steps
    /\ ops' = ops + 1

Head1(kind) == todo # <<>> /\ Head(todo).do = kind

(* The update of a deleted provider's row leaves it deleted. *)
RowWritten(s) ==
    IF s.table = "providers" /\ s.id \in Gone(db) THEN [s.row EXCEPT !.deleted = TRUE]
    ELSE s.row

Executed ==
    /\ Head1("statement")
    /\ LET s == Head(todo) IN
        /\ db' = [db EXCEPT ![s.table] = Write(@, s.id, RowWritten(s))]
        /\ todo' = <<[s EXCEPT !.do = "cache"]>> \o Tail(todo)
        /\ ghost' = [ghost EXCEPT !.drifted = @ \ {<<s.table, s.id>>}]
    /\ UNCHANGED <<mem, next, match, ops, faults>>

(* An edit of a route and the removal of an adapter come before their      *)
(* statement, and stay when it is refused.                                 *)
ChangedBefore(s) ==
    \/ s.table = "routes" /\ s.row # NoRow /\ s.id \in DOMAIN mem.routes
    \/ s.table = "providers" /\ s.row.deleted

Refused ==
    /\ Head1("statement") /\ faults < MaxFaults
    /\ LET s == Head(todo) IN
        /\ todo' = IF s.heed THEN <<>> ELSE Tail(todo)
        /\ ghost' = [ghost EXCEPT !.torn = TRUE,
                 !.drifted = IF ChangedBefore(s) THEN @ \cup {<<s.table, s.id>>} ELSE @]
    /\ faults' = faults + 1
    /\ UNCHANGED <<db, mem, next, match, ops>>

CacheWritten ==
    /\ Head1("cache")
    /\ mem' = Cached(mem, Head(todo))
    /\ todo' = Tail(todo)
    /\ UNCHANGED <<db, next, match, ops, faults, ghost>>

(* RefreshAdapter: the adapter stays what it was if its factory fails. *)
Refresh ==
    /\ Head1("refresh")
    /\ mem' = LET s == Head(todo) IN
               [mem EXCEPT !.adapters = IF s.row.ok THEN Put(@, s.id, s.row.version) ELSE @]
    /\ todo' = Tail(todo)
    /\ UNCHANGED <<db, next, match, ops, faults, ghost>>

RemoveAdapter ==
    /\ Head1("remove adapter")
    /\ mem' = [mem EXCEPT !.adapters = Drop(@, Head(todo).id)]
    /\ todo' = Tail(todo)
    /\ UNCHANGED <<db, next, match, ops, faults, ghost>>

(* An edit in place, of the cached object that a Match may hold. *)
Edited(f, id, row) == IF id \in DOMAIN f THEN Put(f, id, row) ELSE f

Edit ==
    /\ Head1("edit")
    /\ LET s == Head(todo) IN
        /\ mem' = [mem EXCEPT !.routes = Edited(@, s.id, s.row)]
        /\ match' = [match EXCEPT !.routes = Edited(@, s.id, s.row)]
    /\ todo' = Tail(todo)
    /\ UNCHANGED <<db, next, ops, faults, ghost>>

-----------------------------------------------------------------------------
(* Providers. *)

Keyed(f, p, ct) ==
    {r \in DOMAIN f : f[r].project = Global /\ f[r].provider = p /\ f[r].client = ct}

(* Any of the cached routes of a key, as their positions order them, or    *)
(* else any in the table.                                                  *)
FindByKey(p, ct) ==
    LET cached == Keyed(mem.routes, p, ct)
        found == IF cached # {} THEN cached ELSE Keyed(db.routes, p, ct)
    IN  IF found = {} THEN {NoId} ELSE found

Found(p, ct, r) == IF r \in Keyed(mem.routes, p, ct) THEN mem.routes[r] ELSE db.routes[r]

Native(p, ct) == [project |-> Global, client |-> ct, provider |-> p, enabled |-> TRUE,
                  native |-> TRUE, config |-> NoId]

(* The statements that give a provider the global routes of its types, for *)
(* the route r that was found.                                             *)
RemoveRoute(p, ct, r) ==
    IF r # NoId /\ Found(p, ct, r).native
    THEN <<Statement("routes", r, NoRow, FALSE)>> ELSE <<>>

(* A route that was cached is edited in place.                             *)
AddRoute(p, ct, r, new) ==
    LET row == [Found(p, ct, r) EXCEPT !.native = TRUE]
        edit == [do |-> "edit", id |-> r, row |-> row]
    IN  IF r = NoId THEN <<Statement("routes", new, Native(p, ct), FALSE)>>
        ELSE IF Found(p, ct, r).native THEN <<>>
        ELSE IF r \in Keyed(mem.routes, p, ct)
        THEN <<edit, Statement("routes", r, row, FALSE)>>
        ELSE <<Statement("routes", r, row, FALSE)>>

RoutesRemoved(s, found) ==
    LET removed == SetToSeq(s.old \ s.types)
    IN  FlattenSeq([i \in DOMAIN removed |->
            RemoveRoute(s.id, removed[i], found[removed[i]])])

RoutesAdded(s, found) ==
    LET added == SetToSeq(s.types \ s.old)
    IN  FlattenSeq([i \in DOMAIN added |->
            AddRoute(s.id, added[i], found[added[i]], next.routes + i - 1)])

Finds(s) ==
    {found \in [(s.old \ s.types) \cup (s.types \ s.old) -> 0 .. next.routes - 1] :
        \A ct \in DOMAIN found : found[ct] \in FindByKey(s.id, ct)}

(* Mutant of SyncProviderRoutes: the routes of removed types are kept. *)
SyncAdding ==
    /\ Head1("sync")
    /\ \E found \in Finds(Head(todo)) : todo' = RoutesAdded(Head(todo), found)
    /\ next' = [next EXCEPT !.routes = @ + Cardinality(Head(todo).types \ Head(todo).old)]
    /\ UNCHANGED <<db, mem, match, ops, faults, ghost>>

SyncProviderRoutes ==
    /\ Head1("sync")
    /\ \E found \in Finds(Head(todo)) :
          todo' = RoutesRemoved(Head(todo), found) \o RoutesAdded(Head(todo), found)
    /\ next' = [next EXCEPT !.routes = @ + Cardinality(Head(todo).types \ Head(todo).old)]
    /\ UNCHANGED <<db, mem, match, ops, faults, ghost>>

(* Mutant of Saved: the adapter is made before the row is written. *)
SavedAdapterFirst(id, row, old) ==
    <<[do |-> "refresh", id |-> id, row |-> row],
      Statement("providers", id, row, TRUE),
      [do |-> "sync", id |-> id, types |-> row.types, old |-> old]>>

Saved(id, row, old) ==
    <<Statement("providers", id, row, TRUE),
      [do |-> "refresh", id |-> id, row |-> row],
      [do |-> "sync", id |-> id, types |-> row.types, old |-> old]>>

RoutesFit == next.routes + Cardinality(ClientTypes) <= MaxRows + 1

CreateProvider(types, ok) ==
    LET id == next.providers
        row == [types |-> types, ok |-> ok, version |-> ops + 1, deleted |-> FALSE]
    IN  /\ id <= MaxRows /\ RoutesFit
        /\ Begin(Saved(id, row, {}))
        /\ next' = [next EXCEPT !.providers = id + 1]
        /\ UNCHANGED <<db, mem, match, faults, ghost>>

(* A deleted provider is found in its table, where it stays deleted, and   *)
(* is cached again.                                                        *)
UpdateProvider(id, types, ok) ==
    LET old == IF id \in DOMAIN mem.providers THEN mem.providers[id] ELSE db.providers[id]
        row == [types |-> types, ok |-> ok, version |-> ops + 1, deleted |-> FALSE]
    IN  /\ id \in DOMAIN mem.providers \cup DOMAIN db.providers
        /\ RoutesFit
        /\ Begin(Saved(id, row, old.types))
        /\ ghost' = [ghost EXCEPT !.revived = IF id \in Gone(db) THEN @ \cup {id} ELSE @]
        /\ UNCHANGED <<db, mem, next, match, faults>>

Deleted(id, routes) ==
    [i \in DOMAIN routes |-> Statement("routes", routes[i], NoRow, FALSE)]
    \o <<[do |-> "remove adapter", id |-> id],
         Statement("providers", id, [db.providers[id] EXCEPT !.deleted = TRUE], TRUE)>>

DeleteProvider(id) ==
    /\ id \in DOMAIN db.providers
    /\ Begin(Deleted(id, SetToSeq({r \in DOMAIN mem.routes : mem.routes[r].provider = id})))
    /\ UNCHANGED <<db, mem, next, match, faults, ghost>>

-----------------------------------------------------------------------------
(* Routes, configurations and strategies. *)

Key(row) == IF row.project = Global THEN {<<row.provider, row.client>>} ELSE {}

SameKey(old, row) == Key(old) = Key(row) /\ old.native = row.native

TakenOver(keys) == [ghost EXCEPT !.manual = @ \cup keys]

(* Any route is created, of a provider there is or not, and beside others  *)
(* of its key.                                                             *)
CreateRoute(row) ==
    LET id == next.routes
        additional == /\ ~row.native /\ row.provider \in DOMAIN mem.providers
                      /\ Keyed(mem.routes, row.provider, row.client) = {}
    IN  /\ id <= MaxRows
        /\ Begin(<<Statement("routes", id, row, TRUE)>>)
        /\ next' = [next EXCEPT !.routes = id + 1]
        /\ ghost' = TakenOver(IF additional THEN {} ELSE Key(row))
        /\ UNCHANGED <<db, mem, match, faults>>

(* Any field of a route is changed, in the cached object.                  *)
UpdateRoute(r, row) ==
    /\ r \in DOMAIN mem.routes
    /\ Begin(<<[do |-> "edit", id |-> r, row |-> row], Statement("routes", r, row, TRUE)>>)
    /\ ghost' = TakenOver(IF SameKey(mem.routes[r], row) THEN {}
                          ELSE Key(mem.routes[r]) \cup Key(row))
    /\ UNCHANGED <<db, mem, next, match, faults>>

DeleteRoute(r) ==
    /\ r \in DOMAIN mem.routes
    /\ Begin(<<Statement("routes", r, NoRow, TRUE)>>)
    /\ ghost' = TakenOver(Key(mem.routes[r]))
    /\ UNCHANGED <<db, mem, next, match, faults>>

(* A configuration of any id is created, updated or deleted. *)
SaveConfig(c, flag) ==
    /\ c \in DOMAIN mem.configs \cup {next.configs} /\ c <= MaxRows
    /\ Begin(<<Statement("configs", c, [flag |-> flag], TRUE)>>)
    /\ next' = [next EXCEPT !.configs = IF c = @ THEN c + 1 ELSE @]
    /\ UNCHANGED <<db, mem, match, faults, ghost>>

DeleteConfig(c) ==
    /\ c \in DOMAIN mem.configs
    /\ Begin(<<Statement("configs", c, NoRow, TRUE)>>)
    /\ UNCHANGED <<db, mem, next, match, faults, ghost>>

CreateStrategy(project, type) ==
    LET id == next.strategies
    IN  /\ id <= MaxRows
        /\ Begin(<<Statement("strategies", id, [project |-> project, type |-> type], TRUE)>>)
        /\ next' = [next EXCEPT !.strategies = id + 1]
        /\ UNCHANGED <<db, mem, match, faults, ghost>>

(* The strategy that is updated is found by its project, which is not 0,   *)
(* and the one that is deleted by its id.                                  *)
UpdateStrategy(project, row) ==
    /\ project # Global /\ project \in DOMAIN mem.strategies
    /\ Begin(<<Statement("strategies", mem.strategies[project].id, row, TRUE)>>)
    /\ UNCHANGED <<db, mem, next, match, faults, ghost>>

DeleteStrategy(id) ==
    /\ id < next.strategies
    /\ Begin(<<Statement("strategies", id, NoRow, TRUE)>>)
    /\ UNCHANGED <<db, mem, next, match, faults, ghost>>

-----------------------------------------------------------------------------
(* The process stops at any moment; what was not written is lost.          *)
Restart ==
    /\ faults < MaxFaults
    /\ faults' = faults + 1
    /\ mem' \in Reloaded(db)
    /\ ghost' = [ghost EXCEPT !.torn = @ \/ todo # <<>>, !.drifted = {},
                     !.partial = DOMAIN mem'.adapters # DOMAIN mem'.providers]
    /\ todo' = <<>> /\ match' = Idle
    /\ UNCHANGED <<db, next, ops>>

(* A provider and its routes, and a default configuration. *)
Init ==
    /\ \E types \in TypeSets :
        LET served == SetToSeq(types) IN
        db = [providers |-> [p \in {1} |-> [types |-> types, ok |-> TRUE, version |-> 0,
                                            deleted |-> FALSE]],
              routes |-> [r \in DOMAIN served |-> Native(1, served[r])],
              configs |-> [c \in {1} |-> [flag |-> TRUE]],
              strategies |-> [s \in {} |-> NoRow]]
    /\ mem \in Reloaded(db)
    /\ next = [providers |-> 2, routes |-> Cardinality(DOMAIN db.routes) + 1,
               configs |-> 2, strategies |-> 1]
    /\ todo = <<>> /\ match = Idle
    /\ ops = 0 /\ faults = 0
    /\ ghost = [drifted |-> {}, manual |-> {}, torn |-> FALSE, partial |-> FALSE,
                 revived |-> {}]

Ids == 1 .. MaxRows
StrategyTypes == {"priority", "weighted_random"}

(* Bounds: a route is posted enabled and without a retry configuration,    *)
(* and a PUT names one field.                                              *)
Posted == [project : Projects, client : ClientTypes, provider : Ids, enabled : {TRUE},
           native : BOOLEAN, config : {NoId}]

Changes(row) ==
    {[row EXCEPT !.enabled = ~@], [row EXCEPT !.native = ~@]}
    \cup {[row EXCEPT !.project = project] : project \in Projects}
    \cup {[row EXCEPT !.client = ct] : ct \in ClientTypes}
    \cup {[row EXCEPT !.provider = p] : p \in Ids}
    \cup {[row EXCEPT !.config = c] : c \in Ids \cup {NoId}}

AdminBegins ==
    \/ \E types \in TypeSets, ok \in BOOLEAN :
          CreateProvider(types, ok) \/ \E p \in Ids : UpdateProvider(p, types, ok)
    \/ \E id \in Ids : DeleteProvider(id) \/ DeleteRoute(id) \/ DeleteConfig(id) \/ DeleteStrategy(id)
    \/ \E row \in Posted : CreateRoute(row)
    \/ \E r \in DOMAIN mem.routes : \E row \in Changes(mem.routes[r]) : UpdateRoute(r, row)
    \/ \E c \in Ids, flag \in BOOLEAN : SaveConfig(c, flag)
    \/ \E project \in Projects, type \in StrategyTypes :
          \/ CreateStrategy(project, type)
          \/ \E to \in Projects : UpdateStrategy(project, [project |-> to, type |-> type])

AdminGoesOn ==
    \/ Executed \/ Refused \/ CacheWritten \/ Refresh \/ RemoveAdapter \/ Edit
    \/ SyncProviderRoutes

MatchGoesOn ==
    \/ \E client \in ClientTypes, project \in Projects : MatchStarts(client, project)
    \/ MatchEnds \/ MatchReturns

Next == AdminBegins \/ AdminGoesOn \/ MatchGoesOn \/ Restart

Spec == Init /\ [][Next]_vars

-----------------------------------------------------------------------------
(* The state stays within its types, and the tables hold what was numbered. *)
TypeInvariant ==
    /\ \A t \in DOMAIN db : DOMAIN db[t] \subseteq 1 .. next[t] - 1
    /\ DOMAIN mem.adapters \subseteq DOMAIN db.providers
    /\ DOMAIN mem.providers \subseteq DOMAIN db.providers
    /\ mem.default \in DOMAIN mem.configs \cup {NoId}
    /\ \A r \in DOMAIN db.routes : /\ db.routes[r].client \in ClientTypes
                                   /\ db.routes[r].project \in Projects
    /\ match.pc \in {"idle", "filtered", "matched"}

Quiet == todo = <<>>

(* Where the caches may differ: a deleted provider was updated, a provider *)
(* has a configuration that no adapter is made of, two rows are flagged, a *)
(* project has two strategies, or a statement was refused after the change *)
(* in memory that it was to keep.                                          *)
Ordinary ==
    /\ ghost.revived = {}
    /\ \A p \in DOMAIN mem.providers : mem.providers[p].ok
    /\ ~ghost.partial
    /\ Cardinality(Flagged(db)) <= 1
    /\ \A project \in Projects : Cardinality(StrategyRows(db, project)) <= 1
    /\ ghost.drifted = {}

(* Between two operations of the administrator, whichever of their         *)
(* statements were refused, Match returns what it would after a restart:   *)
(* no cache has lost or kept anything that a request could notice.         *)
SameAfterRestart ==
    Quiet /\ Ordinary =>
        \A m \in Reloaded(db), client \in ClientTypes, project \in Projects :
            LET of(x) == <<Matched(x, db, Filtered(x, client, project), GetDefault(x, db)),
                           Strategy(x, db, project)>>
            IN  of(mem) = of(m)

(* Between two operations, none of which was left half done, each provider *)
(* has one global route for each of its types, no native one for another   *)
(* type, and none once it is deleted, except for a type whose global route *)
(* the administrator deleted, moved, marked or unmarked as native, or made *)
(* native, a second time or for no provider.                               *)
RoutesFollowProviders ==
    Quiet /\ ~ghost.torn =>
        \A p \in DOMAIN db.providers, ct \in ClientTypes : <<p, ct>> \notin ghost.manual =>
            LET routes == Keyed(mem.routes, p, ct)
            IN  /\ Cardinality(routes) <= 1
                /\ IF p \in Gone(db) THEN p \in ghost.revived \/ routes = {}
                   ELSE IF ct \in db.providers[p].types
                   THEN \E r \in routes : mem.routes[r].native
                   ELSE \A r \in routes : ~mem.routes[r].native

(* However a Match and an operation interleave, each matched route has a   *)
(* provider that was not yet deleted when the match began, or was updated  *)
(* since, and an adapter made of that provider's contents or, while a new  *)
(* one is on its way or cannot be made, of earlier ones.                   *)
MatchedFits ==
    match.pc = "matched" => \A r \in DOMAIN match.matched :
        LET x == match.matched[r]
        IN  /\ x.provider \notin match.gone \/ x.provider \in ghost.revived
            /\ x.adapter <= x.version

=============================================================================
