# go-claude-proxy: a verification project

TLA+ modules for the proxy in `../src` (module `github.com/Bowl42/maxx-next`): a
gateway that takes Claude, OpenAI, Codex and Gemini requests, matches them to
configured upstream *routes*, retries and falls back along them, keeps failing
providers out of the way with *cooldowns*, and records every request and every
attempt for the administrator's pages. TLC checks the modules on small
instances; TLAPS proves the theorems listed below for every value of the
constants.

## 1. The system

The internal packages are a server library. Its `main` is not in the
repository: `cmd/proxy/main.go` is a separate, stand-alone forwarder. So who
loads the caches, starts the periodic cleanup, or marks stale requests is
environment here: it may do so at any moment, and once at a start.

| Component | State | Operations | Talks to | What makes it correct |
|---|---|---|---|---|
| cooldown manager, failure tracker (`internal/cooldown`) | deadlines and reasons per (provider, client type), failure counts per reason; one mutex | RecordFailure, RecordSuccess, UpdateCooldown, SetCooldownDuration, ClearCooldown, CleanupExpired, LoadFromDatabase, IsInCooldown | two tables, under its lock | counts equal their table; what a restart loads is what memory said; a success forgives only its own key |
| sqlite cooldown and count tables | rows, unique per key; whole-second texts | Get, GetAll, Upsert, Delete, DeleteAll, DeleteExpired | driver | a row is the last deadline written |
| router (`internal/router`) | adapters per provider | Match; Init/Refresh/RemoveAdapter | cached repositories, cooldown manager | a project's own routes win; cooling providers are skipped |
| executor (`internal/executor`) | per request: route, attempt, status; goroutines that await a quota answer | Execute | router, adapters, audit tables, cooldown manager, hub | every exit settles the audit rows; retries bounded; nothing given up early; a provider cools for a cause |
| audit tables (`sqlite/proxy_request.go`, `proxy_upstream_attempt.go`) | a row per request and per attempt | Create, Update, MarkStaleAsFailed, ListCursor, GetProviderStats | database | a verdict is given once and matches the attempts |
| cached repositories (`repository/cached`) | a map in front of each table | Create, Update, Delete, Get, Load | table first, map second, no lock over both | map equals table when all is quiet |
| admin service and handlers | none of their own | provider life cycle, routes, cursor pages | repositories, router, cooldown manager | routes and adapters belong to providers that exist; pages skip nothing |
| proxy handler | none | session lookup, Execute, error answer | client adapter, session cache, executor | one session per id; one answer per request |
| websocket hub, log writer | 100-message channel, client set | run, Broadcast*, Write | every goroutine that logs or executes | a stalled client must not stop the proxy |
| custom adapter | none | Execute: one HTTP call, stream loop | upstream, converters | errors classified; stream ends reported |
| antigravity adapter | token cache; quota lookups in the background | Execute: endpoints, 401 refresh, signature retry, stream or collect | Google endpoints | bounded tries; one valid token |
| Claude streaming (antigravity) | open block, signatures, start and stop flags | ProcessGeminiSSELine, EmitForceStop | adapter | well-formed event sequence for any chunking |
| signature caches | maps with a time to live | cache, get | request transformation | a signature returns to the call it came with |
| converters | TransformState from chunk to chunk | request, response, stream chunk | adapters | well-formed event sequences, indices once each |
| client adapter, usage, pricing, transforms | none | pure functions | - | their reference definitions |

**Hard parts.** Requests run concurrently and meet in the cooldowns. A client
may leave between any two context checks. Database errors are logged and
ignored. A crash leaves rows behind. Late quota answers act on a cooldown that
may have changed since. Deadlines are kept to the nanosecond in memory and to
the second in the tables. An answer reaches the client through two or three
state machines whose events must nest. A conversation comes back whole with
every request, through another converter each time. An administrator's
operation is a dozen statements and cache writes, and the router reads between
any two of them. `PROJECT.json` lists the hazards, each at its line.

## 2. Plan

Done, in this order:

1. `CooldownPolicy`, `CooldownService` (abstract), `Cooldown`,
   `CooldownProofs`: what the router's decisions rest on.
2. `RequestLifecycle` (abstract), `Executor` with the router's Match,
   `ExecutorProofs`: the proxy's main loop.
3. `ClaudeEvents` (abstract), `ClaudeStreaming`, `ClaudeStream`: an answer of
   the antigravity provider on its way to a Claude client. `SequenceLemmas`
   and `ClaudeStreamProofs`.
4. `ConverterStreams`, `CustomAdapter`, `CustomAdapterProofs` and, on top of it,
   `CustomMessageProofs`: an answer of a custom provider on its way to a client
   of any format, through the twelve response converters.
5. `AntigravityAdapter`, `AntigravityProofs`: calls that share a token, two
   endpoints and the quota.
6. `AdminRouting`, `AdminRoutingProofs`: the administrator's operations on the
   tables, the caches and the adapters, against the router.
7. `RequestConverters`, `AntigravityRequest`, `Conversations`: what providers
   read of a conversation, through the twelve request converters and the
   antigravity transformation with its memory of signatures.

Left, in the order of what it would add:

- proofs: the properties of `Conversations`.
- `WebSocketHub`: the bounded channel, a stalled client and the log writer.
- cursor pages against inserts (section 5 says what goes wrong there).

How the modules meet: `Cooldown` implements `CooldownService`, of which
`Executor` keeps whether a key cools. `Executor` takes an adapter's return as
an outcome; `CustomAdapter` and `AntigravityAdapter` are the two adapters, and
`OutcomeFits` and `OutcomeOfLast` say which outcomes they come back with.
`ClaudeStream` is what `AntigravityAdapter` does with an answer it accepts.
`AdminRouting` provides the routes and adapters `Executor` has as constants.
`Conversations` is the request's way in, over many requests of one client,
`CustomAdapter` and `ClaudeStream` the answer's way out.

## 3. Modules

**`CooldownPolicy`** holds the constants of the cooldown modules and the
strategies of `policy.go`. A policy is a record of kind, base and cap in
ticks, because every strategy is linear in these. `DefaultPolicies` is the
code's table in seconds.

**`CooldownService`** is what a caller may rely on: a key cools until a
deadline; a failure with a deadline replaces it; one without is counted and the
policy's duration for that count sets it; a success forgives exactly its key; a
clear releases a provider or one client type; counts are forgotten only where
nothing cools or after the retention; a restart keeps counts and invents no
deadline. `trusted` turns false with the first refused statement, after which
nothing is promised.

**`Cooldown`** is the manager with both tables. `cooldowns`, `reasons`,
`failureCounts` are the Go maps (an absent entry is -1, Unknown, 0);
`dbUntil`, `dbReason`, `dbCount`, `dbLast` the rows. One action per method,
because the mutex covers each method with its statements. An action picks the
set of statements that fail in it. Details kept on purpose: `Upsert` looks only
at rows that have not expired; `ClearCooldown` of a provider resets only the
counts of the empty client type; `CleanupExpired` removes entries, then rows,
then stale counts, then reads memory back; `LoadFromDatabase` parses deadlines
as the driver hands them over (`DriverKeepsText`).

**`RequestLifecycle`** is what the audit rows promise: a request row opens
once and settles once; attempts follow one another; none follows a successful
one; the request is COMPLETED exactly when its last attempt is; a process lets
go of a request only when all its rows are settled; rows a crash left are
buried as FAILED.

**`Executor`** is `Execute` and `Match`. `pc` names the place between two
steps; a step ends where the code writes, asks the cooldown manager, waits or
looks at the context. `candidates` are the sorted routes `Match` has not looked
at; `matched` its result; `routeIdx` and `attempt` the two loop counters.
`attempts` holds for each attempt the route, what the adapter came back with,
the status in memory and the status in the row. The deferred function runs on
every way out, in two steps. The intermediate updates of the request row, which
rewrite IN_PROGRESS, change nothing a property sees and are part of the step
they follow. An adapter's answer is an outcome: its kind, whether it is
retryable, the client type it names, whether its deadline is ahead, whether a
quota lookup goes on behind it, and whether it wrote to the client. Both
adapters return nil or a `*ProxyError`, so the branch for other errors cannot
be reached and is not modelled. Of `CooldownService` only whether a key is
cooling is kept; deadlines lapse, are lifted by late answers, or are cleared at
any time. A restart keeps any subset of them, which covers what `Cooldown` does.
Looking at the context, creating the attempt's row and calling the adapter are
three steps (`CheckContext`, `CreateAttempt`, `CallAdapter`): a client may leave
and the process may crash between any two, so an adapter may be called for a
client that has left, as in the code.

**`ClaudeEvents`** is what a Claude client may rely on when it reads a
stream: a start, blocks numbered without a gap and one at a time, a thinking
block's signature last in it, the stop reason, the stop, and nothing after. A
message cannot end that was not begun.

**`ClaudeStreaming`** holds the translation of Gemini lines into these events
as operators on `ClaudeStreamingState`: text, thoughts, calls, images and
groundings, with the signatures that trail them; the collector that folds the
events back into one message; and the translation of a whole response. Texts
and signatures are the number of the part they arrived with, 0 if there is none.
What a chunk says of a web search is a list of queries and the links: the stream
keeps the first query and the newest links, each until a chunk names another
(`Captured`), the whole response tells all the queries.
**`ClaudeStream`** is the two loops that drive them (`handleStreamResponse`,
`handleCollectedStreamResponse`) with an upstream that sends any lines in any
order, again after it has finished, and may stop anywhere, and a client that may
leave. `WellFormed` is the refinement: the reader's `phase` and `index`, folded
from the events it has read, behave as `ClaudeEvents`, as long as the message
was begun and the upstream has sent nothing but `[DONE]` since it finished
(`orderly`); section 5 says what is read otherwise.

**`ConverterStreams`** has one operator for each of the twelve stream
translations on their `TransformState` and one for each of the twelve whole
ones, as the registry holds them. **`CustomAdapter`** is `Execute` of the custom
provider around them: connection, statuses, the loop over the lines, the error
events, and every exit with its outcome. The stand-alone forwarder in
`cmd/proxy` runs the same loop for OpenAI upstreams and Claude clients.

**`AntigravityAdapter`** is `Execute` of the antigravity provider: `call` holds
the locals of each concurrent call, `cache` the token they share without a lock
over check, refresh and write, `age` what each token is worth by now (`stale`:
the cache drops it, a minute before it ends; `revoked`: only the upstream
knows), `quota` the background query of each call and endpoint.

**`AdminRouting`** is one administrator's operation at a time, as the sequence
of statements and cache writes (`todo`) that handler, service, cached
repository and table make of it, each statement of which may be refused, and a
restart between any two. `match` is a Match that reads routes, then adapters,
between any of these steps. A POST makes any route, of a provider there is or
not and beside others of its key; a PUT changes any field of the cached object,
the project, client type, provider and native mark included. `FindByKey` may
then find any of several. `ghost` remembers what the code cannot undo, and which
keys the administrator's own route operations took over (`manual`).

**`RequestConverters`** has the twelve request converters. A message is a role
and its parts in every format; a part is something said, under the number of
its turn and place; a call has a name (`ref`) that its result refers to. Where
a converter tells a content that is a string from one that is a list of parts,
`lists` says which the client wrote: Codex lists are copied with the part types
of Codex (`foreign`: no provider but Codex knows them), and tool results
written as lists are emptied on the way to Codex and from OpenAI.
**`AntigravityRequest`** is `TransformClaudeToGemini` and the pass over
signatures after it, with the three process-wide memories of signatures as a
record `caches`. **`Conversations`** lets a client and its models talk: each
request carries the whole history as the client kept it and goes, translated,
to some provider; answers of the antigravity provider are remembered in
`caches`, under the model version they name, if they name one; restarts and
expiries empty them.

The `MC` modules give the constants of the runs. `MCCooldown` also
compares `DefaultPolicies` with the table of `DESIGN.md` 5.2 for eleven
failures, as an assumption TLC evaluates. Definitions marked "Mutant of" are
plausible bugs with which each property was seen to fail; nothing uses them.

## 4. Runs

| Run | Question | Bounds |
|---|---|---|
| `cooldown` | Do the counts equal their table, is no active row stale, does one clean cleanup heal what a refused statement left, and is the service implemented? | 1 provider with its 2 keys, 3 reasons, clock to 3 with 2 ticks a second, counts to 2, one call with a refused statement |
| `executor` | Are the audit rows settled and consistent on every exit, is every route given its retries, does every request end, is the life cycle implemented? | 1 request, 2 routes (1 and 0 retries), success, retryable, final error and panic; one crash, one refused write |
| `executor_shared` | Does a provider ever cool for a client type none of whose requests failed there? | 3 requests: 2 of one client type (one in a project with its own route), 1 of another on the same provider; shuffled routes, an undeployed provider |
| `streaming` | Whatever lines an answer comes in and wherever it breaks off, is it a well-formed message with content and signatures in order, streamed, collected or whole? | up to 3 parts of 7 shapes in up to 3 lines, of any kinds and in any order |
| `converted` | In every pair of formats, does the client read the answer once, in open blocks, ended once, as the whole translation has it, and does the outcome fit? | 14 pairs (without the swapped ones), up to 3 parts |
| `antigravity` | Does a call ever send a token it was refused, or come back with another outcome than its last answer's, and does it come back? | 2 calls, 2 tokens |
| `routing` | Are the caches what a restart would load, the routes those of the providers, and does a Match between any two steps fit together? | 2 client types, 2 projects, 2 operations, 1 refused statement or restart, 5 rows a table; a route is posted enabled and without a retry configuration, a PUT changes one field |
| `conversations` | Is what was said in the request, in order and once, with results at their calls, and can a model that was thinking go on? | 5 turns, 4 client formats, all routes, contents as strings and as lists, 1 restart |
| `cooldown_restart`, `cooldown_upsert`, `executor_written`, `converted_swapped` | One documented promise each that the code does not keep; see section 5. | as above or smaller |

*Why the bounds are enough.* The manager treats keys independently, apart from
the sweep of a clear over one provider's keys: one provider with both of its
keys shows it. Three clock values with two ticks a second put a deadline
before, in and after the current second. A second failure reaches the cap and
makes a count differ from one. One refused statement per behaviour is
enough to separate memory and table, and the rest of the behaviour lets them
drift. In `Executor` one request has no interplay with itself but through its
own program, so crashes, panics and refusals are checked with one; what
requests do to each other goes through `cooling` and `updates`, which the three
requests of `executor_shared` exercise without faults. One retry and one route
without any give each branch of the two loops a way in and out.

In `streaming` three parts are the shortest answer in which a signature waits
across another part and meets the next signature; three lines let the finish
come with a part, after it, or after a cut. In `converted` three parts give
text, thought and call in any order the upstream's format allows, with one
block opened, left and opened again. In `antigravity` two calls are enough for
one to refresh while the other is refused, and two tokens for a newer token to
be discarded by the refusal of an older one. In `routing` two operations are
enough for one to work on what the other, or its refused statement, left
behind. In `conversations` five turns are question, answer with calls, results,
answer, and one more request that carries both answers.

Deadlock checking is off in `executor*`, since a proxy whose requests have all
returned has nothing to do, and in `conversations`, where the turns are bounded.
In `cooldown` a further operation is always possible; the other modules have a
disjunct for having finished; there deadlock is checked.

**Environment.** `streaming`: lines come in any order, and again after a
finish; calls without arguments and signed images are in the operators and not
among the parts of the run. What is promised of content and signatures is
promised of upstreams that send nothing but `[DONE]` after a finish
(`orderly`). `converted`: an OpenAI upstream thinks at most once, then
answers, then calls. `antigravity`: "404" stands for the statuses that only
move on to the next endpoint, "500" for the retryable ones and for a 429 that
names no exhausted resource. `routing`: one administrator, one operation at a
time (so that a delete and an update of a provider never overlap); positions,
cooling, sessions and names are left out. `conversations`: clients replay all
of an answer, all but the signatures of calls, or no thoughts; thoughts of
Antigravity are signed with long signatures, those of OpenAI and Codex with
made-up short ones, those of Gemini not at all; a memory expires only between
requests; each model is a family of its own; an answer names the version its
model was asked for by, another, or none. What a client writes as a list is
written so throughout one request. The output of a Codex item is a string, as
`types_codex.go:25` has it.

**Fairness.** `executor`: `Step(r)`, the Go scheduler runs every goroutine and
timers fire, so a request at a label of its own goes on. `Return(r)` on a
provider in `Timed`: the antigravity client has a 600 s timeout. `Return(r)`
once the client has left: both adapters build their requests with the request's
context. `Restart`: somebody starts the process again. `Patience`, in
`FairSpec` only: an upstream answers or its client gives up. Nothing is assumed
of the client otherwise, of quota answers, of lapses or of crashes.
`streaming`: the loop goes on while it has events to write or sees its client
gone, and the stream ends, since the adapter's client has a timeout of 600 s.
`converted`: only that the server notices a client that left and that its
context ends the attempt; nothing of the upstream, for which the custom adapter
has no timeout, so a call ends for sure only when its client leaves.
`antigravity`: each call's own steps (15 s for a refresh, 600 s for a request)
and the quota query (10 s). `routing` and `conversations` state none.

## 5. Where the code and its documents differ

- *Restart loses cooldowns* (`cooldown_restart`). The reload scans DATETIME
  columns into strings; the driver gives times, which `database/sql` renders as
  RFC 3339; the layout expected is another; the error is dropped. With
  `DriverKeepsText = TRUE` the reload is right. This rests on the
  behaviour of the driver, which is outside the repository; the other
  repositories scan the same column type into `sql.NullTime`.
- *A cooldown over an expired row is not stored* (`cooldown_upsert`).
- *An error event forwarded to the client is retried* (`executor_written`).
- *The response converters of Codex and Gemini are registered for each other's
  direction* (`converted_swapped`): both pairs drop every chunk.

Met while modelling, kept in the models as the code has it, and without a run
of their own:

- Cooldown manager. Clearing a provider keeps its failure counts: the reset
  that follows is of the counts under the empty client type alone
  (`manager.go:215`, and `Release` of the service with it), though the comment
  above it says all, so the next failure of a client type goes on from the old
  count.
- Executor. An adapter is called for a client that has left since the context
  was looked at. `errors.go:29` and `:42` mean all client types by an empty one,
  and the antigravity adapter (`adapter.go:932`) counts on it; `handleCooldown`
  falls back to the client type of the request (`executor.go:458`), so requests
  of other types are still sent to the provider whose quota is gone.
  `CoolingIsEarned` says of this only that no key cools without a failure of
  its own client type.
- Timeouts. `design.md:994` describes timeouts the custom adapter's client
  (`adapter.go:131`) does not have.
- Custom adapter and converters. An answer that ends early or breaks off is a
  success. Whether a request asks for a stream is read from its body only. A
  write to a client that has just left may be blamed on the provider.
  OpenAI to Codex ends a stream twice, at the finish and at `[DONE]`. Gemini to
  OpenAI sends thoughts as text; Gemini to Claude sends thoughts into the text
  block and drops calls. OpenAI to Claude puts thoughts that come after text on
  the text block's index (`openai_to_claude.go:566`), text after a call into a
  block that was stopped, and passes a second `<think>` as text; a tag split
  over two chunks is not recognised, and a `</think>` before a `<think>` makes
  `extractThinkTags` slice out of bounds. The properties name these exceptions
  (`EndsTwice`, `ShownKinds` and the like) or bound the upstream's answers.
- Antigravity. After a refused signature the body is stripped of its thinking
  and not sent: the `continue` (`adapter.go:317`) is the endpoint loop's, so the
  next endpoint gets the body that was refused, and the second attempt of
  `adapter.go:76` is never made. A second 401 leaves the refused token cached. The quota channel
  of a 429 is dropped when the next endpoint is tried. A quota of less than
  one percent counts as exhausted. OpenAI clients always fail with a
  conversion error. An error line parses as a chunk without content and is
  dropped. A streamed image that has a signature is taken for a signed empty
  text and not delivered. A waiting signature is lost when a whole response
  has an image or an empty unsigned thought after it. Of several search
  queries the stream tells the first and the whole response all
  (`claude_streaming.go:680`, `response.go:363`). An answer that names its
  model by a dated version is not taken for one of that model, and its
  thoughts are sent back as text. A Claude stream may end without having
  begun: cut before its first chunk it is closed by a stop reason and a stop
  alone (`claude_streaming.go:548`). It may go on after its stop: a second
  finish, or any further chunk, still writes events
  (`claude_streaming.go:336`). `FORWARDING.md:264` to `:282` shows neither.
- Administration. An update that finds a deleted provider revives it in the
  cache (`service/admin.go:95`). A provider whose configuration its factory
  refuses keeps its old adapter, and stops `InitAdapters` at a restart, so
  that those behind it have none. Making a configuration the default leaves
  two rows flagged. Deleting a strategy that is not cached drops the cached
  one of project 0. A route edited in place stays edited when its statement is
  refused. `AdminRouting` excuses exactly these in `Ordinary` and in `ghost`,
  and the client types of a provider whose global route the administrator
  made, moved, marked or deleted himself: a POST or a PUT may mark any route as
  native and name any provider and client type (`handler/admin.go:218`, `:252`),
  so a native route need not follow its provider. Of a page after a cursor that is
  longer than the limit, the oldest rows are skipped for good
  (`proxy_request.go:108`).
- Conversations. Lists of a Codex client reach Claude and OpenAI with the part
  types of Codex, which they do not know (`codex_to_claude.go:59`,
  `codex_to_openai.go:58`), though `types_codex.go:22` has the content a string
  or a list. Tool results written as lists are emptied from Claude to Codex
  (`claude_to_codex.go:82`) and from OpenAI to the others. `StandsIn` names
  both. A signature of another model is sent on a call by way of the
  one signature for all (`transform_contents.go:187`), though the comment in
  `claude_request_postprocess.go:263` says signatures are checked across models.
  `flattenToolMessages` loses list content beside calls and at merges. Codex to
  Gemini, Gemini to Codex, Gemini to OpenAI, Gemini to Claude and OpenAI to
  Gemini name a result otherwise than its call; `KeepsNames` lists the pairs
  that keep names. Arguments of calls are cleaned with the cleaner for JSON
  schemas and lose keys such as `format` and `title`. A thought of another
  family is turned into text while thinking stays on.
  `PostProcessClaudeRequest`, `ProcessThinkingBlocks` and the second
  `CloseToolLoopForThinking` are never called, as is `handleNonStreamResponse`
  for Claude clients.

## 6. Proofs

Every theorem is of the specification itself, without bounds on the constants
other than the named assumptions of its module, which TLC evaluates on every
run of it. Each rests on an inductive invariant that says more than the
property; TLC checked those of `Executor` and `AdminRouting` as invariants of
the runs' instances before they were proved.

### Cooldown manager: `CooldownProofs`

For any providers, client types, reasons and policies that yield durations:

- `TypeCorrect`: `Spec => []TypeOK`, inductive as it stands.
- `CountsMirrored`: `[]CountsMirrorTable`. The strengthening also covers the
  process that is down, where memory is empty and the table is what the next
  load reads.
- `ActiveRowsCurrent`: the action property `ActiveRowsAreCurrent`. As long as
  no statement is refused, memory holds of every active row the deadline's
  second and the reason, or no deadline at all (`Agreed`, which needs that the
  clock only moves forward); a row gets to disagree only by a start that could
  not parse it, and no clear leaves such a row behind. With a driver that keeps
  the texts no row is ever stale.
- `TheServiceIsKept`: the refinement `ImplementsService`, one lemma per action.
  A load is a step of the service only if the rows it reads are whole, and a
  count that is deleted only if its row is the one memory has, so the
  invariant is `ServiceInvariant`: the two above, `RowsWhole` and `Precise`
  (an active row holds the second of memory's deadline).
- `CleanupMends`: the action property `CleanupHeals`. It needs none of that:
  a clean cleanup mends what any refused statements left.

### Executor: `ExecutorProofs`

For any finite set of routes and any requests, projects, strategies,
providers, client types, outcomes, crashes and refused writes:

- `TypeCorrect` and `CooldownsAreEarned` (`CoolingIsEarned`, whether the key
  cools at the failure or when its quota answer comes in later) share the
  invariant `IInv`. Per request it says where in the loops the request may stand
  given what it matched (`Positioned`), that its last attempt is on the current
  route and has the status its place calls for (`Tried`), and that it has a
  status exactly from `CreateRequest` on (`Recorded`).
  Of the gate it says that every key that cools, and every key a quota answer
  is still awaited for, was earned by a failure: without the second half the
  first is not inductive. `NextTrail` carries it across the steps of other
  requests: an attempt never changes its route and one that failed has failed
  for good.
- `EveryExitSettles` (`AuditSettled`) and `TheTrailLives`
  (`ImplementsLifecycle`, the refinement) rest on `AuditInvariant`: `IInv`, no
  request runs in a process that is down, and for each place of `Execute` what
  the request's and the attempts' statuses and rows are there (`Trail`,
  `Verdict`, `AttemptsWritten`, `RequestWritten`). An attempt before the last
  has failed, which is what makes "none follows a success" inductive; a row
  may lag behind memory only once a write was refused.
- `EveryRouteHasItsTries` (`NoRouteGivenUpEarly`) rests on `RetryInvariant`:
  the routes matched are distinct, attempts follow their order, the attempts on
  a route behind are its retries and one, those on the current route are as
  many as the counter says. Distinctness is what makes counting attempts by
  route count the tries of a visit.

### Sequences: `SequenceLemmas`

What a stream or a list of steps becomes is a fold over sequences of any
length. The library's induction theorems take a predicate as a parameter, which
no prover here can instantiate; `SetInduction` takes a *set* of numbers and
follows from the well-foundedness of their order, and `SequenceInduction` is
the same for sequences. With them the recursive functions of the models
(`FlattenSeq`, `FoldLeft`, the loop over the parts of a line) can be reasoned
about for any length.

### Claude streaming: `ClaudeStreamProofs`

For any shapes of parts and any numbers of parts and lines:

- `TheClientReadsAMessage`: the refinement `WellFormed`, of messages that were
  begun and upstreams that stop when they have finished; without either it is
  false (section 5). The invariant `WInv` relates the translator's
  open block, index and flags to the phase and index of a reader who has read
  all events made so far, and this for a reader who starts at any earlier
  event: the client has read only a beginning, and each further event must be
  a step for it.
- `ContentIsInOrder` (`ContentInOrder`), `SignaturesAreKept` and `StreamTyped`
  (`TypeInvariant`) share `AccountInvariant`: an account of the message, which
  says of the parts received what has been delivered, which sources wait, and
  that every signature was delivered, waits in the open thinking block or
  trails, in the order of their parts.
- `ContentIsInOrder` supposes that no part is an image with a signature, which
  the code does not deliver (section 5). `SignaturesAreKept` does not.
- `CollectedIsWhole` (`CollectedWhole`), under the same supposition. The
  collector's builders outlive the blocks and know no numbers, so that what its
  message says is what has been made only between blocks. `Gathers` says it at
  every event, by the phase of a reader there: the builders are empty, or one
  of them holds what the open block has said so far; `Chained` says that the
  translator's events come in an order that keeps this. `EndInvariant` adds who
  ends a message and with which reason.
- `TheTranslationsAgree` (`TranslationsAgree`): the stream, and the response
  `convertGeminiToClaudeResponse` makes of the same parts in one go, carry the
  same texts, thoughts and calls in one order, the same stop reason and,
  unless an image or an empty unsigned thought came, the same signatures. The
  whole response is that of the same parts with the first search query alone:
  of several, it tells all and the stream the first. The content is compared
  by way of what the parts say: `Carried` is what the whole translation's
  blocks and builders hold together, and each part adds what it says
  (`PartsCarried`). Signatures move at other moments than content, so
  `SignatureInvariant` compares them step by step: what the stream has
  delivered is what the whole translation has put into blocks, and the
  signature of the open thought and the trailing one wait in both (`Accords`),
  until the end delivers them in one order (`Full`). The theorem supposes that
  a call or an image has something to say, the name or the data without which
  it is neither. An image with a signature is no exception here: both
  translations drop it.

  Neither condition can go, as TLC shows on small instances: an image between
  two trailing signatures loses the first of them in the whole translation
  alone, and an empty call or image counts as content of the whole one alone.

### Custom adapter: `CustomAdapterProofs`, `CustomMessageProofs`

For any pairs of formats and answers of any number of parts:

- `AdapterTyped` and `OutcomesFit` (`OutcomeFits`) from `AdapterInvariant`:
  an error event is read before anything else and remembered until the exit
  that reports it, and a stream that failed has nothing left to read but it.
- `StreamsEndOnce` (`EndsOnce`) from `EndInvariant`: in each format, either no
  end has been written, the translation's state says so, and the upstream's
  end is still ahead (`StillOpen`), or the end is the last event and none of
  the lines left writes anything (`HasEnded`). It supposes that the two pairs
  of converters registered for each other's direction are not among `Pairs`,
  since these lose the end (section 5).
- `TextIsKept` (`TextKept`, under the same supposition) and
  `StreamSaysTheWhole` (`SameAsWhole`) from `TellInvariant`. Its invariant is
  an account of texts, thoughts and calls: what the client was told, joined to
  what the lines not yet read have to say (`ToCome`), is what all of the
  answer's lines say; once something was lost, what was told is a beginning of
  it. What lines have to say depends on the pair (`Heard` names the kinds its
  converter hears and passes on) and, for OpenAI's tags, on whether the
  translation is before, within or after them: `TextIn` and `ThoughtIn` read
  the rest of a text from each of these modes, and reading it in two pieces is
  reading it in one (`Regrouped`), so that it does not matter where a chunk
  ends. A call's arguments are passed on only after its start, hence
  `CallKnown`. The ends meet in two lemmas about whole answers: `LinesSay`,
  that an upstream's lines say what the parts of the answer say, and
  `WholeSays`, that the whole response of each pair says what its stream is
  due to say (`Due`). `OpenAITextRead` is where the order of OpenAI's parts
  enters: one thought, before all text, so that looking for the first closing
  tag of the whole text finds the one that ends the thought.
- `ReasonsMatchCalls` (`ReasonMatchesCalls`), of every pair of formats, from
  `ReasonsInv`. An upstream's lines come in stages (`Stage`: the opening, the
  content, why it ended, the end), and a line of a later stage is never
  followed by one of an earlier one (`Staged`), so that nothing is left to say
  of a call once the line that tells why the answer ended is read.
  `ReasonsInv` says so of the lines that are left, and of what the client was
  told that every reason in it is the answer's own (`Whys`) and that a reason
  was told only after all of the calls (`InAll`, from `TellInvariant`). A
  Claude upstream tells its reason one line before its end, so for its OpenAI
  clients the invariant also keeps that the reason read is the answer's
  (`ReasonKnown`). Upstreams whose streams carry no calls (those not among
  `Speakers`) never tell a reason that asks to run one.
- `OpenBlocksHold` (`OpenBlocksOnly`), of every pair of formats, from
  `BlocksInv`: what a Claude client was told fits (`Fitting`), and goes on
  fitting whatever is read next (`Going`). `Reads` gives a message that fits
  with the blocks it has started and those it has stopped, and `Suits` says
  which event it takes next. What keeps it going depends on the upstream. A
  Claude upstream's lines are passed on, so the client's message and the lines
  left make one that fits. For an OpenAI upstream the blocks started and stopped
  are those the converter's state knows of (`Account`): a thought, a text, and
  one for each call, whose indexes lie above the first two's and below
  `NextBlockIndex`, and are distinct (`Blocks`). That index is counted from the
  flags and the calls rather than kept, so it is right only because no thought
  or text comes after a call and moves it: lines with text are left only while
  no call was opened and nothing was stopped (`Later`, on the order `Staged`
  gives), and the tag that opens a thought only before any text. A Codex or
  Gemini upstream has one block: Codex's is open from `response.created` to
  `response.done`, Gemini's from the first chunk, when the state's `id` is set,
  to the finish. Gemini's thoughts are told in the block of its text, as the
  property grants.

### Antigravity adapter: `AntigravityProofs`

For any number of calls and tokens:

- `TypesKept` (`TypeInvariant`) and `RefusedNotSent` (`RefusedTokenNotSent`)
  from `TokenInvariant`: tokens about were issued, one on its way from its
  refresh to the cache is held by nobody else, and one refused to a call is
  neither in the cache nor on its way there, so that no call can pick it up
  again. Privacy of the new token is what keeps a refusal elsewhere from
  reaching it.
- `OutcomesAreOfLast` (`OutcomeOfLast`): at each place of a call, how its last
  answer and the loop's counters fit together.

### Administration: `AdminRoutingProofs`

For any client types, projects and numbers of rows, operations and faults:

- `AdminInvariant`: `AdminInv` holds always. What the caches and the tables
  agree on is true only between operations; in between it has to say where
  they differ, namely exactly where a cache write is still due, where an
  object was changed before its statement (`drifted`), or where a deleted
  provider was updated (`revived`). So the invariant speaks of the statements
  left: their shape (`Shaped`, which operation they are the rest of), what the
  first of them finds (`Heads`), that every cached row has a table row
  (`Founded`), the agreement itself, and what a Match that is under way holds.
- `AdminTyped` (`TypeInvariant`), `MatchesFit` (`MatchedFits`) and
  `RestartChangesNothing` (`SameAfterRestart`) follow from it.
- `RoutesFollow` (`RoutesFollowProviders`) rests on `RoutesInvariant`. While an
  operation removes, edits and adds routes one by one, the cached routes are
  those of neither the old types nor the new ones, so `RoutesInv` speaks of the
  routes there *will be* once the writes that are left are made (`Becomes`):
  one per key (`OneEach`), of providers there are (`Owned`), and for each
  provider what its types ask for (`Serves`), all three of the keys no route
  operation of the administrator took over (`manual`), while every field of a
  route he makes or changes is free. An update's sync is a plan of its
  own: until it runs the routes are those of the old types, which the step
  carries, and the types it will give are those of the row that is saved before
  it (`Planned`). Each step then either leaves the routes to be as they are (a
  statement moves to its cache write, an edit precedes its statement), or, where
  an operation begins and where a sync unfolds into its statements, changes them
  by exactly what the operation is for. Nothing is claimed once an operation was
  left half done (`torn`), as in the property.

### Only model-checked

`Conversations` is checked by TLC alone. Liveness, that is `RequestsSettle`,
`AnswerEnds`, `LeavingEnds` and `CallsReturn`, rests on fairness and is out of
the provers' reach. That policies yield durations is assumed of the constants
(`PolicyAssumption`) and evaluated for the policies of the runs.

## 7. Not modelled

- The hub and the log writer, the proxy handler and the race of two first
  requests to create a session: they change nothing a modelled part reads. That
  a stalled dashboard may block every writer is a hazard no property covers.
- Projects, sessions, settings, quotas and statistics: single statements, or
  reads. An import is a sequence of the creations that are modelled.
- The Gemini response handlers of the antigravity adapter copy lines; the Retry
  hints they read only bound a wait.
- Field by field JSON: system prompts, tool declarations and their schemas,
  sampling parameters, safety settings, model names, documents and redacted
  thinking of requests; identifiers and token counts of responses; prices.
- The client adapter, the usage extractor and pricing are pure functions with
  tests of their own. The length of a backoff is computed in floats, which TLA+
  does not have.
- Header filtering, static files, logging and the texts of durations, which no
  property here is about.
