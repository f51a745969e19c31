# Cursor-OpenAI gateway: TLA+ models and proofs

The gateway under `src/` serves the OpenAI HTTP API on top of the Cursor Agent
SDK. Its hard part is *hold mode*: a whole OpenAI tool loop - several HTTP
requests - is one Cursor run, which stays alive between the requests while the
client executes the tools. Such a run owns a concurrency slot and the mutex of
its session over several requests, and stream messages, parked tool calls,
three timers, disconnects and continuations race for it. Around it are the
sessions (which agent answers which conversation, and what it already knows),
the turn itself with its streamed answer, the catalog of models, and the
configuration that a dashboard and a CLI change while the process serves,
rebinds, restarts or crashes. All of these are modelled, checked with TLC, and
proved about with TLAPS. Source paths below are relative to `src/src/`, unless
they begin with `public/` or `bin/`, which are beside it.

- [Inventory](#inventory)
- [Modules and how they correspond to the code](#modules)
- [Runs: what is checked, within which bounds](#runs)
- [Fairness](#fairness)
- [What the runs found](#findings)
- [Proofs](#proofs)
- [Not modelled](#not-modelled)
- [Observations about the code](#observations)

## Inventory

### Concurrency primitives - `utils/concurrency.ts`

*State.* `Mutex.tail`, the last promise of a chain; `Semaphore.available` and
`Semaphore.queue`. *Operations.* `Mutex.acquire` / `runExclusive`,
`Semaphore.acquire` and the release closures. *Used by* the orchestrator (one
semaphore, one mutex per session) and `runTurn`. *Hard:* neither object records
an owner; exclusion and order rest on what happens without an `await` in
between. *Correct when* at most one call owns a mutex, the counter agrees with
who owns slots, service is first come first served, and nobody waits for ever.

### Held tool gate - `cursor/heldToolGate.ts`

*State.* `parked`, `pendingBatch`, `waiters`, `closed`, one gate per run.
*Operations.* `park` (the `execute()` callback the SDK calls), `waitForBatch`
(a coroutine with a settle delay), `provideResults`, `close`. *Hard:* calls
arrive before, while and after a batch settles, while the client works, and
while the run is torn down; a wakeup can fall between a test and a wait.
*Correct when* no call is lost, shown twice or left pending in a live run.

### Held-run manager - `cursor/heldRunManager.ts`

*State.* `held` (per agent), `byToolCallId`, and one `HeldRunState` per run: its
stream iterator, the outstanding `next()` promise, gate, accumulators, abort
listener, tool-result timer, `settled`. *Operations.* `start`,
`provideResultsAndContinue`, `pump`, `settle`, `teardown`, `forget`, `abandon`,
`shutdown`, two timers and the abort listener. *Interacts with* the
orchestrator (which passes `onRelease`), the gate, the SDK. *Hard:* every end of
a run races every other one; `next()` outlives the request that called it.
*Correct when* messages reach the client once and in order over several
requests, resources are kept while the run lives and are released once, and the
registries contain exactly the runs that wait for a client.

### Gateway orchestrator - `gateway/orchestrator.ts`, routes

*State.* the semaphore, the manager, and per request the two release flags.
*Operations.* `prepareGatewayTurn` (catalog, `detectHeldContinuation`, slot,
session, translation), `executeGatewayTurn` (mutex, new run or continuation),
`rememberGatewayTurn`; the routes add the disconnect listener and the last
`releaseSemaphore()`. *Hard:* a continuation takes neither slot nor mutex but
works under those of an earlier request; each failure must release exactly what
was taken. *Correct when* no slot or mutex is lost or given back twice, one
request at a time works on a run, and everybody is answered.

### Turn runner - `cursor/runController.ts`, `cursor/toolBridge.ts`

*State.* locals of one `runTurn` call: timer, abort flag, text, captured tool
call. *Hard:* in cancel mode the first captured call cancels the run while its
stream is read; timer, disconnect, captured call and the run's own end are there
at once. *Correct when* the outcome says how the turn really ended.

### Answers - the routes' sinks, `routes/*.ts`, `utils/sse.ts`

*State.* the events written so far; for `/v1/responses` the open text item and
the item numbers. *Operations.* the sink's callbacks, the end of the stream, the
plain body; four endpoints. *Hard:* the beginning of an answer comes from the
stream, its end from the outcome, and they must agree. *Correct when* an answer
has one end, tells the outcome, and each item is added and done once.

### Session manager - `cursor/sessionManager.ts`, `utils/hash.ts`

*State.* `entries`: key to agent, mutex, last messages and last use.
*Operations.* `resolve` (resume, explicit, automatic, fresh), `remember` (renames
automatic entries), `evict`, `evictAll`, `sweep`, `enforceCapacity`. *Hard:* each
`resolve` awaits between lookup and insertion; entries are evicted while turns
use their agents; the new suffix is computed before the mutex is granted.
*Correct when* two turns never run on one agent, and no agent misses messages it
is taken to know.

### Responses store - `cursor/responseStore.ts`

*State.* stored responses by id with owner, session, messages, last use.
*Operations.* `get`, `put`, TTL and LRU eviction. *Correct when* a chain keeps
its session and its messages, or is refused.

### Model catalog - `cursor/modelCatalog.ts`

*State.* a cache by API key, the fetch in flight. *Operations.* `list`, with TTL
and shared fetch; the pure core: listing models and variants as ids, and
resolving an id. *Hard:* ids, aliases and variant slugs overlap. *Correct when*
every listed id is served as what it was listed for, and the cache never goes
back.

### Configuration and lifecycle - `configStore.ts`, `index.ts`, `routes/admin.ts`

*State.* the live configuration, `settings.json`, the listener, the process.
*Operations.* validate, apply, rebind, roll back, persist, setup, keys, boot with
a fallback port, restart, shutdown. *Hard:* `update` awaits the rebind between
apply and persist, `setup` awaits Cursor; writes fail; the process ends in
between. *Correct when* the gateway listens where its configuration says, and a
boot brings the live configuration back.

### Dashboard and CLI - `public/app.js`, `bin/cursor-gateway.mjs`

*State.* the page's view, its admin key (in memory and in the browser's storage,
per origin), the configuration it shows, a pending navigation. *Hard:* answers
come in any order, and each kind of request writes the key; a port change takes
the gateway away from under the page. *Correct when* the page's key works and
its address is the gateway's.

### Sequential and stateless parts

Middleware, request translation, activity log, health, embeddings, installers:
request filters, formatting and bounded counters. See `PROJECT.json`,
`components`.

*How they interact.* A route calls `prepareGatewayTurn`, which asks the catalog,
detects a continuation (run manager), takes a slot (semaphore) and resolves a
session (session manager); `executeGatewayTurn` takes the session's mutex and
calls `runTurn` or the run manager, which call the SDK and the route's sink back;
timers and the connection's `close` event call into runs at any time. The admin
API changes the configuration that all of them read; the dashboard and the CLI
are its clients.

## Modules

| Module | Models | Role |
| --- | --- | --- |
| `FifoResource` | - | abstract: N units, served in order of arrival |
| `Semaphore` | `Semaphore` of `concurrency.ts` | implements `FifoResource` |
| `Mutex` | `Mutex` of `concurrency.ts` | implements `FifoResource`, one unit |
| `HeldToolGate` | `heldToolGate.ts` | operators on the gate's variables |
| `ToolLoop` | - | abstract: one tool loop and what it owns |
| `HeldRun` | one run of `heldRunManager.ts` with its gate | implements `ToolLoop` |
| `Gateway` | `orchestrator.ts`, the route, the registries | many requests, runs, sessions |
| `Sessions` | `sessionManager.ts`, `hash.ts`, `responseStore.ts`, `rememberGatewayTurn` | many clients, agents, keys |
| `RunTurn` | `runController.ts`, `toolBridge.ts`, the answers of four endpoints | one turn, from send to the last event |
| `ModelRules` | the pure part of `modelCatalog.ts` | operators: list, look up, resolve |
| `ModelCatalog` | `ModelCatalog.list` | the cache and its fetches |
| `TurnPipeline` | - | composes `ModelCatalog`, `ModelRules` and `RunTurn` |
| `ConfigStore` | `configStore.ts`, `admin.ts`, `index.ts` | configuration, file, listener, process |
| `Dashboard` | `public/app.js` | a page, its key, its address; on top of `ConfigStore` |
| `Control` | `bin/cursor-gateway.mjs` | composes page, CLI, process and the outside |
| `MCConcurrency`, `MCGateway`, `MCSessions`, `MCTurnPipeline`, `MCControl` | - | instances for TLC |
| `MutexProofs`, `SemaphoreProofs`, `HeldRunProofs`, `GatewayProofs`, `SessionsProofs`, `TurnPipelineProofs`, `ControlProofs`, `ConcurrencyProofs` | - | theorems |

**JavaScript's run-to-completion is the unit of atomicity.** An action is the
code between two awaits, whole: with every synchronous call it makes. `phase`
in `HeldRun` and `pc` in `Gateway` name the await a request stands at. What can
be interleaved there is what the event loop can run there: timers, the abort
listener, `execute()` callbacks, other requests.

**Mutex.** An `acquire()` call is a ticket; `previous[k]` is the promise it
awaits, `resolved` the promises that are resolved. The variables are the code's;
owners and waiters are derived from them (`Owners`, `Waiters`).

**Semaphore.** `available` and `queue` are the code's; `holders` is a history
variable: whose `acquire()` promise was resolved and not released.

**HeldToolGate.** `waiter` is where the coroutine `waitForBatch` stands. `notify`
resolves a promise; the coroutine resumes in a step of its own (`Resume`), so
`park`, `close` and results can come in between. Batches are sets of calls.

**HeldRun.** `EnterPump`, `AfterLoop`, `Teardown`, `Discard` and `Settle` are the
manager's helpers, and the actions call them where the code does. The race of
the next stream item against the next batch is the choice between
`ConsumeMessage`, `StreamDone`, `StreamFails` (the promise rejects, and the catch
block discards the run) and `BatchReady`; an item that is there and a
batch that has returned can be taken in either order, since which promise
resolves first depends on the SDK. An async generator serves its `next()` calls in order,
so a `next()` promise is its number: `pendingNext` survives from one request to
the next as `state.pendingNext` does. `owned` is the pair mutex and slot, which
`onRelease` gives back together. `Emit`, `StreamEnds`, `RunEnds` and
`ModelCalls` are the SDK, modelled as freely as the code's use of it allows: it
may be silent for ever, emit after a cancel, or end in error at any time.

**Gateway.** A request walks through `prepareGatewayTurn`, `executeGatewayTurn`
and the route. It instantiates `Semaphore` for the slots (`Slots`); each
session's mutex is the queue of its `acquire()` calls, which `Mutex` implements
(`ImplementsFifoResource`). Gate and stream are reduced to their outcomes
(`PumpAsks`, `PumpDrains`, `PumpFails`), which `HeldRun` has in detail; registries, timers,
`settled` and the abort listeners are as in the code. `Macrotask` states that
timers and sockets are not served between `detectHeldContinuation()` and
`provideResultsAndContinue()`: only promise callbacks of other requests can run
there, and they can take the run (`Provide` has that branch). A rejected
`next()` leaves `runTurn` without `run.cancel()` or `run.wait()`: `PlainFails`
gives mutex and slot back while the Cursor run may go on, so that the next send
of the session may meet a busy agent (a second way to violate
`NoSendToBusyAgent`; the run `gateway_busy` shows whichever TLC finds first).

Three things are outside the code and are assumptions of the models:

- *When a disconnect is seen.* The route listens for `close` of the request
  before it calls `executeGatewayTurn`. Depending on the version of Node.js the
  event comes when the connection closes or is never of use for a request whose
  body was read. The models let the abort happen at any await or never.
- *EarlyAbort and TranslationThrows* are constants. They isolate two known
  defects (below): with them TRUE the violation runs exhibit the defects,
  with them FALSE the other properties are checked in a gateway without them.
- *Unwinding.* A pump whose run was torn down returns before the batch of the
  same agent's *next* run has settled (its gate is closed, so it waits at most
  for one settle delay that started earlier). Without it the late `forget()` of
  the old pump would drop the new run; the hazard at `heldRunManager.ts:326` is
  listed for that.

**Sessions.** A message is `<<text, n, image>>`, the n-th of its conversation, so
that equal conversations of two clients are equal values. The code does not
compare messages whole: `normalizeContent` keeps the first 64 characters of an
image URL, and `hashMessages` and `computeNewSuffix` compare what it returns.
The images of the model are those that look alike to it (data URLs of two
screenshots of one size agree that far); `Normalized` is a transcript without
them. `entries` and `responses` are sequences in the order of their
last use: the front is what the LRU evicts. `history` is what each Cursor agent
has really been told and said, against what its entry is taken to remember; an
agent id may have several SDK objects (`agents`), since a resume makes a new
one. `ResolveCached`, `ResolveMiss` and `Created` are the parts of `resolve`
before and after its await; `Created` sets the entry without another look at the
map, as the code does. `mixed` is a history variable: agents whose entry
`remember` stamped with a turn of another agent. Clients name their
conversation in the six ways the API offers (`mode`); clients of
`/v1/responses` may name a session in `metadata`, and may continue any stored
response, also another client's, in that one's session. The
concurrency slots are left to `Gateway`. Sessions and automatic sessions are
enabled, there is one API key and one model, and `maxCachedAgents` is fixed.

**RunTurn.** `pc` is the await a turn stands at: `send` (`agent.send()`), `race`
(the loop), `wait` (`run.wait()`), then the outcome and the route's end. The
race is the choice between `Message`, `ToolWins`, `StreamDone` and, for a
segment of a held run, `BatchWins`; `Timeout` and `Disconnect` cancel beside it.
The two ends differ. `runTurn` removes timer and listener when it leaves the
race (`Leave`), lets an abort or a timeout decide before the run's status
(`Classify`), and takes a rejected `run.wait()` for a failure unless it has
cancelled the run. `pump()` keeps its timer until its `finally`
and reads the signal itself, looks at both once, at the end of the race
(`SegmentCut`, the timer first), then swallows a rejection and asks the result for
"error" only (`Segment`, `RejectWait`). `Conclude` is the one `record()` with
the outcome; `Finish` the end of each of the four handlers.
`events` is the HTTP answer: a chunk, an item that is added, gets text, or is
done, and one end. `Chunk`, `ItemText`, `CallChunks`, `CallItems`, `CloseText`
and the `...End` operators are the four sinks; `open` and `nextItem` are the
Responses route's `textOpen` with its item, and `nextOutputIndex`. `Batches` is
what `waitForBatch` may return: any calls, in any order, each once.

**ModelRules, ModelCatalog, TurnPipeline.** A model id is a sequence of tokens
(what is between the hyphens), so that "continues the id of another model" and
"ends in `fast`" mean what they do in the code. `resolveModelSelection` and
`ModelList` follow the code's order of tests; they are functions, checked
against each other: whatever the list offers must be served as listed. What `find()`
looks for is the set of positions that pass its test, of which it returns the `Least`;
`Best` is the base that the nested loops of `parseVariantSelection` end with, and
`ModelList` keeps of all calls of `push()` the first one for each id. The definitions are
closed forms, without recursion, so that they can be proved about. `Unambiguous` names
what the code takes of a catalog (see [Proofs](#proofs)).
`ModelCatalog` numbers the catalogs as Cursor publishes them. In `TurnPipeline`
a request lists, resolves and runs while other callers list.

**ConfigStore, Dashboard, Control.** A request occupies a slot from the moment
it is sent until its answer is read. `Update`, `BindOk` and `BindFails` are the
parts of `ConfigStore.update` before and after `listenOnce()`; `Setup`,
`SetupVerified` and `SetupRejected` those of the setup around `Cursor.me()`.
`Persist` may fail, which the code only logs. `Exit` ends the process, also in
the middle of a write; what was not answered fails at the client. `port` stands
for port and host, `model` for every setting that only has a value. `unsaved`,
`overlapped` and `news` are history variables that name the exceptions of the
properties. The page writes `adminKey` and `stored` where `app.js` does; `Load`
is a page that is loaded anew, whose predecessor's requests go on without it. The
setup wizard ends at a page of its own (`view = "done"`), from which the user goes to
the dashboard. Each save that moves the port starts a timer of its own, hence
`leaving` is a set. The CLI's key is `--key` or else `GATEWAY_ADMIN_KEY`, which may be
any, or else the one in `settings.json` (`adminKeys`).

## Runs

| Run | Module, configuration | Question |
| --- | --- | --- |
| `concurrency` | `MCConcurrency`, `Concurrency.cfg` | do the primitives exclude, count, queue and serve? |
| `held_run` | `HeldRun`, `HeldRun.cfg` | does one run survive every race over its requests? |
| `gateway` | `MCGateway`, `Gateway.cfg` | are slots, mutexes and registries right across requests? |
| `gateway_live` | `MCGateway`, `GatewayLive.cfg` | is everybody answered, does every slot come back? |
| `sessions` | `MCSessions`, `Sessions.cfg` | are turns serial, and what does an agent know? |
| `turn_pipeline` | `MCTurnPipeline`, `TurnPipeline.cfg` | does the answer tell what was asked for and what happened? |
| `control` | `MCControl`, `Control.cfg` | do listener, configuration, file and page agree? |
| `held_run_early_abort` | `HeldRun`, `HeldRunEarlyAbort.cfg` | finding 1 |
| `held_run_partial` | `HeldRun`, `HeldRunPartial.cfg` | finding 2 |
| `gateway_busy` | `Gateway`, `GatewayBusy.cfg` | finding 3 |
| `gateway_translation` | `Gateway`, `GatewayTranslation.cfg` | finding 4 |
| `sessions_mixup` | `MCSessions`, `SessionsMixup.cfg` | finding 5 |

**`concurrency`**: `PrimitivesTypeOK`; `MutualExclusion`; `SemaphoreSound` (the
counter agrees with the owners, no slot is idle while somebody waits, nobody is
queued twice); `ImplementsFifoResource` and `SemaphoreIsFifo` (refinement of the
abstract resource, with its fairness); `SemaphoreServes` (every queued call is
served). Bounds: four calls of one mutex; four clients for two slots, so that two
of them queue and come again.

**`held_run`**: three tool calls (a batch of two and a late one, or three
batches, hence up to four requests) and two stream messages (before, between or
after batches). `DeliveredInOrder` and `FinalIsComplete`: each message is in
exactly one answer, in order, and a final answer comes after all of them, though
`next()` may have been called by an earlier request. `RegistryAgrees`,
`OwnedWhileAlive`, `ReleasedOnce`: registries, timer, slot and mutex against the
life of the run. `GateSound`, `CallsSurfacedOnce`: no call lost or shown twice.
`PendingCallResolved` (liveness): no `execute()` hangs in a live run.
`ImplementsToolLoop`: the run refines the abstract tool loop, with its fairness.

**`gateway`**: three requests, one or two sessions, one slot, up to two batches
per run; requests with and without tools, continuations with current and stale
batches, duplicated continuations. Three requests are what the races need: a run,
its continuation, and a rival for the slot, the mutex or the batch. Requests and
sessions are symmetric; no property of this run is a liveness property.
`SlotsAgree`, `NoSlotLost`, `NoMutexLost`, `LiveRunOwns`, `RegistriesAgree`,
`OneWorker`, `SettledIsFinal`.

**`gateway_live`**: the same with one batch per run and no symmetry (it is
unsound for liveness). `LiveInit` fixes which requests share a session and lets
at most one be plain. `EveryRequestAnswered` includes the case that the detection
of continuations before the acquire is there for: all slots are owned by runs that
wait for requests which would otherwise wait for a slot. `EverySlotReturns` follows each slot.

**`sessions`**: two clients of any two of the six kinds, two images that look
alike, one for each client, two requests each (or a tool loop), one eviction by hand
or by age, room for two entries; 7 million states. Two clients are
what a mix-up needs, a third adds nothing to a pair of turns; the second request
is the one that reads what the first has remembered; two entries let the
capacity evict an agent in use. `SerialTurns`: whoever reaches an agent reaches
its mutex, although entries are evicted, put back and resolved again.
`OnlyMixupsWithhold`: what a turn leaves out, its agent knows, at least with
another image that looks alike, unless `remember` has credited it with the turn of another;
evictions, branches, failed turns, tool loops and stale suffixes never lose
context. The exception for images is the code's (see [Observations](#observations));
`sessions_mixup` has one image, so that it shows the mix-up and nothing else.

**`turn_pipeline`**: a model with up to three parameters in the shapes Cursor
uses (none, Fast, Fast by default, reasoning, context), variants declared not at
all, alone, with neighbours or all, aliases that do and do not look like a Fast
variant, beside a model whose id continues the first one's; the first one is also the
configured default, which answers for unknown names; two published
catalogs and two callers; two text fragments and two tool calls. Two fragments
with a call between them are the smallest stream whose items alternate. The
catalogs meet only one kind of turn (they share no state with the rest of it).
`CatalogNeverGoesBack`, `ListedIsServed` (each listed id gets the model, the
parameters and the context length it was listed with), `FastContract` (Fast if it was
asked for, and not for ids, aliases and unknown names),
`StreamTellsOutcome`. `StopMeansFinished`: "stop" is said only after the
stream was read to its end and told whole, and by `runTurn` only of a run that
came to its own end; `pump()` does say it after a timeout, a disconnect or a rejection that
comes while it awaits `run.wait()`, which is why the second half exempts hold mode.
Every catalog of the run satisfies
`Unambiguous`, which TLC evaluates.

**`control`**: one page with two requests in flight and the CLI with one; two
ports, two keys, two values for any other setting; environments with and without
keys; at most four events (what users do, and stops and crashes; binds, writes
and boots are not counted). A race needs two requests, a change from elsewhere a
third event, a restart the fourth; five events, explored to 21 million states
without a violation, exceed the time of a regular run. `ListenerMatchesConfig`,
`Recoverable`, `PageKeyAgrees`, `PageFindsGateway`: each names its exceptions, which are the
ways the code does let them fall apart (see [Observations](#observations)).

`CHECK_DEADLOCK FALSE`: a gateway with all its requests answered stops, so does a
run or a turn that is over, a client after its last request, and a mutex whose
`MaxTickets` calls have all been released.

## Fairness

*Code.* A promise that is resolved is continued, and a timer that is armed
fires: weak fairness of the pump's actions, the gate's coroutine,
`SegmentTimeout`, `PlainTimeout`, `ToolTimeout` / `HeldRunExpires`, and of the
steps of `prepareGatewayTurn`.

*Outside.* `agent.send()` settles, the catalog and the session answer, a
cancelled run ends, and a run whose stream `runTurn` has read to the end ends.
The last two are needed: `pump` and `runTurn` await `run.wait()` with nothing
else that could wake them (`runTurn` has removed its timer by then). Nothing is
assumed of a run that is neither cancelled nor read to the end, of the model, or
of the client: the run may be silent and the client may stay away or keep its
connection open for ever. Timers alone must get the gateway out, and do.
Owners of the primitives release what they own: the gateway's own runs show that
they do.

`Sessions`, `TurnPipeline` and `Control` state safety only and assume no
fairness. That every request is answered is `gateway_live`'s subject; that a
restart ends and a login succeeds depends on the operating system and the user.

## Findings

1. `held_run_early_abort` - `start()` adds its abort listener after
   `await agent.send()` without looking at `signal.aborted`. A disconnect during
   the send is never noticed by the listener, `pump()` returns "cancelled"
   because "teardown already ran", and `onRelease` is never called, against its
   comment (`heldRunManager.ts:59`): the session's mutex stays locked.
2. `held_run_partial` - a continuation that brings part of a batch drops the ids
   of the rest from `byToolCallId`, against `heldRunManager.ts:105`.
3. `gateway_busy` - `teardown()` releases mutex and slot before the cancelled
   run is over, so the next request may send to a busy agent, against
   `README.md:146`.
4. `gateway_translation` - an exception while the turn is translated is answered
   while the request keeps its slot, against `orchestrator.ts:119`.
5. `sessions_mixup` - `remember()` stamps whatever entry is under the handle's
   key with the messages of the turn that ends, also when the entry has another
   agent by then (two first requests with one session id; an eviction during a
   turn; equal transcripts). The next request leaves out messages its agent
   never saw, against `sessionManager.ts:69-72`.

## Proofs

TLC shows the properties on small instances; the theorems hold for every value
of the constants.

| Theorem | Statement | Assumptions |
| --- | --- | --- |
| `MutexProofs!Exclusion` | `Spec => []MutualExclusion` | the module's |
| `MutexProofs!MutexIsFifo` | every step is a step of `FifoResource` | the module's |
| `SemaphoreProofs!Soundness` | types, exact counter, no idle slot, no double queueing | `Max \in Nat` |
| `SemaphoreProofs!SemaphoreIsFifo` | every step is a step of `FifoResource` | `Max \in Nat` |
| `ConcurrencyProofs!PrimitivesTypeCorrect` | `[]PrimitivesTypeOK` of both primitives together | `Max \in Nat` |
| `ConcurrencyProofs!SemaphoreIsSound` | `[]SemaphoreSound` of both primitives together | `Max \in Nat` |
| `HeldRunProofs!TypeCorrect` | `Spec => []TypeOK` | `Call` finite, `~EarlyAbort` |
| `HeldRunProofs!RegistryIsExact` | `Spec => []RegistryAgrees` | the same |
| `HeldRunProofs!OwnedUntilSettled` | `Spec => []OwnedWhileAlive` | the same |
| `HeldRunProofs!ResourcesAreReleasedOnce` | `Spec => []ReleasedOnce` | the same |
| `HeldRunProofs!GateLosesNoCall` | `Spec => []GateSound` | the same |
| `HeldRunProofs!CallsAreSurfacedOnce` | `Spec => []CallsSurfacedOnce` | the same |
| `HeldRunProofs!HeldRunIsToolLoop` | every step is a step of `ToolLoop` | the same |
| `HeldRunProofs!MessagesAreDeliveredInOrder` | `Spec => []DeliveredInOrder` | the same |
| `HeldRunProofs!FinalAnswerIsComplete` | `Spec => []FinalIsComplete` | the same |
| `GatewayProofs!TypeCorrect` | `Spec => []TypeOK` | `~EarlyAbort` |
| `GatewayProofs!SlotsStayRight` | `Spec => []SlotsAgree` | the same |
| `GatewayProofs!LiveRunsOwn` | `Spec => []LiveRunOwns` | the same |
| `GatewayProofs!MutexIsNeverLost` | `Spec => []NoMutexLost` | the same |
| `GatewayProofs!SlotIsNeverLost` | `Spec => []NoSlotLost` | and `~TranslationThrows` |
| `GatewayProofs!RegistriesStayExact` | `Spec => []RegistriesAgree` | `~EarlyAbort` |
| `GatewayProofs!OneRequestWorks` | `Spec => []OneWorker` | the same |
| `GatewayProofs!SettledRunsStaySettled` | `Spec => SettledIsFinal` | the same |
| `SessionsProofs!TurnsAreSerial` | `Spec => []SerialTurns` | the module's |
| `SessionsProofs!OnlyMixupsLoseContext` | `Spec => []OnlyMixupsWithhold` | the module's |
| `SessionsProofs!SessionsTypeOK` | `Spec => []TypeOK` | the module's |
| `TurnPipelineProofs!StopIsTrue` | `Spec => []StopMeansFinished` | the module's |
| `TurnPipelineProofs!PipelineStopIsTrue` | `PipelineSpec => []StopMeansFinished` | the module's |
| `TurnPipelineProofs!AnswerIsTheOutcome` | `Spec => []StreamTellsOutcome` | the module's |
| `TurnPipelineProofs!PipelineAnswerIsTheOutcome` | `PipelineSpec => []StreamTellsOutcome` | the module's |
| `TurnPipelineProofs!CatalogMovesForward` | `PipelineSpec => CatalogNeverGoesBack` | the module's |
| `TurnPipelineProofs!ListedIdsAreServed` | `PipelineSpec => []ListedIsServed` | the module's |
| `TurnPipelineProofs!FastIsKept` | `PipelineSpec => []FastContract` | the module's |
| `ControlProofs!ListenerIsConfigured` | `ControlSpec => []ListenerMatchesConfig` | the module's |
| `ControlProofs!ConfigurationIsRecoverable` | `ControlSpec => []Recoverable` | the module's |
| `ControlProofs!PageHasTheKey` | `ControlSpec => []PageKeyAgrees` | the module's |
| `ControlProofs!PageIsAtTheGateway` | `ControlSpec => []PageFindsGateway` | the module's |

*Assumptions of the modules* (`ASSUME`, evaluated by TLC on every run): the bounds
are numbers and the sets of calls, clients and keys are what the modules say of
them; in `ConfigStore` an environment gives every setting a value or `undefined`
and always a port, since `loadConfig()` has a default for it and throws otherwise;
in `Dashboard` a file that is imported, like one that is written, holds values of
settings and a valid port, since `validate` refuses any other; in `RunTurn` the
calls are finitely many.

`TurnPipeline` assumes of the catalogs that Cursor serves that their ids mean one thing
(`CatalogsAssumption`). The code takes this of Cursor's catalog without a check: it compares
strings, and the first match counts. `Unambiguous` has a conjunct for each
way in which two meanings of a name could meet. Each of these catalogs lacks one of
them only, and TLC finds `ListedIsServed` violated with it:

| Conjunct | What it says | A catalog without it |
| --- | --- | --- |
| `NamesDiffer` | no two models share an id or an alias, no alias is `auto` | `m` has the alias `b` and a later model the id `b`: listed for `m`, served by `b` |
| `NoNameIsSlug` | no id or alias is a slug of another one; a model may have its own Fast slug as an alias | `b` has the alias `m-high`, which is a variant of a later model `m`: listed for `b`, served by `m` |
| `TokensDiffer` | a value is one token, which stands for this value only; `fast` is boolean | the value `very-high` is listed but not understood; `high` of the second parameter that has it is served as the first one's; `m-fast` is listed but a `fast` without the value `true` is not understood |
| `VariantsAgree` | the variants set the parameters the default one sets, to declared values | a variant with an undeclared value is listed but not understood |

It does not fix how many models, aliases, parameters, values and variants there are, in
which order they come, or which variant is the default. `WellTyped` says only that
lists are lists and names are names.

*Mutex.* Exclusion is not inductive: nothing in the state says that the chain is a
queue. `IInv` adds that each call waits for the one before it and that the
resolved promises are the first ones, `0 .. m`; then the owner is call `m + 1` and
the waiters are the calls after it, which gives the refinement mapping in closed
form.

*Semaphore.* `IInv` is the conjunction of the properties with the finiteness of the set of
owners. The case that needs the conjunction is a release with a
queue: the counter ends where it was, so the served client must be new among the
owners, which is what the queue's soundness says. `ConcurrencyProofs` puts the two
invariants side by side for the composition that TLC runs: a step of one primitive
leaves the other alone.

*HeldRun.* `IInv` has one named conjunct per concern (`Promises`, `Registry`,
`Ownership`, `Endings`, `GateInv`, `Surfacing`), and the proof one lemma per action.
The argument: who settles a run under its pump leaves a trace (the timer's
flag or the aborted signal, `Endings`), so a pump that finds neither trace works
on a run that is not settled; only such a run is held and owns its resources
(`Ownership`); only a settled run has a closed gate, and in an open gate a batch
that was returned is still parked (`GateInv`), so the registry maps parked calls
only; each parked call is in exactly one of: shown, returned, pending
(`Surfacing`). `~EarlyAbort` is needed in `Endings`: finding 1 is its failure. TLC
has checked `IInv` on the instance of `held_run`. The refinement follows from
`Ownership` and from how a step may move `phase` and `settled` (`PhaseStep`).

*What a held run tells.* `Delivery`, a second invariant on top of `IInv`, is about the
texts of all answers so far and of the one in progress (`Parts`). `Tale`: they are in
the order of the stream, and together they are the messages before the `next()`
promise that is outstanding, whoever asked for it: a message that nobody has
consumed belongs to the promise that is handed to the next request, and can be told
by it only. `Ending`: a run whose result is awaited has drained its stream.
`Batches`: a batch that ends the race of a live run is not empty, since a
coroutine that settles has a parked call before it; without it an empty batch would
end the stream of an answer that still has text to come.

*Gateway.* The properties speak of runs that are alive, requests that pump and
registries; what makes them inductive is the notion of a *live* run: from its
`agent.send()` to the step that settles it. `Locked` and `Slotted` say that a live
run heads its session's mutex and owns a slot, and that nobody else who stands in a
mutex is past it; so there is one live run per session (`OneLive`). `Watched`: who pumps
a run without having settled it is the request the run listens to, and neither its
timer nor its disconnect has fired: hence one such request per run. `Registered`: while a run is held
nobody pumps in its session, which is why a `forget()`, keyed by agent, never
hits another run than its own - the proof uses `Unwinding` here and only here. `Tended`: a live run
is held or pumped. Every abnormal end is one lemma (`RunEnded`): whoever settles a
run, or discards it once more, keeps all of this; the semaphore's part is proved
by instantiating `SemaphoreProofs` (`Cap`). `~EarlyAbort` and `~TranslationThrows`
are needed where findings 1 and 4 are. TLC has checked `IInv` on the instance of `gateway`.

*Sessions.* The mutex lives in a cache entry that is evicted, renamed, replaced
and put back. `IInv` says that an agent object and its mutex are made together
(`Pairs`) and that no entry or handle ever pairs them otherwise (`Entries`,
`Handles`); then two turns on one agent stand in one queue, and only its head is
busy (`Locks`). No bound on clients, requests, evictions or the caches is used.

*What an agent knows.* `OnlyMixupsWithhold` speaks of the moment of a turn; what
carries it there is `Knowledge`: from its resolution on, a request splits into what
its agent had been told (`Kept`) and what it will be told (`news`), and an entry
remembers only what its agent has been told - both for agents that no other
agent's turn was stamped on (`mixed`), and both up to normalization (`Gist`, the set
of what messages are compared by), since `computeNewSuffix` sees no more of them. No agent forgets (`Grown`), so a handle that
was resolved long ago, or an entry that was evicted and comes back, stays right;
the one step that breaks it is `remember`, which is finding 5. `SessionsTypeOK`
needs `Typed`: a cache holds each key once, because keys are removed before they
are inserted, and response ids are those of earlier requests (`Numbered`).

*TurnPipeline.* `TurnInv` adds to `StopMeansFinished` what holds before the end:
the text is what was produced, no call is surfaced while the stream is raced, and
without hold mode the timer is in place only then; a turn that waits for its run
has surfaced a call, or drained its stream, or was cut. `Script` is the invariant behind
`StreamTellsOutcome`: at every moment the events written are the opening, the
fragments read so far, and the calls surfaced, in this order (`Plain`), on the
Responses route inside their items (`Itemized`: where each event stands, with the
text's item open from the first fragment to the calls); and from `Classify` on the
outcome's content and calls are the ones of the script (`Logged`). The proof has a
lemma for each way a script grows (`PlainDelta`, `ItemFirst`, `ItemClosed`, ...), and one for
each end; that no event tells more than it should is `NoOtherPlace`, the inventory
of the places of a script. Texts, batches and the number of items are unbounded
there. `CatalogInv`: at most one fetch is in flight,
and what it will bring, or falls back to, is not older than what is cached, or
than what its callers saw. The two share no variable, so the composition adds
one step each.

*The id.* `Chosen`, the invariant behind `ListedIsServed` and `FastContract`, ties the selection
to the catalog: until the turn begins, it is what `resolveModelSelection` returns for
the requested id and the catalog Cursor serves. The properties do not say how the
selection came about, so they are not inductive. The rest is about
one catalog. A base that one understood token follows is the longest base that any
model has there (`SlugOfOneToken`), because a longer one would be the whole name or a name
that is a slug (`NoNameIsSlug`); so `parseVariantSelection` ends with that model and that
token. `DeltaSuffix`: a listed variant differs from the default in one
parameter, and its suffix decodes to this parameter's value (`TokensDiffer`).
`ServedVariant`: this variant is among those `findDeclaredVariant` accepts, and whichever
of them comes first has the same values (`VariantsAgree`). `EntryKinds` takes the list's
entries by kind, id, alias, variant and Fast, and each kind is one lemma (`ServedName`,
`ServedVariant`, `ServedFast`). For Fast, `FastSlugServed` shows that the last token of a slug is
among what is served, and `NoSlugServed` that a name that is no slug is resolved by
`selectionForModel` alone. TLC has checked `Chosen` on the instance of `turn_pipeline`.

*Control.* `ListenerMatchesConfig` says nothing of the time during a rebind, so it
is not inductive. `Rebinding` adds it: unless two have overlapped, one request at a
time waits for a port, its patch's port is the configured one, and it remembers
the bound one to fall back on. `Recoverable` needs `Stored`, that configuration and
file are well-formed, and of each step that it writes what it applied or leaves both alone
(`Keeps`).

*The page.* `PageKeyAgrees` and `PageFindsGateway` say something of a page that
waits for nothing; the invariant `Page` says what holds while it waits. `Talks`:
which requests it may be waiting for in which view, so that an answer meets the
view it was asked from (on the wizard's last page, none). `Keyed` and `Located`: an answer on its way still tells the
truth about the key or the port (`TellsKey`, `HasMoved`), or the change is in
`news`; and the page has the right key or address, or is about to read it.
`Outside` is what the gateway's, the CLI's and the process's steps mean to the page
(an answer appears and is true, a request is dropped, a change is news), proved
once for all of them; the page's own steps are then taken one by one.

Only model-checked: liveness and fairness (`PendingCallResolved`, the liveness
parts of the refinements, `SemaphoreServes`, `gateway_live`), which the prover does
not reach. Every safety property of the passing runs is a theorem. The instances
of TLC are still what shows that the properties are about states that occur, and what
breaks when the code is changed.

## Not modelled

- *Request translation, prompts, token estimates, usage, logging, SSE framing*:
  wording and numbers. That translating may throw is `TranslationThrows`.
- *Activity log*: a ring buffer and counters changed by one synchronous call
  each; `RunTurn` has the calls.
- *Middleware, health, validation, errors, embeddings*: stateless; the rate
  limiter is a library's.
- *The display part of the dashboard*: tables, charts, snippets, polling, the test
  chat's bubbles, and what is in form fields: whole-section saves may overwrite
  what another page changed, a hazard no property covers.
- *Parsing and output of the CLI, installers, packaging*: I/O.
- *What Cursor does with a run nobody awaits*, after a crash or an early return.
- *`shutdown()` with several held runs*: `HeldRun` has one run's teardown by it,
  `Control` the process that ends; their composition adds only that the process
  does not wait for pumped runs.

What is left to do: `Sessions` and `Gateway` could be composed, so that the mutex
of a session is the one its cache entry has (two keys of a resumed agent give two
mutexes, and `held` is keyed by agent).

## Observations

Behaviour met while modelling that the properties except or the models assume.

*Runs.* In the test chat without streaming a disconnect does not cancel the run:
the route passes no abort signal. A second key for one agent id (`cursor_agent_id`
beside a session key) has a second mutex. In hold mode only what comes before the
end of the stream makes an answer a failure or "cancelled": when the segment timer
or a disconnect tears the run down while `pump()` awaits `run.wait()`, or the
promise is rejected, the error is swallowed (`heldRunManager.ts:302-305`), only the
status "error" is asked for, and the answer is "stop", logged as ok.

*Sessions.* The final answer of a tool loop is not remembered (`rememberGatewayTurn`
is called for the request that opened the loop, although `orchestrator.ts:372`
says that callers should not, and not for continuations), so the next turn repeats
messages to the agent; so do branches and cancelled turns. An eviction closes
an agent in use. An automatic entry that replaces another under the same
transcript leaves the replaced agent unclosed. Two screenshots of one size are the
same message to `computeNewSuffix` and `hashMessages` (`hash.ts:8`): of two
conversations that differ in nothing else, one may go on in the other's agent, which
has seen the other image and is not sent this one, although
`sessionManager.ts:69-72` says that exactly the new messages are found.

*Models.* `modelCatalog.ts:32-33` says that the resolver "always passes an explicit
`fast` param when the catalog exposes one". Not for a slug that names another parameter
and matches no declared variant: it is served with the parsed parameters only, so that
`m-300k`, where the catalog declares no variants, leaves Fast to Cursor's default. `m-fast-300k` takes an alias `m-fast` as its base, as the longest one,
and loses Fast: `FastContract` speaks of a slug's last token. What listing
and resolution take of Cursor's catalog is the table of `Unambiguous` under [Proofs](#proofs).

*Configuration.* A refused rebind rolls back port and host only; the other fields
of the patch stay applied and unsaved, although `configStore.ts:179-181` says that
a request cannot leave the configuration half-updated. Overlapping port changes
may leave `config.port` and the listener apart. The fallback port is "Deliberately
not persisted" (`index.ts:101-104`), but `persist()` writes the live configuration whole:
the next setting that is saved, whichever it is, makes it the port of the next boot. A key that was
cleared comes back from the environment at the next boot, since JSON drops
`undefined`. A torn `settings.json` means the environment's defaults. `SIGTERM`
during the delay of a restart is ignored; `/restart` during a shutdown is answered
"Restarting" and ignored.

*Dashboard.* A key saved with the settings form is not taken into the page's own
key: it gets 401 until a login. Regenerating or clearing the key leaves the shown
configuration as it was, and with it the snippets. An import, or the CLI, that changes
the port takes no page along, and neither does a save of a port the page was shown
while it was tried in vain. Two saves within 1.2 s that both move the port start two
timers (`app.js:968`), and the page may go to the first, by then deserted, address.
The model's port stands for the host too; a changed host of another form (an IPv6
address without brackets) is not modelled. The key is stored per origin: a new port asks for it
again. A login that is under way when the key is regenerated leaves the page with the old key.
