# A verification project for the atomicmemory Python SDK

TLA+ models of the parts of `atomicmemory` that carry its own concurrent and
failure-prone logic, model-checked with TLC on small instances, with theorems
proved by TLAPS for every instance. `src/...` names files of the repository.

## 1. The system

The SDK is a client library. An application holds a client; the client routes
operations through a service to providers, each of which talks HTTP to a
backend. Nothing is persisted by the library itself but the SQLite key-value
cache. The components, their state, their operations and what makes them
correct:

| component | state | operations | correct when |
|---|---|---|---|
| `AsyncMemoryClient` | `_initialized`, `_init_error`, `_init_task` | `initialize`, `close`, operations, cancellation of any of them | one shared run; failures sticky, cancellations not; close wins over a pending run; nothing half-built is served |
| `AsyncMemoryService` | `_providers`, `_pipelines` | staged `initialize`, best-effort `close`, routed operations with hooks | commits all or nothing; every staged provider closed on failure; each item goes pre, provider, post, in order |
| `MemoryClient` | the same flags, `_init_lock` | the same, from threads | the same contract; lock released on every exit; Ctrl-C poisons nothing |
| `MemoryService` | the same maps | the same, synchronously | the same |
| provider base classes | `_initialized` | `_run_operation` | readiness and scope checked; one error class per cause |
| mem0 provider | HTTP client, background tasks | ingest with deferred inference, paged list | the deferred request is sent once, or logged; pages cover the list |
| atomicmemory provider | HTTP client, handle | ingest, search, paged list | pending ingests reported; pages cover the list |
| atomicmemory handle and its five route groups | the HTTP client of the provider | 30 calls: ingest, search, list, lifecycle, audit, lessons, agents, configuration | the core does what was asked, and results are labelled with the scope they are of |
| Hindsight provider | HTTP client | retain, recall, paged list | pages end; failed retain reported |
| key-value cache | dictionary, or a SQLite table | get, set with lifetime, lazy eviction, keys, size | nothing expired is returned, nothing alive is lost |
| aggregate client | three namespaces | construction, best-effort close | all three closed, first error kept |
| storage client | an HTTP client | put, get, content, stream, head, delete, verify | an error tells whether the request was carried out; an answer tells what the backend had |
| entities client | an HTTP client | profile, list, get, delete, attributes, history, settings, merge | the entity meant is the one addressed; only given settings are set |
| retry, events | none; listener lists | `with_retry`, `on`/`off`/`emit` | attempts bounded, last error raised; every listener called |
| chunking | none | windows over a text, groups of sentences | the text is covered, the loops end |
| semantic search, ranking | none | search, top k, rerank | the best are returned, each with its own score |
| model-facing tools, meta-fact filter | none | two tools, one filter | budget kept, every cut and every drop told |
| wire codec | none | encoders and decoders | what is encoded is accepted and comes back |
| registry, embeddings, URL helpers | none | tables and pure functions | not modelled |

Interaction: the client calls the service, the service calls factories of a
registry and then `initialize`, operations and `close` of the providers.
Application code runs inside all of these as factories, providers, hooks.
The hard behaviours are on the async side the interleaving of coroutines at
every await and the cancellation of any task, and on the sync side the
interleaving of threads around a lock that operations do not take, and
`KeyboardInterrupt`. `PROJECT.json` lists the single hazards, each at its line.

## 2. The modules

| module | models | extends |
|---|---|---|
| `AsyncMemoryService` | `AsyncMemoryService.initialize`/`close` between awaits | |
| `AsyncMemoryClient` | the client over it, any calls, any cancellation | `AsyncMemoryService` |
| `AsyncSerialLifecycles` | the client, new runs started only while no lifecycle call is in progress | `AsyncMemoryClient` |
| `SyncMemoryClient` | `MemoryClient` and `MemoryService`, threads and Ctrl-C | |
| `ServicePipeline` | the operations of both services: hooks, items, errors, reopening | |
| `KvCache` | both key-value adapters, several SQLite connections | |
| `KvCacheProofs` | the theorems about `KvCache` | `KvCache`, `TLAPS` |
| `HttpProvider` | the three async providers over HTTP, retried calls, deferred inference | |
| `HttpProviderProofs` | the theorems about `HttpProvider` | `HttpProvider`, `TLAPS` |
| `RestCalls` | what the calls of the REST namespaces have in common: requests lost, served late, cancelled | |
| `StorageClient` | the storage client over a backend with artifacts | `RestCalls` |
| `EntitiesClient` | the entities client over a backend with entities | `RestCalls` |
| `AtomicMemoryHandle` | the handle of the atomicmemory provider with its route groups, over the core | `RestCalls` |
| `AggregateClient` | the client of all three namespaces: construction, close | the three above |
| `AggregateClientProofs` | the theorems about `AggregateClient` and its namespaces | `AggregateClient`, `TLAPS` |
| `PythonValues` | `None`, shared by the modules below | |
| `ListWalk` | `list()` of the three providers, followed page by page | `PythonValues` |
| `Events` | the event emitter | |
| `Chunking` | windows and groups of chunking | `PythonValues` |
| `SemanticSearch` | search, top k and rerank over integer similarities | `PythonValues` |
| `ModelTools` | tools for a language model, meta-fact filter | `PythonValues` |
| `Algorithms` | one call of chunking, search, a tool or the filter | the three of them |
| `WireContract` | the v1 codec | `PythonValues` |
| `LocalParts` | the parts without shared state, one at a time | `ListWalk`, `Events`, `Algorithms`, `WireContract` |
| `LocalPartsProofs` | the theorems about `LocalParts` and what it is made of | `LocalParts`, `TLAPS` |
| `SyncMemoryClientProofs` | the theorems about `SyncMemoryClient`, with the refinement of the contract | `SyncMemoryClient`, `TLAPS` |
| `ServicePipelineProofs` | the theorems about `ServicePipeline` | `ServicePipeline`, `TLAPS` |
| `AsyncSerialLifecyclesProofs` | the theorems about `AsyncSerialLifecycles`, with the refinement of the contract | `AsyncSerialLifecycles`, `AsyncMemoryClientProofs` |
| `LifecycleContract` | what both clients promise, as atomic operations | |
| `AsyncMemoryClientProofs` | the theorems about `AsyncMemoryClient` | `AsyncMemoryClient`, `TLAPS` |
| `MC...` | instances for TLC | |

Operators whose comment begins with "Mutant of" are variants of the definition
below them with a plausible bug; no specification uses them. Each property of a
passing run is violated when one of them replaces its original, which shows that
the property depends on that piece of the code.

### Async

A coroutine runs without interruption up to its next await, so an action is the
code between two awaits. Every await may suspend, and any suspended coroutine
may run next. What corresponds to what:

* `run[r]` is one task of `_run_initialize`: its program counter, the
  configured names the loop has still to visit (`todo`, only those the registry
  has a factory for), whether a cancellation is requested and not yet delivered,
  and the exception its teardown will raise again. `inst[r][n]` is what became
  of the provider that run `r` built for the `n`-th config. `providers = r`
  means `_providers` and `_pipelines` are the staged dicts of run `r`; on the
  async side no await separates the two assignments.
* `initialized`, `initError`, `slot` are `_initialized`, `_init_error`,
  `_init_task`. An error is represented by the run that raised it.
* `call[c]` is the coroutine a caller task is suspended in. Calls that return or
  raise at once without assigning anything are no step.
* Cancellation of a waiter (`CancelWaiter`) runs the `finally` clause of
  `initialize()`; cancellation of a `close()` that waits for a run
  (`CancelJoiner`) cancels the run again, since it is awaited without a shield,
  and is then suppressed; cancellation of a `close()` that awaits a provider
  (`CancelCloser`) ends the loop, as `CancelledError` is no `Exception`.
* The teardown is `gather(..., return_exceptions=True)`: it ends when every
  `close()` has ended, and a cancellation that reaches it cancels those that
  have not.

A provider or factory is outside of the model but for the fact that its calls
return, raise, or are cancelled. `close()` of a provider that was closed already
leaves it closed.

`AsyncSerialLifecycles` adds two history variables (whether a close has acted
since the last run started, and which runs' close was itself cancelled) and
restricts one thing: a call that starts a new run begins only while no other
`initialize()` or `close()` is suspended. Everything else overlaps freely.

### Sync

`thread[t]` is the point a thread has reached. Steps under the lock are as fine
as an operation without the lock can see: each factory and provider call, and
each of the assignments of `_providers`, `_pipelines` and `_initialized`.
Operations read these three, one step each. `Interrupt` is `KeyboardInterrupt`
in the main thread at any point. Acquiring the lock with nothing to do is one
step. `served` and `hit` are history: whose providers the client last announced,
and which runs Ctrl-C struck while they were opened or closed.

### Operations and their hooks

`ServicePipeline` follows one operation through `ingest`, `search`, `get`,
`list` or `delete`. `call[c]` holds the provider instance and thereby the hooks
it looked up, the items it has to send (`items`, `at`), and two records of what
happened: `trace`, the hook and provider calls in order, and `results`. The
request the caller passed is 0, what a preprocess hook made of it is 1, 2, ...
`Continue` is the head of the loop: the next item goes into `_run_operation` of
the provider base class, which refuses it if the provider is closed or the scope
incomplete, and sends it otherwise. A request on the wire arrives when it likes,
also after its caller was cancelled or got an error. The two services have the
same control; that the sync one looks provider and pipeline up in two steps is
modelled in `SyncMemoryClient`. `package()` calls an extension of the provider
and nothing else, and is left out.

### Key-value cache

`KvCache` has both adapters; `adapter` says which one a behaviour is about. The
SQLite connections are in autocommit mode, so a SQL statement is one action and
`get`, `set`, `keys`, `size` and `vacuum_expired` are several: the row a `get()`
selected, or the clock a `set()` or a vacuum read, is carried in `call[u]` to the
next statement. Any later statement may raise (a database that stays locked).
The dictionary belongs to one thread, so each of its operations is one action.
The table is a file that outlives its connections; with `:memory:` every
connection has a table of its own. `seen` is history: which values each key had
alive since a call began. `has()` is `get()` with its answer compared to `None`,
`size()` counts what `keys()` lists, and `encrypt=True` raises before anything
else.

### Providers over HTTP

`HttpProvider` follows one asynchronous provider through opening, closing and
opening again, and calls that are in flight meanwhile. The three providers have
the same control, so `kind` only decides what differs: the handle of
atomicmemory, its 202 for an ingest that is not complete, deferred inference of
mem0, Hindsight's `success: false`, and who supports verbatim ingest. A call is
wrapped into `awith_retry` by its caller, as the retry module is meant to be
used: `Attempt` is the code of an attempt up to its request, `Respond` and
`TransportFails` are what comes after, and `Raised` is the head of the retry
loop. `Answer` is the table of statuses of the transport with the 404 rules of
get and delete. A success brings a body of one of five kinds (`Bodies`), which
the provider reads when the answer is there (`Read`): null is no memory to
`get()`, and to Hindsight anything that is no object is; mem0 takes what is no
list for an empty one after an ingest; everything else that it cannot map is a
`ProviderError`. mem0 starts its deferred inference once the body is JSON and
maps its elements after that, so the call may end in a `ProviderError` while
inference runs. `Respond` leaves both cases on record in `wire`, and
`GoneMeansGone` and `DeferredInference` say exactly how far an answer can be
relied on: `None` from `get()` tells that the memory is gone but for such a body,
and inference follows an ingest that was stored, not always one that returned. `shut` holds the httpx clients whose `aclose()` has begun; such
a client refuses requests, while a provider between `aclose()` and
`_client = None` still has it. Not every close gets that far: `CloseIsCut`
leaves a provider that counts itself ready with a client that is closed.

The backend is external and does the worst that HTTP allows: it carries a request
out late, never, or with an error for an answer. What it may not do is store an
ingest and answer 429, or answer 404 for a memory it has: those two statuses mean
something, and the properties say what the code makes of them.
`RetryableAssumption` is the caller's part: an ingest is retried only after a
rejection, since nothing makes a repeated one harmless. `Initialize` does not
overlap a close, which the service ensures for an instance it owns.

### Paged lists

`ListWalk` is a caller that follows cursors while memories are added at either
end and deleted anywhere. All three providers make the cursor an offset; mem0
turns it into a page number and two of the three infer the end of the list
from a page that is not full. `OneLimit` names the providers whose callers keep
to one page size: with mem0, a limit of 1 and then 2 over two memories returns
the first one again, since offset 1 is page 1 of size 2. The contract
(`contract/CONTRACT.md:37`) calls the cursor an offset and does not ask for
that. A limit of 0 is left out: the
request accepts it, an empty page is then a full one whose cursor starts the walk
anew, and mem0 divides by it once an offset is positive.

### The aggregate client and its REST namespaces

The three namespaces send one HTTP request per call, so `RestCalls` has a call
as one record: waiting, streaming, ended; the request's fate in the backend;
the answer on its way; what the backend had when it served the request (`saw`,
history). The backend is external: it serves a request at any time, also after
its caller gave up, refuses it, or a gateway answers in its place with a status
that says nothing; an answer may be garbage for its reader (`FaultOf`,
`BodyFault`, `EntityBodies`), and the class of the error then depends on how
far the reader gets: the handle raises what pydantic, `raw.get` or `raw[...]`
raise, and takes null for no memory in `get()`. A dict that `list()` or
`update_config()` do not accept is refused by pydantic before anything is sent
with the class an unreadable answer is refused with, `ValueError`:
`AnswerTellsFate` holds but for that one ambiguity, which it names. `fate` is never read by the code; the
properties compare it with what the caller is told.

`StorageClient` has the validation of every input before anything is sent, the
requests, and `RaiseForStorageResponse` with the order in which code and status
decide; artifacts are free, managed, pointers, or gone, and documents refer to
them. `EntitiesClient` abstracts an id to its path segments: an id may contain
the separator, `Quote` is what keeps it one segment, and `Routed` is how a
backend reads the path. `AtomicMemoryHandle` has the scope mapper in full, the
body or query of each route, the scope that is put on each returned memory, and
the validation of answers; the core keeps memories with their user, workspace,
agent, thread, visibility and source, and may be one that does not know threads
(`knowsThreads`, chosen at each answer). The three routes that put a user id into the query unquoted are left
out of the clause about users (`UnquotedReads`): with an id that holds an `&`
they answer about another user. `AggregateClient` composes them: one
constructor, two callers of `close()`, and calls under way, each namespace's
`close()` with its own outcome.

The sync client is the async one without cancellation: `Tasks` says who may be
cancelled. The life of the memory namespace is in the modules of the memory
clients; here it is a handle that is open or closed.

### Parts without shared state

`LocalParts` puts side by side what runs in its caller's thread: a behaviour is
a list walk, the life of an emitter, one call of an algorithm (`Algorithms`) or one
of the codec, with every input of a small set. The emitter's frames are a stack, since
a listener may emit; `copy` and `first` are the variables of `emit()`, and `began`, `called`,
`errors` are history. `Chunking` has texts as sequences of characters of which
one is blank and one a separator; `SemanticSearch` has similarities in hundredths
and factors as integers, so that products are exact where the code rounds;
`ModelTools` has texts as lengths; `WireContract` has models as functions of all their
fields and wire objects as functions of the keys that are there, dates as an instant, its
microseconds and the offset of a zone. What the codec walks recursively is a function of
positions: a nested value is the function from the positions of its leaves to them, a
filter the one from the positions of its nodes to them. The walk of `_jsonify` converts
dates, keeps everything else and moves nothing, so it is a function on the same
positions; so is the validation that reads a filter back. `IsPage`, `IsWireMemory`,
`IsRequest` and `IsIngest` say what pydantic has made sure of before the codec sees
a value; they are the assumption on its inputs.

## 3. The runs

| run | instance | states | shows |
|---|---|---|---|
| `async_safety` | 2 providers, 3 registries, 3 runs, 2 callers, symmetric | 1.9 million | safety under every overlap and cancellation |
| `async_serial` | 2 providers, 3 registries, 2 runs, 3 callers | 0.3 million | contract, sharing, no forgotten provider, liveness under serial lifecycles |
| `sync_client` | 2 providers, 3 registries, 2 runs, 2 threads, one of them main | 0.1 million | contract, no leak but to Ctrl-C, liveness |
| `service_pipeline` | 1 call of up to 3 items, 2 lifecycles, 4 hook bundles | 42 thousand | order of hooks and items, what result and error tell |
| `kv_cache` | 1 or 2 users, 2 keys, 2 values, lifetime 1 or none, clock to 2, symmetric | 0.6 million | current reads, no loss but to a stale eviction |
| `http_provider` | 2 calls of up to 2 attempts, 2 httpx clients, 3 kinds | 0.7 million | what answers and errors tell, deferred inference, liveness |
| `aggregate_client` | 2 of 2 callers and 2 closers, 4 memory ids, 2 artifacts, 1 document, 2 entities | 0.2 million | what errors tell, what is sent, what answers are read as, best-effort close |
| `local_parts` | walks over up to 4 of 5 memories with 3 changes; an emitter with 2 listeners, 3 registrations, 2 emits; enumerated inputs of 11 algorithms | 0.3 million | nothing skipped, lost or mixed up, walks end |
| `async_shared_run` | as `async_safety` | counterexample | two runs pending together |
| `async_staged_torn_down` | as `async_safety` | counterexample | interrupted teardown |
| `async_overlapping_closes` | as `async_safety` | counterexample | fresh providers dropped |
| `kv_concurrent_writers` | as `kv_cache` | counterexample | a fresh value evicted |

Why the bounds are enough. Two providers give a first and a last one, a default
and another, one that has opened when the other fails. The registries have
factories for both, for the default only, and for everything but the default
(the missing-default error). Three runs are an old one, the current one and the
next. In the async client two callers are enough for a closer and an initializer, or
two closers; three callers in the serial run allow two waiters and a closer.
The sync instance with three threads was explored too (1.2 million states, no
error) and is left out for its time. The bound `Runs` is named in the
configuration and is the only one: the state of the code is otherwise finite.

Calls of `ServicePipeline` share nothing but the service's maps, whose changes
are free to happen at any time; two calls of two items each were explored too
(5.8 million states, no error). Three items give a first, a middle and a last
one, two lifecycles an old provider and a new one. In the cache, a clock of three
instants lets an entry be set, expire and be replaced; a lifetime of 1 is met
before, at and after its end. The clock of the model does not go back:
`time.time` may, and then an expired row that was not evicted is served again,
which the code accepts for the sake of lifetimes that survive a restart.

Two calls of `HttpProvider` are an ingest and its concurrent delete, or the
delete of one whose get is under way; two attempts are a first one whose outcome
is unknown and a last one; two httpx clients are the one before a close and the
one after. Each ingest is also its own background task. A walk over four
memories with a page size of one to three has full and short pages, a last page
that is exactly full, and three changes are enough to shift it by a page.

Two actors of `aggregate_client` are two calls of one namespace, a call and a
`close()`, or two `close()` calls; calls of different namespaces share nothing.
The inputs of a call are representatives of what the code tells apart: good, bad,
and such as a typical slip would let through. The inputs of `local_parts` are
chosen for their boundaries: texts up to seven characters against windows of
one to four, pools with equal and zero similarities, hits that just fit a budget and
just do not, dates of two zones and none.

Deadlock is checked for `sync_client` and `kv_cache`. It is switched off in `service_pipeline`,
where every call may have ended with the service closed for the last time, in
`http_provider`, `aggregate_client` and `local_parts` for the same reason, and in the
async runs, since there the number of runs bounds the life of the system: with the last run
failed and every call returned nothing is left to do. `CallsReturn` says what
matters, that no call is left behind.

Fairness is assumed only for `CallsReturn` and `WalkEnds`. Providers: every request
carries `timeout_seconds`, so it is answered or fails, and the event loop runs ready
tasks; the timeout of httpx bounds each read, so a server that trickles an
answer for ever is excluded. The walk: its caller goes on. Async: the event loop runs every coroutine that is ready and every
await on a factory or provider ends, since the HTTP clients have timeouts. Sync:
every thread is scheduled and factory and provider calls end. Nobody is obliged
to call or to cancel anything. `threading.Lock` is not fair: the sync
`CallsReturn` holds because the number of runs is finite, so the lock is not
handed around for ever, and it is stated for Ctrl-C pressed finitely often.

### What the counterexamples say

1. `SharedRun` (`async_memory_client.py:125`). A initializes and waits. B closes:
   the run is cancelled and ends, B resumes first and clears the slot. B
   initializes: a new run. Now A resumes, with `CancelledError`, and its
   `finally` clears the slot, since the task A waited for is done. The new run is
   pending and unknown: a third `initialize()` starts another one beside it, and
   `close()` does not cancel it.
2. `StagedTornDown` (`async_memory_client.py:156`). A run has failed and closes
   what it staged. `close()` finds the task not done and cancels it; the gather
   is cancelled with all its `close()` calls. Providers stay open and the error
   the run had is lost, so that it is not sticky either. `TeardownComplete` is
   the part that does hold.
3. `ClearsOnlyWhatItClosed` (`service.py:309`). Two tasks close; the first ends
   and initializes again while the second still awaits its provider. The second
   then empties `_providers` and resets `_initialized`: the fresh providers are
   neither reachable nor closed. The property holds for serial lifecycles.
4. `AliveIsKept` (`sqlite_storage.py:66`). A's `get()` selects a row and finds it
   expired; B's `set()` replaces it; A's `delete(key)` removes the new value.
   `LostOnlyToStaleEviction` says that this is the only way to lose one, and that
   it takes a second connection.

Not a counterexample to a promise, but worth knowing: between `get_provider` and
`_pipeline` (`service.py:188`, `250`) of the sync client another thread may clear
both maps, and the operation then goes on with the provider and
`NOOP_PIPELINE`, past its hooks. `SyncMemoryClient` has both steps.

## 4. The proofs

`AsyncMemoryClientProofs` proves for any sets of callers, runs and names and
any registries, from the three named assumptions on constants: the type
invariant, `CommittedWhole`, `TeardownComplete`, `OperationsOnCommitted`,
`ErrorIsARunsOwn`, and the action properties `StickyFailure` and
`CancelIsolation`.

None of the invariants is inductive by itself. `CommittedWhole` says that the
committed run has no provider still staged, which holds after the committing
step only because before it every other instance was open and the last was
being opened; `TeardownComplete` needs that the teardown closes exactly what was
staged. The strengthening `IInv` has five parts: `ServiceOK` (types, and for
each run `RunOK`: the states each instance may be in for the program counter of
its run, `Allowed`), `ClientOK` (types), `ProvidersOK` (the flag agrees with the
map, the map's run succeeded), `CallsOK` (a suspended caller holds a run, and
one inside a provider a run that succeeded, with instances that exist), and
`ErrorIsARunsOwn`. The argument goes from small to large: `OneRunStep` (a step
that leaves one run consistent and touches no other keeps `ServiceOK`),
`UnwindStep` and `ProceedStep` for the two ways the loop goes on, `ServiceStep`
for all actions of a run, `CancelRunStep` for cancellation; then one lemma per
group of client actions, `NextInv`, and the theorems. The action properties need
`ServiceStep` (a step of a run is a step of a pending run only) and
`NoStepCancels`.

`AsyncSerialLifecyclesProofs` proves, for callers that keep lifecycles apart, what the
counterexamples show to fail otherwise: `SharedRun`, `EndsUninitialized`,
`NoProviderForgotten`, and that the client implements `LifecycleContract`
(`ImplementsContract`). `SerialInv` adds four parts to `IInv`: a pending run is the one
in the slot and the only business of every suspended lifecycle call (`PendingAlone`);
a client that serves has no error (`OneOutcome`); a run that a `close()` has met is
doomed, that is cancelled or in its teardown, and what it leaves to be done a `close()`
in progress is doing (`ClosedOK`); a `close()` has every open provider of its run before
it and nobody replaces the run (`ClosersOK`). `DoomedStep` is the point: no step of a
doomed run commits. In the refinement the end of a run is `Succeed` or `Fail`, the end of
the `close()` that finds the client ready is `CloseReady`, and all else is a stutter.

`SyncMemoryClientProofs` proves `CommittedWhole`, `OperationsOnOpened`,
`NoProviderForgotten` and `ImplementsContract` for any threads, main threads, runs,
providers and registries. The invariant has two halves. The holder of the lock is alone:
`LockOK`, `PhaseOK` and `PendingOK`/`ClosingOK` say how far its run or its close has got, and
no other thread changes what they speak of. The threads without the lock hold on to runs
that are `Solid`: committed, the default built, nothing before its `initialize()`
(`UsingOK`, `ProvidersOK`), which no later step undoes (`SolidStep`); that is why an
operation that a stale flag let in still finds an opened provider. `Fresh`, `Unshared`
and `EmptyHanded` say that runs are not mixed up. For the refinement, `Visible` shows that
only the end of a run and the last step of a `close()` change what the contract sees.

`ServicePipelineProofs` proves every property of the run `service_pipeline` for any
number of calls, items, lifecycles and hook bundles. `CallOK` says for each place of a
call whether everything it began is stored and answered (`Settled`), or one more item is
on its way or stored unanswered (`Begun`). A call that was cancelled or got an error begins
nothing more, so a request that arrives late stores nothing out of order.
`PersistedPrefix` and `ErrorTellsWhatIsStored` follow from it. The other two need a second
invariant on top, `StepsInv`: at each place of a call its trace has as many steps as the
items it began or finished account for, each step the one `StepOf` prescribes at that
number (`Traced`), and its results are those the backend made of its first items
(`Reported`). It does not mention the hooks of a service that serves, only those of the
lifecycle the call began in, so that a `close()` in the middle disturbs nothing.
`AnswerMatchesBackend` also needs what merging returns for any number of results:
`Merge` is a recursive function, and what it lists is shown by induction over the number
of results (`MergeGrows`, `MergeLists`). The library's induction takes a predicate, so the
induction is on a set of numbers instead, from the well-foundedness of `<` (`NumbersUpTo`).

`KvCacheProofs` proves every property of the run `kv_cache` for any users, keys,
values, lifetimes and bound of the clock, from `TimeAssumption` and
`NoneAssumption`. None of them is inductive: whether an answer is current, or an
eviction harmless, depends on what a suspended call remembers. `IInv` says what
that is worth: the row of a suspended `get()` is the table's row if the user is
alone (`GetOK`), an evicting `get()` holds an expired row, a `get()` that may
still answer with its value has seen it alive, the rows a vacuum spares were
seen alive since its clock reading (`VacuumOK`), and the present view is always
among those a suspended reader has seen (`SightOK`). `Unmoved` shows that a user
who does not act stays consistent, since only another user's step can change the
table under a suspended call and then nobody is alone; `OneUserStep` reduces each
action to the user who takes it; one lemma per action follows.

`HttpProviderProofs` proves the safety properties of the run `http_provider` for any
calls, attempts, httpx clients and retry predicates, from `AttemptsAssumption`,
`NoneAssumption` and `RetryableAssumption`. What an answer tells is decided before
it is received, and a request outlives the call that sent it, so `IInv` speaks of the
wire: `WireOK` (a response waits only for the attempt that awaits it, and the earlier
attempts of an ingest can no longer arrive, since they ended in a rejection), `CopiesOK`
and `GoneOK` (what a response that is not received yet says of the backend), `TaskOK`
(what a background task may still send), `AttemptOK`, and `LifecycleOK` for the handle.
`SameCall` covers the calls a step is not about; one lemma per action follows.
That a timed-out ingest is not retried is the point where the assumption on the
caller is needed: without it a request of an earlier attempt may still be stored.

`AggregateClientProofs` proves every property of the run `aggregate_client` for any
callers, closers, artifacts, documents, entity ids, settings, scopes and memories, from
six named assumptions: `None` is no error and no value, what a backend has at first is of
its type (`StoredAssumption`, `StoresAssumption`), scopes are what the two scope classes
can hold (`ScopesAssumption`), a caller is not `None`, a user id not empty. The
properties speak of the step in which a call is served or answered; what makes them true
is what the call is known to have asked for, and what the answer on its way is known to
say. `Inv` has five parts. `CallsOK` says of each call by its place: while its request is
wanted, `ArgOK` (what was sent is the translation of what was asked, by operation); while
an answer is on its way, `ReplyOK` (it agrees with what the backend saw, `saw`); once it is
over, `Told`, which is `AnswerTellsFate` together with what makes it inductive (`Complaints` are the
errors an operation raises before it sends anything): a call that is
over while its request is still on the wire says nothing that a later delivery could belie.
`CoreOK`, `ArtifactsOK` and `EntitiesOK` are types; `ClosersOK` says what a `close()` has
been to and which namespaces it left open.

The lemmas follow the life of a call: `Begins` for every operation of the three namespaces
(a call is over at once or has sent what it was asked), `Served_` for the backends,
`Answered_` for what comes back; `Moved` puts them together, and `NextInv` needs nothing else.
Three of them carry the weight. `RoutedAsMeant`: a backend that knows method and path
only takes a request for what it was meant for, whatever parts an id is made of, because a
quoted id is one segment and the paths of different operations differ in length or in a word
(`BelowAnEntity`, `RoutesThere`). `MemoriesAreTold` and `AnswersAreTrue`: the scope a result
is told with is the one that was applied, or the call fails. `StorageReceived`: an error code of
the mapping is the one the backend meant, for HEAD too, which has no envelope.

`LocalPartsProofs` proves `EmitReachesAll` of `Events` for any listeners, any number of
registrations and emits at any depth. It is not inductive, as it says nothing of
an emit half way: `EventsInv` adds, for each frame (`FrameInv`), that its copy is
what was registered when it began, that it has called a prefix of it as long as it
is far, that the listener that runs is the last one called, and that the first
error is the first of those that came out. Only the innermost frame and the one
below it change in a step.

Of `Algorithms` it proves both properties, for any input of the types that
`ChunkingAssumption`, `SearchAssumption`, `ToolsAssumption` and `FactsAssumption` name; they
say no more than what Python's annotations do, and that `None` is no number and no
error. The loops are recursive
functions in the model, of the number of their turns or of where a turn begins. That there
is such a function, and what holds after each turn, is shown by induction over a set of
numbers (`LoopTurns`, `NumbersUpTo`, and for chunking `LoopCollects`, `NumbersDownFrom`): the
library's induction theorems take operators, which the provers cannot instantiate, but the
set of numbers a fact holds for has a least missing one.
`ChunksCoverAll` rests on `WindowsTouch`: a window is not empty, and the next one
begins after its beginning and no later than its end, so the loop ends and skips nothing;
`GroupsCoverAll` is the same of sentences and paragraphs. `ToolAnswersAll` follows the budget
of the text through the hits of a page (`Projected`): what they were given together is what
the budget lost. `FilterDropsAll` counts the items that no pattern matches
(`Filtered`): each has the place that this number says. With these, `NothingLostUntold` holds.
`SearchReturnsTheBest` rests on `ByKeySorts`: the numbers of those that are ahead in a
total order are different, hence by counting all places of a sort. `SelectionPicks` takes the best
of the candidates back to positions of the pool, and `SearchReorders` shows that the
reranking is a permutation of them with the scores that are their own.

Of `ListWalk` it proves `EachRowOnce` for lists, page sizes and changes of any number.
The argument counts what a change pushes over the cursor: of the memories below it those
the walk was not handed (`Missed`), of those beyond it the ones it was (`Coming`). A
deletion pushes at most one memory down, an addition at most one up, a page moves the
cursor over nothing but what it hands out. So `Missed` is bounded by the deletions, and
`Coming` with the repetitions there have been by the additions (`WalkCounts`). Of mem0 it
needs that the cursor is a multiple of the page size (`WalkAligned`), which is why the
theorem asks for `"mem0" \in OneLimit`, as the run does: with changing page sizes the
property is false of mem0, as section 2 says.

Of the codec it proves `CodecRoundTrips`, for pages, memories, filters, requests and
ingests of any size and nested to any depth. `RenamedIs` is what it rests on: renaming
loses nothing when no two fields get one name, and `NamesAreApart` says that they do not,
in any of the tables. With it, `EncodedMemoryIs` tells what is on the wire for each field,
and `MemorySurvives`, `ResultSurvives`, `PageSurvivesAlways` follow outwards; the
other way, an accepted wire memory is a memory of the models (`AcceptedIsMemory`) to which
the same lemma applies (`MemoryReturnsAlways`). `FilterSurvives` finds each node's class again
because the wire names of the classes differ. The theorem assumes `NoneIsNoFunction`:
the code tells an absent value from an object, a list or a date by `is not None`, so
`None` must be none of them. TLC cannot evaluate this of a model value, for which it holds;
hence it is a hypothesis of the theorem, not an `ASSUME`.

These theorems hold of each part by itself (`EventsSpec`, `WalkSpec`, `AlgorithmSpec`) and of
the composition that the run checks, `LocalSpec`: `StepIsOfOnePart` says that a step of
one part leaves the others' variables alone, so the composition implements the emitter
(`EmitterIsEvents`), a behaviour that does not walk keeps the invariant of the walk
(`NoWalkIsFine`), and a call of the codec says nothing of the algorithms, nor the other way round.

The type invariants are proved (`TypeCorrect`) for the modules with proofs, and
serve in the others to say what the variables hold.

Every safety property that a passing run checks is proved. Only model-checked is
liveness under fairness (`CallsReturn`, `WalkEnds`), which the provers cannot handle.

## 5. Not modelled

`PROJECT.json` gives every component with its status and reason. In short: the
clients' coercion of inputs and read-only accessors keep no state; the registry
and the capability profiles are tables; embeddings load a model of a
third-party library; the URL, logging and environment helpers are string functions.
Of the three providers, the mapping of fields between a backend's JSON and the
models, health, reflect, profile and the polling of Hindsight's operations are left
out: each is one request of a form that is modelled, or a table. mem0's
synchronous deferred inference is a daemon thread of its own that shares nothing
but the HTTP client. Floating-point rounding and what a regular expression matches
are outside of the models. `get_provider_status()` of the sync client may raise
when it overlaps `close()`; it assigns nothing and is left out. Awaiting a pending
run from another event loop is unsupported by the code's own words and excluded.
A factory that calls back into its client deadlocks on its lock, which is documented
as an error of the caller.

## 6. What is left

Models: the field mappers of the three providers, mem0's daemon thread, `health`,
`reflect` and `profile`.
