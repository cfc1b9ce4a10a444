# TLA+ specifications of the SubQuery node for Concordium

These modules specify the indexer in `packages/node` (with the types of
`packages/types` and the manifest classes of `packages/common-concordium`): how
it loads a project and starts up, fetches blocks from Concordium nodes, runs the
mappings of a project over them, answers the requests the mappings make, decides
which handlers a block concerns, and which blocks it need not fetch at all.
Everything is written from the source at this commit; paths below are relative
to `src/`, and unless they start with `packages/` to `src/packages/node/src/`.

## 1. The system

    FetchService ── target height ──> dispatcher ── batches ──> ConcordiumApi ──gRPC──> nodes
        ^   \                              |                         ^
        |    `── dictionary queries        | blocks                  | pool of connections
    DictionaryV1                           v                         |
                                   IndexerManager ── handlers ──> SafeConcordiumGRPCClient (proxy)
                                           `── filters (block.concordium.ts)

Much of the machinery (fetch loop, dispatchers, worker threads, connection
pool, store, rollback) is inherited from `@subql/node-core`, which is not in
this repository. What is modelled of it is only what the code here relies on,
and such definitions are marked external in PROJECT.json.

| component | state | operations | interacts through |
|---|---|---|---|
| `ConcordiumApi` (`concordium/api.concordium.ts`) | gRPC client, chain id | `fetchBlocks`, `fetchBlock`, `getAndWrapBlock`, `getFinalizedBlock`, `getBestBlockHeight`, `getSafeApi` | awaited gRPC calls; event `fetchBlock` |
| `FetchService` (`indexer/fetch.service.ts`) | finalized and best height (node-core) | `getFinalizedHeight`, `getBestHeight`, `getModulos` | the pool's `unsafeApi`; `registerFinalizedBlock` |
| `ConcordiumApiService`, `SafeConcordiumGRPCClient` | connections; block hash and height of a client; retry counter of each call | `getSafeApi`, the proxy, some fifty client methods | called by mappings, concurrently; picks connections of the pool |
| `IndexerManager` | none of its own | `indexBlock`, `indexBlockData` and its four loops | awaited `indexData`; handlers may add data sources to the array looped over |
| filters (`concordium/block.concordium.ts`) | none | `filterBlocksProcessor`, `filterTransactionsProcessor`, `filterTxEventProcessor` | called for every handler and item |
| `DictionaryV1` | the query entries of the current data sources | `buildDictionaryQueryEntries` | node-core fetches only the heights it answers |
| `ConcordiumApiConnection` | network metadata | `create`, `fetchBlocks`, `handleError` | the pool |
| `UnfinalizedBlocksService`, `ProjectService`, `DynamicDsService`, `DsProcessorService` | node-core's | overrides that fetch a header, a timestamp, a data source | API, project |
| worker and dispatcher classes | node-core's | overrides that name a worker's methods | worker messages |
| `MetaService` | counters, last report | four event handlers, one 10 s interval | event emitter |
| `SubqueryProject`, `common-concordium` | manifest, network, data sources, templates | load, validate, classify data sources | read once at start; templates are instantiated while blocks are indexed |
| `init`, `worker`, `subcommands`, Nest modules | the providers of each application; how far each thread has come | `bootstrap`, `initWorker`, the sub-commands | dependency injection; worker threads; exits |

### What is hard here, and what correct means

* **Fetching.** `getAndWrapBlock` suspends five times; between two awaits the
  node receives and finalizes blocks, other jobs of the batch fail, and the pool
  may have learned the target height from a different node than the one that
  serves the batch. Correct: a wrapped block consists of parts of one block; a
  final height yields the final block; a resolved batch is complete; a batch always settles.
* **Handler API.** A call may be retried on other endpoints, which may lag, be
  gone, or be far ahead. Correct: the handler sees the state as of its own block;
  retries are bounded; a call always settles; the error reported is the last one.
* **Indexing.** Nested loops over arrays, one of which grows while it is looped
  over; an error leaves all loops at once. Correct: chain order, every item to
  every data source exactly once from the item at which the data source was born.
* **Filters.** JavaScript comparisons over values that come in many shapes, some
  of which throw, with whatever YAML has put into the filter. Correct: a filter
  decides what it says, and throws only where there is nothing to compare.
* **Dictionary.** Heights are skipped on the strength of queries built from the
  filters by different code than the code that evaluates the filters, and answered
  from a stored form of the data. Correct: nothing is skipped that a handler would
  have run on.
* **Pipeline.** Heights are looked up, enqueued, fetched and processed by loops that
  run side by side, while handlers create data sources and the process may crash.
  Correct: blocks are indexed in order, each once, each with the data sources of
  its height, none that is wanted is passed over, and a crash loses no more than
  what was not stored.
* **Project.** Validation is spread over the decorators of a dozen classes, and what
  it lets through surfaces while blocks are indexed, or never. Correct: what is
  accepted can be run, and what the published types allow is accepted.
* **Start-up.** A chain of awaits, any of which may fail, with connections that are
  not waited for, and threads that start on their own. Correct: start-up ends; the
  dependency injection of every command finds what it needs; the fetch loop finds
  everything ready.
* **Profiler.** Events and a timer in any order, with an exception before the first
  event. Correct: no event is lost from the reports.

The `hazards` of PROJECT.json list these at their lines, with the property that
covers each, or the reason why none does.

## 2. The modules

| module | models | checked by |
|---|---|---|
| `ChainNode` | the nodes behind the endpoints (external) | through its users |
| `BlockFetch` | `FetchService` targets, `ConcordiumApi.fetchBlocks` | `MCBlockFetch`, `BlockFetchProofs` |
| `SafeApi` | `getSafeApi`, the proxy and the safe client | `MCSafeApi`, `SafeApiProofs` |
| `IndexOrder` | abstract: what indexing a block promises | refined by `IndexBlock` |
| `IndexBlock` | `IndexerManager.indexBlockData` | itself (its constants are numbers), `IndexBlockProofs` |
| `Filters` | the comparisons, as operators | `FilterCheck`, `Dictionary` |
| `FilterCheck` | one evaluation of a filter by `indexData` | `MCFilterCheck`, `FilterProofs` |
| `Dictionary` | query entries and the heights they leave | `MCDictionary`, `FilterProofs` |
| `IndexedChain` | abstract: what the pipeline promises | refined by `Pipeline` |
| `Pipeline` | fetch loop, dispatchers, new data sources, crashes | `MCPipeline`, `PipelineProofs` |
| `Project` | `SubqueryProject.create`, the manifest classes, `getDatasource` | `MCProject`, `ProjectProofs` |
| `Profiler` | `MetaService` | `StartUp`, `ProfilerProofs` |
| `Wiring` | the modules, providers and injected tokens, as operators | `StartUp` |
| `StartUp` | `bootstrap`, `initWorker`, sub-commands, connections, dictionaries | `MCStartUp`, `StartUpProofs` |

`BlockFetch` and `SafeApi` both extend `ChainNode`; `Dictionary` composes the
query builder with the very operators of `Filters` that handlers are run by;
`StartUp` composes the tables of `Wiring` and the profiler with the threads of a
node. `Pipeline` has one action where `BlockFetch` (fetching a block), `IndexBlock`
(indexing it) and `Dictionary` (knowing `Wants` beforehand) go into detail.

### ChainNode

Every endpoint has its own `last` finalized height and set of `live` blocks above
it, and moves at its own pace. All agree on the final block of a height
(`Final(h)`), which is the guarantee of the chain; blocks that lose their height
exist only above `last`. `BlockInfo(e, NoBlock)` is the last finalized block:
`ConcordiumApi.getFinalizedBlock` calls `getBlockInfo()` without a hash for
exactly that answer, so the same must be expected when the hash is `undefined`
by accident. An unknown hash has no answer, only an error.

### BlockFetch

One member of `Calls` is one call of `fetchBlocks`. Its jobs, one per height,
have a program counter that names the await they are suspended at
(`hash -> info -> summary -> transactions -> specialEvents -> done`, or `failed`);
one action is the code between two awaits. `Promise.all` is `SettleOnSuccess` and
`SettleOnError`: the last success resolves, the first failure rejects, and the
other jobs run on, as they do in JavaScript. Contents are abstracted to the block
they belong to. `FetchBlocks` may ask for any heights up to `LatestHeight`, which
the dispatchers never exceed. `finalAtStart` is a history variable.

### SafeApi

One proxied client, created by `IndexerManager.getApi`, and the method calls of
one handler run. The methods are grouped by what they do: `pinned` ones send the
hash, `stream` ones return an iterable before anything is sent (so that the
`await` of the proxy returns at once and failures come outside the retry loop),
`blocksAtHeight` sends the height only, `unsupported` ones throw, and
`getAnonymityRevokers` calls itself, where every other stream calls `super`
(`safe-api.ts:179`): the mapping gets a RangeError. `CallFails` is the whole catch clause,
including that a connection is taken from the pool after the last attempt too.

### IndexOrder and IndexBlock

`IndexBlock` has the four loops with their indices, control (`loop`, `tx`,
`event`, `ds`) as in the source. `transactionEvents` is `block.transactionEvents` by
the hash each event carries: any list that `flatMap` over `wrapTransactionEvents` can
leave, the events of one transaction after those of another. The inner loop goes
through the events whose hash is the transaction's. An `indexData` call may throw, or
create data sources, which join the array being looped over. `IndexOrder` knows
only a flat sequence of items. `Place` says where an item comes in it (the block, then
each transaction with its events behind it, then the special events), and the
refinement maps the loop indices to the place of the current item.

### Filters, FilterCheck, Dictionary

Each comparison returns `"yes"`, `"no"` or `"throws"`; `And` and `Or` are `&&` and
`||` with their short cuts, so that what throws is found where it throws. Values
are what the comparisons tell apart. A value of a filter is declared a string, but only
`@IsObject` is asked of `values` (`models.ts:33`), so it may also be a number or null. A
key may be a path (`Path`): the filter looks for a field of that very name, and there is
none. `Means` and `Describes` are the reference: what a value of the manifest says of a
field. An event filter throws on a field
that the event lacks (with no type it meets events of every tag,
`block.concordium.ts:83`) and on a contract index that is no numeral (`:95`);
`Incomparable` names these pairs, for the property that they are the only ones.

In `Dictionary` the state is the set of handlers and the entries built from it;
`Fetched` is the choice of heights that node-core makes from the entries and the
modulos. `Nested` is what lodash's `setWith` leaves of the values: each under the path
its key is read as, and gone if a later key is set at that path, above it or below it.
The dictionary answers from what it has stored. `Stored` is that form: strings and
numbers are themselves, and of an address or an amount nothing is assumed, since no
line here says how it is stored. `DictionarySound` is therefore about handlers that
compare strings and numbers (`ComparesScalars`), about filters without values, and about
blocks. **Assumed of the dictionary**: a filter value is contained in a stored string or
number exactly if they are equal, and a condition on an undefined type is none.

### IndexedChain and Pipeline

`IndexedChain` has a log of indexed blocks and the number of those that are stored.
`Pipeline` has the fetch loop (`finalized`, `enqueuedTo`, a `query` in flight), the
dispatcher (`queue`, `fetched`, `processing`) and the database (`stored`), for a
node with and without worker threads. This repository overrides single methods of
that machinery; what they rely on is:

* `FetchService.getFinalizedHeight` bounds what is looked up. It asks whichever
  endpoint the pool hands out, so the height may go back as well as up
  (`UpdateFinalizedTo`), and heights above it may be in the queue; `enqueueBlocks` takes
  at most what the queue has room for, and the fetch loop goes on at the last height
  taken.
* blocks are fetched in any order (`fetchBlocks`, or `fetchBlock` of a worker) and
  processed in the order of heights, one at a time: `indexBlock` of the dispatcher
  awaits `getDataSources(height)` then, and a worker asks the main thread for them
  (`WorkerDynamicDsService` in `worker-fetch.module.ts:67`).
* `initBlockDispatcher` hands `resetForNewDs` to the dispatcher. A block that created
  a data source empties the queue and sends the fetch loop back. **Assumed of
  node-core**: the reset makes a lookup in flight stale. To compare the height it was
  asked from with the height of the fetch loop would not be enough: when the block
  that created the data source is the last one enqueued, both are the same and the
  answer for the old data sources would be taken.
* the store is flushed between two blocks with its metadata, and a process that
  starts again goes on after the last stored block (`projectService.startHeight`).

A failure to fetch or to index ends the process, so it is a crash here.

### Project

A field of the manifest is its shape (`"absent"`, `"string"`, `"list"`, ...), because
YAML has no types. One action is one step of `create()`: `plainToClass` (which may
throw in a `@Transform`), the validators, the network, the schema, the data sources,
the templates, the runner. `ValidateCustomDatasources` is the part of
`ProjectService.init` in which the plug-ins of custom data sources look at them: each
kind of handler must be one the plug-in has a processor for (`HandlerProcessors`), and
it may refuse for reasons of its own. `getDatasource` follows, on a running project.
A runner without a name has the class's default and passes. Noted while modelling: the
filter of a block handler has `@IsObject` but no
`@ValidateNested` (`models.ts:56`), so its content is never looked at; a list in the
place of a filter passes and filters nothing; what is in `values` is not looked at, which
is why `Filters` has numbers and null there; a missing mapping, network or schema
passes the validators and fails later in `create()`; an empty list of endpoints is
accepted, and so is a runner for another chain family, `@subql/node-flare`; the chain
id of a deployment is trimmed and that of the project is not.

### Profiler

Counters of events, what the last report had of them, and whether there has been an
event at all: without one the report throws half way (`meta.service.ts:88`), after
the enqueue counter has been moved on. Times are left out. `logged`,
`loggedFiltering` and `baseline` are histories.

### Wiring and StartUp

`Wiring` is the `@Module` decorators, constructors and factories as sets of tokens, one
definition per module or class, as far as something in this repository asks for them;
`Creatable` and `Found` are what Nest does with them. Tokens that are strings are
distinct from the classes of the same name. In `StartUp` each thread goes through the
steps of its start on its own. The project loads from the moment the module of the
command is imported, beside the search for a port, and the `test` command loads it a
second time (`loading`). When both are there, the context is created: push the primary
endpoint, connect to all endpoints at once, go on with the first connection. The main
thread then asks for the list of dictionaries, which may fail, tries each of them,
creates the workers, waits for all of them and starts the fetch loop. Noted while modelling: the `test` command always
fails, because `getTestRunner` asks the context for the class `ProjectService`
(`testing.service.ts:56`) and the module provides only the token `'IProjectService'`;
`--port=0` exits as if no port were free (`init.ts:29`); the `fetchBlock` event that
the profiler counts is emitted by `ConcordiumApi.fetchBlock` alone.

## 3. What is checked

All runs finish within about a minute. Model values name endpoints, calls and forks.

| run | bounds | shows |
|---|---|---|
| `fetch_finalized` | 1 endpoint, 2 overlapping calls, batches of up to 2 heights, heights 0..2, 2 forks, finalized mode | `TypeOK`, `ResolvedComplete`, `DeliversCanonical` |
| `fetch_pool` | 2 endpoints, 1 call of 1 height, heights 0..2, 2 forks, unfinalized blocks | `Coherent`, `CanonicalWhenFinal`, `Settles` |
| `safe_api` | 2 endpoints, 1 call, heights 0..1, 5 retries as in the code | `TypeOK`, `PinnedAnswer`, `RetriesAccounted`, `CallSettles` |
| `index_block` | 2 transactions with up to 3 events between them, 2 special events, 3 data sources | `TypeOK`, `EveryItemOnce`, `ImplementsOrder` |
| `filters` | 2 fields and a key that is a path, 2 types, up to 2 values (2 strings, a number, null), all shapes | `EventFilterAgrees`, `EventFilterThrowsOnlyOnIncomparable`, `TransactionFilterSafe` |
| `dictionary` | all sets of up to 2 runtime handlers, 1 field and a path into it, up to 2 values, modulos 0, 2 and 3, heights 0..3 | `TypeOK`, `DictionarySound` |
| `pipeline` | heights 1..4, 1 data source of the project and 2 created, a queue of 2, 2 crashes, with and without workers | `TypeOK`, `QueueComplete`, `ImplementsChain`, `EventuallyIndexed` |
| `project` | 1 data source or template in every shape beside a sound rest, every network, every head | `ProjectTypeOK`, `ChainIdResolved`, `ProjectRunnable`, `TemplatesInstantiable`, `AcceptsTyped` |
| `start_up` | node with 2 workers, node with profiler (up to 2 events of a kind), the other commands; 3 endpoints of which 1 works, 2 dictionaries | `TypeOK`, `FetchingReady`, `DependenciesFound`, `NothingLost`, `FilteringAccounted`, `StartUpEnds` |

Why these bounds are enough: a second call and a second job are what it takes
for jobs to overlap and for a rejected batch to have a running sibling; jobs of
different calls touch no common variable, so a third adds nothing. One losing
fork makes a node list two blocks of a height; three heights let a requested
height become final, and be passed, between two awaits. Two endpoints make one
lag the other. One method call suffices for `SafeApi`, whose calls share only the
pool and the pinned block, which they do not change; the retry bound is the code's.
In `IndexBlock` two transactions with events tell an event of another transaction
from one of its own, and three data sources allow for one to be created by one
that was created. For filters, two keys show that all must match and that
evaluation stops at the first that does not; a filter's verdict depends on
nothing else. For the dictionary a key and a path into the field it names are what it
takes for one value to replace another; the heights up to 3 have one that is a multiple
of both modulos, of one of them and of none. Two handlers show an entry and a modulo, two entries, and a handler
that switches the dictionary off beside one that does not; entries are only ever
united. In the pipeline a queue of two fills up before four heights are in, so that
enqueueing stops in the middle of a lookup; one created data source wants heights
that were passed over before it, and the other one a height that it does not; two
crashes let one hit what the restart after the other has done. Validators look at one
data source, template or handler at a time, and at the network apart from them, so
that one of each in every shape is what there is to see. One worker more than one,
and one endpoint of each kind beside each other, are what it takes to be ready or
connected in different orders.

Three runs end in a violation and document a disagreement (`findings`):

* `fetch_lagging`: the block delivered for a height has another height, when the
  endpoint that serves the batch lags the one that named the target
  (`api.concordium.ts:249`). This is why `DeliversCanonical` is about one endpoint.
* `safe_api_gives_up`: a call is rejected at once, for an error another connected
  endpoint would not have had (`api.service.concordium.ts:97`).
* `dictionary_custom`: handlers of custom data sources neither add an entry nor
  switch the dictionary off (`dictionaryV1.ts:159`). `DictionarySound` is otherwise
  checked with runtime handlers only.

Deadlock is checked where the system never stops: the pool and the nodes always
go on in `BlockFetch` and `SafeApi`. A block that is indexed, a filter that is
evaluated, the bounded set of handlers, a project that was turned down, a start-up
that is over and a pipeline whose chain has reached its bound do stop, and their
runs say so.

Operators whose comment begins with "Mutant" are plausible slips of the code next to
the operator they would replace; no specification uses them. Each property has one
that breaks it, listed under `mutants`.

### Fairness

`Settles` and `CallSettles` assume weak fairness of the steps of a job
(`JobStep(c, i)`) and of a call (`CallStep(r)`): a gRPC request is answered or
fails in the end, which is the contract of the client's promises. Which of the
two is left open, and nothing is assumed about the chain, the pool, the target
heights or a particular answer. `CallSettles` is about a call inside the retry
loop; whether a mapping reads a stream to its end is its own affair, but a stream
step too is answered or fails.

`EventuallyIndexed` assumes that the dictionary answers and that the dispatcher serves
its queue, each by weak fairness of that action (any block, any answer). Of the finalized
height it assumes that the chain grows and that the pool, which may hand out a lagging
endpoint at any time, keeps coming back to one that does not lag: weak fairness of
`UpdateFinalizedTo(MaxHeight)`, a step that is possible whenever the height is another. An
answer stands for an interval of seconds, in which the fetch loop comes round many times,
so the loop sees the height in between in the end: strong fairness of `LookUp`. An
endpoint that lags for ever and is the only one asked would stop the node, as it does in
the code. A crash is never due, and there are at most `MaxCrashes`; a process that
crashed is started again, as any operator of an indexer has it. `StartUpEnds` assumes
that each thread which can go on does: requests are answered or fail, and the operating
system schedules all threads.

## 4. What is proved

The modules named `...Proofs` hold the theorems, checked by TLAPS for every value of
the constants that satisfies the assumptions of the modules (`ChainAssumption`: a
non-empty set of endpoints, a height bound, a winning fork; `FetchAssumption`: a
positive batch size; `SafeApiAssumption`: a positive retry bound, error values that
differ from one another; `PipelineAssumption`: data sources want heights of the chain,
and the queue has room for one; `ProfilerAssumption`: bounds are numbers;
`ProjectAssumption`: a plug-in handles one of the four kinds, an endpoint is a string, a
list or missing, and those of the command line come as a list; `StartUpAssumption`:
the main thread is no worker, and there are four commands; `IndexAssumption`: bounds
are numbers; `FilterAssumption`: `BigInt` gives numbers or an error that is none, and
what stands for a missing type or modulo is no type and no number;
`DictionaryAssumption`: custom handlers have a kind of their own, and the dictionary
stores strings and numbers as they are).

*BlockFetch.* The checked invariants speak of finished jobs and are not inductive.
`FetchInv` has three parts: `LiveAbove` (a node holds live blocks only above its last
finalized one), `CallOK` (what a call started from is still final at its endpoint; a
resolved call has finished jobs only) and `JobOK` (what a job has read by each await:
the parts so far are about `info`, and hash and info are final if the height was final
at the start). The lemma that carries it is `FinalBlockAlone`: at a height up to
`last` the node lists the final block and no other. `TypeCorrect` and `FetchInvariant`
give `FetchCoherent`, `FetchCanonical` and `FetchComplete`. `FetchDeliversCanonical`
needs `Endpoints = {e0}` and `UnfinalizedBlocks = FALSE` as hypotheses, because with
two endpoints it is false (`fetch_lagging`); its own strengthening, `FinalTarget`,
adds that neither the target height nor a requested one exceeds what is final.

*SafeApi.* `SafeInv` adds to the two properties `ProxyFirst` (a call exists only once
the proxy and its pinned block do) and `Counted` (how `retries` and the length of the
error history go together); `SafeApiPinned` and `SafeApiRetriesAccounted` follow, and so does
`SafeApiTypeCorrect`.

*IndexBlock.* Everything rests on places. `EventsBeforePrefix`: because `flatMap` keeps
the order of the transactions, the events of those before a given one are the first of
the list. From that, no two items share a place (`PlaceInjective`), and `StepKinds`:
whichever of the nested loops a step is of, it either hands the current item to the
next data source or goes to the place behind, never further. So the loops implement
`IndexOrder` (`IndexBlockImplementsOrder`). `EveryItemOnce` is about the end and not
inductive; `VisitInv` says it of every moment: a data source has been given an item
exactly if the loops have passed the two of them (`Passed`) and the item is not before
the one at which the data source came into being, and no call of `indexData` occurs
twice. `ReachInv` adds that every place up to the present one has an item.

*Filters and Dictionary.* `FieldMatchesMeans` goes through the shapes of a field:
`FieldMatches` answers yes exactly if the value means the field, and throws exactly if
there is nothing to compare. `AllValuesStops` is the loop over `filter.values`; together
they give `EventFilterMeans` and `TransactionFilterMeans`, the filters for lists of any
length. The three properties of `filters` follow, with an invariant that only says what
was evaluated (`FilterInv`). For the dictionary the invariant is that the entries are
those of the present handlers. `EntryMatchesDescribed` joins the two readings of a
filter. If the filter lets an item pass by its strings and numbers, none of its keys is a
path, because there is no field of that name; and whatever values `setWith` has kept are
values of the filter, at the paths of their keys (`NestedPairs`), so the entry matches what
is stored. `ItemFetched` and `BlockFetched` conclude that what a handler's filter lets pass
is matched by its entry, or that there are no entries at all. `RuntimeHandlersAreServed`
states it for every handler of a runtime data source, whatever other handlers there are,
and `DictionaryIsSound` states `DictionarySound` under the hypothesis that
`CustomHandlers` is empty: with a custom handler it is false (`dictionary_custom`). Both
leave out what `DictionarySound` does, comparisons with addresses and amounts and a
modulo of 0 (section 5).

*Pipeline.* `QueueComplete` is not inductive: that a wanted height is in the queue
follows from the lookup that was enqueued, and that one asked for the data sources
known then. `PipelineInv` adds `KnownSources` (the fetch loop knows the data sources
that the indexed blocks have made), `QueryCovers` (a lookup that is not stale goes on
where the fetch loop is and misses nothing wanted), `QueueAhead`, `ProcessesLowest` and
`StoredPrefix`. `PipelineImplementsChain` maps `IndexBlock` to `Index`, `Flush` to `Save`
and `Restart` to `Crash`; every other step stutters.

*Project.* That a loaded project can be run rests on a validation several stages
earlier. `ProjectInv` carries the verdicts of parsing and validating (`Decided`) and
what each stage has filled in (`FilledIn`); the lemmas `ValidRunnable`,
`TemplateInstantiates`, `ChainIdsAgree` and `TypedPasses` are about the validators alone.
All five invariants of the run are proved, for any manifests and any plug-in.

*Profiler.* `ProfilerInv` adds that nothing has been counted before the clock runs
(`QuietBeforeTicking`), which is why the half-done report does no harm, and that what
was logged is what was reported.

*StartUp.* `StartUpProfiles` shows that start-up, seen through the profiler's variables,
is the profiler, from which `NothingLost` and `FilteringAccounted` follow inside the
node. `StartUpInv` says what a thread has by each of its steps (`ThreadsConnected`,
`MainAfter`, `EndpointsUnpushed`) and gives the types and
`FetchingReady`, for any number of workers and endpoints. `StartUpDependenciesFound`
evaluates the tables of `Wiring`: that Nest finds every dependency of every command
(`AllCreatable`) and the project service (`ProjectServiceFound`), the `test` command's
lookup excepted.

The library's induction theorems take a predicate as a parameter and cannot be used
here. Where a least number is needed (the first value that does not match, the first
event to come) `LeastNatural` derives the well-ordering of the naturals from `WFMin`,
which speaks of sets; it stands in both modules that need it.

Only model-checked: the liveness properties (`Settles`, `CallSettles`,
`EventuallyIndexed`, `StartUpEnds`), which are beyond TLAPS. Every invariant and every
refinement that a passing run checks is a theorem, `DeliversCanonical` and
`DictionarySound` under the hypotheses named above.

## 5. What is not modelled

* node-core: the store, the connection pool's scoring and backoff (and so the
  classification of errors in `api.connection.ts:77`), worker memory, the choice among
  several dictionaries, the rollback of unfinalized blocks. Of the fetch loop and the
  dispatchers only what is listed under Pipeline. The models leave their choices open
  (any batch, any endpoint, any order).
* `UnfinalizedBlocksService.getHeaderForHash` and `getHeaderForHeight` call
  `getBlockByHeightOrHash`, which `ConcordiumApi` does not define.
* A template whose handler creates a data source of the same template at every
  item makes the loop of `indexBlockContent` endless; the number of data sources is
  bounded in `IndexBlock`.
* Transactions are compared strictly with the strings of the filter, so a filter on
  a field that is a bigint matches nothing. The model has this; no document says
  otherwise.
* A block filter with modulo 0 lets every block pass (`block.concordium.ts:23`) but
  keeps the dictionary in use (`dictionaryV1.ts:127`), so that next to a handler of
  items its handler misses blocks. `DictionarySound` and the theorems except such a handler.
* In what form a dictionary stores addresses and amounts: whether `'contains'`
  (`dictionaryV1.ts:43`) finds what `equalsAddressAccount` and its siblings accept is
  outside this repository, and `DictionarySound` says nothing of such comparisons.
* `values: null` in a filter passes `@IsOptional` and is skipped by the filter, while the
  query builder tests `!== undefined` and throws on it (`dictionaryV1.ts:32`). An empty
  `type` is no type to the filter and a condition to the query builder. `ItemFilters` has
  neither.
* `ProjectService.getBlockTimestamp` and `SubqueryProject.applyCronTimestamps`, which
  node-core calls for schedules; the plug-ins of custom data sources, but for the
  kinds of handlers they know and whether they refuse a data source or a template; the reading of files and archives.
* What the fields of a transaction summary are (`wrapTransactionEvents` is modelled by
  the events it yields), the admin and meta endpoints, the option table of yargs apart
  from the options of `StartUp`, the tests and what `reindex` and `forceClean` do in
  node-core.

## 6. Plan

1. (done) `ChainNode`, `BlockFetch`, `SafeApi`, `IndexBlock`, `Filters`, `Dictionary`;
   the proofs of `BlockFetch` and `SafeApi`.
2. (done) `Pipeline` with its abstract specification, `Project`, `Profiler`, `Wiring`
   and `StartUp`, with their proofs.
3. (done) Proofs of `IndexBlock`, the filters, the dictionary, `SafeApi`'s types and the
   dependency injection.
4. (done) Stored forms and paths in the dictionary, values of filters as YAML gives them,
   finalized heights that go back, plug-ins of custom data sources.
5. What is left to prove are results that no run states yet: that `BlockFetch` delivers
   what `Pipeline` assumes of a fetch, and that `Dictionary` leaves the heights that
   `Pipeline` calls wanted.
