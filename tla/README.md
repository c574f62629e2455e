# Aires: models, model checking and proofs

Aires collects structured events. Applications log through an SDK (a Rust core,
with TypeScript and Python bindings); the SDK batches events and sends them over
gRPC to a collector (Elixir), which inserts them into ClickHouse and answers
queries, one of which is a live tail. This directory holds TLA+ models of the
parts of Aires that keep state and interleave, the TLC configurations that check
them on small instances, and TLAPS proofs of what matters most for every
instance. Paths below are relative to `src/`.

Contents:

1. [The system](#1-the-system): components, state, operations, what makes each correct
2. [The modules](#2-the-modules) and how they correspond to the code
3. [The runs](#3-the-runs): bounds, and what each shows
4. [Where code and documentation disagree](#4-where-code-and-documentation-disagree)
5. [Fairness](#5-fairness)
6. [What is proved](#6-what-is-proved)
7. [What is only model-checked](#7-what-is-only-model-checked)
8. [Abstractions](#8-abstractions)
9. [What is not modelled](#9-what-is-not-modelled)
10. [Plan](#10-plan)

To check a run: `tlc -config Engine.cfg BatchWorker.tla` (the module of each run
is in the table of section 3). To check the proofs: `tlapm CollectorProofs.tla`.
The community modules must be on the library path. Operators preceded by a
comment `Mutant:` are not part of a model: each is a plausible bug, a variant of
the action that follows it, with which a named property (PROJECT.json) is found
violated. They keep the properties honest.

## 1. The system

```
 application threads         tokio runtime                     BEAM
 ┌────────────────┐ try_send ┌─────────────┐ gRPC Ingest  ┌──────────────┐ call  ┌───────┐ INSERT
 │ BatchSender    ├─────────▶│ BatchWorker ├─────────────▶│ Server.ingest├──────▶│ Store ├──────▶ ClickHouse
 │ submit, flush  │ channel  │ buffer,retry│◀─────────────┤ (per RPC)    │◀──────┤       │          │
 └───▲────▲───────┘ Notify×2 └─────────────┘ accepted/    └──────────────┘ reply └───────┘          │
     │    │                                  rejected                                               │
 ┌───┴──┐ └─ Python binding                  ┌──────────────┐ SSE  ┌───────────────────┐  SELECT    │
 │ addon│                                    │ tailIterator │◀─────┤ HttpRouter.tail_  │◀───────────┘
 │ + TS │                                    │ (sdk-ts)     │      │ loop, Query.tail  │
 └──────┘                                    └──────────────┘      └───────────────────┘
```

| Component | State | Operations | Talks to | Hard behaviour | Correct when |
|---|---|---|---|---|---|
| Batching engine, `packages/sdk-rust/src/{lib,batch/*,client/grpc}.rs` | bounded channel, worker's buffer, batch in flight, connection, retry counter, two `Notify` permits and their waiters | `submit`, `flush`, `flush_sync`, `Drop`, worker loop, `drain_channel`, `ship` | collector by gRPC | submitters, flush callers and worker interleave; cancelled futures; lost connections; runtime shutdown; a channel at its limit | an accepted event is settled exactly once, in order; retries stay in budget; `flush` neither hangs nor returns early |
| Collector ingest path, `packages/collector/lib/aires_collector/{server,store,application}.ex` | one process per RPC with its counters; the Store and its mailbox; the table | `Ingest`, `IngestStream`, `insert_batch`, supervisor restart | SDK, ClickHouse | 30 s call timeout with the message left in the mailbox; INSERT that raises after storing rows; Store crash | what the client is told agrees with the table; every call ends |
| Delivery end to end | both of the above | retries of the one against the timeouts of the other | | a lost answer, a late insert, a retry of what was stored | duplication is bounded; an accepted batch is stored |
| Live tail, `query.ex`, `http_router.ex`, `packages/sdk-ts/src/query.ts` | cursor; chunked response; `leftover`, `buffered`, `done` of the iterator | poll, write, read, `next`, `return`, abort | ClickHouse, HTTP client | timestamps as cursor; reads that cut frames; aborts racing reads; noticing a client that left | every row once, none skipped; the loop ends when the client does |
| TypeScript SDK, `packages/sdk-ts/src/index.ts`, `native/src/lib.rs` | `_buffer`, `_emitter`, `_native`, timer; the addon's `INSTANCE`; asynchronous contexts, bound loggers, spans; `store._aires` | `log.*`, `with`, `scope`, `metric`, `span`, `init`, auto-init timer, `patchConsole`, the hooks of the Elysia plugin | addon, terminal, Elysia | `init` twice; timer against `init`; a replay that throws; contexts and requests interleave | each event delivered or buffered, once, in order, with the attributes bound where it was logged |
| SDK configuration, `packages/sdk-rust/src/config.rs` | none | setters, `build`, TLS choice | engine, bindings | zero values, one of two related options left to its default | `batch_size > 0`, `queue_capacity >= batch_size` |
| Serialize pool, `batch/pool.rs` | arenas | `serialize_batch` | engine | may fail after the buffer was drained | engine accounts for the batch |
| Event builder, `event.rs`, `error.rs` | none | setters | engine, bindings | | record carries what was set |
| Python SDK, `packages/sdk-python` | `INSTANCE`; loggers and spans with their bound attributes; handlers of `logging` | `init`, `Logger`, `Span`, `metric`, `patch_logging` | engine | `init` outside a runtime, or twice; the same key bound in several places | a row carries the innermost binding; the events of a span agree; one engine gets all events |
| Row transformation, `transform.ex` | none | event → row | Store | nanoseconds truncated to microseconds; enum names | what was set arrives in its column |
| Search, metrics, auth | none | build SQL, scope by token | ClickHouse | | scope always applied |
| Broadway pipeline, `pipeline.ex`, `pipeline/producer.ex` | | | | not started by `application.ex` | |
| Proto definitions, SQL schema, docs site, benchmarks, CI | | | | | |

`PROJECT.json` lists the same components with their status, and under `hazards`
every place where the code is exposed to something a unit test would hardly
reach, with the properties that cover it.

## 2. The modules

Each module models one component; an action is one handler, or the code between
two suspension points of a task. Variables and actions keep the source's names
where there is one. `map` in `PROJECT.json` gives the lines of every definition.

### EventChannel
The abstract specification of the batching engine: a FIFO channel whose events
are admitted or turned away and settled a batch at a time, oldest first, each
with one fate. It has no buffer, no retries, no flush.

### BatchWorker
The engine in full.

| Code | Model |
|---|---|
| `BatchSender::submit` (`sender.rs`): `try_send` ok, `Full`, `Disconnected` | `SubmitAccepted`, `SubmitFull`, `SubmitDisconnected` |
| `crossbeam` channel; `run`'s `buffer`; the `Vec` drained in `ship` | `queue`; `buffer`; `inflight` |
| `run` entered; pool or interval fails | `WorkerStart`; `WorkerStartFails` |
| `select!` timer arm; flush arm | `Tick`; `FlushArm` |
| `drain_channel`: one `try_recv`; nothing left | `DrainOne`; `DrainEmpty` (with `AfterDrain`, what follows each of the two calls) |
| `ship`: connected, drains, serialises, sends; no connection; `serialize_batch` fails | `ShipBegin`; `ShipUnreachable`; `ShipUnencodable` |
| `ingest_raw` answers; fails; sleep over and reconnected; or not | `SendOk`; `SendErr`; `Resend`; `ReconnectFails` (the last two failures share `RetryOrGiveUp`) |
| `flush_done.notify_one()` | `NotifyDone` |
| `flush`: `notify_one`; `notified().await`; future dropped | `FlushCall`; `FlushWait`; `FlushAbandoned` |
| `Drop for Aires`: `flush_sync`; its 100 ms pass | `DropBegin`; `DropEnd` |
| the runtime is shut down | `RuntimeShutdown`, at an await only |

`flushNotify`, `flushHanded`, `flushDone` and `waiters` are tokio's `Notify`: a stored
permit, at most one, and a FIFO of waiters. The worker is the only waiter of
`flush_notify`, so that one needs no queue: `NotifyWorker` hands a notification to a
worker that is parked in its `select!` (`flushHanded`), after which another call stores
a permit, and stores a permit at once if the worker is elsewhere; a permit absorbs all
later ones. If another arm is taken, the dropped `Notified` passes on what it was handed
(`DropNotified`). On the side of `flush_done` the wakeup of a waiter and its return are
one step: a future dropped in between would pass its notification on, as if it had been
dropped before the worker notified, which `FlushAbandoned` allows. `pc` is where the worker is; `ret`
where `ship` returns to. `accepted`, `settled`, `fate`, `tries` and `goal` are
history variables: no guard reads them.

### Collector
| Code | Model |
|---|---|
| `Server.ingest`: receive, transform, `Store.insert_batch` | `Receive` on an RPC outside `Streams` |
| `Server.ingest_stream`: one turn of its `Enum.reduce` | `Receive` on an RPC in `Streams`; `StreamEnds` |
| `GenServer.call` with no process; after 30 s; connection lost | `ReceiveNoStore`; `CallTimeout`; `ConnectionLost` |
| `Store.handle_call` / `do_insert`: `[]`; sent; done; raised | `InsertNothing`; `InsertBegin`; `InsertOk`; `InsertFails` |
| reply, counted by the handler | `Reply` |
| Store or its pool dies; supervisor | `StoreCrash`; `StoreRestart` |

An INSERT that raises, and one interrupted by a crash, leaves any part of its
rows in the table. `landed` is the table, per batch; `rows` and `verdict` are
history.

### Delivery
`BatchWorker::ship`'s retry loop composed with the collector. It instantiates
`Collector` with one RPC per *attempt* (a batch and the value of `retries`), so
that the collector's handlers, mailbox, timeouts and crashes are those of that
module and not a summary of them. The network may deliver a request before or
after the worker has given up on it; the worker may see a broken connection at
any time while it waits. It leaves out the buffer and the channel: they are the
business of `BatchWorker`, whose `RetryBudget` and `HeadOfLine` say that one
batch at a time is in this loop.

### Tail
| Code | Model |
|---|---|
| `Query.tail`'s WHERE, ORDER BY, LIMIT; new cursor | `Fresh`, `Pages`; `NextCursor` |
| `POST /query/tail`: headers sent, the loop entered | `Serve` |
| `tail_loop`: rows; none, keep-alive; query error; exit | `PollRows`; `PollEmpty`; `PollFails`; `PollCrashes` |
| `tailIterator`: `fetch`; `next`; `readChunk`; reader done, aborted, broken | `Open`, `OpenOk`, `OpenFails`; `Next_`, `Yield`, `Finish`; `Read`; `ReadFinished`, `ReadAborted`, `ReadBroken` |
| `return()`; `AbortSignal` | `Return`; `Abort` |
| the table; the socket | `time`, `Arrive`; `wire`, `eof`, `closed` |

A frame travels in two pieces, so a read may end inside one. `Data` and `Rest`
are the parser: what complete frames of `leftover` plus the new pieces say (their
`Ends`, in order), and what is kept for the next read. Rows arrive with any timestamp, equal, earlier
or later than those before. The server starts its loop on its own (`Serve`), before
the headers reach the client (`OpenOk`) or without their ever doing so: the connection
may fail, or the signal fire, on either side of it (`ClientFails`). `early` is history: `return()` was called before the
response came.

### TsSdk
The life cycle. `Log` and `Metric` are the logger's entry points, `Emit` is
`emit()` (the buffer and the timer included), `DoInit` is `init()` with the
replay of `_buffer`, `NativeInit` the addon's `OnceLock`, `TimerFires` the
auto-init. JavaScript runs a call to its end, so each is one step. `Poison` events
are those whose attributes `JSON.stringify` rejects; a call whose event the emitter
or the addon throws back (`Hand`) throws at its caller, and the event is in `thrown`
and not in `logged`. `again` is history.

### TsLogger
What an event says about where it was logged, from the call to the row.

| Code | Model |
|---|---|
| `_store` and the contexts that have it; `createLogger(base)`; `SpanHandle` | `contexts`; `loggers`; `spans` |
| `resolve`; `emitLog` | `Resolve`; `RawFor`, `Raw` |
| `log.*`; `metric`; `with`; `scope`; `span`, `end` | `Log`; `Metric`; `With`; `Scope`; `Span` (with `Merged`), `SpanEnd` |
| the emitter and the addon's functions; its metric path | `EmitNative`; `MetricNative` (both end in `Row`) |
| `_buffer`; the replay | `buffer`; `InitReplays` |
| `patchConsole`; a console method | `PatchConsole`; `Console` |
| `onRequest`; `onBeforeHandle` and `derive`; the handler's `log`; `onAfterHandle`, `onError` | `Arrive`; `Derive`; `HandlerLog`; `Finish` |
| `store._aires` | `shared` |

Any context may run between two calls, and any hook of one request between two
of another. `path` records what was bound, innermost last, beside the maps the
code merges; `overlapped` records that another request arrived before the trace
was read. `init` is called once here and loads the addon (the rest is `TsSdk`).

### SdkConfig, EventRecord
Operators without state: `AiresConfigBuilder` (`NewBuilder`, `Builder`, `Builds`,
`Config`), and the record of an event from `EventBuilder` (`LogEvent`,
`MetricEvent`, `SetFields`, `SetAttrs`) to the collector's `Row`. `Bound` and
`Innermost` are the reference for layered maps that the properties compare with. The
map operators `:>` and `@@` are those of module TLC, written out for the provers.

### PySdk
| Code | Model |
|---|---|
| `INSTANCE`; the tasks `tokio::spawn` has started | `instance`; `workers` |
| `init`: refused by `build` or panics; builds, and is perhaps second | `InitFails`; `InitBuilds` |
| `Logger`, its `base`; `with_`; `trace` ... `fatal`, call; `metric`; `span` | `loggers`; `With`; `Log`; `Metric`; `Span` |
| `Span`: `log`; `end`, `__exit__` | `SpanLog`; `SpanEnd` |
| conversion of keyword arguments in `emit_event`; elsewhere | `Extract`; `Str` |
| the two loops of `emit_event` | `Bind`, `EmitEvent` |
| `patch_logging`; a record of the `logging` package | `PatchLogging`; `LoggingCall` |

A keyword argument is a `str`, `True`, or an object whose `__str__` raises. The
interpreter's lock is held during a call, so a call is a step. The state
`runtime` says whether the calling thread is inside a tokio runtime, which the
binding does not create.

### Promotion
A service with the TypeScript SDK and one with the Python SDK on the path of one
request, both as instances of TsLogger and PySdk: each logs it under the keys that the
comments and manuals promise a field of the event.

### BatchWorkerProofs, CollectorProofs, DeliveryProofs, TailProofs, TsSdkProofs, PySdkProofs, TsLoggerProofs
The proofs: section 6. `EventRecordProofs` holds the lemmas about event records and
layered attribute maps that the two bindings share; it states no theorem of its own.

## 3. The runs

| Run | Module | Instance | Distinct states | Shows |
|---|---|---|---|---|
| Engine | BatchWorker | batch 2, queue 2, 1 retry, 3 events, one flush caller that may drop its future | 213 k | `TypeOK`; `Ledger`; `RetryBudget`; `HeadOfLine`; `OversizeOnlyWhenDisconnected`; `NoLostWakeup`; `FlushCoverage`; `FlushReturns`; `AcceptedSettles`; the engine implements `EventChannel` with its fairness (`ChannelFairSpec`) |
| Ingest | Collector | one unary RPC, two streams of up to 2 messages of up to 1 event | 251 k | `AcceptedLanded`; `OneCall`; `Totals`; `StreamInOrder`; `CallEnds` |
| Delivery | Delivery | 2 batches of 2 rows, 1 retry | 142 k | `CopiesBounded`; `AcceptedStored`; `ShipsAll` |
| Tail | Tail | 3 rows, timestamps 1..4, page 2, cursor starts at 1, a buffer of 6 pieces | 100 k | `StreamLedger`; `NoRepeat`; `Complete`; `TailDelivers`; `TailEnds`; `IteratorReleases` |
| TsInit | TsSdk | two logs, one of them poison, a span, a metric, 2 calls of `init` | 2.5 k | `Ledger`; `NativeKept`; `Drains` |
| TsLogs | TsLogger | 3 keys (promoted, doubly placed, plain), 2 values, 2 span ids, 2 requests, 4 objects, 1 buffered event | 184 k | `Carried`; `SpanIdCarried`; `TraceUnlessOverlapped` |
| PyApp | PySdk | 2 endpoints, batch size absent, 0 or above the default capacity, 3 keys (two promoted, one plain), a string, a bool and a broken object as values, 3 loggers and spans, 2 successful calls of `init` | 105 k | `Inherited`; `SpanFamily`; `EngineConfigured` |
| FlushConcurrent, BacklogUncapped, DeliveryRetried, TailMisses, Promotion | | the smallest instance that shows the disagreement | | section 4 |

What the properties say, in the words of the code:

* **Ledger** (engine): the events `try_send` took are, in that order, those the
  engine is done with, the batch in `ship`, the buffer, the channel. Nothing is
  lost on the way, duplicated or overtaken by an early return, a retry, a failed
  serialisation, a drop or a shutdown.
* **RetryBudget, HeadOfLine**: at most `max_retries + 1` requests carry an event,
  none before it leaves the buffer, one at least before it is said to be answered
  or given up, and none while an older event is neither settled nor in the same
  batch.
* **OversizeOnlyWhenDisconnected**: a batch passes `batch_size` only after the
  collector could not be reached, although `drain_channel` tests the length after
  the push and runs in two places of the loop.
* **NoLostWakeup, FlushReturns**: with one flush caller, the two-`Notify` handshake
  loses no wakeup, and `flush` returns unless the worker is gone.
* **FlushCoverage**: `flush` returns only after everything accepted before it, up to
  one batch, is settled, or the collector was unreachable. So it is for any number of
  callers and although others drop their futures, of a call made while no earlier request
  to flush is unanswered (`Answering`). Another call may be given the answer to that
  earlier request, and nothing holds of when it returns.
* **AcceptedSettles**: every accepted event gets a fate.
* **AcceptedLanded, OneCall, Totals, StreamInOrder, CallEnds** (collector): rows
  reported as accepted are in the table, and no batch is in it twice; a waiting
  handler has exactly its current call in the mailbox, so a late reply never meets
  a later turn of the stream's reduce; a response accounts for every event the
  client sent; a stream's batch is inserted only after all before it have been
  answered; every call ends, by an answer or the death of the Store, even if the
  30 s timer never fires.
* **CopiesBounded, AcceptedStored, ShipsAll** (delivery): the table holds no batch
  more often than it was sent nor than `max_retries + 1` times; a batch the SDK
  knows to be accepted is whole in the table; the worker gets through its batches
  although it sets no request timeout.
* **StreamLedger, NoRepeat, Complete, TailDelivers, TailEnds** (tail): what the
  server wrote is what `next()` returned plus what is still under way, wherever
  reads cut the stream; no row is sent twice; if timestamps increase in the order
  of arrival, the cursor skips nothing and each row reaches the consumer of a tail
  that goes on; when the client has gone, the server stops.
* **IteratorReleases** (tail): however the iteration ends, the server stops
  polling ClickHouse, unless `return()` was called before the response came.
* **Ledger, NativeKept, Drains** (TypeScript SDK): each event is delivered or
  buffered, once and in order, and leaves the buffer even if `init` is never
  called, unless a replay throws; once the addon has an instance events go to it,
  whatever a timer or a failed `init` did before, until `init` is called again.
* **Carried** (TypeScript loggers): a row holds, for each key, the innermost value
  bound by scope, logger, span or call, in the column or the attribute map where
  it belongs, and nothing else, however contexts interleave and whether the event
  was shipped at once or replayed. Of `parentSpanId` and `subtraceId`, which are not
  passed to the addon, it asks only that a value in a row comes from a binding; that
  there be one is `PromotedInColumns`, which Promotion refutes.
* **SpanIdCarried**: start, end and log events of a span carry its id from
  whatever scope they are logged, those of a nested span the nested id.
* **TraceUnlessOverlapped**: the events of a request carry the trace of that
  request unless another one arrived before the plugin read the trace; this is
  the strongest statement that `store._aires`, one object for all requests, allows.
* **Inherited, SpanFamily** (Python): the same of the Python loggers, with the
  conversions of keyword arguments, a key having its column or an attribute (either, for
  the keys that are promised a column and have no arm in the match: Promotion again);
  and the events of a span agree on whatever
  they do not set themselves, for any mixture of `with_`, keyword `span_id`s and
  repeated `end`.
* **EngineConfigured**: whatever `init` is called with, and however often, each
  worker that starts has a configuration the engine can work with
  (`ConfigAssumption` of `BatchWorker`), and the events go to the first, also when a
  refused second `init` has left a worker behind.

Why the bounds suffice. *Engine*: three events and a batch of two give a full
batch, a partial one left behind, and a channel that fills; they let a drain stop short of
an event in the channel, the case a flush must survive, and the buffer pass the batch
size after an outage; one retry gives a request that is repeated and one that is given
up; a future that may be dropped gives an answer stored with nobody waiting, and a call
made before an earlier one is answered. Three events let the buffer pass `batch_size`
before the first connection and reach it afterwards; that it cannot pass it then, for
which a fourth event would be needed, is `OversizeOnlyWhenDisconnectedHolds`, for any
number of events. What a second concurrent caller adds, an absorbed
permit and a queue of waiters, makes the state space too large for this run:
FlushConcurrent has it, and `LedgerHolds`, `ImplementsChannel`, `FlushCoverageHolds` and
`OversizeOnlyWhenDisconnectedHolds` are proved for any set of callers. *Ingest*: two
streams and a unary call fill the mailbox with three callers, of which any may
leave before its turn, and two batches per stream make the second turn of the
reduce meet what the first left behind. One row per message is enough for the
handlers; that an INSERT may store *part* of a batch needs two rows, which
*Delivery* has. *Delivery*: two attempts per batch and a second batch, so that a
late insert of the first overlaps the second. *Tail*: a page of two and three
rows give a page that cuts ties, four timestamps above and at the starting
cursor; a buffer of six pieces holds a page and part of the next, so the writer
blocks. *TsInit*: two calls of `init` and one poison event among four. *TsLogs*:
four objects nest a scope in a scope, a logger in a logger, a span in a span
or let two requests overlap, with an event from each; a key of each way to a row
(`traceId` to a column, `agentId` to both, `orderId` to an attribute) and two values
tell layers apart; buffered events are independent of each other, so one is
enough. *PyApp*: three objects bind a key twice below a call; the batch sizes are
those for which `build` decides differently (default, zero, above the default
capacity).
The counters these bounds cap (`MaxEvents`, `MaxBatches`, `MaxRows`,
`MaxShipped`, `MaxTime`, `MaxWire`, `MaxInits`, `MaxObjects`, `MaxBuffered`,
`MaxHandlers`) appear in guards or ranges only
and are named in the modules as bounds. The runs set `CHECK_DEADLOCK FALSE`
because each of these systems does stop: the events are all submitted and the
handle dropped, the RPCs answered, the batches shipped, the tail over, the calls
made.

## 4. Where code and documentation disagree

Each of these is a run that checks one statement of the repository, and which
TLC refutes. Promotion has one statement for two SDKs, namely that at least one of them
keeps it, so that its counterexample refutes both.

| Run | The repository says | The code does |
|---|---|---|
| FlushConcurrent | config.md:54, `flush_timeout` is the "Maximum time to wait when flushing" | two concurrent calls leave one permit in `flush_notify`; one of them waits for ever. `flush_timeout` is never read |
| BacklogUncapped | worker.rs:98-99, the backlog of an outage is "capped by queue_capacity back-pressure upstream" | each turn of the loop moves the channel into the buffer, shipped or not, so nothing caps it |
| DeliveryRetried | setup.md:298, "events will be retried via Broadway" | a failed INSERT is answered with status OK and a `rejected` count, which `ship` logs; nobody sends it again |
| Promotion | sdk-ts index.ts:17-19, promoted keys are "placed into dedicated proto fields", and sdk/typescript/tracing.md:40-58 and 154-198 build on it | `parentSpanId` and `subtraceId` are taken out of the attributes and passed to no option of the addon: they reach no row |
| Promotion | sdk-python lib.rs:19, "Promoted keys that get dedicated proto fields", and sdk/python/usage.md:59 of `agent_id` and `category` | the match has no arm for these two and `parent_span_id`: they become attributes and their fields stay empty |
| TailMisses | query.ex:8-9, the `since` cursor "gets back new events" | rows that share the last timestamp of a full page, and rows that arrive late, are behind the cursor and never sent |

The models also exhibit the following, or they were met while reading; no run
is devoted to them. In the engine, the collector and the tail:

* A flush that finds more than one batch returns with accepted events still in
  the channel (`FlushArm`, `AfterDrain`): `drain_channel` stops at `batch_size`, the
  flush arm ships that batch and notifies. sdk/rust/usage.md:226 says "Always flush
  before shutdown to ensure all buffered events are shipped". `FlushCoverage`
  says what does hold.
* `Drop` returns after 100 ms whatever was shipped (`DropEnd`); usage.md:30 says
  it "flushes remaining events synchronously".
* `rejected` counts failed inserts (`Reply`); the protocol reference explains it
  as validation failures.
* The tail's error frame carries JSON on a data line and the iterator returns it
  as an event (`PollFails`, `Yield`), against the comment at query.ts:213.
* `return()` during `init` finds no reader and the response is opened after it:
  the case `IteratorReleases` excepts.
* A flush whose future is dropped may leave its answer for the next flush.
* architecture.md and setup.md describe a Broadway pipeline that `application.ex`
  does not start; architecture.md:110 says "exponential backoff" of a delay that
  is linear.

In the TypeScript SDK:

* A second `init` over a working addon makes the addon throw "aires already
  initialized", and the catch puts the SDK into fallback mode (`NativeInit`, the
  case `NativeKept` excepts); sdk/typescript/install.md:81 knows the fallback only
  "If the native addon can't be loaded", and the warning at index.ts:256 then says
  "native addon unavailable".
* A replay that throws strands the rest of `_buffer` (`Replayed`, `stranded`),
  against index.ts:50-51; another `init` delivers the first part again.
* A metric logged before `init` is shipped as a log event (`Emit` against `Metric`).
* The scope of the Elysia plugin is left before the handler runs (`Derive`),
  against the comment index.ts:408-409, "all log() calls inherit the trace context".
* Requests share `store._aires`: overlapping requests are logged with each
  other's trace (`Arrive`, the case `TraceUnlessOverlapped` excepts).

In the Python SDK:

* `init` panics outside a tokio runtime, which the binding does not create
  (`InitFails`); sdk/python/usage.md calls it from plain Python.
* Everything bound in a metric goes to the attributes (`EmitEvent` against `Metric`).
* `True` is logged as "1" by a log call and as "True" by `with_`, `span` and
  `metric` (`Extract`, `Str`).
* A refused second `init` leaves its worker running (`InitBuilds`).
* TLS follows the scheme of the endpoint unless set (`tls_from_endpoint`); the
  configuration tables of the manuals give a default of true.
* The collector stores "rust" as the SDK's language for every binding (`Row`).

## 5. Fairness

Safety is checked and proved without any fairness. The liveness properties
assume, as part of each `FairSpec`, no more than this:

* *BatchWorker.* `WF(Worker)`: tokio polls a ready task, an awaited request
  completes with an answer or an error, a sleep ends. `WF(FlushWait(f))`: callers
  of `flush` are polled as well. `SF(FlushArm)`: `select!` picks among ready arms
  at random, so an arm ready again and again is taken; weak fairness would allow
  the timer to win for ever. `SF(ShipBegin)`: a collector that is tried again and
  again is reachable in the end; without it nothing can be promised, since
  `ShipUnreachable` keeps the buffer and tries at every tick. Nothing is assumed of
  submitters, of `Drop`, or of cancellation.
* *Collector.* `WF(Store)`: the Store is scheduled, and ClickHouse or the driver's
  own timeout answers. Nothing is assumed of the 30 s timer, the clients or the
  supervisor.
* *Delivery.* The worker runs (`WF(Ship)`) and learns of the death of its handler
  (`WF` on `SendError` when the handler has failed); a request that was sent
  arrives, if only at a collector that cannot serve it (`WF` per attempt); the Store
  works (`WF`). Restart, timeouts and connection failures are not assumed to happen.
* *Tail.* The loop, the opening of the response, the reads and the consumer's
  `for await` proceed (`WF` each). Rows, failures, `return()` and aborts are free.
  That the loop starts (`Serve`) is not assumed.
  `TailEnds` and `IteratorReleases` need the loop to go on polling, nothing of the
  consumer.
* *TsSdk.* A timer that is set fires.

One assumption deserves a remark. The gRPC client sets no request timeout and no
keep-alive, so "an awaited request completes" is the weakest link of the engine:
it rests on the collector's handler ending every call, which is `CallEnds` and
`ShipsAll`, and on the connection breaking when the peer disappears without a
word.

## 6. What is proved

The theorems hold for every value of the constants allowed by the assumptions:
`ConfigAssumption` (what `AiresConfigBuilder::build` accepts) and
`BoundsAssumption` for the engine, `CollectorAssumption` for the collector,
`DeliveryAssumption` for the delivery, `TailAssumption` for the tail,
`TsSdkAssumption` and `TsLoggerAssumption` for TypeScript, `PySdkAssumption` and
`NoneAssumption` for Python. No other assumption is made; the sets of flush callers
and of RPCs need not be finite. Three theorems have a hypothesis, stated in them:
`NoLostWakeupHolds` speaks of one flush caller (with two, FlushConcurrent refutes what
it says), `SoleCallerClean` of one that keeps its future, and `NeverStranded` of events
that can all be serialised.

Every safety invariant and every action property a passing run checks is stated by
a theorem.

| Theorem | Module | Statement |
|---|---|---|
| `TypeCorrect` | BatchWorkerProofs | `Spec => []TypeOK`, the retry counter within its budget included |
| `OversizeOnlyWhenDisconnectedHolds` | BatchWorkerProofs | the buffer passes `batch_size` only while there is no connection |
| `LedgerHolds` | BatchWorkerProofs | the ledger of accepted events balances |
| `ImplementsChannel` | BatchWorkerProofs | `Spec => ChannelSpec`: the engine implements `EventChannel` |
| `RetryBudgetHolds` | BatchWorkerProofs | at most `max_retries + 1` requests per event, none too early |
| `HeadOfLineHolds` | BatchWorkerProofs | requests go out in the order of submission |
| `NoLostWakeupHolds` | BatchWorkerProofs | one flush caller: no wakeup of either `Notify` is lost |
| `FlushCoverageHolds` | BatchWorkerProofs | any callers: `flush` returns only when its goal is settled |
| `SoleCallerClean` | BatchWorkerProofs | a sole caller that keeps its future never calls while an earlier request is unanswered, so all its calls have a goal |
| `AcceptedLandedHolds` | CollectorProofs | accepted rows are in the table, no batch is inserted twice |
| `OneCallHolds` | CollectorProofs | one pending call per waiting handler, its current one |
| `StreamInOrderHolds` | CollectorProofs | a stream is inserted in order |
| `TotalsHolds` | CollectorProofs | a response accounts for every event the client sent |
| `ImplementsCollector` | DeliveryProofs | the composition implements `Collector`, an RPC to an attempt |
| `AttemptsBoundedHolds` | DeliveryProofs | at most `max_retries + 1` requests per batch, each of which stores it at most once |
| `CopiesBoundedHolds` | DeliveryProofs | the copies of a batch in the table are bounded by the requests made for it and by the retry budget |
| `AcceptedStoredHolds` | DeliveryProofs | a batch the SDK knows to be accepted was stored whole by one of its attempts |
| `NoRepeatHolds` | TailProofs | no row is sent twice, rows go out by increasing timestamp |
| `CompleteHolds` | TailProofs | timestamps that increase: the cursor passes no row that was not sent |
| `StreamLedgerHolds` | TailProofs | what was written is what `next()` returned plus what is under way, wherever reads cut the stream |
| `LedgerHolds` | TsSdkProofs | each event logged is delivered or buffered, once and in order, unless a replay threw |
| `NativeKeptHolds` | TsSdkProofs | an addon that has an instance stays in use until `init` is called again |
| `NeverStranded` | TsSdkProofs | if nothing logged makes a delivery throw, no replay does, and the ledger is unconditional |
| `CarriedHolds` | TsLoggerProofs | a row holds the innermost value of each key, where it belongs, and nothing else |
| `SpanIdCarriedHolds` | TsLoggerProofs | the events of a span carry its id from whatever scope they are logged |
| `TraceUnlessOverlappedHolds` | TsLoggerProofs | the events of a request carry its trace unless another request overlapped it |
| `EngineConfiguredHolds` | PySdkProofs | every engine `init` starts can work with its configuration, and `INSTANCE` is the first |
| `InheritedHolds` | PySdkProofs | a row shows the innermost value of each key, converted as the call converts it |
| `SpanFamilyHolds` | PySdkProofs | the events of a span agree with its first on all they do not set themselves |

**Engine: phases and sizes.** `Ledger` and the refinement are not inductive:
`ShipBegin` replaces `inflight` by `buffer`, which loses events unless `inflight`
is empty then, and `ShipReturns` settles `inflight` alone, which is out of order
unless nothing else precedes the channel. `Phases` says just this: there is a batch
in hand only at `send` and `backoff`, and the buffer is empty there. `Sizes`
adds what the length of the buffer is at each place while connected (strictly
below `batch_size` wherever the worker may drain, zero at `notify`); from it
`OversizeOnlyWhenDisconnected` follows, and without it a drain that starts from a
full buffer could not be excluded.

**Engine: the ledger and the refinement.** Under `pending <- inflight \o buffer \o
queue`, `open <- pc # "dead"`, `PendingStep` says what each step does to
`Pending`: it appends the submitted event (`Admits`), removes a non-empty prefix
and settles it, leaves it alone (`Keeps`), or closes (`Closes`). Both the ledger
and `ImplementsStep` are corollaries, so the case analysis of the actions is
made once. `ImplementsChannel` is the safety part: every step of the engine is a
step of the channel or a stutter. That the engine also has the channel's
fairness (`ChannelFairSpec`) is checked by Engine.

**Engine: order.** `RetryBudget` and `HeadOfLine` speak of events, the code of
places: `OrderInv` therefore says, place by place in `accepted`, that the first
`Len(settled)` events have a fate, the next `Len(inflight)` are in the batch
being sent, each failed attempt of which was counted in `retries`, and those
after have been in no request. `Order` (events are accepted in the order of
their numbers) makes places and events interchangeable. `SettlePlaces` and
`SendPlaces` are the two steps that move the borders; all others leave them.

**Engine: flush.** `WakeupInv` adds to `NoLostWakeup` who may be in the queue of
`flush_done` (`Waiter`). For `FlushCoverage`, `Goals` says that a goal asks for no more
than was accepted, counted from no more than is settled, and survives because both only
grow. `Promise` says of every caller with a goal that while the flush arm ships, what is
settled, in the batch and in the buffer together is enough, and that what is settled is
enough by itself once the arm notifies or has left an answer. A new goal cannot break it:
it is set only when no request is unanswered (`Answering`), hence outside the flush arm
and with no answer left over. The theorem then needs no count of the callers.
`SoleCallerClean` says what the condition amounts to: `OneRequest`, that the call of a
sole caller is in one place at most (handed to the worker, the permit of `flush_notify`,
the flush arm, the permit of `flush_done`) and in none when it does not call.

**Collector.** `AcceptedLanded` needs to know that a batch is inserted at most
once, hence that an insertion starts from an untouched batch (`Untouched`, for
what is in the mailbox, and `Future`, for what has not been received), that the
head of the mailbox exists while inserting and that a dead Store has none
(`StoreFits`), and that mailbox entries are distinct and current (`OneCall`). `Settled`
adds that a handler goes on only with an answer, from which `StreamInOrder`
follows. Together they are `IngestInv`; the lemmas `ReceiveStep`, `HandlerEnds`,
`ReplyStep` and `CrashStep` are the four ways the mailbox changes.

**Collector: totals.** `Totals` sums the events of the batches of an RPC with the
library's fold, which is the value of a recursive function (`SumIs`). `SumDef` gives the
equation such a sum obeys, `SumSplit` that any element may be taken out first, and from
these come additivity over disjoint sets, congruence and bounds. `Counted` then says
that the counters of an RPC are the sums over its batches answered that way, and
`CountedReply` that each reply adds one batch to one of them; `Concluded`, that a handler
answers its client only after the answer to its last batch.

**Delivery.** `CollectorStep` shows that every step of the composition is a step of the
collector, or none; `IngestInv` thus carries over through an instance of
CollectorProofs in which the RPCs are the attempts. `DeliveryInv` adds that what was
received had been sent, that a handler is done only when the Store has answered it,
and that an error is counted (`Answers`); without the last, an answer that counts no
rejected event would not tell the worker that its batch is in the table. A verdict is
never revised (`ReplyAnswers`), so `Accepted` survives whatever arrives late.
`CopiesBounded` is then a sum over at most `MaxRetries + 1` attempts, each of at most
the rows of a batch.

**Tail.** `CursorInv` relates the cursor to what was sent: everything sent is at the
cursor or before it (`Behind`), the cursor is the client's own or the timestamp of
a row (`Reached`), rows arrive in the order of their numbers (`Filled`) and an
error frame is the last thing sent (`RowsOnly`). `PageFacts` says what ORDER BY and
LIMIT give. A page then starts above all that was sent, whence `NoRepeat`, ties
cut by LIMIT included. For `Complete` the two interesting steps are a page (a row
up to the new cursor that is not in the page would share the timestamp of the
last one) and an arrival (a new row is above the row the cursor stands at).

**Tail: the stream.** `Counts(f, n, E)` says that `f` lists the naturals in `E`, smallest
first; there is one such list (`Countable`, `CountedOnce`), so `Data(s)` may be computed
along any (`DataIs`). Three lemmas follow, of all sequences of pieces: a comment adds no
data (`DataComment`), frames add theirs (`DataFrames`), and a stream cut in two, with an
incomplete frame kept for the second part, has the data of its parts (`DataCut`). With
`Streams` (less than a frame is left over) and `Polling` (a server that has not ended
writes to a response that has not) the ledger is inductive; what a lost connection
leaves is a prefix (`StreamLost`).

**TypeScript life cycle.** `LedgerInv` adds to the ledger that once there is an emitter
nothing waits in the buffer, but for what a replay that threw has left there
(`Settled`): otherwise an event could overtake one that waits. `ReplayedPrefix` is what
the search for the first event that throws gives.

**Bound attributes.** The reference of `Carried` and `Inherited`, the innermost value on a
path of any length, is not something a step can be compared with. `Layered(attrs, path)`
says of a map that each of its keys has the value of the last layer that has it, and
that no later layer does; it survives one more layer and a concatenation
(`LayeredAppend`, `LayeredConcat`), which is what `with`, `span` and `resolve` do, and
determines `Innermost`. `BindingInv` says that every logger and span is layered over its
path, and that every buffered event is too; `SetFieldsKeeps`, `SetAttrsKeeps` and
`RowKeeps` carry a value from there to the row.

**TypeScript traces.** `TraceInv` says of each request where its own trace is, unless
another one overlapped it: in `store._aires` while the request has not ended (`Own`), in
the logger once `derive` has made it, and in the events that wait in the buffer
(`BufferTraced`).

**Python init.** `ConfigSound` goes through `Builder`, `Builds` and `Config` for any
combination of absent and given options, `EngineStep` through the two cases of
`INSTANCE.set`. `NoneAssumption` (no configuration is `None`) is what Rust's `Option`
guarantees.

**Python spans.** `FamilyInv` adds to `SpanFamily` that the first row of every span
`Shows` its attributes: each column and attribute is that of the map, or the default.
`RowShows` establishes this of whatever `emit_event` makes of two maps (`BindKeeps`
is one of its two loops); `ShowsAgrees` and `OverAgrees` are the two ways a later event
adds attributes of its own, beside those of the span (`log`) or laid over them (`end`).

**TypeScript spans.** `SpanInv` says that a span's logger has the id of the span bound,
that an event keeps it unless the call binds another, in the buffer too, and that
spans are only added (`Grows`). `SpanColumn` and `RowColumn` follow the id from the
attribute `spanId` to the column `span_id`.

Induction over data. The library's induction theorems cannot be instantiated here, as
they take an operator for a parameter. Where one is needed (finite sets, by `Minimal`,
for the sums of the collector; naturals in `LeastNatural` and `Countable`) the proofs
take a smallest counterexample instead, which well-foundedness of `<` on the naturals and of
strict inclusion on finite sets provides (`WFMin`), and refute it. For the same reason
the models name sequences by position (`Frames`, `Data`, `Replayed`) rather than by
recursion.

Layout: a lemma per invariant and kind of step, one numbered step per action,
and lemmas about sequences (`HeadTailConcat`, `SplitConcat`, `MiddlePart`,
`NoRepetition`, `TailAt`) stated once and cited by name.

## 7. What is only model-checked

The liveness properties, all under the fairness of section 5, which the prover does
not treat: `FlushReturns`, `AcceptedSettles` and the fair refinement `ChannelFairSpec`
(engine; its safety part is `ImplementsChannel`), `CallEnds` (collector), `ShipsAll`
(delivery), `TailDelivers`, `TailEnds`, `IteratorReleases` (tail), `Drains` (TypeScript).
They hold of the instances of section 3; what the theorems add is that the states those
runs would have to go through satisfy the invariants for every instance.

The operators of SdkConfig and EventRecord are functions of their arguments; what is
proved of them is what the bindings need (`ConfigSound`, `EventRecordProofs`).

## 8. Abstractions

* An event is its number or identity: nothing the engine or the collector does
  depends on its content, except that a batch may fail to serialise
  (`ShipUnencodable`) and a log call may throw (`Poison`).
* Time. Ticks, backoffs, the 30 s of `GenServer.call`, the 100 ms of `Drop` and
  the sleeps of the tail may end at any moment. No property depends on how long
  they are, so the linear backoff and the intervals are not modelled.
* ClickHouse is an environment that inserts all rows, or raises with any part of
  them in; a SELECT returns what the query says, ties in any order.
* The connection of the tail is a bounded FIFO. The server notices that the
  client has gone at its next write.
* Row transformation happens inside `Receive`; it cannot fail on a decoded message.
  Its content is `Row`.
* In `TsLogger` and `PySdk` an event is the record of the fields the bindings can
  set: identity, timestamps, message text, source location and the value of a
  metric are left out; a trace stands for the session that travels with it; the
  attributes of a request that only describe it (method, path, status) are left
  out. Values are strings: of the conversions the one of a bool and of an object
  that cannot be converted are modelled, as the code treats them differently.
* The level filter of Python's `logging` is the application's: a record of any
  level may reach the handler.
* A failing supervisor (too many restarts) is a Store that stays down:
  `StoreRestart` is never required to happen.
* `Delivery` gives each attempt one RPC and never reuses it, as HTTP/2 does with
  streams.
* History variables record and are never read by a guard.

## 9. What is not modelled

* Setters of the Rust event builder that no binding uses (http, error, related
  objects, display text, tags, data, `duration_ns`, `span`) and the wording of errors:
  each stores its argument. That `duration_ns` back-dates a timestamp is in `Tail`,
  where rows arrive with any.
* The serialize pool: third-party arena; the engine's view of its outcome is
  `ShipUnencodable`.
* Search, metrics, tokens: requests without state of their own; what they answer
  is a matter of SQL. The part of the query builder the tail depends on is in `Tail`.
* The Broadway pipeline and its producer: nothing starts or calls them.
* In `sdk-ts`: the layout of terminal output, the source location of a call.
* The generated protobuf modules, the SQL schema, docs, benchmarks, CI.

## 10. Plan

In order of importance; done: the engine with its abstract channel, the
collector, their composition, the tail, the two bindings with configuration and
event record, and a theorem for each safety property the runs check.

1. *Bindings.* The two life cycles composed with the engine: an event a binding took is
   one the engine accepted or turned away.
2. *Row contents end to end.* A composition of a binding, the engine and the
   collector in which a batch is a sequence of rows, if an instance of a useful
   size is within reach.
