# A formal model of the Elastic APM Python agent

TLA+ modules of the agent from the headers of a request to the payload that
reaches the APM server: what an integration and the instrumented libraries do
with a transaction, its spans, its errors and its trace; how spans are settled
when tasks or threads share a transaction; the metrics and the thread that
collects them; the configuration, local and central; the event transport with
its back-off; and the life cycle of the agent's threads across `fork`. TLC
checks them on small instances; TLAPS proves nearly all of their safety
properties, and the refinement of the transport, for every value of the constants. All paths below are under `src/elasticapm/` unless
they say otherwise.

## 1. Inventory

### The parts and how they interact

```
 application threads ──> instrumentation, integrations ──> traces / Client.capture
                                                                  │ queue_func
 timers: metrics collector ──collect──> Client.queue <────────────┘
         config updater ──get_config──┐      │ start_threads (first use in a process)
                                      │      v
                                      │   Transport.queue ──> ChilledQueue ──> worker thread
                                      v                                          │ _flush
                                  Transport.http  (connection pool) <──── send ──┘
```

| part | state | operations | what is hard | what makes it correct |
| --- | --- | --- | --- | --- |
| Event transport, `transport/base.py` | the bounded queue, the worker's gzip buffer, `_flushed`, `_closed`, `_thread` | `queue`, `flush`, `close`, `start_thread`, the loop of the worker | a put that does not wake the reader, one flag for all waiters, a full queue, failing requests, a serializer that raises, close at any moment | no event is doubled, reordered, or lost but by a failed request, a back-off or an exception; a flush or a close is never slept through; close drains; a returned flush means something |
| HTTP transport, `transport/http.py` | the connection pool, the server's version | `send`, `get_config`, `close`, `handle_fork` | requests that time out after the server has read them; a pool copied by `fork` | errors only lose what they say; a process uses its own connections |
| Back-off, `TransportState` | status, retry number, last check | `should_try`, `set_fail`, `set_success` | the interval of 0, the strict comparison | gives up no more than it has to, tries again |
| Configuration, `conf/__init__.py` | the values, the errors, the queue of callbacks | lookup in three sources, validation, callbacks | validators that convert, a source that hides another, callbacks queued in two places | an option is what was asked for, or there is an error |
| Central configuration, `conf/__init__.py` | current and first configuration, version, pending callbacks | `update_config`, `update`, `reset` | two fields that must agree, invalid options, callbacks with effects outside | the reported version is in effect, callbacks follow the configuration, it converges |
| Client life cycle, `base.py` | `_pid`, the starter lock, the thread managers | `start_threads`, `queue`, `close` | threads that race after `fork`, a lock copied while held, queueing under the lock | one worker per process, no self-deadlock |
| Interval timer, `utils/threading.py` | the event `_interval_done`, the next interval | `run`, `cancel` | a run as long as the interval, cancel during a run | runs until cancelled, not after |
| Metrics, `metrics/base_metrics.py` | a dictionary of metrics per set, a lock per metric | `counter`, `timer`, `histogram`, `update`, `collect`, `reset` | collect against update, two collections at once, the label limit | sums and counts fit, nothing is reported twice |
| Breakdown, `traces.py`, `metrics/sets/breakdown.py` | `ChildDuration` of a span | `start`, `stop`, `track_span_duration` | children that overlap, or outlive the parent | self time counts each moment once |
| Traces, `traces.py` | the transaction, its span counters and timers, compression buffers, parents | `begin_span`, `end`, `child_ended`, `report`, `cancel`, `capture_span` | spans of several threads and tasks, ends out of order, counters without a lock, exceptions on their way through spans | every started span is sent, compressed, dropped or cancelled, and the counters say so |
| Execution context, `context/` | active transaction, stack of spans | `set_span`, `unset_span` | asynchronous tasks inherit the stack | the active span is one that is open |
| Distributed tracing, `utils/disttracing.py` | `TraceParent` | parsing, continuation, sampling, tracestate | restarts, sampling decisions of others, headers of strangers | one decision and rate per trace, no parent that never arrives |
| Instrumentation, `instrumentation/packages` | none | a wrapper per library | wrappers that nest, propagate after the span was dropped, see no span | spans and headers agree |
| Integrations, `contrib/`, `middleware.py` | none | signal handlers, middleware, hooks | several of them set the outcome and end the transaction | the outcome is that of the response, the transaction ends once |
| Serverless, `contrib/serverless` | the transaction of an invocation | enter, partial transaction, exit, flush | the process may be frozen after exit | as integrations |
| Bridges, `contrib/opentelemetry`, `contrib/opentracing` | a wrapper per span | start, end, attach, detach | dropped spans, spans that end out of order | as traces |
| Processors, events, encoding, stack traces | none | functions of an event | one that raises | the worker survives |
| Logging handlers, cloud and cgroup metadata, WSGI, wrapper command | little or none | translate the calls and data of other libraries | none that is their own | the same as what they call |

`PROJECT.json` lists the components with their status, and the hazards of this
code with the line where each one bites and the property that watches it.

### How the modules correspond to the code

| module | models | |
| --- | --- | --- |
| `Delivery` | | what the transport promises: at most once, the oldest first, lossy |
| `Transport` | `transport/base.py` | queue, flush, close and the worker thread |
| `TransportProofs` | | TLAPS proofs about it, and that it implements `Delivery` |
| `Backoff` | `TransportState` of `transport/base.py` | the clock behind `should_try` |
| `CentralConfig` | `VersionedConfig`, `get_config` | the updater against a server |
| `CentralConfigProofs` | | TLAPS proofs about it |
| `Config` | `_ConfigBase`, the kinds of options, `Client.__init__` | what an update makes of each option |
| `ConfigProofs` | | TLAPS proofs about it |
| `Client` | `start_threads`, `close`, the thread managers, `fork` | several threads of several processes |
| `ClientProofs` | | TLAPS proofs about it |
| `Collector` | `MetricsRegistry`, `MetricSet`, `IntervalTimer` | the metrics of a process and their collections |
| `CollectorProofs` | | TLAPS proofs about it |
| `Breakdown` | `ChildDuration`, `track_span_duration` | the self time of a span |
| `BreakdownProofs` | | TLAPS proof about it |
| `Tracing` | `traces.py`, `context/contextvars.py` | the spans of a transaction that tasks or threads share |
| `TracingProofs` | | TLAPS proofs about it: the stacks, then settling and counting |
| `TraceContext` | `utils/disttracing.py`, `begin_transaction` | operators: headers, continuation, sampling |
| `Packages` | `instrumentation/packages` | operators: what each instrumented library does around a call |
| `Integrations` | `contrib/`, `middleware.py` | operators: the steps of each integration for each way a handler ends |
| `Request` | `capture_span`, `capture_exception`, `end_transaction` … | one request through all of these; extends the three above |
| `RequestProofs` | | TLAPS proofs about it, and about the tables of the three |
| `MCTransport`, `MCCentralConfig`, `MCClient`, `MCRequest` | | instances for TLC |

`MCClient` puts `Client`, `Collector`, `Breakdown` and `Backoff` into one run, and
`MCCentralConfig` puts `CentralConfig` and `Config` into one. These modules share no
state; a variable `focus` says which of them moves in a behaviour, so the states of
the run are the sum of theirs and not the product.

A definition `MutantX` that stands before a definition `X` is not part of a
specification. It is `X` with the kind of bug that a change of the code could
bring in, and it shows that a property is able to fail: with `MutantX` in the
place of `X`, TLC finds the property of the row in `PROJECT.json` violated.

## 2. The modules

### Transport

One step is what a thread does under one lock: `Event.clear`, one put, one get,
`Event.set`. `queue()` is two steps, `Clear` and `Put` or `PutFull`; `flush()`
and `close()` add the wait (`WaitCheck`, `WaitTimeout`, or the wake-up that is
part of `Finish`), and `close()` starts with its unlocked test (`CloseCheck`)
and assignment (`CloseSet`). The record `call[t]` is the local state of such a
call, with two history fields that only properties read.

The worker `_process_queue` is at `wpc`: `loop` before `get`, `waiting` inside
it, then `flush` or `sending` when the buffer goes out, `finish` before
`_flushed.set()`, `done` after a close, `dead` after an exception.
`ChilledQueue.put` notifies only for a flush, a close, more than
`queue_chill_count` messages or an old unchill; `Wakes` is that condition and
`notified` its effect.

Abstractions. An event is a model value that is queued once. The size of the
buffer is counted in lines, where the code counts compressed bytes. Time is the
flag `due` (`max_flush_time` has elapsed since `_last_flush`); the age of the
last unchill is a free choice; so is `should_try` while offline. `timed` says that
`api_request_time` is not 0, which the central configuration may change and
which the worker reads at a flush (`FlushTimes`). A failed request may or may
not have reached the server.

`Delivery` is what an application may rely on: `accepted` is the sequence of the events
that were accepted, `delivered` has the events of each request that the server read,
`lost` those that were given up, and what is in neither is pending. A request carries
the oldest pending events in the order in which they were accepted. `Transport` keeps
`accepted` and `lost` as history variables under the same names; `delivered` is mapped
to the payloads that were received without their first line, the metadata; what is
pending must then be what the queue and the buffer hold.

Properties:

- `Conservation`: an accepted event is in exactly one of queue, buffer, server, lost, and
  no thread that has ended keeps one: a serializer that raises ends the worker, and the
  whole buffer, a local of `_process_queue`, is lost with it (`HandleCrash`).
- `NoMissedWakeup`: a worker that sleeps un-notified has no flush, no close and no
  more than `queue_chill_count` messages to read.
- `CloseDrains`: the worker that ended on a close has settled all that was accepted before it.
- `PayloadsWellFormed`: a payload is one metadata line and at least one event.
- `ReturnMeansRound`: a return of `flush()` or `close()` that is not a timeout means
  that the worker completed a round after the call cleared the flag.
- `ImplementsDelivery`: the transport implements `Delivery` under that mapping.
- `EventuallySettled`, `WorkerEnds`: liveness, see the fairness below.
- `FlushReturnsDrained` is what the docstring of `flush()` says and does *not* hold.

### Backoff

`TransportState` and the flushes it holds back. `state` has `status`, `retry_number` and
the seconds since `last_check`; `up` is the server. `SendBuffer` and `DropBuffer` are
`_flush` with and without `should_try`; `SendEmpty` is the empty payload of a forced
flush to a local server, which does not ask. `Transport` leaves open when
`should_try` is true, so whatever `Transport` promises holds with this clock too.

- `Recovers`: when the server is up for good the transport is online for good, however
  often it failed and however many buffers were dropped meanwhile.

### CentralConfig

`update_config` is a poll (`FetchOk`, `FetchFails`, `FetchRefused`: the answers
that `get_config` distinguishes) and what is made of it: `Update` and `Swap`
(before and under the lock), `Keep`, `Reset` and `RunCallbacks`. A
configuration is a function from the options that are set to their values, like
the dictionary `_values`; the difference between an option set to its default
and one that is not set matters to `reset()`. `applied` is what the callbacks
have done outside of the configuration.

- `VersionHonest`: the version that the agent reports is in effect, option by option;
  without it the server would answer 304 for ever.
- `CallbacksInSync`: between polls the callbacks' effects agree with the configuration,
  for options that the program set itself and that no rejected configuration touches.
  The two conditions are where the code does not do it: the callbacks of the valid
  options of a rejected configuration run (line 796), and `reset()` overlooks
  options that the program left at their default.
- `ResetRunsCallbacks` drops the second condition, as the docstring of `reset()` does,
  and does *not* hold.
- `Converges`: a server that settles on a configuration gets it into effect.

### Config

One update of the configuration, initial or remote. `SetField` is one turn of the loop of
`_ConfigBase.update`: lookup in the environment, the arguments and the dictionary of
the framework, then `__set__` of the option's class (`Converted`) with its validators
(`Validator`), which end with a value, a `ConfigurationError` or another exception, and
the two ways in which a callback is queued. `CallPendingCallback` calls one of them,
`ClientConfigured` is what `Client.__init__` does about errors, `RemoteUpdate` and
`RemoteUpdated` are the update of a copy. The sixteen options of `Declared` stand for
every class, type and validator there is; the other options are declared alike. A value
is a word, a number with or without a unit, a decimal, a bool or `None`; a number that a
source gives is a text of digits (`IsGiven`). `Means` says what a value stands for, as the
documentation has it: a time is that time, a size is that many bytes, a rate is the
nearest with four digits where only 0 becomes 0, and `None` is no value.

- `ToldOrComplains`: of an option that some source gives, the value of the first source is
  in effect with its meaning, or the option is among the errors and has kept its value.
  A client that started with an error sends nothing.
- `CalledOnce`: a callback runs once per configuration, with the value that is in effect.

### Client

A process has a memory (`mem[p]`), which `Fork` copies, and threads, which it
does not. `start_threads` is `StartThreads` (the unlocked test of `_pid`),
`Lock`, one `StartTimer` per timer and `StartTransport`, which ends with the
assignment of `_pid`. `close` takes the lock and stops the managers in their
order. The initial state is that after `Client.__init__`.

- `OneWorker`: whatever races there are, a process has at most one worker.
- `WorkerOwnsPool`: the worker sends on connections of its own process.
- `CloseNotStuck`: the last collection of metrics, which queues events while `close`
  holds the lock, never needs that lock.
- `UpdaterOwnsPool`: the same as `WorkerOwnsPool` for the updater. It does *not* hold.

Timers are started as often as threads race after a fork, and a child whose
parent held the lock never gets it; both are in the model, and neither
contradicts what the repository says of the code.

### Collector

`Metric` and `Update` are the application's calls under the lock of the set and of the
metric; a collection (`Collecting`) copies a container, then reads (`Read`) and resets
(`Reset`) one metric after the other in two steps, and queues the samples at the end
(`QueueSamples`). There may be two of them: the timer's, inside `IntervalTimer.run`
(`TimerCalls`, `TimerCalled`, `TimerCallRaises`, `TimerReturns`), and the last one
of `stop_thread`, which does not wait for the timer's. Histograms hand out the list that
`update` writes to: `lists` is the memory, `current` and the samples refer to it.

- `WithinLabelLimit`: no more metrics than `DISTINCT_LABEL_LIMIT` take updates.
- `MeansRight`: sum and count that are reported of a timer are of the same updates.
- `NothingTwice`, `HistogramsComplete`, `LastCollection`: an update is reported once at
  most, a histogram's exactly once, by the time `stop_thread` returns; all of them
  unless the two collections were at work together, when this code does report twice.
- `TimerSurvives`: exceptions and long executions do not end the timer. An execution of
  exactly the interval does (`real_interval` is 0), which the property excepts.
- `CancelEnds`: a cancelled timer ends.

### Breakdown

`ChildDuration` counts the children in progress and adds up the time from the first that
starts to the last that stops. Tasks begin and end a child in one step; threads read the
clock first (`ChildBegins`, `ChildEnds`) and tell the parent later (`ChildStarts`,
`ChildStops`).

- `SelfTime`: without threads the self time is between 0 and the duration, and is the time
  in which no child was in progress.

### Tracing

One transaction, the spans below it, and the contexts that have it: `Main`, which
began it, and tasks or threads that were started with a copy of a context
(`Spawn`). Tasks switch at an `await` only, so an operation of the agent is not
interrupted (`Ready`); threads may be interrupted between its steps, and an
addition to a counter may be overwritten (`Plus`). `_begin_span` is
`BeginUnderLeaf`, `BeginOverLimit`, or `BeginCheck` and `Create`, which are
apart because the span is created between the test of the limit and the
increment. `end()` is `End`, then `Flush` and `ClearBuffer` if there is a
compression buffer, then `ToParent`, which is `child_ended` under the parent's
lock. `EndTransaction` does the same and ends with `QueueTransaction` or
`IgnoreTransaction`.

A context ends each span that it began once, in any order (`Ends`): instrumented
functions end the active one, but `end()` may come out of turn. `Span.end` removes
itself from the stack only if it is the active span (`Pop`); `DroppedSpan.end` removes
the active span, whichever that is (`EndDropped`, `Unset`). If another thread empties
the compression buffer between the test and the report, `end()` raises into the
application (`FlushRaises`), which goes on: the span has ended and is still active, its
parent is not told, and a second `end_span()` ends it again. Two history variables
remember what this does: `stale` has the spans that ended out of turn or raised,
`strays` the open ones that the end of another removed from the stack.

Whether two spans are similar enough to be merged and whether a span is
shorter than `exit_span_min_duration` are free choices; what else decides is the
`class` of a span. `fate` is a history of how a span was settled.

- `SettledOnce`: a span is sent, merged, discarded or cancelled once, or waits in the
  buffer of its parent, which is empty when the parent has ended; for every parent
  whose children end before it (`late` has the others), also with threads. A child that
  ends after its parent may be lost or sent twice by this code.
- `CountsHonest`: the counts sent with a transaction are those of its spans (tasks).
- `SpanLimit`: no more spans are sent than the limit (tasks). For threads this is
  `SpanLimitOfThreads`, which does *not* hold.
- `ParentsArrive`: compression and `exit_span_min_duration` do not break the trace.
- `ActiveSpanOpen`: between its calls a context has its own open spans on its stack and no
  others, but for those two sets, which it takes an end out of turn or a race to fill.
- `CancelledNotCounted` is what the docstring of `cancel()` says and does *not* hold.

### TraceContext, Packages, Integrations, Request

One request to an instrumented service, in one execution context. An integration finds
the headers (`Extract`, by the carrier that it uses) and begins the transaction
(`Begin`, `BeginRaises`, `BeginUntraced`); the application calls libraries, which may
call each other (`CallTraced`, `CallThrough`, `CallUntraced`); exceptions are raised,
tagged on their way through `capture_span`, captured and caught (`Raise`, `Unwind`,
`Catch`, `CatchAndCapture`); the integration takes its steps (`Finish`, `SetOutcome`,
`CaptureStep`, `EndTransaction`).

`Packages` has a record for each wrapper: whether its span is a leaf, an exit or none,
whether it propagates the trace and how, what it tells the next service when its span
was dropped, whether it sets the outcome. `Integrations` has, for each integration and
each way a handler may end, the steps that its handlers, middleware and `finally`
clauses take in the order of the framework. `TraceContext` has the parsing and making
of headers, the continuation strategies and the sampling decision. Names, statements,
addresses and identifiers are left out: a span is its number.

- `NamesReported`: a span that another service was told of, by a library that marks what
  it tells, is sent. `NoOrphans` drops the condition on the library, as the
  documentation of `exit_span_min_duration` does, and does *not* hold.
- `OneDecision`: the next service finds the trace, the sampling decision and the rate of
  this one in the headers, and a parent that exists, for sampled, unsampled and dropped calls.
- `ErrorParentReported`: the span that an error names is sent.
- `OutcomeAgrees`: the outcome is that of the response, or failure if the handler raised
  before there was one, whatever ran in between. It leaves out two ways to end of which
  nothing says what the outcome should be, and in which the integrations differ:
  exceptions that stand for a response, and a handler that raises when its response has
  begun (`broken`): Starlette keeps the outcome of the status that was sent, ASGI
  replaces it by failure. Both are in the model.
- `EndedOnce`: the transaction of a request is queued once, or not at all if
  `transactions_ignore_patterns` has its name, if it is of no use to the server, or if
  the headers made its beginning or its serialisation raise; in each case the next request
  on the thread finds no leftovers, but for what a bridge may leave (`Leaked`).
- `StatsWithinDropped`: statistics are kept of dropped spans only.
- `SpansSettled`: each instrumented function ends its own span, and none is lost.

## 3. Runs and bounds

| run | instance | shows |
| --- | --- | --- |
| `transport_safety` | two threads, two events of which one cannot be serialized, a queue of two, chilled until one, a local server; threads symmetric | all safety properties, with every order of queue, flush and close |
| `transport_liveness` | one thread, two events | refinement of `Delivery`, liveness |
| `transport_flush` | one thread, two events | violates `FlushReturnsDrained` |
| `central_config` | polls: three options (two with callbacks), four versions: all options, one, an invalid one beside a valid one, none; one option set by the program. Updates: every option with every example value in each source, pairs of logging options, five remote updates | safety and convergence, `ToldOrComplains`, `CalledOnce` |
| `central_config_reset` | polls, nothing set by the program | violates `ResetRunsCallbacks` |
| `client` | a process and a child, two threads each; a timer, a histogram and an ignored metric with a limit of one or two; two children; the back-off | all properties of `Client`, `Collector`, `Breakdown` and `Backoff` |
| `client_pool` | a process and a child, two threads each | violates `UpdaterOwnsPool` |
| `tracing` | two contexts, three spans, a limit of one or two, tasks or threads | all safety properties |
| `tracing_limit` | the same, threads | violates `SpanLimitOfThreads` |
| `tracing_cancel` | the same, tasks | violates `CancelledNotCounted` |
| `request` | seven services: all integrations and headers under three configurations, all libraries two at a time, three libraries that disturb each other, the bridges, failing calls | all safety properties |
| `request_orphans` | the same | violates `NoOrphans` |

Bounds of the transport. Two events and a queue of two make the queue full when a flush or
close is put beside them, chilled below one and unchilled above it; a buffer limit of
two lines makes one event beside the metadata fit and a second one flush. Two
threads are what the races of `close`/`close`, `queue`/`flush` and
`StartThreads`/`StartThreads` need. Each event is queued once, so runs are
finite without a bound in the modules; messages of `flush` and `close` are
bounded by the queue. A child of a child meets only what a child meets, since
the memory of a child has the same form.

Bounds of the rest. `MaxUpdates` lets the timer be updated twice (before and after a read)
and the histogram once; an ignored metric is only looked up, which is what the limit
counts, and limits of one and two make it matter who comes first. `MaxTime` of 4
with two children has every overlap: apart, nested, crossing, and beyond the end of
the parent. `Backoff` needs no bound: `retry_number` above 6 and more than 36
seconds make no difference. Three spans (`MaxBegun`) make a chain of three, three
siblings, and a span that a merge or a cancellation makes room for; spans do not
interact but through a common parent and the counters. A service of `Request` has
bounds of its own for spans, depth of calls and captured errors (the one with failing
calls also ignores its transactions by name): one span when the
integrations and headers vary, since they act before and after the calls; two when
every library meets every other; three calls where a sibling, a child and a merge
are needed. Limits of one and two make the second or third span a dropped one. The
values in `Examples` are, for each option, one that is good, one that is refused, one
that raises, and the edges of its range.

Deadlock. The runs of `Transport`, `CentralConfig` and `Config` check for it (`Over`
is a step of `MCCentralConfig` for an update that has ended). The others do not,
because the system may stop: in `Client` every thread of a child may wait for a lock that
fork copied; in `Tracing` and `Request` the contexts or the request are done; the
parent of a `Breakdown` has been tracked.

Fairness. `Transport`: weak fairness of the worker (the interpreter schedules
its threads and requests have a timeout) and of time; nothing is assumed of the
application. `CentralConfig`: weak fairness of what follows a poll and strong
fairness of `FetchOk`: the timer polls for ever and the network does not fail
each time. `Collector`: weak fairness of the timer's thread, which the operating system
schedules. `Backoff`: weak fairness of time and of a flush that `should_try` allows,
since the agent always has metrics to send; nothing is assumed of the server
but what `Recovers` says. The other modules have no liveness property.

## 4. What is proved

| theorem | module | property |
| --- | --- | --- |
| `TypeCorrect` | `TransportProofs` | `TypeOK` |
| `EventsConserved` | `TransportProofs` | `Conservation` |
| `WakeupNotMissed` | `TransportProofs` | `NoMissedWakeup` |
| `PayloadsAreWellFormed` | `TransportProofs` | `PayloadsWellFormed` |
| `CloseHasDrained` | `TransportProofs` | `CloseDrains` |
| `ReturnsMeanRounds` | `TransportProofs` | `ReturnMeansRound`, an action property |
| `ImplementsThePromise` | `TransportProofs` | `ImplementsDelivery`, the refinement |
| `VersionIsHonest` | `CentralConfigProofs` | `VersionHonest` |
| `CallbacksStayInSync` | `CentralConfigProofs` | `CallbacksInSync` |
| `OptionsAreTold` | `ConfigProofs` | `ToldOrComplains` |
| `CallbacksAreCalledOnce` | `ConfigProofs` | `CalledOnce` |
| `LockIsHeld` | `ClientProofs` | `TypeOK` |
| `WorkerIsAlone` | `ClientProofs` | `OneWorker` |
| `WorkerHasItsPool` | `ClientProofs` | `WorkerOwnsPool` |
| `CloseReturns` | `ClientProofs` | `CloseNotStuck` |
| `UpdaterHasItsPool` | `ClientProofs` | `UpdaterOwnsPool`, where the client was open at the fork |
| `LabelLimitHolds` | `CollectorProofs` | `WithinLabelLimit` |
| `MeansAreRight` | `CollectorProofs` | `MeansRight` |
| `TimerGoesOn` | `CollectorProofs` | `TimerSurvives` |
| `NothingIsReportedTwice` | `CollectorProofs` | `NothingTwice` |
| `HistogramsAreComplete` | `CollectorProofs` | `HistogramsComplete` |
| `LastCollectionIsComplete` | `CollectorProofs` | `LastCollection` |
| `SelfTimeIsRight` | `BreakdownProofs` | `SelfTime` |
| `ActiveSpanIsOpen` | `TracingProofs` | `ActiveSpanOpen` |
| `TypesAreKept` | `TracingProofs` | `TypeOK` |
| `SpansSettleOnce` | `TracingProofs` | `SettledOnce` |
| `SentParentsArrive` | `TracingProofs` | `ParentsArrive` |
| `LimitIsKept` | `TracingProofs` | `SpanLimit` |
| `CountsAreHonest` | `TracingProofs` | `CountsHonest`, an action property |
| `SpansHaveTypes` | `RequestProofs` | `Base`: the types, and that spans form a tree |
| `StatisticsAreOfDropped` | `RequestProofs` | `StatsWithinDropped` |
| `FunctionsEndTheirOwn` | `RequestProofs` | `SpansSettled` |
| `ToldSpansAreReported` | `RequestProofs` | `NamesReported` |
| `ParentsOfErrorsAreReported` | `RequestProofs` | `ErrorParentReported` |
| `OutcomesAgree` | `RequestProofs` | `OutcomeAgrees` |
| `TransactionsEndOnce` | `RequestProofs` | `EndedOnce` |
| `RoundTrip` | `RequestProofs` | headers are read as they were written |
| `OneDecisionIsMade` | `RequestProofs` | `OneDecision` |

Each but `RoundTrip`, which is about `TraceContext`, says that the specification of the
module always has the property, for any number of events, threads, processes, options,
versions, metrics, spans, contexts, services and programs of calls and every capacity.
They rest on the named assumptions of the modules (`TransportAssumption`,
`CentralConfigAssumption`, `ConfigAssumption`, `ClientAssumption`,
`CollectorAssumption`, `BreakdownAssumption`, `TracingAssumption`, `RequestAssumption`),
which say what the constants are, on four that say that the model's `None` is no
identifier, exception, outcome or part of a header (`NoneAssumption`,
`ExceptionAssumption`, `OutcomeAssumption`, `HeaderAssumption`), and `OneDecisionIsMade`
on `CallerAssumption`: callers send headers of the model's form, in which they do not
name the trace that this service will only begin, and what gRPC callers send in binary
is of a version that headers can carry. TLC evaluates all of them in the runs. Every
proof has a step per action; the inductive invariants are the following, and TLC checked
each on an instance before it was proved.

- `Conservation`: a get would break it if an event were on the queue twice, and a put if
  its event had been accepted before. The invariant adds `QueueDistinct` (no event is
  queued twice) and `PutsFresh` (an event that a call is about to put is known to no
  other place, and no other call has it). Lemmas say what `Append`, `Tail` and the
  histories do to `Queued`, `Buffered` and `Received`.
- `NoMissedWakeup` is inductive beside `TypeOK`: the worker only starts to wait on an empty
  queue, and a put that does not notify is one that the invariant allows.
- `PayloadsWellFormed` needs the same of the buffer, which is empty or well formed.
- `CloseDrains`: `CloseInv` is the invariant of `Conservation` and `AheadOfClose` (what was
  accepted before the first close and is still queued stands in front of every
  close) and `LastRound` (a worker that has read a close has nothing of it on the queue).
- `ReturnMeansRound`: while the flag is set, every call that is past its clear of the flag has
  seen a round.
- `ImplementsDelivery`: `OrderInv` is the invariants of `Conservation` and
  `PayloadsWellFormed` and four facts about order: an event is accepted once
  (`AcceptedOnce`), the buffer and the queue are in the order of acceptance
  (`BufferOrder`, `QueueOrder`), and what is in the buffer was accepted before what is
  queued (`BufferFirst`). By these a put is an `Accept`, a request that the server reads a
  `Deliver` of the oldest pending events, a buffer that is dropped in a back-off or by a
  request that failed unread, and an event that cannot be serialized, a `Lose`, and every
  other step a stutter.
- `VersionHonest`: between `Update` and `Swap` the variable `todo` contains the options of
  `response.version`, and a response with options is one of the server's versions.
- `CallbacksInSync`: `SyncInv` says where the effects of the callbacks are in each place of
  the updater: they agree with the configuration between polls, with `todo` before
  `Swap`, and in a reset with the first configuration, but for options still in `todo`.
- `ToldOrComplains`, `CalledOnce`: an update comes to an option at a time. Those it has not
  come to are `Fresh`: as before, without an error, a callback or a place in the queue.
  The others are `Right` (in error and as before, or what the first source means) and
  `Answered` (their callback is not due, is queued once with the value in effect, or was
  called with it). That a conversion means what `Means` says is a lemma about the
  declarations, the classes and the validators (`ConvertedMeans`), and so is that each
  ends with a value, an error or an exception (`ConvertedKinds`). The two places that
  queue a callback never both do: the second only queues a value that is the default,
  and initially the value before was the default as well (`TurnQueue`).
- `Client`: one invariant gives the first four theorems. A thread holds the lock exactly while
  it is at work in `start_threads` or `close`; a process that was not forked yet has
  no threads and no lock; whoever started the collector sets `_pid` before the lock is
  free, so that a thread that queues under the lock finds `_pid` its own; a worker is
  the only one of its process and known to it, and has no connections but its own.
- `UpdaterHasItsPool`: `PoolInv` adds `PoolKnown` (a process whose worker is its own has no
  connections of others, and whoever has started an updater is on its way to start a
  worker, unless the client is closed). So the finding below is the only way in which an
  updater gets the connections of the parent.
- `Collector`: a timer's sum and count agree in every metric, in every value that a
  collection has read and in every sample; `WithinLabelLimit` and `TimerSurvives` are
  inductive beside the types. The others rest on `CInv`: a metric is in one place of a
  collection, not yet read, read, or sampled (`InHands`); no list of a histogram that a
  collection holds is the one that `update` writes to (`Apart`); and what was reported,
  what samples hold and what the container holds add up to the updates of a
  histogram, and to no more than those of a timer (`Balance`). It is claimed until
  the two collections overlap, which is the condition of the three properties.
- `SelfTime`: without threads `_nesting_level` is the number of children in progress, and
  `_duration` and the time since `_start` together are the time covered so far.
- `ActiveSpanOpen`: `OwnActive` is the property also in the middle of a call, when the span
  that a context is just ending may be on its stack; a stack is in ascending order of
  its spans, so that none is on it twice, and a context that was not spawned yet owns
  nothing.
- `SettledOnce`, `ParentsArrive`: `SInv` adds what may have become of a span (`Destiny`), what
  may wait in a buffer (`Waits`), what a context in the middle of an `end()` has at hand
  (`Calls`), and, of a parent that ends after its children, that a span which was
  settled is in the buffer only while that is being flushed (`Neat`). This holds with
  threads: the lock of the parent is enough.
- `SpanLimit`, `CountsHonest`: `Serial` says of tasks that at most one context is in a call,
  and that `counter` and `dropped` are the cardinalities of two sets of spans. Threads
  break both, see the findings.
- `Request`: `Base` has the types and the tree of spans. `Sound` adds that the spans on the
  stack are those of the active functions in their order (`Matched`), that nothing is
  begun for real under a dropped span or a leaf (`Dropping`), that no span is lost
  (`Fated`) and what other services, exceptions and errors may name (`Names`). The
  OpenTelemetry bridge may leave a span on the stack (`Leaked`), so `Sound` holds until
  that happens. `StatsOwed` counts the dropped spans that are still active: they were
  counted and have no statistics yet. `Conclusion` follows the steps that the integration
  has left: they end a transaction that is there, and what they set agrees with what is
  set; that each of them does so from the start is proved of the tables of
  `Integrations`, integration by integration and ending by ending.
- `OneDecision`: `Headed` says that what the transaction was begun with stays as it is and
  can be told in headers (`Begun`, `Whole`: its version is one that is read, its entries are
  those of its tracestate, and a trace of its own has a rate among them), and that whoever
  is told in headers is told of the transaction or of a span that was not dropped, with
  the decision of the transaction (`Faithful`). That is what the next service reads, by
  `RoundTrip`. It does not need `Sound` and so holds also after the bridge has leaked a
  span. `Whole` is proved of what `ExtractFacts` finds in the headers, whichever way an
  integration reads them.

Induction over the natural numbers is available for sets, by the library's theorem that
they are well-founded (`SetInduction` in `RequestProofs`), which is how the chain of
parents of a span is followed.

Only model-checked is liveness (`EventuallySettled`, `WorkerEnds`, `Converges`,
`CancelEnds`, `Recovers`), which depends on fairness and is out of the proof system's
reach. Every invariant and every action property of the passing runs is proved.

## 5. Where code and text disagree

1. `flush()` "will only return once the queue is empty" (`transport/base.py:304`): a timed
   flush of the worker, or another thread's, sets `_flushed` as well, and `flush()`
   returns with its events still queued. Run `transport_flush`.
2. `reset()` is to "run any callbacks that might exist" for what differs from the first
   configuration (`conf/__init__.py:808`): options that were at their default are
   overlooked, so for instance a remote `log_level` outlives the remote configuration.
   Run `central_config_reset`.
3. `handle_fork` is there "to avoid sharing connections with the parent process"
   (`transport/http.py:133`): it is skipped in a child of a closed client, where the
   updater is started all the same. Run `client_pool`; in every other child the updater
   has its own connections, by `UpdaterHasItsPool`.
4. `transaction_max_spans` "limits the amount of spans that are recorded per transaction"
   (`src/docs/reference/configuration.md:510`): the test and the increment of the counter
   are apart (`traces.py:297`), and two threads that share a transaction pass the test
   together. Run `tracing_limit`.
5. "Cancelled spans don't count towards started spans nor dropped spans" (`traces.py:842`):
   a short exit span that was cancelled counts as both, because `report()` asks for
   its duration first (`traces.py:718`). Run `tracing_cancel`.
6. A span that "propagates distributed tracing IDs … will not be ignored"
   (`src/docs/reference/configuration.md:609`): the wrappers of aiohttp, the asynchronous
   httpcore, kafka, botocore's SQS and gRPC send the identifier without marking the span
   (`instrumentation/packages/asyncio/aiohttp_client.py:62`), which may then be dropped or
   merged. Run `request_orphans`.

### Observed, not judged

Behaviour met while reading the code of which the repository says nothing, or which the
modules do not express. It is listed for whoever works on these lines next.

- Headers: the gRPC server takes `tracestate` from `metadata.key` and not from the value
  (`contrib/grpc/server_interceptor.py:71`); Django's ASGI handling compares header pairs
  in a form that never matches (`contrib/django/apps.py:158`); a vendor entry of
  tracestate that only looks like ours (`es=` without a pair) raises `AttributeError`; a
  sampling rate that is not a number raises `ValueError`; `from_binary` takes the version
  255, which `from_string` of the next service refuses (`utils/disttracing.py:120`).
- Bridges: OpenTelemetry's `start_span` raises when the limit drops the span
  (`contrib/opentelemetry/trace.py:169`), and `UnboundLocalError` with a remote context
  inside a transaction; links that are a tuple cannot be appended to when a restart
  adds one (`traces.py:969`); OpenTracing never ends a dropped span
  (`contrib/opentracing/span.py:126`); `to_dict` with OpenTelemetry attributes raises
  `KeyError` for servers before 7.16.
- Packages: kafka's `__next__` calls `cancel` on a span that the limit dropped, and uses the
  transaction that `begin_transaction` did not return (`instrumentation/packages/kafka.py:171`);
  celery and kafka tell the next service of a span that was dropped; links of AWS
  messages may contain `None`; an error inside an exit span keeps that span as its parent
  even if it is discarded later; a Starlette error after the response has started
  keeps the outcome of the response (`contrib/starlette/__init__.py:191` sets it and
  line 247 does not override it), where ASGI makes it a failure (`contrib/asgi.py:113`).
- Spans: the end of a dropped span removes the active span, whichever that is
  (`traces.py:871`), and a span whose `end()` raised in a race for the compression
  buffer stays active (`traces.py:134`).
- Metrics: two collections at once report an update twice; an update of a counter or
  a timer between its read and its reset is lost; a timer whose sum is 0 loses its count;
  children that are threads can make a self time negative; a timer ends when an
  execution takes exactly its interval (`utils/threading.py:77`).
- Configuration: the documentation's duration format has `us`, which no option allows;
  `server_timeout` of `5` is 5000 seconds (`conf/__init__.py:622`); any other word is
  `True` for a bool; a malformed `GLOBAL_LABELS`, a `None` duration and an enumeration that
  is not text raise out of the constructor; sizes in upper case are refused though the
  pattern ignores case; a remote `disable_send` of false lets a client with errors send.
- Transport: a full queue drops a `close` like any event, and the worker stays; an event
  that cannot be serialised ends the worker, and the events in its buffer are lost.

## 6. Plan

What would add most, in this order:

1. The queue across `fork`: `Client` with the queue of `Transport`, whose events parent and
   child both send.
2. Serverless: the partial transaction, the flush at the end of an invocation and a process
   that is frozen after it.
3. A span that is ended twice by its program, or in another context than the one that
   began it, which the bridges allow.

Not modelled:

- the sets of metrics that probe cpu, memory or Prometheus, cloud and cgroup metadata: pure input;
- serialisation, stack traces, sanitising and the other processors, WSGI utilities, names,
  statements and addresses of spans: functions of their data, without a state;
- `recording` and `enabled` of false: every service of `Request` records, and a remote change of
  `recording` in the middle of a request, after which its errors are not captured, is left out;
- logging handlers, the wrapper command and management commands, and the registration that
  patches the libraries: start-up and translation into the calls that are modelled;
- the Lambda extension, which is outside of the repository.
