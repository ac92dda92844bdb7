# crypto-converter: specification, model checking and proofs

The program estimates conversions between crypto currencies. A consumer process polls
Binance every 30 seconds and saves each batch of quotes in PostgreSQL and then in Redis;
an API process answers `GET /convert` from Redis or, failing that, from PostgreSQL. This
directory models both processes in TLA+, checks the models with TLC and proves the main
results with TLAPS. Paths below are relative to the repository.

## Inventory

| Part | State | Operations | Interacts with |
|---|---|---|---|
| Rate source (`converter/adapters/outbound/external/binance/rate_source.py`), scheduler (`shared/utils/scheduler.py`) | queue of batches, tracked pairs, `_shutdown`, `_started`, the scheduler and its task | `stream`, `_init_symbols`, `_rates_tick`, `_symbols_tick`, `_offer_batch`, `close` | calls the Binance client, is iterated by the consumer |
| Consumer (`adapters/inbound/consumer/quote_consumer.py`, `run.py`) | its task and its retries, `_shutdown_event`, the signal event | `start`, `_consume_stream`, `_process_batch`, `stop`, `run_consumer_async` | iterates `stream()`, calls the store-quotes handler |
| Binance client (`.../binance/client.py`) | the circuit breaker, the HTTP session | three calls, `CircuitBreaker.call`, `_api_call` (retries), `close` | any number of calls of the rate source at once |
| Quote storage (`adapters/outbound/persistence/`, `app/commands/store_quotes.py`) | table `quotes`, keys `quote:latest:<symbol>` | `save_batch`, `get_latest`, `get_latest_before` | written by the consumer, read by the API, without any coordination |
| Conversion requests (`adapters/inbound/api/routes/conversion.py`, `app/queries/get_conversion.py`, `domain/services/`) | the request itself | validate, look up, check the age, convert, answer | reads both stores |
| Domain values and factories (`domain/values/`, `domain/services/factory/`) | immutable | rounding, bounds, `Pair.code` | used everywhere |
| API application and health (`adapters/inbound/api/app.py`, `routes/health.py`, `dependencies/`), DI container (`shared/di/container.py`) | the phase of the process, the pools of connections, the requests in progress | start-up (`lifespan`), serving, `health_check`, stop, `cleanup_resources` | uses both stores, is started by docker, run and stopped by uvicorn |
| Settings, logging, metrics, tracing | configuration | | |
| Database schema | partitions of `quotes` | retention by `pg_partman` | |

What is hard about it, and what must hold nevertheless:

* **Storage.** Two stores are written one after the other, the second write may fail
  unnoticed, run late or be cut off by a crash, and readers look at the second one first.
  Nothing may be visible that is not stored, history may not be rewritten by retries, and
  an answer may not be older than its limit. How far the cache may lag is the question
  that the repository's documentation and its code answer differently.
* **Client.** Concurrent calls share a breaker that is consulted before an `await` and
  informed after it. Late results meet a breaker in another state.
* **Feed.** Polls, the symbols refresh, the stream's consumer, its retries and a stop that
  may come at any moment are interleaved on one event loop; `asyncio.gather` leaves calls
  behind that nobody awaits. Batches must stay in order, the stream must survive failures
  and empty batches, and a stop must end the process.
* **API process.** Conversions and health checks compete for two pools of connections
  while either store may go down and come back, and a stop may come at any moment. Every
  path must return what it took, a failure must have a cause outside the process, requests
  must not wait for each other, and the pools must be closed after their last user.

`PROJECT.json` lists the hazards one by one, each at its line, with the properties that
are about it.

## Modules

| Module | Models |
|---|---|
| `QuoteHistory` | what storage promises: an append-only history published batch by batch, and replies from it |
| `BatchFeed` | what the rate source promises: batches in the order of their time, and none after a stop |
| `QuoteStore` | the two stores, the consumer's saving of a batch, the requests |
| `BinanceClient` | the circuit breaker and the attempts of the calls around which it stands |
| `RateFeed` | the consumer process: start, stream, scheduler, polls, queue, session, stop |
| `ApiServer` | the API process: start, requests, health checks, pools, stop, clean-up |
| `Conversion` | the arithmetic from Binance's price to the answer |
| `QuoteStore_proofs`, `BinanceClient_proofs`, `RateFeed_proofs`, `ApiServer_proofs`, `Conversion_proofs` | theorems about them for every value of the constants |
| `MCQuoteStore`, `MCBinanceClient`, `MCRateFeed`, `MCApiServer`, `MCConversion` | instances for TLC |

An action stands for what a task does between two awaits, or for what a store does to
one command. Definitions whose comment begins with "Slip:" are deliberate mistakes, not
part of any specification: each stands before the definition it perverts, and putting it
in that definition's place must make TLC refute the property `PROJECT.json` names.

### QuoteStore

`rows` is the table, `cache` the live keys of Redis with their expiry, `late` the `SETEX`
commands a client has given up on but the server may still run. `writer` is the consumer's
task: `TakeBatch` is the hand-over by the rate source; `CommitRows` and `StoreFails` are
`PostgresQuoteWriter.save_batch` with the retries of `_process_batch`; `RunSetex` and
`CacheFails` are `RedisQuoteWriter.save_batch`, whose pipeline is no transaction and whose
errors are swallowed. A failing store may have committed (the acknowledgement was lost).
`Crash` is the death of the process; its restart finds an empty queue. `reader[r]` is a
request: `Receive`, `CacheHit` or `CacheMiss`, `ReadRow`, `NotFound` or `ReadFails`, and
`Respond`, which checks the age against the clock of that moment. A quote is its pair and
its timestamp: a poll gives one price per pair, so these determine the rate.

Abstracted: prices and amounts, the serialisation of quotes, the retention of the table and
the week that a historical timestamp may go back. A commit takes effect no later than the step
that fails: one that PostgreSQL runs after the client has given up on it is left out.
Binance's clock is ahead of the hosts' by at most `Skew`; being behind only makes quotes
older, which the model has anyway (a batch may carry any timestamp since the last one).

### BatchFeed

The two halves of the consumer process meet in `consumer.taken`, the timestamp of the batch
in hand. `BatchFeed` says no more of it than that it grows and stays as it is once the feed
is closed. `RateFeed` implements it (`ImplementsFeed`), and `QuoteStore` takes its batches
from it: `TakeBatch` is a `Deliver` step of the instance `Feed`, so that its order is all
that is assumed of the rate source, besides a clock that is at most `Skew` ahead. There
`open` stays `TRUE`, because after a crash the next process goes on with Binance's clock,
which does not restart.

### BinanceClient

`state`, `failure_count` and `elapsed` (the time since the last failure, all that is ever
asked of it) are the breaker. A call captures `current_state` in `Enter`, makes its attempts
(`LoseConnection` is one that is retried) and reports in `Succeed`, `Fail` or not at all: a
call that is cancelled (`Cancel`), that loses its last connection, or whose body or
`Retry-After` raises `ValueError` (`Garble`) tells the breaker nothing. The breaker's lock
is never held across an await, so each section it guards is part of the step that reaches
it. The elapsed time is measured with `time.time()`; that it may jump is not modelled.

### RateFeed

`consumer` is `QuoteConsumer.start` and the generator it iterates, `main` is
`run_consumer_async`, `polls` are the runs of `_rates_tick` in the order they were fired,
`refresh` that of `_symbols_tick`. A poll has two pending calls; when one fails its job ends
and the other call stays behind (`pending` of an ended poll). A batch is the timestamp of
its quotes, the n-th answer to `get_server_time` being n, or `Nothing` when no pair is
tracked. `session` is the client's HTTP session, `orphaned` says that an open one was
overwritten. `Stop` and the steps of `Close` follow `close()` from await to await.
`asyncio.wait_for` in `close()` lets the scheduler's task run if it had not yet: that is why
`CloseScheduler` waits for it. Durations are abstracted: a job may fire whenever its last
run has ended, so some interleavings of the model need a tick to fall into a moment when
none is due.

### ApiServer

`main` is the phase of the process. `Start` is the first half of `lifespan`: the process
serves if Redis answers its ping and otherwise ends, to be restarted by docker. `Terminate`,
`Drained`, `CleanUp` (a step per resource, in the order of `cleanup_resources`, each closed
or its error logged) and `CleanedUp`, which comes after the last of them, are a stop; `Kill`
is a crash, which takes the requests with it. `up` says which stores answer: one that
answers with an error is down at that moment, like one that cannot be reached. `held` is the
two pools. A request (`request[r]`) is at one `await` at a time: it waits for a connection
of a store, asks it (`Ask`), and goes on with the answer or the error. A conversion without
a time asks Redis and then PostgreSQL (`CacheHit`, `CacheMiss`, `ReadRow`, `ReadFails`), one
with a time only PostgreSQL; a health check asks PostgreSQL (`SelectOne`) in a session that
ends after the response (`Leave`), and Redis in between (`Ping`). Redis' pool raises at once
when it is full, SQLAlchemy's after `pool_timeout` (`Raises`). `lost` is a history variable,
kept by `Watch`: the stores that were down or taken by others at some moment of the request.

The validation of a request has three layers, each an operator: `ParametersAccept` (FastAPI's
`Query`), `SchemaAccepts` (`ConvertRequest`) and `DomainAccepts` (`Currency`, `Pair`); `Parse`
runs them in this order and `StatusOf` gives the status. Malformed codes get 422 from the
second layer, although `docs/api_reference.md` lists them under 400: only codes that become
invalid in upper case reach the third one. What a look-up finds is `QuoteStore`'s subject;
here it finds a quote of any age, or none. uvicorn, docker, the drivers and their
pools are modelled from how `src/` uses them and marked external.

### Conversion

A price becomes a rate (`Poll`: `BinanceMapper`, `RateFactory`, `PrecisionService`), the
rate is kept as a decimal by either store (`Save`), made anew when it is read (`LookUp`) and
multiplied with the request's amount (`Answer`). Decimals are scaled to naturals: `Quantize`
rounds half up to eight places, `Significant` half to even (`HalfEven`) in the last place
that the precision of Python's decimal context leaves (`Ulp`, a power of ten). `Grid` is how
much finer than eight places the numbers from outside may be. A rate that vanishes is
refused, and so is one with more digits than the context has (`quantize` raises
`InvalidOperation`, which fails the whole poll); amounts cannot have that many (`lt=1e15`).
Prices are not negative (`BinanceTicker.__post_init__`).

## Runs

| Run | Instance | Checks |
|---|---|---|
| `store_faulty` | one tracked pair and an untracked one of the same symbol, one request at a time, 3 attempts, clock 0..3, skew 1, one late command, everything unreliable | `TypeOK`, `CacheIsCommitted`, `ProcessedIsStored`, `HistoryIsSettled`, `AnswersAreFresh`, `BadRequestIsAhead`, `BatchesProgress`, and that `QuoteHistory` is implemented (`KeepsPromise`) |
| `store_reliable` | two tracked pairs, Redis working, PostgreSQL failing at will, clock 0..3, skew 1, TTL 3 | `CacheLagsOneBatch`, `FreshIsCached`, `BatchesSettle`, `RequestsAnswered` |
| `client_breaker` | three calls, threshold 2, recovery 2, 2 attempts | `TypeOK`, `CountMatchesState`, `OpenUntilProbed`, `OpenAdmitsNone`, `OpenEnds` |
| `feed_run` | three polls, a queue of two, 2 attempts at each level | `TypeOK`, `SchedulerStartedOnce`, `DrainedForGood`, `StopProgresses`, `BatchesReachHandler`, `StopTerminates`, and that `BatchFeed` is implemented (`ImplementsFeed`) |
| `api_server` | two requests, one connection per store, seven codes, stores that come and go | `TypeOK`, `ConnectionsReturned`, `CleanStop`, `FailuresHaveCause`, `BadRequestIsOddCode`, `RequestsProgress`, `RequestsAnswered`, `StopCompletes`, `ServesWithRedis` |
| `conversion` | every price up to 105 units and every amount up to 25, in quarters of a unit, with two significant digits | `TypeOK`, `RateSurvivesStorage`, `ConversionIsAccurate`, `ConversionIsMonotone` |

Six further runs each refute what a comment or a document says of the program:

| Run | Refuted | What the counterexample shows |
|---|---|---|
| `store_stale_cache` | `GetLatestIsMostRecent` | a lost Redis write leaves the previous batch's key, which `get_latest` prefers to the newer row |
| `store_alias` | `UnquotedPairIsNotFound` | BT/CUSDT has the symbol of BTC/USDT, and both stores know symbols only |
| `client_bypass` | `WaitsBeforeClosing` | of two probes one fails and opens the breaker, the other succeeds and closes it at once |
| `client_raw_error` | `FailsAsUnavailable` | with `reraise=True` a lost connection leaves `_api_call` as it is, and the breaker does not count it |
| `feed_hang` | `GivingUpEndsProcess` | after the last attempt of `start()` the process waits for a signal for ever |
| `feed_leak` | `CloseReleases` | a stop during the initial request: the session opened while `close()` sleeps is forgotten, still open |

Bounds. The clock (`MaxTime`) is long enough for a key to expire, for a batch to be given
up and two more to be saved, and for the oldest quote to be too old (`MaxAge` 1, `TTL` 2).
In `store_reliable` the TTL is `MaxAge + Skew + 1`, the least for which `FreshIsCached`
claims anything: with a TTL of 2 a key expires while its quote, stamped by a clock that
was ahead, may still be used, although `validate_ttl_relationships` is content. `MaxLate`
of one suffices for a command that runs after its successor. Three calls are the most that
one round of ticks starts, and two probes plus a call from before are what the breaker's
races need. Three polls allow a straggler, a running poll and a next one, and fill a queue
of two with one batch to spare. In `conversion` a quarter of a unit gives every case of
half-up rounding, and products of up to four digits every case of rounding to two, ties
included; 105 units exceed the digits there are. Two requests and one connection per store
give every case of contention in `api_server`: a full pool, one request that holds what
the other waits for, and each holding one of the two. Its codes are one of each kind that
the layers tell apart, a code like U+0390 included, which is alphanumeric but in upper
case carries combining marks. `MaxCount` and `MaxPolls` are bounds on counters only.
Deadlock is not checked where the system really stops: the bounded clock of `QuoteStore`
leaves an idle system with nothing new to store, and `RateFeed` ends in `exited`.

Fairness. `QuoteStore` assumes that a call of a store returns or times out and that the
event loop then runs the task (`WF` on `Save` and on each `Serve(r)`); nothing makes
batches, requests or failures happen. `BinanceClient` assumes that time passes, that every
attempt ends (`ClientTimeout`) and that the scheduler keeps firing ticks. `RateFeed` assumes
the same of the calls and the loop; no signal need arrive, and the symbols refresh need not
end. `ApiServer` assumes that the event loop runs whatever task can run, that a command ends
with an answer or an error (a database that accepts connections and never answers is
excluded: no command timeout is set for it), that the clean-up proceeds, and that docker
restarts what failed but not what somebody stopped; stores need not come back, and no
request or signal need come. A request that waits for the database goes on in any case, with
a connection or with the pool's timeout. `ServesWithRedis` says only that the process serves
again and again, under its own premises: Redis stays up in the end, and nobody leaves the
process stopped.

## Proofs

`QuoteStore_proofs` proves, for all pairs, requests, limits and clocks, that `TypeOK`,
`CacheIsCommitted`, `ProcessedIsStored`, `HistoryIsSettled`, `AnswersAreFresh` and
`BadRequestIsAhead` hold and that `Spec` implements `QuoteHistory!Spec`. None of these is
inductive alone. The invariant `IInv` adds three facts: commands for Redis exist only for a
committed batch (`Saving`), no row is newer than the batch in hand (`Ordered`), and a
request holds at most one quote, a row of the symbol it asked for (`Lookups`). `Ordered` is
what makes history settle: with it a commit can only add rows at the newest timestamp, and a
repeated commit adds none (`InsertAddsBatch`, which needs `SymbolsAssumption`: tracked pairs
differ in their symbols). `Ordered` rests on the order of the batches, which is
`BatchFeed`'s promise (`TakesNewer`, from `Feed!Deliver`). The refinement follows from
`StepRows` (rows only grow, by one batch) and `Lookups`.

`CacheLagsOneBatch` and `FreshIsCached` are proved for the case in which nothing is lost, by
adding `InTime` to the invariant: no batch is stamped later than the skew allows, every
command still to come belongs to the newest batch, and a key expires no earlier than `TTL`
after its quote's timestamp, less the skew. So no key of a usable quote can expire when `TTL`
exceeds `MaxAge + Skew`, and a key is overwritten by the newer quotes only.

`BadRequestIsAhead` needs the first part of `InTime`, with `Ordered` and `Lookups`: a row
that a request found is no later than the newest batch, hence at most `Skew` ahead of the
clock, which only goes on. `Asked` adds that a historical request never asks Redis and has
found nothing from after its time. This holds whatever is lost.

`BinanceClient_proofs` proves `TypeOK`, `CountMatchesState`, `OpenUntilProbed` and
`OpenAdmitsNone` for any number of calls. `TypeOK /\ CountMatchesState` is inductive: a
failure moves count and state together, a success of a probe resets both, and `Enter` leaves
an open breaker only for half-open, where the count still is at the threshold.

`RateFeed_proofs` proves `TypeOK` and `SchedulerStartedOnce`, and that `Spec` implements
`BatchFeed!Spec`, for any number of polls and attempts and any queue. The last rests on an
invariant with three layers: two runs of the rates job never overlap (`NoOverlap`) and only
a running one holds a time (`Fresh`); what has left the queue is in order (`TakenInOrder`),
what is in it is in order and later (`QueueInOrder`), and a running poll that knows its time
is later than all of that (`PollIsLatest`). A straggler of a failed poll moves Binance's
clock but its answer goes to no job, which is why the order survives it.

`ApiServer_proofs` proves the five invariants for any number of requests, any limits, any
codes and any idempotent `upper()`. The inductive invariant says per request where it may be
while it holds a connection (`HeldInUse`), that its outcome is that of its last response
(`InProgress`), that whatever it will be blamed on is in `lost` already (`Blamed`) and why
the domain refused it (`OddCode`); and of the process that `lost` has everything missing now
(`Watched`), that there are no requests unless it serves or drains (`Quiet`), that no
resource is tried before those that precede it (`InOrder`), and so that the process has
stopped only with every resource tried (`Tried`, since `CleanedUp` looks at the last one
only). `CleanStop` follows from `HeldInUse` and `Quiet`; `Blamed` from `Watched`, because an
error means that the store is missing at that moment (`RaisesIsWatched`).

`Conversion_proofs` proves the module's four invariants for every grid, precision, price and
amount. `RateSurvivesStorage`: quantizing twice is quantizing once (`QuantizeExact`), and
what `RateFactory` made it makes again. `TypeOK`, `ConversionIsAccurate` and
`ConversionIsMonotone` need that every product has a last place, and how far apart two last
places are; both are facts about the powers of ten for every exponent. The library's
induction theorems take the induction hypothesis as an operator, which no prover here can
instantiate, so `Induction` states it about a set and rests on the least element that
`WFMin` provides (`LeastElement`). `PowerOfTen` is a recursive function; `PowerEquation` is
its equation, proved from tables of its first values (`Table...`). From them `UlpExponent`
gives the last place, and the three roundings add up to the bound of `ConversionIsAccurate`:
half a unit of the amount and of the rate (`Quantize...`), half a last place of the product
(`Significant...`). `SignificantMonotone` has two cases: within one last place half to even
keeps the order (`HalfEvenMonotone`); between two, the smaller product is rounded to at most
the power of ten at which the greater begins.

### What liveness rests on

A liveness property under weak fairness has two halves: whatever is to end takes only finitely
many steps, and each is taken. The second depends on fairness and on `ENABLED` and stays with
TLC. The first is an action property, which TLC checks beside it and TLAPS proves for every
value of the constants:

| Liveness | Its first half | Argument |
|---|---|---|
| `BatchesSettle` (`QuoteStore`) | `BatchesProgress` | each step of the consumer's task uses up an attempt, leaves PostgreSQL for Redis or uses up a command; `TypeOK` bounds the attempts |
| `OpenEnds` | `OpenAdmitsNone` | an open breaker lets no call join those in flight, and only the end of one restarts the timeout |
| `StopTerminates` | `StopProgresses` | after a stop `StepsLeft` is a natural number that every step of `start()` and of the stream lowers (`AttemptsLeft`: the attempts of both levels of retries) |
| `RequestsAnswered`, `StopCompletes` (`ApiServer`) | `RequestsProgress` | `StepsLeft(r)` falls with each step of a request along its route (`StepsTable`), and only a process that serves begins one |

`StopTerminates` has a further part, `DrainedForGood`: what `close()` emptied stays empty.
It is proved with `Told`, that `close()` runs only in a process told to stop, whose
`_offer_batch` puts nothing in the queue.

The assumptions are the named `ASSUME`s of the modules: limits are positive, the TTL
exceeds the maximal age (`Settings.validate_ttl_relationships`), tracked pairs have
distinct symbols, amounts have no more digits than the decimal context, and a pool has
room for at least one connection and `upper()` is idempotent. TLC evaluates them on every run.

Only model-checked are the liveness properties, since they depend on fairness and on what is
`ENABLED`, which is beyond the prover: `BatchesSettle`, `OpenEnds`, `BatchesReachHandler`,
`StopTerminates`, `ServesWithRedis`, `StopCompletes` and the two `RequestsAnswered`. Every
invariant, action property and refinement that a passing run checks is proved. The
counterexamples of the six runs that refute something need no proof.

## Not modelled

The parsing of Binance's responses, including the checks that follow the breaker, which it
never hears of; a COMMIT that PostgreSQL executes after the client has given up on it; the
middleware and `/metrics`, logging, metrics and tracing, which change no state that the
program reads; the wiring of the DI container, which the constants and compositions of the
modules stand for; clients of the API that disconnect, and a database that hangs for ever;
partition maintenance of the table, whose week of retention ends what `HistoryIsSettled`
says of a row, and the limit of a week on historical timestamps. Memory and the operating
system are left out throughout.

## Plan

1. A slow store: `RateFeed` with the time that saving takes, to bound how stale the batches of
   a full queue are.
2. The filtering of pairs in the symbols refresh, and what a pair that is no longer tracked
   leaves in the stores.
3. Restarts of the consumer process in `RateFeed`, so that `BatchFeed` covers them.
