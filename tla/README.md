# A TLA+ model of the market data gateway

The program is an asyncio service in one process (FastAPI, uvicorn with a single
worker): it serves quotes and candles over HTTP, streams quotes over WebSockets,
keeps candles and an economic calendar in PostgreSQL, and runs a few periodic
jobs.  This directory holds TLA+ modules that model its behaviour, TLC
configurations that check them on small instances, and proofs that TLAPS checks
for every value of the constants.

## 1. Inventory

### The streaming path

| part | state it keeps | operations | talks to |
|---|---|---|---|
| `StreamManager` (`app/services/stream_manager.py`) | `_clients`, `_interests` (subscribers, cleanup task), `_lock`, `_stopping`; per client a `ClientRegistration` (state, last event, bounded queue, `closed`, close code) | `register`, `unregister`, `stop`, idle cleanup, provider consumer, freshness monitor | router (calls under its lock), route (queue and `closed`) |
| router (`stream_provider_router.py`) | `_interest_providers`, forwarding tasks, `_lock`, bounded queue | `subscribe_quote`, `unsubscribe`, `close`, forwarding | providers (calls under its lock, queues) |
| WebSocket route (`api/routes_stream.py`) | one handler task and one sender task per client | receive loop, `_send_events`, the `finally` | manager, client |
| providers (`binance_spot_stream.py`, `twelvedata_market_data_stream.py`, `yfinance_market_data_stream.py`) | client, reference counts per provider symbol, listener or heartbeat task | `subscribe_quote`, `unsubscribe`, `close`, reconnect | third-party sockets |

What is hard: two nested locks, both held across network calls; tasks that are
cancelled while they wait for a lock; state that is popped under one lock and
acted upon under the other; a close code that several tasks write; clock
readings taken before a wait; queues that drop or close when full.

What makes it correct: a client that was admitted is served by every upstream it
needs, and no upstream is forgotten; a shutdown is final and ends; a client
always knows its state or finds it in its queue; streams are closed with their
reason, after the last event.

### The request path

| part | state it keeps | operations | what is hard |
|---|---|---|---|
| `QuoteService`, `QuoteCache`, `QuoteProviderRouter` | quotes by selection, one refresh lock | `get_latest_quotes`, `put_many` | a refresh that waits for another; a cache that streams write meanwhile; the fallback to a snapshot that has grown old |
| `TwelveDataApiKeyPool` (`providers/twelvedata_keys.py`) | place in the ring, cool-downs | `next_key`, `cool_down`, the retry of `_with_key_retry` | threads that go on when their request is cancelled, and reject keys that others are using |
| REST providers (`twelvedata_market_data.py`, `yfinance_market_data.py`, `binance_spot.py`) | a cached list of supported symbols | `fetch_candles`, `fetch_latest_prices` | rows outside the window, duplicated, unsound; three ideas of where a window ends |
| `CandleService`, `CandleCache` | candles in the database, one forming candle per key, one lock per key | `get_candles`, `single_flight`, `store_normalized` | a candle that closes between the reading of the clock, the answer and the write; another process that writes the same table |
| count scan (`candle_count.py`) | the cursor of a request | `execute`, `_load_page` | one reading of clock and cache for all pages; budget, boundaries |
| `timeframes.py`, `candle_schedules.py`, `market_sessions.py` | none | expected, latest and next opens, gaps, eligibility | months, clock changes, holidays; loops that end only if a grid meets a session |
| historical prices | none | `get_historical_price` | the choice of a candle that had closed |
| symbol registry, provider selection | rows of the database | `list_enabled`, `resolve_provider_selection` | one bad row |

What makes it correct: what is stored is final, and an answer is as fresh as it
says; what a client has once been shown as complete stays; requests that wait
for the same refresh share it; the failure of one provider is that of its own
symbols; rejected keys rest; functions over time agree with what they are for on
every boundary.

### Jobs and tools

| part | state it keeps | operations | what is hard |
|---|---|---|---|
| `CronjobManager` (`core/cronjob.py`) | jobs, their loops, the flag `running` | `start`, `stop`, `run_once`, `_run_loop` | a run of the loop against `run_once` and `stop`; the flag after every way a run may end |
| economic calendar refresh | events, attempts and details in the database | `refresh`; `upsert_events`, `claim_enrichment_candidates`, `update_enrichments` | gateways that share the table, transactions whose commit is in doubt, one type of several that fails |
| backfill command | candles in the database | chunks, `get_candles` without cache | failures that must be remembered until the exit code |
| `deploy/prod.py` | backups with a completion marker | backup, prune, deploy | failing half-way |

PROJECT.json lists every component with its status, and under `hazards` what is
hard to test, each at its line.

## 2. Modules

| module | what it is |
|---|---|
| `StreamManager` | registration, idle cleanup and shutdown on top of the router |
| `QuoteDemand` | what `StreamManager` promises, without locks and tasks |
| `ClientDelivery` | from a provider event to the WebSocket |
| `ClientStream` | what a client may rely on, without tasks and clocks |
| `YFinanceStream` | one stream provider: subscriptions, listener, reconnects, close |
| `TwelveDataStream`, `BinanceStream` | the two others, with what is subscribed upstream |
| `StreamRouter` | the router in front of those two: extends both |
| `CandleSchedules`, `MarketSessions` | when candles open, and when markets do: functions of time |
| `CandleRequests`, `CandleProviders` | what is asked for and what becomes of an answer: functions |
| `CandleFunctions` | the four modules above against what their functions are for |
| `CandleService` | requests, count scans and the backfill over cache and table; extends `CandleRequests` |
| `SymbolRegistry`, `TwelveDataKeys` | the registry with the choice of a provider; the pool of keys |
| `QuoteService` | quote requests, router, cache and key threads; extends the two above |
| `EconomicCalendar` | the rows of the calendar and what each transaction does to one |
| `CalendarJobs` | job managers and refreshes of several gateways; extends `EconomicCalendar` |
| `MC...` | instances for TLC |
| `...Proofs` | theorems, one module per component |

Everything runs in one event loop, so an action is the code that one task runs
from one suspension point to the next.

### StreamManager

One handler task per member of `Clients`, one cleanup task per member of
`Interests` (a second task for the same interest exists only after the first was
cancelled or has popped it; the invariant shows that the two are never mixed up)
and the task `Stop`.  Both `asyncio.Lock`s are FIFO queues: the head holds the
lock.  A task that reaches `async with` joins the queue in the step that brought
it there; this is what orders a cleanup's late `unsubscribe` before a later
`subscribe`.  A cancelled waiter stays in the queue as `Dead` until its
`CancelledError` is delivered.

| action | code |
|---|---|
| `Connect`, `Refuse` | `register` up to `async with self._lock` |
| `BeginRegister`, `Join`, `Open`, `OpenSucceeds`, `OpenFails`, `Admit` | the loop over the interests; the router's `subscribe_quote` |
| `Rollback`, `RollbackUnsubscribed`, `RegisterFails` | `except Exception` |
| `Disconnect`, `Unregister` | the route's `finally`, `unregister` |
| `CleanupWakes`, `CleanupChecks`, `CleanupUnsubscribes` | `_cleanup_interest` |
| `StopBegins`, `StopClears`, `StopGathered`, `RouterCloses`, `ProvidersClose` | `stop`, the router's `close` |
| `DeadWaiterLeaves` | asyncio's removal of a cancelled waiter |

`Failable` is the set of interests whose opening may fail; it lets the safety
properties say what is promised to the others while failures happen around them.
Each provider's `unsubscribe` catches and logs its own failures, so it returns
in the model.  A handler that is cancelled inside `register` is not modelled.

### ClientDelivery

Each registration is a record (state, age of the last event, queue, `closed`,
close code).  Clock readings are modelled as ages in ticks: a task reads `now`,
waits for the lock for at most `MaxLag` ticks, and uses the old reading.  Any
provider event may be the next one, which covers reordering and loss in the
queues before the consumer.

| action | code |
|---|---|
| `Register` | end of `register`, start of the sender |
| `ConsumerTakes`, `FanOut` | `_consume_provider`, `_mark_fresh_and_fanout`, `_handle_signal` |
| `MonitorWakes`, `MonitorChecks` | `_monitor_freshness` |
| `StopClears` | `stop` |
| `SenderTakes`, `SenderSends`, `SenderFails`, `SenderCloses` | `_send_events` |
| `Leave`, `ReceiveText`, `ReceiveDisconnect`, `Unregister` | the client and the handler |
| `Tick` | time |

### YFinanceStream

The router holds its own lock for the whole of a provider call, so all calls are
one task, `Caller`; it meets the listener task at the provider's lock.  A
provider symbol belongs to one interest (the unique constraint of
`symbol_provider_mappings`), so a reference count is 0 or 1.  `client` is the
field `_client`; `mine` holds each task's local variable, so that a client is
followed from the factory to its close.  Names of tasks and clients are used
again when nobody refers to them.

| action | code |
|---|---|
| `Subscribe`, `SubscribeAgain`, `SubscribeCounts`, `ConnectDone`, `ConnectFails`, `Discarded`, `AddDone`, `AddFails` | `subscribe_quote`, `_add_provider_symbol` |
| `Unsubscribe`, `UnsubscribeUnknown`, `UnsubscribeCounts`, `Removed` | `unsubscribe`, `_remove_provider_symbol` |
| `Close`, `CloseDetaches` | `close` |
| `Cancelled`, `CallerDone` | `_cancel_task`, `_close_client` |
| `ListenerStarts`, `ConnectionLost`, `ListenerGivesUp`, `ListenerClosed`, `ListenerWakes` | `_supervise_listener` |
| `ReconnectChecks`, `ReconnectDone`, `ReconnectFails` | `_reconnect` |
| `CancelDelivered`, `CancelSwallowed` | asyncio's `cancel`; a library that swallows it |

Network calls return or raise; one that raises may have reached the provider
(`AddFails`, `Removed`).  Left out: the conversion of payloads to quotes, events
dropped by a full queue, a caller that is cancelled, and a client factory that
raises.

### StreamRouter, TwelveDataStream, BinanceStream

The router holds its lock for the whole of a `subscribe_quote` or `unsubscribe`,
so a provider has one operation at a time; it is kept in `td.op` and `bn.op` with
the call it waits for.  The SDK of Twelve Data is called in threads: a cancelled
operation lets go of the lock and its thread goes on (`orphans`).  Binance's runs
in the loop, and a call that raises may have had its effect.  `sockets` and
`streams` are what exists upstream, and any connection may be lost there at any
time.  The code does not repair that: a socket of Twelve Data that is lost stays
`_websocket` and `_connected`, and Binance makes another connection with the next
subscription, without the streams of the handles it still holds.  `lost`, `cut`,
`tainted` and `leaked` remember what the code cannot make good (lost sockets, handles
whose stream went with its connection, symbols of which a call was cancelled,
connections whose start or end was): the properties exempt exactly these.

| action | code |
|---|---|
| `Subscribe`, `Unsubscribe`, `Close`, `CloseProvider`, `Forward` | the router |
| `TDSubscribe`, `TDUnsubscribe`, `TDClose` | the provider's methods up to their first call of the SDK |
| `TDResume` (`Resume`) | each method from one call to the next: connect, subscribe, unsubscribe, the end of the heartbeat, disconnect |
| `TDReturns`, `BNReturns` | the end of the provider's method and of the router's |
| `TDCancel`, `OrphanEnds`, `BNCancel`, `Cancel` | a caller is cancelled; its thread ends |
| `TDPrice`, `TDHeartbeatFails`, `BNPrice` | callbacks into the bounded queues |
| `TDLost`, `BNLost` | the provider upstream, or the network, drops a connection |
| `BNSubscribe`, `BNUnsubscribe`, `BNClose`, `BNResume` | `BinanceSpotStreamProvider` |

### CandleService

One symbol and timeframe, on a grid of `Hour` ticks.  A candle's content is the
time at which it was fetched, until it closes; a version is final if it is the
close time.  A task is a request of a gateway, which waits in `line` for the lock
of `single_flight`, or the backfill, which has neither lock nor cache.

| action | code |
|---|---|
| `Ask`, `Enter`, `Respond` | `parse_candle_request` is done; `get_candles` from the lock to the answer |
| `Read`, `Look`, `Fetch`, `Store` | `_get_candles`, and `_load_page` of a count: `list_complete`, clock and cache, `fetch_candles` of each section, `store_normalized`; `After` chooses the fallback of limit=1, the next page or the answer |
| `NextChunk` | the loop of the backfill command |
| `Fail`, `Cancel` | any await that raises or is cancelled; a failed write may have been committed |
| `Tick` | time |

### CandleFunctions and the modules it compares

No state: `input` is one input, drawn from small sets, and each invariant
compares a function with a definition that does not share its loop.
`CandleSchedules` has `candle_schedules.py` and `timeframes.py` with the
functions that cut ranges, `MarketSessions` the session policies,
`CandleRequests` `parse_candle_request`, the windows and `get_historical_price`,
`CandleProviders` what each provider makes of the rows of a payload.  Times are
ticks since the epoch; the library of calendars is given as sets of sessions.

### QuoteService

| action | code |
|---|---|
| `Ask`, `Enter`, `Refresh`, `Respond` | `get_latest_quotes`: the registry and the fresh part of the cache; the second look with the lock; the end of the refresh with `_use_fallback` and `put_many` |
| `FetchPlain` | `QuoteProviderRouter` with a provider that answers or fails |
| `FetchTwelveData`, `PickKey`, `Request`, `KeyRejected`, `ThreadReturns` | the thread of a call of Twelve Data: `next_key`, one HTTP request for each symbol, `cool_down` and the alternate key, the end |
| `StreamPut` | the stream manager's `put` |
| `Cancel`, `Tick` | a cancelled request, whose thread goes on; time |

The threads share the pool without a lock, and each of the steps above may come
between two steps of another thread: a thread may go on, over its remaining
symbols, with a key that another has had rejected in the meantime.  `overtaken`
names these threads.  `next_key` and `cool_down` are one step each; threads that
interleave inside `next_key` could at worst pass over a free key and fail, and a
call may fail in any case.  `told` remembers what each provider has priced, which
the code merges into one dictionary.

### CalendarJobs

A run of the refresh is begun by the job's loop or by `run_once`, in one of
several gateways, and waits in one call at a time.  A transaction is one step; a
run that fails, is cancelled or loses its process has committed it or not.
A claim holds its rows from `Select` to `Claim`: writes wait for them
(`NotHeldUp`), other claims skip them (`SKIP LOCKED`).

| action | code |
|---|---|
| `Start`, `Stop`, `Down`, `Begin`, `Proceed`/`Fail` | `CronjobManager`: `start`, `stop`, the end of a process at any time, `_run_once` and its `finally` |
| `Fetch` | `fetch_events`, one type after the other |
| `Upsert` | `upsert_events` |
| `Select`, `Claim` | `claim_enrichment_candidates` up to its commit |
| `Request`, `Update` | `fetch_event_details`, `update_enrichments` |
| `NextDay`, `Publish` | the date; new content at the calendar site |

## 3. Runs

| run | instance | shows |
|---|---|---|
| `stream_safety` | 3 clients, 2 interests, 1 may fail; symmetry over the clients | `SafetyInv` (inductive), `Served`, `NoOrphanUpstream`, `StopIsFinal`, refinement of `QuoteDemand` |
| `stream_liveness` | 2 clients, 2 interests | `IdleIsReleased`, `RegisterReturns`, `StopReturns` |
| `delivery` | 1 client, queue of 2, 1 tick of lock delay | `DeliveryInv` (inductive), `StateIsTold`, `CloseHasReason`, refinement of `ClientStream`, `SilenceIsTold`, `DecidedMeansClosed` |
| `yfinance` | 2 interests, 2 listener and 2 client names | `FeedInv` (inductive), `OneListener`, `Supervised`, `Reconnects`, `CallReturns` |
| `streams` | 2 Twelve Data symbols, 2 Binance pairs, 2 sockets, queues of 1, 1 cancellation, connections lost at any time; symmetry over symbols and over pairs | `InterestsServed`, `OneSocket`, `RouterAgrees` |
| `candles` | 2 requests of 3 modes, a backfill of 1 chunk, 3 ticks, 3 candles per request, scans of 4 slots | `StoredFinal`, `AnswerFresh`, `ServedForever`, `ExitZeroMeansStored`, `SingleFlight` |
| `candle_functions` | 10 registry rows, 6 timeframes, 6 instants; grids of 6 opens; answers of 2 rows | `EveryScheduleTrades`, `OpensAreExact`, `SectionsAreExact`, `ChunksAreExact`, `AcceptedFits`, `AnswersAreSound`, `NeverLooksAhead` |
| `quotes` | 2 requests, 4 registry rows, 2 providers, 2 keys, 2 ticks | `AnswerSound`, `OneRefresh`, `KeysRest` |
| `jobs` | 2 gateways, 2 events, 2 days, 2 contents | `OncePerDay`, `RunningIsTrue`, `RowsImprove` |
| `stream_accepted`, `stream_unused`, `delivery_overload` | | disagreements between documents and code, section 6 |

Bounds.  Three clients are one that leaves, one that joins the interest it
leaves and one that fails in between; two interests give a registration that
joins one, opens the other and rolls back, and an order in which to do so.
In `ClientDelivery` clients do not influence each other (no action reads two
registrations), so one client is enough; a queue of two holds a quote and its
status, the largest bundle, and overflows with the next event or in the middle of
a bundle.  `StaleAfter = 0` with an age that stops at `MaxAge` makes every
comparison of the monitor come out both ways.  In `YFinanceStream` two interests
make the first and the last subscription differ from the others; two clients are
the one being closed and its successor, and a second listener name is there for
`OneListener` to fail.  In `streams` two symbols share a socket, and two
pairs a connection that may be lost under one and made again by the other; a second
socket is the one after a failed connection.  In
`candles` a candle lasts three ticks and time runs over the close of one; a second
request meets what the first has left in line, cache and table while the backfill
writes the same opens, and one slot without a session makes latest opens and
pages pass over it; `Ttl = 0` makes a cached candle stale at the next tick.  In
`candle_functions` the instants lie around a weekend on which New York moves its
clocks, next to two holidays, and the ranges of months around the end of
February.  In `quotes` one key may be rejected while the other cools down, two symbols
of Twelve Data make the loop of a call more than one request, and a disabled symbol and an inactive mapping stand in the registry.  In `jobs` one of
the events enters the window on the second day, and one has a new content, so
that a gateway may write what another has overtaken.  The theorems of section 5
do not depend on these bounds.

Deadlock is checked in every run but three: in `candles`, `quotes` and `streams`
the clients have asked once, time and the sockets of the bound are used up, or
the providers are closed, and the system may stop.  `StreamManager` may stop
only in `Terminated`.

Fairness.  The event loop runs every ready task, a FIFO lock is handed on,
sleeps end and a provider call returns or raises: weak fairness of the handler,
cleanup, stop, sender, fan-out and monitor steps.  Provider calls have timeouts
or raise in their own code.  In `YFinanceStream` a task that waits for the lock
gets it although others take it in between (strong fairness: the lock is FIFO),
and attempts to reconnect do not fail for ever.  Nothing is assumed of clients (except that one that
does not leave keeps reading its socket), of providers' events, or of the start
of a shutdown.

## 4. Properties

* `Served`, `ImplementsDemand`: no cleanup, rollback or later registration takes
  an upstream away from a client that was admitted.
* `NoOrphanUpstream`, `IdleIsReleased`: each upstream is owned by an interest or
  a task about to unsubscribe it; an idle one goes away or is wanted again.
* `StopIsFinal`, `StopReturns`, `RegisterReturns`: a shutdown lets in nobody who
  was queued, ends, and no registration hangs on the two locks.
* `StateIsTold`, `SilenceIsTold`: the state of the registration is the last
  status the client was sent or has in its queue, through overload, signals,
  stale clock readings and recoveries; silence is reported.
* `CloseHasReason`, `DecidedMeansClosed`, `ImplementsStream`: the code of the
  close frame, the close after the last event, and the end of the handler.
* `Carried`, `Reconnects`: a client of YFinance, however it came about, carries
  every accepted interest; a lost one is made again.
* `OneListener`, `Supervised`, `NothingLeaks`, `ClosedIsFinal`, `CallReturns`:
  listener tasks and connections are neither doubled nor lost nor left behind, in
  whatever phase of a reconnect a call arrives, and the call returns.

* `InterestsServed`, `OneSocket`, `RouterAgrees`: books, sockets and the router's
  map agree after failed connections and calls, and after lost connections and
  cancellations but for what section 2 names as not repaired.
* `StoredFinal`, `AnswerFresh`: no forming candle is stored or shown as complete,
  whichever side of its close the clock is read, the answer comes and the row is
  written; a cached candle is not answered after its lifetime or its close.
* `ServedForever`, `SingleFlight`, `ExitZeroMeansStored`: what was shown as
  complete is there for later requests though upstream has dropped it; the lock
  is handed on by requests that fail or are cancelled; the backfill does not
  forget a failure.
* `EveryScheduleTrades`: for each kind of registry row the walks of `latest_opens`
  and `next_opens` end.  `OpensAreExact`, `SectionsAreExact`, `ChunksAreExact`,
  `AcceptedFits`, `AnswersAreSound`, `NeverLooksAhead`: the functions against
  what they are for.
* `AnswerSound`, `OneRefresh`: an answer has each symbol once, from the provider it
  was to come from; a symbol its provider has priced is quoted as of the answer,
  whatever became of the other providers, and one that falls back is not stale at the
  answer; a request that has waited for a refresh does not repeat it.
* `KeysRest`: a thread takes no key that cools down, asks with none that it has seen
  rejected, and tries no third.  What is not promised: that a key is left alone
  from the moment it is rejected, as the threads that hold it go on with it.
* `OncePerDay`: the details of an event are requested once for a UTC day, across
  gateways, crashes and commits in doubt.  `RunningIsTrue`: the flag of the job
  and its runs agree.  `RowsImprove`: details and attempts are not lost, and
  content goes back only where two gateways have overtaken each other.

## 5. Proofs

`StreamManagerProofs` proves, for all `Clients`, `Interests` and `Failable`
(assuming only that the names of tasks are distinct and `Failable` is a set of
interests): `TypeCorrect`, `SafetyCorrect`, `ServedCorrect`, `NoOrphanCorrect`,
`StopCorrect` and `DemandImplemented`.  `Served` is not inductive.  It holds
because of an order: `SafetyInv` adds that whoever is inside the manager's block
is at the head of its queue (`ManagerQueue`), that a registration is always last
in the router's queue, so that unsubscribes begun earlier are over when its
subscribe is served (`RouterQueue`), what the loop of `register` has done so far
(`RegisterProgress`), and that an interest whose unsubscribe is still pending can
be in `_interests` only while it is being reopened (`InterestsAreLive`).

`ClientDeliveryProofs` proves `DeliveryCorrect`, `StateToldCorrect`,
`CloseHasReasonCorrect` and `StreamImplemented`, the refinement of `ClientStream`,
for all clients, interests, capacities and delays.
`StateIsTold` needs the phases of sender and handler to agree with the outgoing
event (`Lifecycle`); `CloseHasReason` needs that a registration closed without a
reason has no sender left that could send it (`ReasonBeforeClose`).  Every step
is one of `ClientStream` or leaves what a client sees: this needs that nothing is
delivered to a client that has been closed (`NothingAfterClose`).

`YFinanceStreamProofs` proves `FeedCorrect` and from it `CarriedCorrect`,
`OneListenerCorrect`, `SupervisedCorrect`, `NothingLeaksCorrect` and
`ClosedCorrect`, for all interests and names (`NamesAssumption`: the caller is no
listener and `None` is no name).  The invariant adds to them that the counts are
the accepted interests and the symbol being added (`BooksAgree`), that `_client`
does not change while another task holds the lock (`LockHeld`), that a running
listener is the current one or the one being awaited (`Roles`), and which task
may install or close a client (`Hands`).

`CandleServiceProofs` proves `CandlesCorrect`, `StoredFinalCorrect`,
`AnswerFreshCorrect`, `ExitZeroCorrect`, `SingleFlightCorrect` and
`ServedForeverCorrect` for all clients, requests, eligible opens (integers),
lifetimes, limits and ranges.  The argument is about clocks: a task reads the
clock once and fetches later, so what it has fetched of a candle that had closed
by its clock is final, and of any other is no older than its clock (`GotOK`); the
invariant carries this through what is persisted, cached (`CacheOK`, `CurrentOK`)
and merged (`MergedOK`), and says that nothing is held over from an earlier
reading (`NothingOld`).  `SingleFlight` needs that a request is in the line once
and works only at its head (`LineOK`).  `ServedForever` needs `PromisesOK`, which
follows a request from page to page: what its client has been promised, what it has
read and what it shows as complete is in the table (`Known`); a promised open that
it has scanned is about to be read, has been read or is shown (`Pending`, `Whole`);
and a count that answers with fewer rows than were asked for has spent its budget
(`Enough`).  The last step of a count is about ranks: its answer keeps, of the rows
of all pages, the n nearest to the time it was given, so a promised row that is not
beyond them is one of them.  The budget is counted in pages of a known length,
which the theorems about `CandleSchedules` give, with their hypothesis `Recurs(El)`.
(The module extends `CandleFunctionsProofs` for its lemmas; nothing in it is about
the variable `input`.)

`CandleFunctionsProofs` proves what the functions of time return, for every
schedule, of a fixed duration or of months, and every set of opens that the session
policy may let through: `ExpectedOpensExact`, `LatestOpensFound` and `NextOpensFound` (the
eligible opens of a range, the last before a time, the next from one, in order and
none left out), `MissingSectionsExact`, `ChunksCut`, `HistoryRangesCut`,
`CountIsConservative`, `AcceptedRequestsFit` and `HistoricalPriceLooksBack`, for all
times, ranges and limits.  Of providers' answers, with any number of rows in any
order, `NormalizeTimeSeriesExact`, `NormalizeHistoryExact` and `BinancePricesExact`
say which are accepted and what is then returned.

From these its last part draws six invariants of `CandleFunctions`, as theorems of
`InputSpec`: `ChunksCorrect`, `OpensCorrect`, `SectionsCorrect`, `AcceptedCorrect`,
`PricesLookBack` and `AnswersCorrect`.  They hold for all calendars, registries,
instants, resolutions and limits and a day of at least 48 ticks
(`InputsAssumption`: an hour has two, the resolutions of a historical price are
whole candles of more than one tick and no months).  `InputStays` says that a
behaviour is one input; the rest is, for each kind of input, to show that the
hypotheses of the function's theorem hold of it and that what the invariant says is
what the theorem says.  So the run and the theorems test each other: TLC that the
invariants mean something on the inputs, the proofs that they are no accident of
the calendar of the run.  Where an invariant takes small ranges for its inputs, the
theorem about the function is the stronger statement.  One definition was wrong and
TLC could not see it: `HistoryRanges` of an empty range without a limit used its
walk, which in steps of length 0 does not end; like the code (`if end <= start`,
yfinance_market_data.py:372) it now returns nothing before it looks at the limit.

A loop of the code is a recursive function here, and a recursive definition says
something only of a function that exists.
`WalkExists` shows that it does for a walk each step of which goes down in a
well-founded relation, which is to show that the loop ends; `NoDescent` then
proves what the walk returns, by a fault that would have to be there a step
earlier.  `latest_opens` and `next_opens` end only if the market trades often
enough: `LatestOpensFound` and `NextOpensFound` ask for as many eligible opens on
that side of the time as are wanted (`HasMany`), which `OpensAreExact` counts in its
premise.  `LatestOpensExact` and `NextOpensExact` are their corollaries for a market
that trades again after any time and has traded before it (`Recurs(El)`), as the
multiples of a duration do.  `Recurs` is a hypothesis and not an assumption of
the module because TLC cannot evaluate it, and the `El` of the instances, a piece of
a calendar, does not have it; `EveryScheduleTrades` checks it for the rows of the
registry.

The proofs know a schedule by three laws, each proved once for the two kinds: a
step from an open leads to an open and from no other time (`StepIs`), no open is
between an open and the next (`OpensFollow`), and a range of n steps has n opens at
most (`RangeFits`).  For months they rest on the calendar: `MonthStart` is shown to
exist and to be increasing, by 28 to 31 days at a time, every instant to be in one
month and `MonthOf` to find it, and `AddMonth` to end in the month it aims at,
clamped to its last day, and at its start only from a start (`AddMonthIs`).
`MonthStart` has no first and no last month, `datetime` has the years 1 to 9999.
`MonthOpensExact` is what the conservative count of months counts.

`CalendarJobsProofs` proves `JobsCorrect`, `OncePerDayCorrect`,
`RunningIsTrueCorrect` and `RowsImproveCorrect` for all gateways, events, days
and contents (`BoundsAssumption`).  `OncePerDay` holds because a row is held by at
most one claim, which found it unattempted on its day (`Claims`), and every
request leaves its day in the row (`Counted`); `RowsImprove` because what a run has
fetched is no older than what its own gateway has written (`Newer`), which needs
that a gateway has one run at a time (`OneRun`).

`QuoteServiceProofs` proves `QuotesCorrect`, `KeysRestCorrect`,
`OneRefreshCorrect` and `AnswerSoundCorrect` for all clients, requests, keys and
ages (`AgesAssumption`, `KeysAssumption`, and `ProviderSymbolsApart`: prices are
merged by provider symbol, so no two symbols may share one under whichever
providers; the seeds have it so, the schema asks it of each provider only,
models.py:66).  The inductive invariant is `ServiceInv`.  `KeysRest`
follows from `KeysOK` and `CallsOK`: a key is free again `Cooldown` after it was
last rejected, and what a thread asks with was free when it was taken, unless
another has cooled it down since.  The other two need to know who holds the
refresh lock (`LineOK`: a request is in the line once, and fetches only at its
head), so that nothing but a stream writes the cache during a refresh, that each
symbol of a request is quoted, pending or an error (`Booked`, `Accounted`), and
that the merged prices and failures are those each provider has told of its own
symbols.

`StreamRouterProofs` proves `RouterCorrect`, `RouterAgreesCorrect`,
`OneSocketCorrect` and `InterestsServedCorrect` for all symbols, pairs, sockets
and cancellations (`InterestsAssumption`: no symbol is a pair).  The invariant
follows a call to its end: an interest keeps its socket because a socket is
forgotten only when no interest is left (`TDHeld`, `TDPhase`); a symbol that is
referred to and not held is the one being subscribed (`TDRefs`); an orphan can
only close a socket of the past or take back a tainted symbol (`TDOrphans`); a
lost connection adds to `lost` or `cut` exactly what it served (`TDServed`,
`BNServed`); and what a provider has accepted but not yet returned is what the router is about to
learn (`Agrees`).

Only model-checked: liveness (fairness and ENABLED are beyond the prover), and
`EveryScheduleTrades`, which is a fact about the calendars and the registry of the
run and false of others.

## 6. Where documents and code disagree

* `stream_accepted`: an interest whose opening failed stays in `_interests`, and
  the next client that asks for it is accepted with no upstream being opened
  (docs/spec.md:591).
* `stream_unused`: a failed registration stays a subscriber of the interests it
  joined, whose upstream is then never closed (docs/system-design.md:285).
* `delivery_overload`: the close code 1013 of an overloaded client is overwritten
  or lost before the sender has drained its queue (docs/system-design.md:455).

Met while modelling, and not stated as runs:

* limit=1 falls back to the one open before the latest (candles.py:363-414), where
  docs/spec.md:608-610 may be read as a search for the latest candle there is;
  `FallsBack` is the code's.
* a count uses one reading of the cache for all of its pages (docs/spec.md:342-344);
  `Enter` is the code's.
* a cancelled subscription of Twelve Data keeps its reference, and the next client
  that asks for the symbol is told it is subscribed
  (twelvedata_market_data_stream.py:145-176): the symbol is `tainted`.
* a lost socket of Twelve Data is not replaced while an interest is held
  (twelvedata_market_data_stream.py:111-113), and Binance's old handles are not
  subscribed again on a new connection (binance_spot_stream.py:125): `TDLost`,
  `BNLost`.
* quotes are merged by provider symbol over all providers (quote_provider_router.py:59):
  a provider symbol that two providers had for different symbols would let one answer
  for the other; no row of the seeds is like that.
* a call of Twelve Data goes on with a key that another thread has had rejected
  (twelvedata_market_data.py:388-406): `overtaken`.
* a failed heartbeat announces a reconnection that nothing makes
  (`TDHeartbeatFails`), and Binance's `emit_reconnecting` and `emit_error` have no
  caller (binance_spot_stream.py:205).
* a refresh of quotes overwrites a streamed quote that is newer (`Refresh`,
  quotes.py:146-230); `OneRefresh` therefore exempts streamed quotes.

## 7. Not modelled

HTTP routes, serialization and error mapping, settings, logging and error classes:
no state that outlives a call.  Migrations and `deploy/`: run once, as one
process, on files and services that are outside the gateway.  The conversion of
third-party payloads is modelled as far as rows are accepted or refused; the
numbers in them are not.  A handler of the stream manager that is cancelled inside
`register`: only the end of the process cancels one.  A job that is registered
while the manager runs, and `CandleCache.remove`: no caller does so.  The database is its transactions; the
ORM and the queries that only list are external.

## 8. Plan

1. `Deployment`: backup, completion marker and pruning with a failure after each
   step.
2. A composition of `StreamManager` with `StreamRouter`, in which a cancelled
   `register` meets the providers.
