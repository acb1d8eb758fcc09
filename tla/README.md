# Verification of the AI4Trade bot

TLA+ models, TLC configurations and machine-checked proofs for the signal
producers, their strategies, collectors and evaluators, the delivery worker, the
life of a canonical signal, the way from the ingest API to Freqtrade and the
watchdog.  Paths are relative to the
repository.

| file | content |
|---|---|
| `DeliveryPolicy`, `DeliveryOutbox`, `DeliveryWorker` | the AI4Trade delivery worker (`rainbow/delivery/`) |
| `DeliveryContract` | what one worker at a time promises; `DeliveryWorker` refines it |
| `DeliveryProofs` | theorems about the delivery worker |
| `SignalPublisher`, `Heartbeat`, `SignalProducer` | the legacy bot (`main.py`, `adapters/`) |
| `PublisherContract` | what that bot promises about a signal; `SignalProducer` refines it (`ProducerProofs`) |
| `ProducerProofs` | theorems about it |
| `TradingStrategy`, `TradingStrategyProofs` | what the legacy bot decides (`core/`, `ai/`), and theorems about it |
| `Webhooks`, `RainbowEngine` | the collector loops of the engine (`rainbow/main.py`) with store and webhooks |
| `EngineContract` | what the engine promises about a signal; `RainbowEngine` refines it (`EngineProofs`) |
| `EngineProofs` | theorems about them |
| `SignalScores`, `EvaluationCache`, `ModelReplies`, `SignalPipeline` | a cycle of the engine from the inside: collectors, scorer, LLM evaluator and its cache (`rainbow/`) |
| `PipelineProofs` | theorems about it |
| `SignalRegistry`, `SignalLifecycle` | canonical registry, outcome tracker, maintenance and archive (`core/`, `scripts/archive_signals.py`) |
| `LifecycleProofs` | theorems about them |
| `ConfidenceModulation`, `RiskGate`, `SignalSources`, `FreqtradeBridge` | ingest API, risk gate, modulator and the bridge to Freqtrade (`rainbow/ingest/`, `core/signals/`, `integrations/`) |
| `AdvisoryProofs` | theorems about them |
| `Watchdog`, `WatchdogProofs` | heartbeat files, watchdog and Telegram sink (`core/`), and theorems about them |
| `MCDelivery`, `MCProducer`, `MCEngine`, `MCPipeline`, `MCSignals`, `MCAdvisory`, `MCWatchdog` | instances for TLC; one `.cfg` per run |
| `PROJECT.json` | components, runs, mutants, the source lines of every definition, findings, hazards, theorems |

Check a run with `tlc -config Engine.cfg MCEngine`, the proofs with
`tlapm DeliveryProofs.tla`, and so on.

## 1. The system

Two producers turn market data into signals; everything else stores, judges,
moves or watches them.

```
 market data, news        market data, social, news
        |                          |
  legacy bot (main.py)      Rainbow engine (rainbow/main.py) <--- ingest API
   |        |                |         |            |
   |        +--> canonical registry <--+         webhooks
   |             (core/signals)  |
   |                             +--> outcome tracker, archive, API
   |                                        |
   v                                  delivery worker (rainbow/delivery)
 AI4Trade  <--------------------------------+
 heartbeat files of both processes --> health checks, watchdog --> Telegram
 canonical registry --> Freqtrade bridge (integrations/) --> Freqtrade strategy
```

| component | state | operations | interacts with |
|---|---|---|---|
| Delivery worker | outbox table in SQLite; locals of one run | `run_once`: fetch, evaluate, enqueue, heartbeat, post, mark | Rainbow API (GET), AI4Trade (POST), other invocations through the outbox |
| Legacy producer | retry buffer in memory, signals table, shutdown event | per asset: analyse, decide, route, publish; per cycle: task messages, flush; shutdown | AI4Trade, heartbeat thread (event, queue), registry, heartbeat file |
| Heartbeat thread | error count, poll count | poll, circuit breaker, wait | AI4Trade, the message queue |
| Rainbow engine | loops, collector status, store connection | collect, score, save, side-write, dispatch, wait; start, shutdown | collectors, scorer, store, registry, webhooks, API |
| Webhooks | subscriptions with failure counts | subscribe, unsubscribe, dispatch, deliver | API, collector loops, subscribers |
| Canonical registry and risk gate | signal table with status | append, transition, query, cleanup, archive | both producers, ingest, outcome tracker, API |
| Outcome tracker | outcome table, daemon loop | evaluate open signals, retry, expire | registry, price provider |
| Ingest API and risk gate | request times per source | ingest: limit, map, gate, append | agents, registry |
| Legacy strategy | none | fetch with fallback, analyse, weigh, decide, route | exchange, CoinGecko, news, LLM, legacy bot |
| Rainbow collectors | none | collect: request by request, skip, repeat, raise | market data, social networks, news, scorer |
| Scorer and LLM evaluator | cache of evaluations | score a batch, evaluate its signals concurrently: cache, call, parse, fall back | LLM provider, collector loops |
| Freqtrade bridge | last call, cached answer per pair, cache file | get_latest_signal: rate limit, cache, query, policy, modulate | registry, Freqtrade strategy |
| Watchdog and health checks | last alert per component, last send | check files, cooldown, send | heartbeat files, Telegram |
| Monitoring, backtesting, training, scripts | files, metrics | offline | databases |

### What is hard

* **Delivery**: every await can be the last one of its run; a POST may be
  accepted although its sender never learns; nothing keeps two invocations
  apart; the statements on the outbox overwrite whatever status they find.
* **Legacy producer**: one `try` guards a whole cycle and one guards a post
  together with the save, so an exception in one place undoes bookkeeping of
  another; the flush replaces the buffer only at its end; the last flush is
  guarded by nothing; a second thread runs all the time.
* **Engine**: all collectors share one database connection, one subscription
  table and one event loop; cancellation strikes at any await; status and
  failure counts are written by several loops.
* **Registry and outcomes**: separate processes on one database without a
  common transaction; read-then-delete in the archive; a daemon that selects
  the oldest open signals again and again.
* **Collectors and evaluators**: every source has troubles of its own, and five
  collectors skip, repeat or raise them differently; the signals of a batch are
  judged concurrently, and several loops miss, ask and write the same key.
* **Watchdog, caches, limiters**: decisions from times that were read earlier,
  a global limit behind a limit per component.

### What makes each component correct

* Delivery: sent means traded; evidence is never traded; an entry is given up
  only for a reason; every trade has a cause on record; a settled entry stays
  settled; every queued entry settles.
* Legacy producer: no decided signal vanishes unseen, the oldest one gives way
  at the limit, none is confirmed twice without a recorded cause; every
  message is handled; shutdown ends.
* Engine: what is dispatched can be read back; the registry never knows more
  than the store; no loop uses a closed connection; every signal of a batch is
  dispatched or its cycle ended early.
* Registry and outcomes: a signal is judged at its horizon and truly, by nobody
  twice, and none is judged never; the archive deletes what it has written and
  keeps it.
* Watchdog: a component that has stopped is reported within a bounded time; a
  healthy one is not; Telegram hears of it.
* Ingest and bridge: no window admits more than its limit; an answer is one that
  a query gave a short time ago; advice keeps threshold, raw confidence and what
  the gate decided; a failing registry is not flooded.
* Strategy: confidence is a percentage, what has no market data never trades.
* Collectors and evaluators: signals are lost only with a whole cycle, which only
  some troubles end; what the cache serves is recent and meant for the signal; a batch is judged in bounded time;
  every cycle ends.

## 2. What is modelled

### Delivery worker

`DeliveryPolicy` is the pure policy: a row of the Rainbow API is a record of
small values, `Eligible` the conjunction of the early returns of `evaluate`,
and the SHA-256 digest the tuple it is taken over.  `DeliveryOutbox` has one
operator per SQL statement.  `DeliveryWorker` is a process per member of
`Workers` whose `pc` names the await it stands at: `fetch`, `evaluate`, `beat`,
`select`, `post`, `mark`, `count` (between the UPDATE and the SELECT of
`mark_retrying`), `bury`.  `Publish` is the POST with its answer as the client
sorts it (`Served`: success, 401, retryable, permanent), `Mark...` the
statement that follows.  A retryable answer may leave the request `open`, and
`LateAccept` turns it into a trade later.  `Abort` ends a run at any await,
`PublishBreaksOff` during the POST.  `Workers` with two members is two
overlapping invocations.

`DeliveryContract` states the promise per payload: recorded once, transmitted
only while queued, delivered only after a trade, settled once.  At least once is
all it promises.  The refinement mapping takes the status to a stage, accepted
payloads to trades and open requests to doubt.

### Legacy producer

`SignalPublisher` has the buffer operators, `Heartbeat` the thread, and
`SignalProducer` composes them with the main loop; `pc` is the statement the
main thread stands at.  What an asset's analysis comes to is computed by
`TradingStrategy` from a market (`Markets`): what exchange and CoinGecko answer
at each attempt, whether there are headlines, what the LLM says.  A signal is its number, so order and
age can be compared.  `Confirmed`, `Unconfirmed` and `Raised` are the three ways
a post can end for the sender; in the last two AI4Trade may have accepted all
the same.  `SaveFails` is the save that raises inside the `try` of `publish`,
`FlushRaises` the exception that leaves `flush_queue` before the buffer is
replaced, in a cycle (caught by the loop) or at the end (caught by nobody).
`Kill` and `Restart` lose what is in memory.

`PublisherContract` states the promise per signal: decided in order; traded while
it is held and never afterwards; settled only after a trade; dropped only as the
oldest of those held; lost only together with all others, when a process ends.
The refinement mapping (`Stage` in `ProducerProofs`) takes what is in hand or in
the buffer to `held` and tells the rest by the histories `lost` and `dropped`.

`TradingStrategy` is pure: attempts and fallback of the market data
(`FirstAnswer`, `FromCoinGecko`, `Ohlcv`), points of the indicators (`Strength`),
health of the feed and adjustment (`Healthy`, `RiskOff`, `Adjustment`), the
clamped sentiment, the decision and the threshold of the router.  In which band
an indicator lies is part of the candles, the arithmetic of pandas and `ta` is
not repeated; scores of the sentiment are hundredths.

### Rainbow engine

`Webhooks` is the subscription table, `RainbowEngine` the loops.  A step takes a
loop from one await to the next: `Collect` (with scoring), `Insert`, `Commit`
(with the canonical side-write, which has no await and may fail silently),
`Dispatch`, one `Answer` per post, `DispatchDone`, `Wake`.  `Commit` commits the
INSERTs of all loops, because they share the connection.  `Cancelled` is the
CancelledError of a shutdown, which may find a statement carried out by the
thread of the connection.  `Crash` and `Restart` keep the committed rows only.
Subscribers choose from `load.filters`, the sets of collectors they ask for, so
that loops may post to one subscription at the same time.

`EngineContract` states the promise per signal: taken in the order of the numbers,
kept for good, then listed once in the registry and announced once, or dropped with
its cycle; a dropped one may still be kept by a late COMMIT, but nobody hears of it.
Announced means that the dispatch has ended: one that is cut off among its posts
counts as dropped.

`SignalPipeline` opens up what `Collect` does in one step.  `Answered`, `Skip`,
`Retry` and `Fail` are the ways a request of a collector may end; `Skipped`,
`Retried` and `Fatal` say which trouble leads where, collector by collector.
`Fail` is the exception that leaves `collect()`: it takes along what other targets
have given in this cycle.  The histories `answered` and `handed` keep, beyond the
end of a cycle, what the sources gave and what went on to the store.
`Score` rates the batch with `SignalScores`.  Each signal is then a task that
passes by, is `Neutral`, is served (`Serve`) or misses and asks (`Miss`), and
ends with `ModelAnswers` or `ModelFails`.  All loops share `EvaluationCache`, so
two tasks may ask for one key and the later answer stays.  `ModelReplies` says in
which replies an object is found and which fields make it unusable, so that the
fallback model is asked.  Times are ages and rests, as in `Watchdog`; time passes
only when the event loop has nothing to run.

### Signal lifecycle

`SignalRegistry` has an operator per SQL statement on the signal table and on
the outcome table, `SignalLifecycle` the processes that use them: producers and
ingest, outcome trackers, the two cleanups, the archive script.  They share two
SQLite files and nothing else, so a statement is a transaction and a step.

* Times are compared as text.  Producers write UTC; the ingest API adds UTC to a
  timestamp without an offset and leaves any other as it was sent
  (`rainbow/ingest/ingest.py:151-156`), and `append` stores the text it finds.  So a
  row has an instant, `created`, which the tracker computes with, and the local time
  that its text shows, `written`, which SQLite compares.  A member of `Stamps` says
  how far a timestamp is ahead of the clock (behind it, if negative) and how far its
  text is from UTC: less than a day, as Python demands.
* `query_open` and `cleanup_expired` bind a cutoff with a blank where the T stands,
  which sorts first, so a row that shows the cutoff's own date counts as later.
  `SortsBeforeBlank` compares dates (`DayLength` ticks each), `SortsBeforeIso` times.
  An offset of the cutoff itself is always that of UTC.
* `Deployments` are sets of processes that run beside each other: trackers, the
  archive, a consumer.  Producers and cleanups belong to every one.
* A tracker takes a snapshot of the oldest open signals (`Query`, at most
  `Limit`; ties in any order) and handles them one by one: `Skip` what has an
  outcome, `Judge` (prices are there or not; `_is_expired` reads the clock),
  `Record`, a transaction of its own that overwrites.  `EvaluationFails` is what
  `evaluate_batch` catches, `Dies` the death of a run or of the daemon.  A dry
  run writes nothing and is a run that dies.
* What the prices say about a signal is a fact about it (`Direction`, `Move`) once
  its horizon is past, since both are historic then; before it a provider may
  return the nearest price it has, and any move (`Classified`).  Prices may be
  missing at any request.
* The archive script reads, writes the file of the date and deletes, in three
  steps between which everybody else goes on; with `--dry-run` it ends after the
  file, which it has overwritten all the same.
* `Transition` asks for nothing.  No code of the repository's packages calls it;
  `Closable` bounds the signals a consumer outside may move.
* `valid_until` takes part in `_is_expired` as `max_age_seconds` does; `MaxAge`
  stands for both.

The processes meet on one database only if the operator tells them so: the
defaults are `rainbow/storage/canonical_signals.db`,
`storage/canonical_signals.db` and, for the archive, `rainbow/storage/signals.db`.
The model is of processes that were given the same path.

### Ingest API, risk gate and Freqtrade bridge

Four modules, each extending the one before.  `ConfidenceModulation` has the
steps of `_modulate_inner` on integers (`Unit` steps to a confidence of one) and
the rounding to six decimals: `Rounded` is a set, since half way between two
multiples the binary value decides.  `RiskGate` is the gate's cascade of rules.
`SignalSources` is what fills the registry for one pair: the ingest API with its
sliding window, refusals and failed appends, the legacy bot, whose decisions come
from `TradingStrategy` through `FromLegacy`, which asks the gate and stores
anyway and which warns of a feed (`FeedWarning`), and the engine, which does not
ask.  The limiter's list comprehension is the recursive function `Later`, which a
proof can unfold; `LaterIsFilter` in `MCAdvisory` has TLC compare it with
`SelectSeq`.  `FreqtradeBridge` adds
the bridge: `Refuse`, `ServeCached`, `LookUpFails` and `LookUp` are the ways
through `_get_latest_signal_inner`, `ResultsAt(n)` is what a query gives while
the n-th row is the newest.  `EnterLong` and `ExitLong` are the marks of the
Freqtrade strategy.

* Window, cache and cache file hold readings of `time.monotonic()`, rows hold
  wall-clock times.  `Mono` is the time since `boot`; `RestartBridge` keeps it,
  `Reboot` starts it from zero, while the file keeps its readings.
* A write of the file may fail (it is only logged), a file that is missing or
  broken gives an empty cache.
* The timestamp of a request may lie in the past (`Lags`), or cannot be parsed and
  becomes the present.
* `answer`, `looked` and `taken` are history variables: nothing reads them.
* Sources and bridge name the pair alike.  The defaults do not: the legacy bot and
  Freqtrade say `BTC/USDT`, the engine says `BTC`, so that with defaults the
  engine's rows are in the registry but never the answer for a Freqtrade pair.

### Watchdog

`Watchdog` has the heartbeat files as the writers leave them, the loop of
`run_watchdog` (`Start`, one of `CheckWell`, `Suppress`, `Alert` per component,
`Answer` of Telegram, `FinishCheck`, `WakeUp`) and the time between.  Times are
kept as ages and only as far as a comparison of the code can tell them apart:
time has no end, and what keeps happening can be asked about.  `Tick` cannot
pass the end of a sleep or of a post, so the watchdog is as punctual as
`time.sleep` and the timeout of `requests` make it; the processes it watches may
be as late as they like, since the legacy bot writes only after a cycle in which
nothing was raised.  `Write` may fail without anybody noticing (`OSError` is
logged), `LoseFile` is somebody else's doing.  A missing file, a malformed one
and one without a timestamp come to the same finding.  With `Die` and `Start`
all last times are forgotten, which is also what a run with `--once` does.

Which files are watched is configuration: `config/watchdog.json` names
`storage/heartbeat_rainbow.json`, the engine writes
`rainbow/storage/heartbeat_rainbow.json` (`rainbow/paths.py`).  The model is of
a configuration that names the file the process writes.

## 3. Runs

| run | question | bounds |
|---|---|---|
| `delivery_solo` | Does one worker at a time keep its records true, implement the contract and settle everything? | two tradable rows of different age, of which one has gone stale when the other appears; off, shadow and live runs; two runs die, at any await; two attempts |
| `delivery_freshness` | *violation*: is only what is fresh delivered? | one row, clock to 3 |
| `producer` | Do loop, buffer and thread lose or repeat signals, and does everything end? | two assets, four views of a market, three signals, buffer of two, two batches, two faults, one signal that AI4Trade always refuses, breaker at two, no cycle after four trades of one signal |
| `producer_flush` | *violation*: does a flush that fails repeat nothing? | two signals, three faults |
| `engine` | Do loops that share store and webhooks keep the books, and which subscriptions can get lost? | two loops, limit of one failure; `Loads`: three signals in batches of up to two with one subscription to both loops and one fault, or one signal with three subscriptions to one of them, made within one second and across two |
| `pipeline` | Which trouble costs which signals, is what the cache serves recent, do cycles end? | three lineups (technical analysis and Reddit, derivatives and Twitter, news) that share keys; two targets or two assets; two attempts, two models with a timeout of one tick, cache of one entry for two ticks |
| `lifecycle` | Are signals judged at their horizon and truly, what do trackers overwrite, does the archive keep what it moves, and which signals are passed over? | two signals; two trackers, one and a consumer, or the archive and a consumer; one signal per run, one that the consumer may close, dates of three ticks, clock from 2 to 5, timestamps of now in UTC and two ticks west of it, one fault |
| `lifecycle_ready` | *violation*: does a run with room take every signal older than its minimal age? | two signals, runs of two, timestamps of now and a tick ago, all in UTC, no faults |
| `advisory` | Is what reaches Freqtrade recent and within the limits, are API and registry protected from floods? | one caller with one request per window of two ticks, two rows out of requests that are rounded up or neutral, decisions of the legacy bot and its warning of a feed, timestamps two ticks back, interval of two, cache of three, clock to 4, one fault |
| `advisory_stale` | *violation*: is no candle marked for a signal beyond its maximal age? | the same with a maximal age of one tick |
| `advisory_scale` | *violation*: is no candle marked for a signal of which its producer was not sure? | the legacy bot in falling markets, in one of which its decision has one percent |
| `watchdog` | Is every fault reported in time and with a cause, and whom does Telegram hear of? | two components, threshold and cooldown of two ticks, sleep, pace and post of one, one fault |

The bounds are the smallest in which each case occurs: two entries so that one
can be handled while the other waits, two attempts so that retrying and giving
up differ, two deaths so that a rerun can die as well, two trackers so that one
can look before the other writes, a buffer that overflows
with an older and a newer signal inside, two loops so that one can commit the
row of the other and both can fail at one subscription, three subscriptions because an id can be taken only when two
living ones and a removed one meet, two signals with runs of one because one
can then stand before the other, a clock that reaches the third date so that a
signal's own date, the next and one without it occur.  Every property has a mutant in
`PROJECT.json`: a plausible bug in one definition that makes the property fail
under the same bounds.

The runs check for deadlock as well, and there is none, since every component
waits for time or can be started again.  The exception are the three advisory
runs, in which the clock stops at `MaxTime`; four ticks are one more than the
longest span in them, the cache's.

### What the runs show

* With one worker at a time all delivery guarantees hold.  **Attempts** exceed
  `max_attempts` only by the runs that died between the two statements of giving
  up.  A second trade of one payload always has a counted attempt or a death
  behind it.
* With overlapping workers `sent` still means accepted (proved for any set of
  workers, together with the other two core guarantees); that attempts stay
  bounded and that settled is final do not hold any more (a stale snapshot
  posts again and overwrites `sent`).  The operator has to keep invocations
  apart.
* No signal vanishes but by overflow or crash, the oldest going first, and only a
  failed save or a flush that was broken off confirms a signal twice.
* `BufferedIsDelivered` is checked with posts that fail finitely often.  It does
  not hold behind a signal that AI4Trade refuses for ever: the exception ends
  every flush at that signal.
* The engine's failure count overshoots `MAX_FAILURES` by at most the number of
  other loops, and reaches that number; subscriptions get lost only when two are made in one second.
* Trouble that a collector skips or repeats costs the signals of that request and
  no others.  Trouble that it raises costs the whole cycle, also what its other
  targets have given by then: for the technical analysis every trouble (a timeout
  or a lost connection at the last attempt), for derivatives every one but an empty
  ratio, for Twitter a refused token and a malformed body, for Reddit a malformed
  body, for the news a malformed body and a lost connection.  Other loops lose
  nothing.  A late safe default may replace a good
  evaluation in the cache for the rest of its time, but nothing served is older
  than the cache allows or meant for another asset or direction.  A batch waits
  for one timeout per model, however many signals it has.
* The strategy is one-sided: no SELL reaches the default threshold, since a SELL
  has a strength below 35, while every BUY that the sentiment does not speak
  against does (both proved).  `tests/test_strategy.py` uses a SELL of strength
  70, which the analysis cannot give.  CoinGecko's candles have no volume, so the
  fallback never trades (proved; `docs/incident-response.md:226` says so of an
  exchange that is down).
* Selection and verdict read different clocks, and selection compares text.  For
  timestamps in UTC the comparison errs on the late side, so that signals are judged
  at their horizon or later.  **A timestamp written west of UTC is judged too
  early**, by up to its offset: `2025-05-01T20:00:00-05:00` is one o'clock UTC on
  2 May and sorts before `2025-05-02 00:30`, so that with a window of an hour it is
  selected half an hour before its horizon.  `JudgedAtHorizon` says that no more
  than the offset is lost.  A label given before the horizon comes from the price
  of another time, or is `unknown` for good; `VerdictsAreTrue` promises the truth
  of a win or a loss only from the horizon on.
* Two trackers that look before either of them writes overwrite each other, a win
  with `unknown` too, but an outcome is overwritten only by a tracker that has not
  written it yet (`NoTrackerRepeatsItself`, proved for any number of them).  After a
  cleanup of the outcomes a signal that is still there is judged again.
* A signal is passed over only when it stands behind `Limit` others that are
  open: judged signals stay `emitted`, so the oldest are selected for ever.  The
  fairness of tracker and clock is not enough to get past them.
* The archive deletes what it has written, except rows that arrived after its
  read with an old timestamp.  What it moved stays readable until its file is
  opened again on the same date, by a second run, a dry run or one that dies.
* Every answer of the bridge, but for errors, is what a query less than
  `cache_ttl_seconds` ago would have given, also from a file after a restart.
  **Not after a reboot**: the file's times are from another clock, and its answers
  are served until the new clock has passed them.  `AnswersAreRecent` says how long
  that can be: as long as the machine had been up, and `cache_ttl_seconds`.
* The modulator's last clamp comes before its rounding, so that its result can
  exceed the raw confidence by half a millionth (0.6000006 becomes 0.600001),
  contrary to its docstring.  The bridge notices and reverts it:
  `AdviceWithinPolicy` holds, and fails without the check.
* With limits like the defaults the bridge accepts nothing the gate rejected, but
  for its age, and for a missing direction, which becomes `flat`.
* The watchdog reports every fault within cooldown, sleep and the posts about all
  others: the bound is tight, one tick less fails.  One cooldown serves all
  severities, which is the longest part of it.
* Telegram does not hear of everybody.  The sink sends one alert per check, and
  whoever alerts in the same check behind another has used up its cooldown on a
  message that is skipped.  Two components that fall ill together stay in step:
  of the second one Telegram never hears while the first stays ill.
  `ToldUnlessBehind` says that this is the only way to be passed over.

### Findings

* `delivery_freshness`: the documentation promises that only fresh signals are
  delivered; entries left in the outbox are posted at any age.
* `producer_flush`: a test is named for a flush that does not duplicate on
  failure; when the failure is an exception, signals that were delivered in the
  same flush stay in the buffer and are traded again.
* `lifecycle_ready`: `query_open` promises the emitted signals older than
  `min_age_seconds` and leaves out those of the cutoff's own date, because it
  compares a time with a T to one with a blank (`core/signals/registry.py:244`).
  By the same comparison it returns younger ones written west of UTC (above).
* `advisory_stale`: the provider contract forbids to use a signal beyond its
  `max_age_seconds`; the bridge looks at `valid_until`, which nothing sets, and
  passes the newest signal on at any age.
* `advisory_scale`: `from_legacy_signal` tells percent from fraction by the value,
  so that one percent becomes a confidence of one (`core/signals/adapters.py:90`)
  and the strategy of Freqtrade marks a candle for it.

Also noticed while modelling, without a run of their own:

* `README.md:100` and `CHANGELOG.md:28` say that a timeout of the LLM leaves
  `ai_evaluation` at None.  The evaluator returns a safe default instead, with
  confidence 0 and quality `weak`, and keeps it in the cache for five minutes.
* An object without fields (`{}`) counts as an answer with confidence 0 and
  quality `usable`; a null for a required field, a string for a list or a size
  out of range makes the whole reply unusable, although the docstring of
  `_build_evaluation` promises graceful degradation for the new fields.
* `README.md:85` and the docstring of `score` speak of the signals of one asset;
  the engine scores a whole batch at once, so that good news of one asset and bad
  news of another share one score (`ScoresAreShared` in `MCPipeline`).
  `README.md:89` confirms across sources; batches are per collector and the
  sources of a batch have one type, so the boost does not occur in the engine.
* Bearish signals count nothing towards the score, so that a batch of them never
  reaches the evaluator.
* `rainbow/collectors/ta_collector.py:147` takes 70 points off, its comment says
  30.
* `docs/ai-evaluation-layer-research.md:175` puts score and source into the key of
  the cache, the code asset and direction.  `fallback_model` and
  `max_reviews_per_cycle` of the settings are read by nothing.
* Entry and exit columns of one candle come from two calls of the bridge; if the
  cache expires between them both may be marked.

## 4. Fairness

* Delivery: a run that is not killed goes on (WF of `Step`), because every
  request has a timeout (10 s and 15 s) and SQLite is local.  That the worker is
  invoked in live mode again and again (SF of `StartLive`) is the operator's
  supervisor; the repository only has the one-shot entry point.  Deaths are
  finitely many.
* Legacy bot: both threads wait with timeouts only (`DATA_INTERVAL`,
  `HEARTBEAT_INTERVAL`, the breaker's pause, 15 s per request), hence WF of each.
* Engine: each loop goes on (posts time out after 10 s), and so does the
  shutdown coroutine once the gather can return.  Nothing is assumed of
  subscribers, API callers, signals or crashes.
* Collectors and evaluators: each loop goes on, because its requests have timeouts
  (10 s), retries are counted, each call of a model is under `wait_for`, and the
  wait between two cycles ends.  The clock goes on.  Nothing is assumed of sources
  and models.
* Signal lifecycle: each tracker goes on (price requests have timeouts, the
  daemon loops, the operator starts it again when it has ended) and so does the
  clock.  Faults are finitely many.  Nothing is assumed of producers, consumers,
  maintenance and archive.
* Ingest and bridge: none.  What is claimed is safety; neither is obliged to be
  asked.
* Watchdog: its own steps go on (they wait with timeouts only, and the supervisor
  starts it again) and time passes.  Nothing is assumed of the processes.  What
  happens within which time needs no fairness: `ReportedInTime` is an invariant.

## 5. Proofs

`DeliveryProofs` proves for every set of signals, configurations, bounds and
attempts:

* for **any set of workers**: `TypeCorrect`, `SafetyInvariant`,
  `SentImpliesAccepted`, `ShadowStaysHome`, `DeadLettersJustified`, and their
  conjunction `OutboxTellsTheTruth`, which is the property the run checks; and
  `OnlyEligibleIsTraded`, the counterpart of the finding about freshness: what is
  traded is in the record of the outbox (`TradesWereQueued`), and a payload gets into
  it only in a step in which a live run has the signal in hand and finds it eligible
  then and there (`PolicyGuardsQueue`), even if it is stale by the time of the post.
  A timestamp ahead of the clock counts as fresh, in the policy as in the code;
* for **one worker** (`Workers = {solo}`): `SoloInvariant`,
  `AttemptsAreBounded`, `SettledStaysSettled`, `TradesAreAccountedFor`,
  `WorkerImplementsContract`.

`SentWasAccepted` is not inductive: whether `MarkDelivered` may write `sent`
depends on what the run holds in memory.  `SafetyInv` adds that what was never
queued has no trade (`UnqueuedUntraded`), that what a run holds was queued
(`HeldIsRecorded`) and that the verdict it is about to record is backed by the
server or by the attempts (`VerdictsGrounded`).  It needs no exclusion of
workers, since a recorded row never becomes unrecorded and acceptances are never
taken back.  The results for one worker rest on `SoloInv`: the snapshot holds
unsettled entries only and never the one in hand, and an exhausted entry is in
hand or was dropped by a run that died.  The account of trades has an invariant
of its own (`AccountedWith`) in which the set of posts in hand of the property
is a case distinction on the only worker.  The refinement proof maps each action
to a step of the contract or to a stutter, using both invariants.

These proofs assume `MaxAttempts` positive, natural bounds and the shape of
configurations, the named ASSUMEs of the modules.  Digests are taken to be free
of collisions.

`LifecycleProofs` proves for every set of signals, of trackers and of deployments,
for all spans and all timestamps with an offset below a day: `TypeCorrect`,
`LifecycleInvariant`, `JudgedOnlyAtHorizon`, `RecordedVerdictsAreTrue`,
`TrackersDoNotRepeat`, `ArchiveStaysReadable`, `ArchiveDeletesOnlyWritten`, and
`ReadyForTwoDaysIsSelected`, the counterpart of the finding about `query_open`: a run
with room takes every open signal whose text is a day past the minimal age, and so
every one that was ready two days ago, one of them for the text and one for an
offset east of UTC.  An outcome is evaluated in one step and written in
a later one, by when clock, rows and outcome may have changed, so the invariant
`LifecycleInv` follows it from the snapshot on:

* `BatchesAreDue`: what a run has taken has passed its window by the local time of
  its text, and stays so, since the clock only grows and an appended time never
  changes.  That selection by text implies this is the lemma `BlankIsEarlier`, from
  the monotonicity of dates.  By its instant it has passed all but `West`.
* `HandsAreSound`: the outcome in hand agrees with prices and age, and what is on
  record for its signal by now comes from other trackers (`authors`).
* `OutcomesAreGrounded`: so does what is on record; it gives `JudgedAtHorizon`
  and `VerdictsAreTrue`.  `AuthorsHaveWritten`: who has written it is forgotten with
  it.
* `ArchiveHasReadAll`: of the rows the script saw, those before its cutoff are
  in what it read; it gives `ArchiveDeletesWhatItWrote`.
* `ArchivedIsReadable` is inductive beside `TypeOK`.

They assume `DayLength` positive, spans and bounds natural, and that `Nobody` is
no signal, and offsets below a day (`DayLengthAssumption`, `SpanAssumption`,
`SignalAssumption`, `DeploymentAssumption`, `StampAssumption`).

`WatchdogProofs` proves, for every list of components and all times with a post
shorter than the cooldown: `TypeCorrect`, `FaultsAreReportedInTime`,
`AlertsAreCaused`.  That a bound on time is kept does not follow from the ages
alone: the invariant `TimelyInv` computes for each component how long it may
still take until it is checked (`Until`: rest of the sleep or post, the posts
about those before it, or a whole round) and says that the fault's age and this
wait stay below the bound together (`LookedAtInTime`), that a fault under a
cooldown is younger than the alert that began it (`YoungerThanAlert`), and that
what is well has no fault that waits (`NothingUnheard`).  A tick takes from the
wait what it adds to the age; a suppressed check begins a new round while the
age is below the cooldown.  `AlertsAreCaused` rests on `FileTellsTruth`: a file
that nobody has lost is as old as the silence of its process.  They assume that
something is watched (`run_watchdog` exits otherwise), that the sink's pace is
not longer than the sleep, as in the configuration, and natural times
(`WatchedAssumption`, `TimingAssumption`).  `SkipsHaveCause` is the safety side of
`ToldUnlessBehind`: the sink skips an alert only behind a component listed earlier,
about which it has sent one in the same check and no time ago, so that the first of
the list is never skipped.  Its invariant `Paced` says that a sleep makes up for
what is left of the sink's interval.

`AdvisoryProofs` proves, for all limits, spans, offers and numbers of rows:

* `AnswersStayRecent`, from `BridgeInv`: cache, file and answer each hold a
  result of some row, at a reading of the clock at which that row was the newest
  (`EntrySound`, `AnswerSound`).  New rows and time leave that true, since rows are
  only appended and get the present as their time; a hit turns it into the claim
  about the present.  `OutlivedInv` adds what is true of entries from another
  boot.
* `AdviceKeepsPolicy`, for limits like the defaults (`PolicyAssumption`:
  threshold between one half and the cap of medium risk, a multiple of the
  rounding grain, risk limit up to 0.7).  It rests on the arithmetic of the
  modulation (`LoweredAcceptable`, `RoundedAbove`) and on `GateAgrees`, which compares the gate's rules with the
  bridge's.
* `CautionIsMonotone`, about the modulator alone: of two signals the one of less
  confidence, severer risk, more warnings or less data does not come out higher,
  through caps, the jump at one half and the rounding of each share
  (`SharesLeave`), and what comes out lies between zero and what went in.  The last
  rounding, to six decimals, may still add half a millionth.
* `LookupsStaySpaced`, from `SpacedInv`: a query that counts is never later than
  the last call on record.
* `IngestStaysBounded`, from `LimiterInv`: the limiter remembers, in the order of
  their times, at least all admissions younger than its window (`Remembered`), so
  that a length below the limit leaves room in every window that reaches the
  present, and windows that do not are no longer added to.  What eviction returns
  is the lemma `LaterKeepsLater` (it changes no count of what is later than the
  cutoff).  `Later` recurses on the length; the induction is an argument from the
  least length at which the claim fails (`LeastNatural`, from the well-foundedness
  of the order on the naturals), because the induction theorems of the library
  cannot be instantiated here.
* `TypeCorrect`, which the sifting of the window belongs to as well.
* `OnlyOnePercentIsUnbacked`, the counterpart of the finding about the scale, from
  `RowsBacked`: every row of the registry says what its producer meant, or is one
  percent taken for certainty; no other confidence is read wrongly.

These assume natural spans, a positive cache time and offers that are envelopes
(`ScaleAssumption`, `GateAssumption`, `SourcesAssumption`, `BridgeAssumption`).

`PipelineProofs` proves, for all collectors that run together, all targets,
readings, replies, attempts, times and thresholds, and any size of the cache:

* `EvaluationsTakeNoLonger`, from `InTime`: no batch has waited longer than any of
  its tasks has spent (`Spent`: the calls of the models before this one and what
  is used up of this one).  Each step of a task only adds to what it has spent; a
  tick adds one to the wait, and it happens only while some call has time left,
  whose task then has spent less than all its calls may take.
* `ServingRenewsNothing`, from `Recent`: what an entry holds is as old as the entry
  and made for its key.  `Origins` lists where the evaluation of a task may come
  from; a loop keeps its batch while it evaluates, so that a key stays the same.
* `SignalsAreLostOnlyWithTheirCycle`, from `Contained`: while a cycle runs, nothing
  has failed and its batch is what it was given (`Gathered`); the targets that have
  given a signal lie behind the request under way (`Behind`), so that an answer
  never takes the place of an earlier one.  An idle loop has handed over all it was
  given, or nothing after an error (`Settled`).  `TargetsFollow` is the arithmetic that assigns requests
  to targets.

* `TypeCorrect`: the keys in the order of the cache are those of its entries, each
  once, and no more than it may hold.  `Ordered` needs what a removal from a
  sequence without repetitions leaves (`RemovedFrom`, `WithoutFirst`), which is why
  the order is kept with `RemoveFirst`; a key is in it once at most.

All of them rest on `Shape`, the form of batches, tasks and cache: tasks exist for
signals of the batch only, and only while a collector that runs evaluates.  They
assume positive times and attempts, one or two models and keys for all directions
(`PipelineAssumption`, `CacheAssumption`), and that `None` is neither a task nor a
trouble nor an entry of the cache (`NoneAssumption`).

`EngineProofs` proves, for every finite set of collectors, all loads, batch sizes
and numbers of faults:

* `TypeCorrect`, from `Shape`: no loop is past its batch (`Turn`), and the table has
  only subscriptions that were made, under the ids they got.
* `StoreStaysAhead`, from `Ahead`: what a loop has passed in its batch is stored
  or already dispatched (`Progress`), so that a dispatch finds the whole batch
  stored, whichever loop's COMMIT did it.
* `NoSignalVanishes` is inductive beside `Shape`; so is `SubscriptionsLast`, with
  the arithmetic of table sizes: an id is taken again only within its second.
* `ClosedIsQuiet`: the store is closed only when every loop is done.
* `FailuresStayBounded`, from `Overshoot`: counted together with the posts under
  way, each of which may still fail, the failures of a subscription stay below the
  limit plus the number of loops.
* `EngineImplementsContract`: every step of a loop, a failure, a cancellation, the
  shutdown, a crash and a restart map to a step of `EngineContract` or to a stutter.
  That a signal is listed and announced once at most needs `Fates` beside `Ahead`: a
  batch belongs to one loop alone and holds each signal once, what lies before a loop
  in its batch is neither listed nor announced, and a dropped signal is in no batch.

They assume a finite set of collectors, natural loads and a positive failure limit
(`EngineAssumption`, `MaxFailuresAssumption`).

`ProducerProofs` proves, for every market, number of assets, buffer size, set of
poisoned signals and number of faults, and any interleaving with the heartbeat
thread:

* `TypeCorrect`, from `Shape`: a position counts only while a flush runs, and the
  thread polls only below its breaker.
* `NoSignalVanishes`, from `Lineage`: dropped signals are older than the buffer,
  the buffer is older than the hand and in order (`Line`); a flush keeps in order
  what it passed and could not confirm (`Kept`), so that replacing the buffer at
  its end loses only what is confirmed.  `EnqueueKeepsNewest` is the fact about
  the list.
* `EachConfirmedOnce`, from `Turns`: whatever may still be posted has an excuse for
  every confirmation it has got.  That a confirmation in a flush concerns no other
  signal of the buffer follows from its order.
* `TradedOnceUnlessExcused`, from `Paid`: a trade that was not confirmed was made by
  a post that went wrong.  Without faults and excuses no signal is traded twice.
* `GoneStaysGone`, from `LostIsLost`: what was lost or dropped is in no memory any
  more, and only what is in memory is posted.
* `BotImplementsContract`: every step of either thread, a crash and a restart map to
  a step of `PublisherContract` or to a stutter.  It uses all of the above, and that
  a confirmation stands for a trade (`Backed`).  The finding about `flush_queue`
  lies within this contract: it allows a held signal to be traded again.

They assume natural bounds and a thread with a positive limit of polls and a
positive threshold (`ProducerAssumption`, `MaxQueueAssumption`,
`HeartbeatAssumption`).

`TradingStrategyProofs` proves about every market and every score of the
sentiment: `AdjustmentsThatHappen`, `ConfidenceIsPercentage`,
`SellsAreNeverRouted` (threshold above 45), `BuysAreRouted` (the default
threshold) and `FallbackNeverTrades`.  The weighted mean with its rounding is kept
apart (`WeightedBounds`, `ProductGrows`), so that each theorem only adds the
bounds of strength, sentiment and adjustment.

`SettledIsFinal` is proved and no longer checked by a run: the refinement implies
it.

Every safety invariant and action property of the passing runs is a theorem.
Model-checked only:

* All liveness (`EveryEntrySettles`, `ShutdownCompletes`, `MessagesAreHandled`,
  `BufferedIsDelivered`, `StoredIsDispatched`, `CyclesEnd`,
  `PassedOverOnlyBehindOlder`, `ToldUnlessBehind`), since TLAPS does not reason
  about fairness and ENABLED.
* That `Later` is `SelectSeq` (`LaterIsFilter`), for lists of up to three entries:
  `SelectSeq` itself is defined with a recursive operator.

## 6. Not modelled

* Prices and indicators: the bands they lie in are taken as read.  The decay of
  weights in the scorer: a signal is scored in the cycle that made it.
* The heartbeat file of the legacy bot in its own loop, which does not read it;
  `Watchdog` has the files.
* Read-only endpoints with their health verdict, the queries of the stores,
  formatting, prompts, logging, metrics.
* The messages AI4Trade sends: both task handlers only log them.
* What no running program calls: the critic evaluator, the on-chain and Polymarket
  collectors, the market stream, the derivatives adapter, the rate limiter of the
  exchange client, notification rules and review policy, the alerts of
  `monitoring/`.
* Configuration, chat, backtesting, training and the offline scripts: read once,
  or sequential arithmetic on files.
* In the bridge: the checks of `can_execute` and `dry_run_only`, which the
  envelope's validator makes unfailing, the check of `valid_until`, which nothing
  sets, and pairs beside the one (cache and interval are kept per pair).

## 7. Plan

1. An abstract specification of the watchdog's alerts, shown to be implemented as
   the three contracts are.
2. The bounds of `SignalScores` for every batch, as far as they need no induction
   over its signals.
