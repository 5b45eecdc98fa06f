# A TLA+ model of Artic Trader

Artic Trader runs automated trading agents.  A central **hub** owns the accounts
and gives every user a cloud VM; in the VM a **user-server** keeps the user's
agents, each of which is a **container** running the trading engine of `app/`; every
trade and decision is also logged to contracts on chain.

This directory holds TLA+ modules translated from that code, TLC configurations
that check them on small instances, and TLAPS proofs of the results that matter
most.  Paths below are relative to `src/`.

    tlc -workers 2 -config VMWake.cfg VMService.tla     # a run (see "Runs")
    tlapm VMServiceProofs.tla                           # the proofs

## 1. The system and its parts

    browser ──HTTP/WS──▶ hub ──wake, proxy──▶ VM: user-server ──docker──▶ agent container (app/)
                          │ Postgres: user_vms, secrets, ...   │ Postgres: agents, trades, logs   │
                          │ Morph: the VM provider             ◀──POST status, trades, logs───────┤
                          └──price broadcast (WS)──────────────────────────────────────────────▶──┤
                                                                   TradeLogger / DecisionLogger ◀─┘

| part | state it keeps | operations | what is hard, and what makes it correct | modules |
|---|---|---|---|---|
| VM service, `hub/vm/service.py`, `registry.py`, `morph_provider.py` | in-memory registry (`VMState`: status, vm id, endpoint), the `user_vms` row, one wake lock per user | `provision_for_user`, `hydrate`, `wake`, `drain` | many callers of one wake, a provider that fails or loses its answer, a restart between a provider call and the row write: one instance per user, never forgotten, registry and row equal between wakes | `VMService`, `VMPromise`, `MCVMDrain`, `VMServiceProofs` |
| wake proxy, `hub/proxy/` | none of its own: it reads the registry without the lock | `dispatch`, `ws_agent_logs`, `forward` | the registry is stale when used; every request is answered; traffic only to an instance that serves | `VMService` |
| trading engine, `app/engine.py`, `executor/paper.py`, `main.py` | running flag, loop task, position, TP/SL mode and percentages, supervisor clock; price history and candles | `/start` (plans in the background), `/stop`, `/config`, the loop and its ticks | calls and loops interleave at awaits; the supervisor acts on a position it read earlier; data survives from one session to the next: one session, a well-formed position, every trade reported | `TradingEngine`, `MCTradingEngine`, `TradingEngineProofs`, `SessionData`, `AgentProofs` |
| trade reports, `app/hub_callback.py`, `onchain_trade_logger.py`, `user_server/agents/push_router.py` | the agent's `_open_trades` and `_last_trade_id`, the `trades` table, the account's pending transaction | `report_trade`, `log_trade`, `push_trade`, `patch_trade_tx_hash` | fire-and-forget requests that overtake one another or are lost; closes that `stop()` or a crash never reports; hashes looked up late: the table ends as the engine reported | `TradeReports`, `TradeReportsProofs` |
| log lines, `app/hub_callback.py`, `push_router.py`, `user_server/logs/ws.py` | the buffer, `log_entries`, the position of a stream | `buffer_log`, `flush_logs`, `push_logs`, the stream's poll | a flush that timed out is stored and sent again: no line lost, doubled or out of order but for named causes | `LogChannel`, `UserServerProofs` |
| LLM calls and decision log, `app/llm/`, `app/onchain_logger.py` | two globals of the last call, the decision each loop is at | `/plan`, planning, supervising, `log_decision`, `report_onchain_decision` | the globals are of whoever called last, and overlapping starts plan in threads beside a loop: a decision is hashed with its own reasoning, or with what such a thread wrote since its answer | `DecisionLog`, `AgentProofs` |
| market analysis, `app/market/market.py`, `market_analysis.py`, `app/llm/llm_planner.py` | none between plans | fetch candles, summarise, shortlist, choose | overlapping windows, falsy zeros: the regimes are told apart | `MarketAnalysis`, `Series`, `ServicesProofs` |
| strategies, `app/strategies/`, `engine.py` | none | one signal per tick | conventions on a sign, short histories: on the right side, for rising and falling markets alike | `Signals`, `Series`, `ServicesProofs` |
| price feed, `hub/market/price_feed.py`, `hub/ws/`, `app/market/price_listener.py` | watch list, price cache, subscribers; the listener of an engine | track, poll, broadcast, connect, receive | connections that die or close, a hub that restarts, a start beside a stop: a price comes back; no listener nobody can stop | `PriceFeed`, `MCPriceFeed`, `HubProofs` |
| market cache, `hub/market/cache.py`, `cache_refresh.py`, `app/market/market.py` | the cached candles | `get_or_fetch`, refresh | two misses at once, an empty answer: what is answered is fresh and never goes back | `CandleCache`, `HubProofs` |
| agent's document cache, `app/db.py`, `app/market/cache_refresh.py`, `/token...` of `app/main.py` | MongoDB's details and charts of tokens | look, fetch, write; two jobs and the startup thread | look and write are apart, threads write beside them, two functions normalise a name: a chart is of its range, a reader replaces nothing | `TokenCache`, `AgentProofs` |
| secrets, `hub/secrets/`, `user_server/llm/secrets_cache.py` | rows, the VM's cache | put, delete, push | a put beside the push of a wake: the cache is one version of the table | `Secrets`, `HubProofs` |
| marketplace and strategy library, `hub/strategies/`, `hub/marketplace/`, `hub/onchain/` | strategies, listings, reports; what is registered on chain | create, patch, delete, install, publish, report | counts written from a number read earlier; the chain written before the row: counts right, code attested | `Marketplace`, `HubProofs` |
| sign-in, `hub/auth/` | nonces, users, sessions | nonce, verify, signed request, revoke | several commits in one call; numbers that are replayed, delayed or overtaken: one user per wallet, no nonce wasted, a new number accepted, an old one refused unless another request overtook it | `SignIn`, `HubProofs` |
| wallet, `hub/wallet/` | address and key, a pending withdrawal | four uses (show, gate, launch, withdraw) that make it on the first | two first uses at once; agents that sign with the same key | `HubWallet`, `HubProofs` |
| chain signer, `user_server/chain/` | nothing kept; the node's pool and the chain | `log_decision` with its retries | an attempt given up that is mined after all: at most once, and never lost | `ChainSigner`, `UserServerProofs` |
| indexer, `user_server/indexer/` | `indexer_tx` | write, flush | a flush without a cursor, a batch limit, an in-memory job that misses periods: a row is at the hub once a flush went through that was not crowded | `Indexer`, `UserServerProofs` |
| LLM proxy, `user_server/llm/` | token bucket, counts, keys | plan, supervise, chat | the arithmetic of elapsed time: calls are paid for and counted | `LlmProxy`, `UserServerProofs` |
| backtest, `user_server/backtest/`, `strategies/` | none between requests | validate and run | two computations of the same money, a strategy that may write the position and candles it is handed: the figures agree but for what it wrote | `Backtest`, `ServicesProofs` |
| agent life cycle, `user_server/agents/`, `hub_callback/router.py` | `agents` rows, the in-process registry, Docker's containers, `_accepting_starts` | create, start, stop, start-all, stop-all, delete, `/hub/drain`, `/hub/halt`, status push | overlapping transactions, registry and Docker outside them: stop finds the container, halt stops everything, no database deadlock | `AgentLifecycle`, `MCAgents`, `AgentLifecycleProofs` |
| composition for TLC | | | | `MCHub` (the hub's own services), `MCServices` (what agents and user-servers compute and keep beside the trades) |
| contracts, web client, shared models, deprecated hub | none that matters here | | | not modelled (section 5) |

`PROJECT.json` has the same list with the source files and with what is missing of each, and
under "hazards" what in this code can go wrong where a unit test would hardly reach, with
the property that would notice.

## 2. The models

An action is what runs between two awaits: in the hub, the user-server and the agent
everything runs on one event loop, so nothing interleaves elsewhere.  (The exceptions are
threads: the planning of an agent, modelled in `DecisionLog`.)  History variables, which
remember something for a property and are read by no action's guard, are marked as such in
each module.  A definition named `Mut...` is not part of any behaviour (see "Runs").

### VMService: one user's VM

Users share neither registry entry, row nor lock, so one user is modelled.

| model | code |
|---|---|
| `reg`, `row` | the `VMState` in `VMRegistry`, the `user_vms` row; "absent" is no entry |
| `cloud` | what Morph runs; `Pause` and `Terminate` are its TTL with and without wake-on-HTTP |
| `lock`, `pc`, `vmOf` | the wake lock, and where each HTTP request (`Requests`) and log socket (`Sockets`) is |
| `Dispatch`, `ForwardOk`, `ForwardFails` | the middleware and `ws.py` before and after the wake |
| `Acquire` … `PersistRunning` | `wake()` and `_start_or_resume()`: every provider call and every `_persist_*` is a step of its own |
| `Cleanup`, `ClearLeaked`, `PersistError` | the `except VMProviderError` branch |
| `WakeRaises`, `StartLost` | exceptions that are no `VMProviderError`: the lock is released, nothing is undone |
| `Drain*` | `drain()`, which takes no lock |
| `Restart` | the process dies; `hydrate()` refills the registry from the row |

An endpoint URL is named by its instance.  `touch()` only writes `last_active_at` and
the status; the timestamp is left out.  `MaxFaults` bounds the failures the hub cannot
observe (a timeout after the provider has created the instance, `get_status` answering
None to an error, a failed stop) together with the restarts; the failures the hub does
observe are unbounded.

`VMPromise` is the abstract specification: a VM is woken by attempts until one succeeds,
the instance that answered stays the user's, and a restart takes back one step of the
status at most.  `VMService` without drains implements it; the mapping takes the
registry's status as the phase and its vm id, while running, as the instance serving.

`MCVMDrain` adds the history `raced` (a drain and a request were under way together).

### TradingEngine: one agent

Each `/start` is `StartCall` (up to the first await), then planning, then `StartDone` or
`StartFails`; each `/stop` is `StopCall`, a wait for the loop task it read, and
`StopDone`; `/config` is one step.  A trading loop is at the top of a tick, inside the
supervisor's awaits, asleep, or done.  A tick with no supervisor check has no await and
is one action (`Tick`): price, TP/SL test, signal, decision, execution, report.
Prices are positive integers, percentages whole percents, and 0 is None or "off", as in
the code's truth tests.  `ledger` is the side that the reports sent so far add up to.
`MCTradingEngine` adds the history `overlapped`: a call came before an earlier one had
taken effect.

### SessionData: what one session leaves to the next

`start()` does not clear `price_history`, `_candle_cache` or `_last_candle_refresh_tick`.
The module keeps, for one client that starts and stops one after the other, which symbol
each of these is of: `past`, `candlesOf`, `refreshedAt`, and the symbol `held` was opened on.
`SessionTick` is a tick up to its end, `SessionTickCloses` one that closes the position and
returns before the refresh, `SessionPriceless` one without a price.  `SessionFails` is a start
that finds no price and leaves its symbol behind.

### AgentLifecycle: one user-server

Every HTTP call is one READ COMMITTED transaction over the agents rows.  The model keeps
the committed rows, the rows as the call's session has loaded them (`view`), the row locks
of its flushed updates, and the container of each agent (its name is derived from the
agent, so there is at most one).  "starting" and "stopping" are flushed but never
committed: no other call sees them, which is why they are not a status of `row` but a
position of the call.  `Written` is the commit with the ORM's rule that only changed columns are
written.  `Rollback` is an exception leaving the handler: the rows are undone, the registry
and Docker are not.  `/hub/drain` and `/hub/halt` do the same in the code and are the
operation "halt".  Histories: `serial` (one call at a time, none rolled back half-way),
`orphan` (agents whose container an unnoticed failure hid), `halted`.

### TradeReports: one agent and its user-server

`Open` and `Close` create the two fire-and-forget tasks of `_execute_action`; `StopCloses` is the
position `stop()` closes, which creates neither and leaves its trade_id in `_open_trades`.  A report is
a pair of trade and kind in `post`; the handlers are split where they await (`FindsNone`,
then `Insert`; a handler that finds the row commits in the same step, since no row is
deleted while its agent exists and the last commit wins either way).  The account has at most one pending
transaction, because `log_trade` takes `get_transaction_count` without the pending ones:
a later transaction with the same nonce replaces it or is refused.  `Restart` is Docker's
`on-failure` restart of the container.  What the engine did of a trade is the history `ledger`: a
trade whose position `stop()` or a restart took away is "dropped", and `Reported` says what the
table can know of it, which is that it was opened.

### LogChannel: the log lines of one agent

`buffer` is `_log_buffer`; `batch` the lines a flush of the trading loop waits for an answer to;
`atServer` the batches the user-server has read and not yet stored, which may outlive the
flush that sent them; `copies` the rows of each line; `socket` and `shown` the stream of
`logs/ws.py`.  `FlushFailsOrTimesOut` puts the batch behind the lines emitted since.
`FlushAnswered` takes any status for success, as the code does.  Histories: `given` (refused, or
in the buffer of a process that ended), `resent`, `late`.

### DecisionLog: LLM calls and the decision log

A successful LLM call is a number; `lastSig` and `lastCid` are the globals
`LAST_TEE_SIGNATURE` and `LAST_REASONING_CID`.  `Sessions` are the starts that passed the check
of `engine.py:136` before either set the flag: each plans in a thread of its own and
then runs a loop, so a planning thread may run beside the loop of another start, as
`engine_two_loops` shows.  The thread is split at each of its writes (`StartCalls`,
`StartClears`, `StartStashes`, `StartExplains`).  A supervisor check calls the model
on the event loop and does not pause before the hash (`SupervisorDecides`, `SupervisorStashes`,
`DecisionHashed`): meanwhile (`LoopBlocked`) nothing runs but the threads.  After
the chain has answered (`DecisionSent`) the pointer is read a second time (`DecisionReported`).
`/plan` and `/ai-planner` run on the event loop without a pause (`PlanRequested`,
`PlanRequestFails`).  `Provider` is `_get_provider`.  Histories of a decision: `mixed` (the
calls of planning threads that wrote a global between answer and hash), `crossed` (another call
wrote one between hash and report).

### MarketAnalysis, Series, Signals: numbers

Pure computations over bars and prices, on positive integers: `Series` has the sums,
ranges and movements both others use.  `MarketAnalysis` is the planner: the bars that come from
the hub's cache or the provider, `Summarise` (the directional index as a fraction, the
range ratio by cross multiplication) and `suggest_strategy_shortlist`.  The realised
volatility is nondeterministic among the classes the code tests.  `Signals` gives the sign
of each strategy's signal for a price history and a bar history; averages and deviations are
multiplied out.  An exponential average after `k` prices is counted in units of `1 / Unit(n, k)`,
in which each step of `_ema` and of MACD's lines is one of integers.  The code's fixed periods
are constants.  `holding` is the side the engine takes on the signal.

### PriceFeed

`watch`, `cached`, `poll`, `subs` are the hub's `_extra_symbols`, `price_cache`, the feed
loop and `_price_subscribers`; `listener` the listener objects an engine has created, with
their task; `engine` its hold on one of them.  A price is only there or not, and fresh or
not.  `ClosedInOrder` leaves `connected` set, as the code does.

### TokenCache: the documents of an agent

`docs` has for each key of a unique index the range its data is of, or nothing.  A request
looks (`DetailsAsked`, `ChartAsked`), gets an answer, and writes document by document; as the
handlers never await, there is one `request` at a time.  The startup thread and the two
jobs of the scheduler are `refresh`, each a list of phases with its fetches and writes,
which interleave with the request and with one another.  `Label` is what an upsert does whose
filter has the range that was asked for and whose document the range of the data;
`DuplicateKey` is the unique index that refuses it.  The collections are taken to have their
indexes, which an agent that found MongoDB made when it came up.  Prices are not in the
model, since none is ever stored (see "What the code does otherwise").  Histories: `replaced`,
and the request's `crossed`.

### CandleCache, Secrets, Marketplace, SignIn, HubWallet: the hub's services

Each is a set of request slots over some rows.  A request is split at every commit and at
every await between a read and the write that depends on it; `Abort` or `...Fails` end it
anywhere.  In `Marketplace` a hash is the code it is the hash of, `registry`, `tokens` and
`grants` are what the two contracts hold; in `Secrets` a value is the number of its put;
a push leaves out any rows, as it does those it cannot decrypt;
in `CandleCache` the candles of a pair are the time they were answered with; in `SignIn`
signatures are good and a signed request carries any number, so it may be the client's
next, a replay, or one that was delayed or overtook others (histories `accepted`,
`replayed`, `overtaken`); in `HubWallet` a key and its address are a number, all four uses of
`ensure_wallet` may make them (a withdrawal too, `router.py:69`), and the withdrawal itself
is one step, as its calls of the node block the event loop.

### ChainSigner, Indexer, LlmProxy, Backtest: the user-server's services

`ChainSigner` is `log_decision`: nonce at "pending", gas price, then attempts with the same
nonce and more gas; `mempool` and `chain` are the node, which may take a transaction
whose answer is lost.  `Indexer` counts the wall clock in flush periods.  The job is an
interval of a scheduler in memory, so a period may pass without a flush (a paused or restarted VM, an
error of the database) and a flush may end in a later one than it began in; a row is stamped when
its transaction begins and seen when that commits (`seen`), and `flushed` has the periods in which a
flush began that went through.  `LlmProxy` counts time in ticks; `Take` and
`LlmCallLimited` are the two ends of `TokenBucket.take`.  `Backtest` replays bars with
the money in integer units.  What the strategy answers is nondeterministic, and so is what `on_tick`
writes into the position and the candle it is handed (`Leaves`: side, entry, size and levels; the
last candle's close, `final`); what it writes into a size is kept in the history `written`.  If it writes
what is no number the request fails (`Raised`).

### MCHub and MCServices

The five services of the hub share no state, and neither do the ten parts of
`MCServices`.  The variable `part` says which one a behaviour is of; the others stay in
their initial state.  So a run is the sum of its parts and not their product, and no
interleaving is lost that any of them could notice.

## 3. Runs

Twelve runs; TLC explores all reachable states of each.

| run | module, cfg | distinct states | what it shows |
|---|---|---|---|
| `vm_wake` | VMService, VMWake | 240 thousand | a request and a log socket, three instances, two faults: types, `TrafficOnlyToServing`, `CacheCoherent`, `NoInstanceForgotten`, `OneInstance`, every request answered, `VMPromise` implemented |
| `vm_drain` | MCVMDrain, VMDrain | 384 thousand | a drain that no request overlaps is safe (`DrainAloneSafe`), two faults |
| `engine` | MCTradingEngine, Engine | 530 thousand | two `/start`, one `/stop`, two loops: `PositionShape`, `LedgerMatches`, `NoOpenWhenStopped` whatever overlaps; `OneSession` and `StopReturns` for a client whose calls do not |
| `agents` | MCAgents, Agents | 2.4 million | two agents, two concurrent calls: `StopReachesTrading`, `NoDeadlock`, `SerialSafe` |
| `reports` | TradeReports, Reports | 3.9 million | two trades, a restart: `RowsMatchLedger`, `TxHashNotFromFuture` |
| `hub` | MCHub, Hub | 926 thousand | the hub's five services, two overlapping calls each |
| `price_feed` | MCPriceFeed, PriceFeed | 95 thousand | a hub that restarts, two listeners: `FeedSafe`, `PriceComesBack` |
| `services` | MCServices, Services | 1.05 million | the ten parts of agents and user-servers |
| `vm_dead` | VMService, VMDead | | violated: `DeadInstanceReplaced` |
| `engine_two_loops` | TradingEngine, EngineTwoLoops | | violated: `OneTradingLoop` |
| `agents_halt` | AgentLifecycle, AgentsHalt | | violated: `HaltStopsAll` |
| `session_candles` | SessionData, SessionCandles | | violated: `CandlesRefreshed` |

Each part of `hub` and `services` has one property, and so has `price_feed` for its safety: the
conjunction of what its module states one by one:

| property | module | of |
|---|---|---|
| `CountersKept` | Marketplace | `InstallsCounted`: `installs_count` is the number of copies, of every listing of which no two changes overlapped; `ReportsCounted`: `reports_count` never exceeds the reports, and is their number unless two overlapped |
| `ListingsAttested` | Marketplace | `ListedCodeAttested`: the code that is installed is the code that was backtested, even if its author patches it meanwhile; `OneListingPerCode`, unless two publishes overlapped; `RegisteredIsListed`: a hash on chain has a listing, or its publish is under way or was cut off |
| `SignInSafe` | SignIn | `OneUserPerWallet` (and its VM row), `NonceNotWasted`, `FreshAccepted`: a number above all accepted ones is accepted; `ReplayRefused`: an old one is refused, unless a request was overtaken between its look and its write |
| `WalletSafe` | HubWallet | `WalletKept`: the address shown is the wallet for good and the VM signs with its key, unless two first uses overlapped; `WithdrawalCovered` |
| `SecretsSafe` | Secrets | `OneRowPerKey` unless two calls for it overlapped; `CacheIsOneSnapshot`: a step of the VM's cache gives it the table of one moment |
| `CandlesSound` | CandleCache | `FreshMeansRecent`, `DoubleRowOnlyByOverlap` |
| `FeedSafe` | PriceFeed | `FeedTypeOK`; `ListenerLostOnlyByOverlap`: a listener that runs is the engine's, unless a start overlapped a stop or another start |
| `TokenCacheSafe` | TokenCache | `TokenTypeOK`; `ChartsOfTheirRange`: a chart is stored under the range its data is of; `ReadersOnlyFill`: a request replaces no document that it had not looked for in vain, unless a thread wrote it in between or the two names of the symbol differ |
| `HashedAsDecided` | DecisionLog | `OwnReasoningHashed`, whatever calls overlap its sending, but for planning threads that wrote between answer and hash; `ReportedAsHashed`, unless a call came between hash and row |
| `SignerSafe` | ChainSigner | `MinedOncePerCall`, `LoggedIsMined`, `TakenIsKept` (the last for a call that was alone) |
| `PushedUnlessCrowded` | Indexer | a row is at the hub once a flush of a later period within its window went through while no more rows than a batch holds were in reach and no younger; so one that ages out unpushed was crowded or missed in every period |
| `LogSafe` | LogChannel | `LineKept`, `StoredOnce`, `StreamInOrder`, `StreamComplete`, each up to the cause it names |
| `CallsPaidAndCounted` | LlmProxy | `TakesArePaidFor`: over any stretch of time no more calls than a full bucket and its refills; `AnswersAreCounted` |
| `RegimesApart` | MarketAnalysis | `NeverExpands`, `BothOnlyWhenCompressed` |
| `SignalsSound` | Signals | `RaisesOnlyShort`, `TrendSideKept`, `NoLeaning` (the mirrored market gets the opposite signal) |
| `SessionSafe` | SessionData | `ForeignPositionWasKept`, `FirstSessionClean` |
| `FiguresAddUp` | Backtest | `MoneyAddsUp`: the end of the curve is the capital, the profits, the fees and what the strategy wrote into a size, and nothing else; `LossIsInDrawdown` |

Types are one property per run (`HubTypesOK`, `ServicesTypesOK`, `FeedTypeOK`, `TokenTypeOK`, `TypeOK`); they
hold what is worth holding of the types, such as that a counter is never negative, a line is
in one place and the node has one transaction of a nonce.  The `reports` run has none,
because `TradeReportsProofs` proves it.

**Bounds.**  `vm_wake`: the request and the socket are a wake and its waiter, in either order,
each with its own ending; three instances give a first, a replacement after a failed or
dead one, and one more to be lost; two faults are any two of a lost start, a lost stop, an
unanswered status and a restart, at any point of any wake.  Observable failures are not
bounded, and more callers are the business of the proofs.  `vm_drain` has two faults so that
a restart can follow an unobserved failure.  `engine`: two prices on both sides of each
percentage and level, one distance, one percentage, so that each of TP, SL and hold
happens on both sides; two loops are a session and the one that overlaps or follows it.
`agents`: `MAX_AGENTS` is 1 with two agents, so the limit is met at once; two containers
and one fault reach a container without a row and a name that is taken.  `reports`: two
trades, so that a hash can be credited to the wrong one, and an unreported close or a restart between them.

`hub`: two calls at a time are a race and its loser.  Marketplace: two users, codes and
names, three library rows (an original and a copy of each listing), five calls, which is a
publish, an install by another user, a deletion, a report and one that overlaps any of
these; the report threshold of three is never met, it only hides.  Sign-in: one wallet, two
nonces and sessions, two numbers for signed requests, each of
which may come any number of times and in any order.  Wallet: three keys, so that two overlapping uses
and a later one each generate; three mined transactions.  Secrets: three puts of two keys.
Candles: two pairs, two rows, staleness one tick: an overlap uses up both rows of
the run, which is the case `DoubleRowOnlyByOverlap` is about.

`price_feed`: one symbol (two of one feed make `AloneOnItsFeed` false, which is the case no
claim is made of), two listeners, because a start beside a stop makes two, one restart of the hub.

`services`: gas prices 5 and 10, so that a bump by a fifth meets both sides of the node's rule of a
tenth; three attempts as in the code.  Decisions: two sessions, so that one plans beside the other's loop, and two successful calls: the
decision's own and one of a planning thread, which may be the plan or its explanation (failed calls are not
bounded), so that signature, pointer and report each meet a foreign one.  Indexer: a window of two periods and a batch of one row,
two rows, so that they do not fit, and five instants, so that a row ages out.
Log: three lines, two copies each, a poll limit of two.
Proxy: capacity two, refill one, four calls in three ticks.  Analysis: histories of up to five
bars of four shapes, windows of two, three and four bars in the order of the code's 10, 14
and 20, a hub cache that holds fewer bars than the planner needs.  Signals: all 28 names the
planner can give, two lookbacks, series of together six prices and bars, periods shortened in
the order of the code's; longer series would repeat windows that are already full.  Session:
a refresh every two ticks, three sessions of four ticks, two symbols.  Backtest: four candles
after a warm-up of one, two requests, a fee of a quarter, 1024 units of cash, and one entry or close, one size
and one level that the strategy may write; the levels are hit.
Documents: a tracked token under its own name and under one that MongoDB's and CoinMarketCap's
normalisation tell apart, and a token that is not tracked; one range the code knows and one it does
not, which is fetched as the other.  So a request meets a thread on the same key and a
duplicate of its own; more ranges or names would repeat these.

Deadlock is checked in the VM, engine and agents runs.  In the others the bounded counters
run out and a behaviour may end; nothing there waits on anything.

**Mutants.**  Each property of a passing run has a mutant in `PROJECT.json`: a definition
`Mut...`, next to the one it changes, which is a plausible bug of that code (a forgotten
persist, a lock not taken, a number read too early, a swapped operand) and which the
property rejects.

**Fairness.**  `VMService`: weak fairness for what a request has still to do (`InFlight`),
because the event loop runs every ready task and every provider call has a timeout, and
strong fairness for getting the lock, because `asyncio.Lock` is first come, first served.
`BusySpec` adds clients that keep sending requests; only `vm_dead` uses it.  No fairness is
assumed of the provider, of success, or of drains.  `TradingEngine`: weak fairness for
each loop (its sleeps and awaits are bounded) and for a `/stop` whose loop has ended; none
for `/start`.  `PriceFeed`: weak fairness for the feed loop, the endpoints, the end of a
backoff, and for the ping that finds a socket the hub has forgotten; strong fairness for an answer of
Pyth, a connection and a message, which are asked for again and again and would otherwise never
come.  `PriceComesBack` says what the code can promise then: once nothing breaks the
connection any more and the hub watches the symbol, a listener that is not stopped has a
fresh price again and again.  The other modules state no liveness.

### What the code does otherwise than it says

With a run:

* **A dead VM is never replaced.**  Nothing moves the registry from "running" when the
  provider ends the instance; requests go on to the dead endpoint (`vm_dead`).
* **Two `/start` calls make two loops.**  The running flag is tested before the planning
  awaits and set after them (`engine_two_loops`).
* **A halt misses a start that has not committed** and the agent trades on (`agents_halt`).
* **The candles of a later session are not refreshed in time.**  `start()` does not reset
  `_last_candle_refresh_tick` while the loop counts its ticks anew (`session_candles`).  The price
  history and the candles also stay, and a failed start leaves its symbol behind.

Found while modelling and part of the models, without a run of their own:

*VM, engine, agents*
* A socket that had to wake the VM is dropped: `proxy/ws.py:62` compares with
  `WakeResult.OK`, which the enum does not have.
* `drain()` takes no lock.  A wake beside it can have the id of its fresh instance erased,
  so `NoInstanceForgotten` fails with drains; `vm_drain` keeps requests away from them.
  drain has no caller in the hub, so the documented running → draining → stopped
  path is never taken.
* Longs get a short's dynamic levels: `_compute_dynamic_tp_sl` (`engine.py:411`) tests
  `str(side).lower()`, which is `"positionside.long"`.
* `/stop` with closePosition closes without `report_trade` and without a log on the chain,
  against "every trade is logged immutably" (`README.md:42`); the row of the trade stays open for good
  (`StopCloses`).
* `/stop` during the planning of a `/start` returns "stopped", and the start goes on
  (`StoppedStaysStopped` without `~overlapped`).  A `/start` that completes under a
  waiting `/stop` can keep that `/stop` from ever returning (`StopReturns` without
  `overlapped`).
* Changing `tp_sl_mode` from dynamic to fixed by `/config` leaves an open position its
  price levels, which win over the percentages (`Config`, `CheckTpSl`).
* With `HASHKEY_API_KEY` set, `start()` creates a live executor that nothing uses.
* The trades table gets a hash when the node accepts the transaction, not when it is
  confirmed, and a replaced one is never confirmed (`push_router.py:131`).
* A delete that overlaps a start removes the row of an agent that will trade
  (`TradingHasRow`), and overlapping starts exceed MAX_AGENTS (`MaxAgentsRespected`); both
  hold for calls that come one at a time, by `SerialSafe`.
* A start whose health check fails keeps the container, whose name then makes every later
  start of that agent fail (`Unhealthy`, `PollRaises`, `SpawnFails`).  `agents/registry.py:5` speaks of a
  rebuild from `docker ps`; there is none, hence `Restart` clears `reg`.

*Decisions, logs, chain*
* After a failed LLM call the KEEP that stands in for it is hashed with an earlier call's
  signature and pointer; the comment at `llm_planner.py:24` says otherwise.
* `ACTION_MAP` has "ADJUST", the supervisor says "ADJUST_TP_SL": it is logged as HOLD.
  "momentum", the default strategy, has no index and is logged as 255.
  A pnl beyond an `int16` of basis points makes the transaction fail.
  `DecisionLogger.sol` takes nine arguments where `onchain_logger.py` sends seven.
* The planning thread of a start that overlaps a running loop writes the same two globals: a decision of that
  loop can be hashed with the thread's signature or pointer (the exception of `OwnReasoningHashed`).
* The indexer's job forgets its next flush with the process and the window moves on meanwhile: a VM that
  is paused for long loses rows to the hub (`PeriodEnds`).
* `flush_logs` does not look at the status: a batch the user-server refuses is lost.  Lines
  emitted after `stop()` wait for the tenth tick of a later session.
* The user-server's chain signer and the indexer's writer have no callers, although
  `indexer/writer.py` says it is called on each confirmed receipt.  The signer asks for a receipt once, right
  after sending; a connection error there is not caught.  `/internal/v1/indexer/flush` is a stub.
* "60/min" lets through 120 calls in a minute that follows an idle one.  The token is
  spent before the provider and its key are checked, and the provider is called
  synchronously in an async route.

*Prices and candles*
* `track_symbol` has no callers, so the hub polls only what is in its cache, which nothing
  else fills; the run assumes that something tracks the symbol.  A restart forgets the list.  Of two names of one
  feed, only one gets a price.
* `refresh_pyth_prices` looks its ids up with a "0x" that the answers do not have, and stores
  nothing.
* An answer of TwelveData without candles replaces good ones and is served as fresh
  (`NoCandles`).
* Two first fetches insert two rows, after which every request for the pair raises and the
  refresh job ends at that pair each time (`DoubleRowOnlyByOverlap`).  `user_secrets` has the
  same flaw (`OneRowPerKey`).
* A spawned agent gets the user-server's address as `HUB_URL` (`spawner.py:154`), which serves no candles, so
  it always asks the provider.  The hub's cache would not help: it holds at most 100
  bars and the planner needs 200 (`TooFewBars`).

* A document of MongoDB does not expire: `updated_at` is written and never read.  What is not
  tracked is never refreshed, a failed fetch is stored as an empty chart (over a good one,
  by the jobs), and details fetched in another currency are served to whoever asks for dollars.
* `/tokens` answers with what is in MongoDB if any of the symbols is, and leaves the others out.
* `BINANCE:BTCUSDT` is looked for as `BINANCE:BTC` and written as `BTC`, so it is never found and each
  request for it replaces what the jobs have refreshed; `ReadersOnlyFill` excepts it.
* A write that fails in `refresh_token_detail` ends the run before the charts.  An agent that
  finds no MongoDB when it comes up has no jobs, although its requests connect again.

*Strategies*
* The recent bars are part of the medium ones, so an expansion is never seen, and
  `atr_breakout`, `bollinger_squeeze` and `linear_regression_channel` are never suggested;
  `funding_oi_filter` is not either, as its sources are stubs.  A directional index of
  0 counts as none.
* `dual_momentum` is bearish when prices rise, against `momentum_algos.py:3`.  `adx_filter`, a
  strength, is used as a direction and always buys.  `meth_rwa` compares a dollar price
  with 1 and always sells.  `rsi_signal`, `ichimoku_signal`, `keltner_bollinger` and `demo_mode` open positions
  in a market that does not move.  `stochastic_signal` raises with fewer than `2k - 1` candles.
* `runner.tick` hands on three fields only, so no stop loss or take profit of a signal reaches a backtest.
  But the strategy is handed the engine's own position and candles (`engine.py:166`), and the
  sandbox (`sandbox.py:70`) lets it assign to their items: it can set levels, entry, size and the last close,
  and the attested figures are then what it wrote (`Leaves`).
* A backtest's candles are not cached, because nothing commits (`datasets.py:4`); its
  dataset hash is of the request and not of the data; an empty fetch yields
  a result with no trades, which is attested; shorts can push the equity below zero.

*Sign-in, marketplace, wallet, secrets*
* Overlapping signed requests of a session compare with the numbers they loaded, and the one that writes last
  wins: the stored number can go back, and then a number that was used is accepted again,
  against the replay protection of `session.py:5` and `:90` (`ReplayRefused` excepts it by `overtaken`).
* Overlapping installs lose a count, overlapping reports each miss the other's, overlapping
  publishes make two listings of one code, after which publishing it fails for good; a
  publish that fails after the chain leaves a hash without a listing (histories `counted`,
  `flagged`, `published`, `unlisted`).
* A reinstall returns before `authorize_usage`, so a grant that failed is never tried again.
  Publishing again mints another token and replaces the one installers have rights to.
* Two first uses of a wallet overlap: an address that was shown is replaced.
* Deleting the last secret pushes nothing, and the VM keeps the old ones.

## 4. Proofs

TLAPS proves the following for every value of the constants.

**`VMServiceProofs`** (from `NamesAssumption` and `BoundAssumption`: None is no instance,
nobody is no task, the bound is a number).  `TypeCorrect` holds with drains.  The rest is
under `Drainers = {}`, the hub as it is.  None of the safety properties is inductive: that
traffic only goes to a launched instance follows from what the holder of the lock knows at
each of its steps.  `WakeInv` has, beside the types,
`LockInv` (exactly the lock's holder is inside `wake()`), `HolderKnows` (what registry, row
and provider look like at each step: for instance at "persistVm" the row has no instance
yet and the registry has the new one), `RowInv` (an endpoint in the row belongs to the
mapped, launched instance, and a running row is complete, which is what `hydrate()` relies on),
`SignupInv`, `ForwardInv`, and the coherence and no-instance-forgotten properties themselves.
`InitWakeInv` and `WakeInvStep` (one lemma for signup, the callers, `wake()`, and the
environment with the restart) give
`WakeInvariant`, and from it `TrafficSafe`, `CacheSafe`, `NothingForgotten` and `SharedWake`.
`PromiseKept` shows step by step that the registry implements `VMPromise`.

With drains it shows `DrainSafe`, that `DrainAloneSafe` holds as long as no request meets a
drain.  The invariant `AloneInv` changes with the phase: while no drain is under way the state
is one of `WakeInv`, while one is it is one of `DrainInv`, whose `DrainKnows` says for each step of
`drain()` what it has written so far.  `OneDrainer` is a hypothesis: two drains of a user can
overlap, and then the second writes its first status over the "stopped" of the other and leaves
registry and row different; TLC finds that with two drainers.  Nothing in the hub calls
`drain()` yet, so nothing starts two, but nothing in it would keep two apart either.

**`TradeReportsProofs`** (from `ReportsAssumption`: the bounds are numbers).  `RowsMatchLedger`
speaks of the end of the reports, so the invariant follows them: `OpenedInOrder` (trades
are numbered as they are opened and the engine's position is the last one),
`Delivered(t)` (for a trade none of whose pushes was lost or overtaken, which of them are out determines
the row; of a dropped trade only the first ever is), and for the hashes `HashesLate` (a hash travels
only to a trade at least as late as its own; a transaction that has yet to be sent belongs to the last trade or an earlier one).
`ReportsInvariant`, `ReportsTypeCorrect`, `LedgerKept`, `HashSafe`.

**`UserServerProofs`**, one part for each service of the user-server:

* `ChainSigner` (from `SignerAssumption`: gas prices are numbers and there is an attempt;
  `NoCallAssumption`: a call that has not begun has no state).  That a decision is mined once and
  not lost depends on what `eth_getTransactionCount` answers, and this on the whole pool.
  `SignerInv` has `AttemptsLeft`, `ChainInOrder` (the n-th mined transaction has nonce n - 1),
  `OwnNonce` (all transactions of a call have its nonce, which gives `MinedOncePerCall`),
  `NoGap` (the node holds the nonces above the chain's without a gap, and nobody was given
  one beyond the next), `Alone` and `TakenSlot` (of two calls under way both are contended;
  the nonce of a taken call that was alone is wanted by no other that is still
  sending, so nothing can replace its transaction).  `PendingIsNext` is the lemma that the pending
  count is the first free nonce.  `SignerInvariant`, `SignerTypeCorrect`, `SignedOnceAndKept`.
* `LlmProxy` (from `ProxyAssumption`: the numbers are natural).  `TakesArePaidFor` says nothing of
  the tokens that are left, so it is not inductive; `BucketPays` adds them: the takes since any
  one of them and the tokens left are together at most a full bucket and the refills until it
  was last settled.  `CountsAreOfTakes` does the same for the counts.  `ProxyInvariant`,
  `ProxyPaidAndCounted`.
* `Indexer` (from `IndexerAssumption`: the window is a number, a batch has room for a row).  A row is
  `Due` in a period when a flush of it cannot leave the row out; the invariant adds `InFlight`, that the
  flush under way has every row due in the period it began in, however much later it ends.
  `DueIsPicked` is a fact about cardinalities: a batch of the oldest that leaves a row out is full of rows no
  younger, so with the row they were more than a batch.  `DueStays`: rows written later take no room in
  an earlier period.  `IndexerInvariant`, `NothingSkipped`.
* `LogChannel` (from `LogAssumption`: the poll's limit and the copies are positive).  Two invariants
  about sequences meet in the table: the buffer and the batches (`FirstWay`: until its flush is given
  up a line is in the buffer or in one batch, once, and not stored; `BatchSent`: a batch
  awaited is at the server or stored), and the stream (`StreamAt`: what is shown is no later than
  `last_ts`, and `last_ts` is the opening or the stamp of a stored line).  `LogInvariant`,
  `LinesReachStream`.

**`AgentProofs`**, one part for each thing an agent keeps beside its position:

* `TokenCache` (from `TokenAssumption`: tracked tokens are names, kept ranges are ranges, no
  range is called "" or "none").  That a request replaces nothing says nothing of what it is
  about to write, so `CacheInv` adds it: `AskedIsFree` (what was looked for is absent, crossed by a
  thread, or misnamed), `AnswerIsFree` (so is what the answer will write under its own key;
  under another key the index lets it write only where nothing is) and `ThreadsWriteGood`, on
  which the charts' ranges rest.  `CacheInvariant`, `CacheSafe`.
* `DecisionLog` (from `DecisionAssumption`: keys and the order are of providers).  `DecisionOwn`
  relates the decision of each loop to the globals: `Between` its answer and its hash they are of its call,
  none, or of planning threads that wrote since; later it was hashed with such, and the pointer is still the last
  unless another call ran.  `OneBetween`: one loop at a time is there, since it blocks the others.
  `AnotherCall` is what any call but a supervisor's may do to the globals, whichever it is, and
  `BecomesKeeps` what a supervisor's does to the decisions of the other loops.
  `DecisionInvariant`, `DecisionsOwnHash`.
* `SessionData` (from `SessionAssumption`: the refresh period fits into a session).  What a first
  session inherits is nothing (`NoSessionYet`), and in it the ticks are counted from the
  refresh (`FirstSessionTimed`), which is what the later ones lack.  `SessionInvariant`,
  `SessionsClean`.

**`ServicesProofs`**, about what is computed, and the types of all parts of `MCServices`:

* *Induction.*  The prover's library states induction for an operator, which no installed
  backend can instantiate; its `WFMin` speaks of a set, and with it `LeastOne` (a set of numbers
  has a least one) and `Inductive` (induction over a set of numbers) are proved.  On these rest
  `LargestOfSeries`, `SumsExist` (the recursive table behind a fold exists for a finite set) and
  `SumType` (a sum is of any type that has 0 and is closed under addition).
* `MarketAnalysis` (from `AnalysisAssumption`: the windows in the code's order, bars of natural
  prices).  `RangeNarrows`: the range of the last bars is within that of more of them, so nothing
  ever expands; `MovementsAdd`: both directional movements are natural, so the index is a
  percentage and cannot be above 25 and below 20.  `AnalysisInvariant`, `RegimesProved`.
* *Sums.*  A sum is the last entry of the table of its partial sums (`SumIs`, by taking any
  element out of it, `SumApart`), so a window's is the difference of two such entries
  (`SumOfPart`), and the mean of a window lies within the bounds of its entries (`PartBounds`).
* `Signals` (from `SignalAssumption`: periods are positive and MACD's fast one the shorter, a
  lookback is any integer, prices are finitely many positive integers, which the mirror of
  `NoLeaning`, at the highest plus the lowest, needs).
  `PriceSignalsAreSides` and `BarSignalsAreSides` go through the strategies; `StochasticRaises`
  finds the one empty window.  `SignalsRaiseOnlyShort`.
  `SignalsProved` is the whole of `SignalsSound`, for price histories of any length.  `WindowsOfPlan` first
  reduces a signal to two windows, whatever the candles.  Then:
  * *Mirror* (`NoLeaning`).  `SignalFlips`: sums, extremes, exponential averages (`EmaFlips`), MACD's
    lines and the regression of the mirrored prices are the mirrored ones, at any mirror, so every
    comparison comes out the other way.
  * *Side* (`TrendSideKept`).  `RisingSides` compares, for each strategy, two numbers of a
    market that has risen; `FallingSides` follows with the mirror, but for RSI, which counts
    gains and losses (`RsiKeepsSide`).  `SignalInv` has the side as a part: what has risen
    had risen a price earlier (`DirectionKept`), so the position was on the right side then,
    and the signal does not take it to the other (`TrendKept`).
  * *Exponential averages* are the hard case, as `_ema` starts from the mean of the very prices it
    takes in again, which is ahead of the first of them.  The slow average is below the mean
    of the last `f` prices when it comes to these (`SlowLags`).  From there both take in the
    same prices, and `Together` has the two side by side.  The prices, less that mean, sum up
    to no less than 0; `LeadGrows` shows by induction that the fast average leads by at least what
    they have summed up to so far, weighted; so it leads in the end (`LeadKept`,
    `EmaCrossoverRises`).  That the prices rise enters in `SumsBelow` and `SlowBehind`: without it
    the averages may cross.
* `Backtest` (from `BacktestAssumption`: positive prices, capital and fee divisor; a strategy writes
  integers, and no entry of 0).  `BacktestInv`
  has `MoneyKept` (cash and position are what closed trades, fees and the sizes it wrote have left) and
  `CurveBegins` (the forced close at the end does not write over the first point), from which
  the drawdown follows with `PeakIs`.  `LevelKeeps` is the exit at a level,
  `LeavesIs` what `on_tick` can leave of a position, `BarIs` what a bar can do with both, whatever the
  strategy answers and writes.  `BacktestInvariant`, `FiguresProved`.
* `ServicesTypesProved`, from the invariants of all parts.

**`TradingEngineProofs`** (from `EngineAssumption`: prices are positive, and the distance of a
dynamic level is less than half of any price).  `PositionShape` and `LedgerMatches` are
inductive together with the types (`EngineInv`): `CloseKeeps`, `OpenKeeps` and `ExecuteKeeps`
are what the three ways to change the position do, whichever loop takes them, and
`LevelsAreShort` is what `.lower()` on an Enum does to every dynamic level.
`NothingOpensStopped` is an action property.  `SessionKept` is about `MCTradingEngine`'s
client: `CallAlone` (one call is under way at most) and `OneLoopKnown` (the loop that
trades is the one `loopTask` names, and where the running flag is down only a `/stop`
may still have one to wait for) hold as long as `overlapped` does not; `AloneIfNoOverlap`
derives the first from what the history variable looks at.

**`AgentLifecycleProofs`** (from `AgentsAssumption`: finitely many agents, numbered as
their rows are ordered).  Three invariants, each on top of the one before.
`CallsInv`: a call holds the locks of just the rows it has updated (`LocksDescend`), and all it
has yet to treat comes after those.  With `LargestExists` this gives `CallsNeverDeadlock`:
the call that has got furthest in the order waits for nobody who holds a row.
`ContainersInv`: `AgentSound` (a container the registry does not know has an alive row with
its id) and `CallKnows` (a stop or halt that has not come to such an agent has loaded that id,
and what a start has started it still names) give `StopFindsTrading`; the difficulty is
the rollback, which undoes the row and leaves registry and Docker.
`SerialInv`: with one call at a time, `CallSerial` says what that call still relies on
(a halt has every trading agent before it; a start adds to the trading agents only what it
has counted).  `CallsKept`, `AgentsTypeCorrect`, `ContainersKept`, `SerialKept`, `SerialCallsSafe`.

**`HubProofs`**, one part for each service of the hub, `HubTypesProved` for all, and the price
feed:

* `HubWallet` (from `WalletAssumption`): `WalletInv` adds `UseAlone`: a use that found no
  wallet is alone, one that found a wallet found the present one.  `WalletProved`.
* `Secrets` (from `SecretsAssumption`): `SecretsInv` adds `KeySingle` (who is about to insert a row
  of a key is alone and finds none) and `FoundRow` (the row a call has found is gone or still
  its key's).  `SecretsProved` has the invariant and the action property.
* `CandleCache` (from `CandleAssumption`: staleness is positive, "none" is not a pair):
  `CandleInv` adds `PairSingle`, `CallSound` (a request's stamp is not from the future, and its
  row is its pair's) and `JobSound`.  `CandlesProved`.
* `SignIn` (from `SignInAssumption` and `IdleSlotAssumption`: an empty slot is no call):
  `UsersInv` (a transaction holds a new user's row just when the wallet has none committed, and
  the unique index lets one do so) and `RequestsInv` (`RequestSound`: the number a request has loaded was
  accepted before, or is 0, which gives `FreshAccepted`; `NumberSound`: as long as no request of a session was
  overtaken, the number stored is the highest accepted, which gives `ReplayRefused`).
  `SignInProved`.
* `Marketplace` (from `MarketAssumption`): `MarketInv` has a part for each hazard.
  `RowsInv`: ids are not used again, so a row read earlier is gone or the same copy.
  `AttestInv`: the code a call has read of a listing is still the listing's; `PublishSingle`.
  `CountsInv` and `ReportsInv`: of a listing no two changes of which overlapped, the one call
  about to change a count has read its present value; for the reports of any listing the
  count read is at most the present one.  `CountersProved`, `ListingsProved`.
* `PriceFeed` (from `FeedAssumption`).  `FeedInv` adds `WireSound` (a message is on the way only to
  a listener that reads) and `EngineAlone` (while no two calls of the engine overlapped, the
  listener that lives is the one it holds, and the steps of `start()` and `stop()` agree with the
  running flag).  `FeedInvariant`, `ListenerKept`.

Only model-checked: liveness under fairness (`RequestsAnswered`, `StopReturns`,
`PriceComesBack`), which is out of the prover's reach.  Every safety invariant and action
property that a passing run checks is a theorem above.

## 5. What is left out, and why

*Abstracted in the models.*  Contents of messages, prompts, prices as decimals, encryption and
signatures, HTML and wording: no property here depends on them.  Time is abstract: a
timeout may happen whenever the code waits.  Postgres is modelled by what the handlers rely on (row
locks, READ COMMITTED reads, primary keys), Docker, Morph, Pyth, TwelveData, the LLM providers and the
chain node by the answers the code distinguishes.  The client is any client, except
where a property says what it must observe (`overlapped`, `serial`, `raced`, `contended`).

*Not modelled.*
* `contracts/`: emitters of events and two registries of a few lines, with Solidity tests of
  their own.  What the hub relies on of them (a hash is registered once, a token has
  users) is part of `Marketplace`.
* The web client: it holds no state another part depends on.
* `shared/` and the Pydantic models: types without behaviour.
* `hub/deprecated`: `hub/server.py` does not mount it.
* Of the sandbox, the restrictions on the interpreter and the wall-clock alarm.
* `risk_sizing`, the executors for real exchanges, `push_supervisor`: no callers.
* The refresh cookie and API keys of `hub/auth`, which only name a user; the routes that
  only read (queries, browsing, statistics, forecasts); the audit rows, read by no one.
* `token_analysis.py` but for the range of a chart, and the symbol tables and quotes of
  `app/market/market.py`: tables and single HTTP calls without state.

## 6. Plan

1. Compose `TradingEngine` with `TradeReports` (so that a close that `stop()` makes is the engine's own) and
   `AgentLifecycle` with the status pushes of the engine.
2. Abstract specifications: a ledger (open, closed, once each) that `TradeReports`
   implements for untroubled trades; a session (idle, running) that a
   client without overlaps sees of `TradingEngine`; a log of which each line is stored once,
   which `LogChannel` implements without resends.
