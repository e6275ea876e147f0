# A verification development for OpenAlgo

OpenAlgo is a Flask application that stands between trading strategies and
about thirty Indian brokers. Strategies, pages and WebSocket clients talk to it;
it keeps orders, approvals, subscriptions, sessions and a complete paper-trading
exchange (the "sandbox") in SQLite tables, in-process tables and threads.

This directory models the parts of it that keep state and decide things, in
TLA+, checks them on small instances with TLC, and proves with TLAPS, for every
value of the constants, what TLC can only check for small ones.
`PROJECT.json` lists components, runs, mutants, hazards, theorems, findings and
the source lines each definition stands for.

## 1. The system

| Component | State it keeps | Operations | What must hold | Here |
|---|---|---|---|---|
| Sandbox books: `sandbox/{order,fund,position,holdings,squareoff}_manager.py`, `execution_engine.py`, `catch_up_processor.py` | orders, trades, position rows, holdings, one fund row | place, modify, cancel, fill, square-off, T+1 settlement, catch-up, expiry, mark to market, weekly reset | cash, margin and shares are neither created nor lost; fills respect limits and triggers; flat rows hold no margin | `SandboxEngine` |
| Sandbox threads: `execution_thread.py`, `squareoff_thread.py`, request threads | a session per thread; one lock in `FundManager` | the same handlers, at the same time, on the same rows | no fill lost or doubled, no commit overwrites another's cash, every call returns, open orders settle | `SandboxThreads` |
| WebSocket proxy: `websocket_proxy/server.py`, `connection_manager.py`, `broker_factory.py` | clients, users, subscriptions, index, adapters, pools | connect, authenticate, subscribe, unsubscribe, unsubscribe all, disconnect | a client gets the feeds it asked for; the tables of a pool agree; nothing stays connected for nobody | `FeedProxy`, `ConnectionPool` |
| Action Center: `database/action_center_db.py`, `blueprints/orders.py`, `services/order_router_service.py`, `pending_order_execution_service.py` | the table of pending orders | queue, approve, reject, delete, execute, record | nothing is executed without approval, no approval serves twice or is forgotten | `ActionCenter`, `ApprovalGate` |
| Webhook strategies: `blueprints/strategy.py`, `chartink.py`, `database/strategy_db.py` | strategies, a cached row, square-off jobs in memory, two queues, a processor thread, ten timestamps | create, toggle, delete, webhook, process, square off | the account ends at what the signals asked for, closed after square-off as far as the job and the waiting orders allow; queues empty at the allowed rate | `WebhookStrategy` over `OrderQueue` |
| Smart orders: `sandbox_service.py`, the brokers' `place_smartorder_api` | none | read the position, trade the difference | the trade reaches the position asked for | `SmartOrder` |
| Python strategy host: `blueprints/python_strategy.py` | processes that outlive the application, a dictionary of them, configurations on disk, schedules, one lock | start, stop, schedule, delete, clean up, restore after a restart or a login | one process per strategy, never somebody else's, schedules that come back, calls that return | `StrategyHost` |
| Session caches: `database/auth_db.py`, `utils/session.py`, `cache_restoration.py` | TTL caches over two tables | log in and out, regenerate a key, verify a key, read a token | a revoked login or a replaced key is not honoured | `SessionCache` |
| Live order services, symbol cache | none, or a copy of a table | routing, batching, refresh | what is sent is what was asked for | not modelled; the mode and the routing are in `ActionCenter`, the download in `StrategyHost` |
| Broker adapters (about 135 000 lines), REST layer, pages, Telegram, logs, analytics, calendars, the fork's trading scripts | none, external, or append-only | translation, rendering, formulas | | not modelled; reasons in `PROJECT.json` |

How they meet. A REST call, a webhook or a page ends in an order service. In
semi-automatic mode the router puts the order in the Action Center's table, from
which an approval takes it to the same service. In analyze mode the service
calls the sandbox instead of a broker. The sandbox's engine thread and
scheduled jobs call the same managers as the request threads, on the same
rows. A webhook, and a square-off job, put their orders in a queue; the
processor's thread sends them to the application's own API, so that they end in
an order service as well. A finished login downloads the contracts and then
restores and starts Python strategies, which are processes of their own and call
the API from outside with a key the session caches verify. Prices come from
brokers through the quote service (sandbox) and through ZeroMQ and the proxy
(clients).

What is hard. *Concurrency*: Flask runs requests on threads, SQLAlchemy
gives each thread its own session, and rows are read in one statement and
written in another; the fund manager, the connection pool and the strategy host
have one lock each, and the last of these is not re-entrant.
*Order*: margin is decided at placement and used at the fill; positions are
marked by day; departures of clients edit tables others share. *Failure*: the
process may stop between two commits, a quote may be missing, an adapter may
refuse, an authentication may fail half way; jobs, queues and the dictionary of
processes are gone after a restart, and the processes are not. *Staleness*: a
cached row, token or key is used after what it was copied from has changed.
*Identity*: SQLite row ids, client ids (object addresses) and process ids come
back. One installation serves one person
(`docs/ESSENTIAL_RATE_LIMITING_SUMMARY.md`), so the sandbox models have one
user.

## 2. The modules

| Module | Stands for | Used by |
|---|---|---|
| `SandboxFunds` | `fund_manager.py`: each method as an operator from fund row to fund row | all of the sandbox |
| `SandboxNetting` | `_update_position`: what one fill does to one position row | `SandboxEngine`, `SandboxThreads` |
| `SandboxEngine` | every handler and job as one atomic action, one user, one instrument | `SandboxEngineProps` |
| `SandboxEngineProps`, `SandboxMC` | properties; constants for TLC | runs `sandbox_*` |
| `SandboxThreads`, `SandboxThreadsMC` | the handlers taken apart at their commits; books of orders for TLC | runs `threads`, `threads_duplicate` |
| `ConnectionPool` | `connection_manager.py`: each method as an operator from pool to pool | `FeedProxy` |
| `FeedProxy`, `FeedProxyMC` | `server.py` and the pool registry | run `feed_shared` |
| `ApprovalGate` | what semi-automatic mode promises, abstractly | `ActionCenter`, by refinement |
| `ActionCenter` | table, routes and execution, taken apart at their statements | run `approval_gate` |
| `SmartOrder` | the arithmetic of a smart order | `OrderQueue` |
| `OrderQueue` | both queues, the processor, the rate and the account | `WebhookStrategy` |
| `WebhookStrategy`, `WebhookStrategyMC` | pages, webhooks, square-off jobs and the clock of both blueprints, over the queues | runs `order_queue`, `squareoff_lost` |
| `StrategyHost` | the host of Python strategies, at the points where its lock is taken and given back | runs `strategy_*` |
| `SessionCache`, `SessionCacheMC` | the auth and key caches, taken apart at queries and commits | run `session_cache` |
| `*Proofs` (8) | theorems | |

Operators named `Mut_...` are plausible mistakes in the operator they precede.
Nothing uses them but the test that every property is able to fail.

### 2.1 The sandbox: `SandboxEngine`

| Variable | Code |
|---|---|
| `orders` | `sandbox_orders`; status `none` is an id not used yet; `margin` is `margin_blocked`, `fill` is `average_price` |
| `trades` | the order ids that have a row in `sandbox_trades` |
| `positions` | `sandbox_positions` of the instrument by product; `row` says whether there is one, `stale` whether it was created before today |
| `holding` | the `sandbox_holdings` row |
| `funds` | `available_balance`, `used_margin`, `realized_pnl` |
| `quote` | the answer of the quote service, 0 for a failure |
| `phase`, `expired` | the clock, as far as the code compares it with something |

`PlaceRejected`, `PlaceResting` and `PlaceMarket` are the three outcomes of
`place_order` that store an order (requests refused before that change nothing); a
market order executes on the spot when there is a quote. `Modify` is
`modify_order`: the quantity is replaced, a price and a trigger are replaced if
one is given; the margin that was blocked stays what it was. `Cancel` and
`ProcessPending` are `cancel_order` and the engine's pass, order by order.
`Execute` is the whole of `_execute_order`: trade, netting, release of margin with
its profit, and the reconciliation that every fill ends in. `SquareOffOrder` and
`SquareOffPosition` are the square-off pass; `SettleCnc`, `CatchUpMis`,
`SettleExpired`, `UpdateMtm` and `ResetFunds` the jobs; `OpenMarket`,
`ReachSquareOff`, `Midnight` and `MoveQuote` the outside.

Money is in whole units of the DECIMAL(_, 2) columns, and every division is
rounded as the columns round. One instrument suffices because positions meet
only in the account; its three products are three rows that do meet there.
Strategy names, lot sizes and order messages, unrealized and today's profit are
left out: no modelled decision reads them.

### 2.2 The sandbox's threads: `SandboxThreads`

The same handlers, taken apart at commits: a thread is at one of fifteen steps
and carries what it has read (`net`, `copy`, `margin`). `LockFunds` ...
`CommitRelease` are the fund manager's methods under its lock; `SumMargins`,
`Compare` and `Reconcile` the reconciliation, which takes no lock; `CheckTrade`,
`CommitTrade`, `ReadPosition` and `WritePosition` a fill; `WriteRefused` the
unique constraint on position rows; `QueryPending` and `TakePending` the
engine's list; `LeaveOpen` the returns of `_process_order` without a fill, and
the orders the pass has no quote for; `Crash` the process. What a quote read at
the start of the pass says of an order is decided when the order's turn comes:
either is possible each time, so the market needs no variable of its own. A
market order rests if no quote came and its margin was computed from the
position's last price. A session that
committed reads rows afresh, one that did not still sees what it first read:
`stale` keeps that for the engine, the only thread that outlives a call.
Netting is `SandboxNetting`'s. Every order is for one share at a price of its
own and the leverage is 1: sizes and rounding are the engine model's subject.
The square-off scheduler is one more request thread: it places and cancels
orders through the same handlers.

### 2.3 The feed: `FeedProxy` over `ConnectionPool`

`clients`, `user_mapping`, `subscriptions`, `subscription_index` and
`broker_adapters` are the server's tables by name, `pools` the registry of
pools. Handlers run on one event loop and await only their last message, so
each is one action; a pool's methods run under its lock and are operators.
`AuthenticateInVain` is an authentication that fails after the user has been
noted. `Disconnect` is `cleanup_client` with its four endings: no adapter,
other clients of the user left, last client of a broker that is kept
connected (flattrade, shoonya), last client of any other. Adapters are outside
and may refuse any call. Left out: a user who changes broker, start and stop of
the server, the ZeroMQ listener with its throttle, requests for several symbols
(each is several requests).

### 2.4 The Action Center: `ActionCenter` implements `ApprovalGate`

`rows` is the table by row id, and ids come back as SQLite gives them: one more
than the largest. A request reads its row (`Request`), then writes whatever row
has the id (`CommitApprove`, `CommitReject`, `CommitDelete`); an approval goes on
to `ReadApproved`, `Place` and `Record`. `Unsupported` are orders the execution
does not know (an options multi-order). Writes may fail, reads do not. The mode
is read once per order, before it is queued. Log-in, broker and order services
are outside.

`ApprovalGate` promises less than one might think: an order is executed only
when it was approved, and each approval is good for one execution. It does not
promise that an order approved twice is executed once, because the code does
not do that. The refinement maps its `credits` to the number of threads that
hold an approval they have not acted on.

### 2.5 Webhook strategies: `WebhookStrategy` over `OrderQueue`

`smart`, `regular`, `running` and `recent` are the module globals of
`strategy.py` and `chartink.py`; `worker` says where each processor thread is and
with which order. `TakeSmart`, `NoSmart`, `TakeRegular`, `NoRegular` are one turn
of the loop in `process_orders`; `ReadPosition` and `Trade` the two halves of the
smart order that is sent, `Post` the regular one. Requests may fail
(`ReadFails`, `TradeRefused`, `PostFails`): an answer is logged and not tried
again. `EnsureOrderProcessor` starts the thread if the flag is not set. `Forget`
is what dies with the process.

`status` is the strategies table, `cached` what a webhook id leads to for five
minutes, `jobs` the scheduler, `request` what a webhook has accepted and not yet
queued. `Create`, `Toggle`, `Delete` are the pages, `Receive` the webhook with
its checks in the order of the code, `Put` its calls of `queue_order`,
`StartSquareoff` and `SquareoffPosition` the job, `Misfire` the scheduler that
comes to it after its grace time and drops it. `Minute` moves the clock whatever
is under way: a webhook that has passed its time check may queue its orders after
the square-off, and a job may be late. `Platform` chooses the
blueprint: Chartink names several symbols in an alert, caches nothing, does not
count a window's last minute and leaves the job alone when a strategy is
switched off.

`want` is a history variable: what the orders of a symbol, in the order they were
queued, ask the account to hold; `Unknown` when an entry and an exit of one symbol
were outstanding at once (the code sends smart orders first, so which wins is not
a promise) and after an order was lost, until the next target. `overrun` is another:
the symbols the square-off job came to while an accepted entry was still to be
queued.

`Loop` is what the processor does by itself, `Answer` what waits for the answer
to a request; `requests.post` is called without a timeout, so only the first is
fair. Signals that lead to smart orders are not counted: they may come forever.

Left out: strategies that share a symbol, the editing of mappings, several
brokers, the list of a user's strategies. A Chartink strategy has one direction,
so its alerts are entries or exits by `Mode`.

### 2.6 The strategy host: `StrategyHost`

`procs` are the machine's processes by pid; one that ended is a zombie until its
parent has waited for it, and a free pid may go to another program (`Reuse`).
`running` is `RUNNING_STRATEGIES`, whose entries are `Popen` objects or, after a
restart, `psutil` ones; `config` and `file` are the configurations in memory and
on disk. A thread carries its place and what it has read. `Launch` and `Save` are
`start_strategy_process` under `PROCESS_LOCK`, `Stop` its counterpart with the
two ways to find the process, `Begin` ... `RestoreEnds` the restoration,
`CheckPending` ... `PendingEnds` the start of what waited for the contracts,
`Clean` and `Refresh` the cleanup and the page. `LoopFails` is a dictionary that
changed size under a loop. `Delete` of a running strategy keeps the lock forever,
as the code does. Restoration saves only if it restored or gave up a strategy.

`Names` says that a process is the strategy's own. The code asks whether the path
of the strategy's file is a substring of the command line. Another strategy's path
contains it only if that one's script was uploaded under the stored name of the
first with a second suffix, and a program that is no strategy only if it was
given the file (an editor, say) and the pid besides; both are left out.

`missed` is history: the live processes no entry tracks, by reason. `unsaved` were
alive at a crash and the file did not name them; `forgotten` lost their pid to a
restoration before which the contracts were not downloaded; `raced` were overtaken
by a second start before the restoration came to their strategy, or lost their
entry to it. `TrackedOnce` allows just these; the run `strategy_raced` shows the
last, and section 5 says which documents exclude them. `Crash` also stands for a
regular end, whose exit hook locks itself out and is killed. Left out: upload and
editing of scripts, logs, environment variables, the clearing of an error; disk
and permission errors.

### 2.7 The session caches: `SessionCache`

`row` is the login in the `auth` table, `key` the current API key; logins and
keys are numbered, and a token stands for the login it came from. `byName`,
`byKey`, `verified` and `invalid` are the caches. `AskByName`, `Query`, `Keep`
are `get_auth_token`; `Ask` ... `Fill` are `get_auth_token_broker` with
`verify_api_key`; `Login`, `LoginKeep`, `Logout`, `Revoke`, `Clear` the two uses
of `upsert_auth`; `Regenerate`, `ChangeMode`, `Invalidate` the writers that clear
everything. Entries expire at any time, which is more than the code's clock
allows. `late` and `lost` are history. `late.name` are the tokens stored after
they had changed; `late.keys` the keys that had just been compared with the key
there was, and not yet been stored, when the caches were last cleared; `lost`
whether a call began with nobody logged in and nobody has logged in since.
`Login`, `Revoke` and `Regenerate` are one step for the ORM's read of the row and
its commit: the row's identity does not change and what is written does not
depend on what was read.

## 3. The runs

| Run | Question | What it shows |
|---|---|---|
| `sandbox_market` | Do the account and the rows agree while orders execute when placed? | `BooksAgree`, `ProfitAgrees`, `OpenPositionsAreMargined`, through square-off, midnight, expiry and catch-up; and booked profit is the cash flow of the trades (`ProfitIsCashFlow`) |
| `sandbox_equity` | Is anything lost between orders, rows, holding and cash? | `FlatRowsHoldNoMargin`, `SharesConserved`, `CashFollowsPnl`, with resting orders, T+1 settlement and a quote service that fails |
| `sandbox_stops` | Can an order fill at a price its owner did not agree to? | `FillsRespectPrices`, with quantity, price and trigger of stops modified while they rest, expiry and resets |
| `threads` | What survives when placements, cancels, fills and crashes interleave? | As long as all orders are resting ones `PositionIsTrades` and `CashIsKept`; with a market order, which two threads may execute, still `RealizedNeverLost`, and the liveness of calls (`CallsReturn`) and orders (`OpenOrdersSettle`), with scarce funds |
| `feed_shared` | Do index, pools and teardown stay consistent? | `SubscribedIsIndexed`, `PoolsAgree`, `NoFeedWithoutClient` |
| `approval_gate` | Does approval gate execution? | `ApprovalGates` (the refinement), `ApprovedIsExecuted` (liveness), with a crash |
| `order_queue` | Does the account end where the signals sent it, stay closed after the square-off, and are the queues emptied? | `PositionIsWanted`; `ClosedAfterSquareoff`, but for entries the job met on their way or waiting; and `QueuesDrain` (liveness) if requests are answered and signals cease. With failures, the rate limit, stale cached rows, slow webhooks, dropped jobs, switching, deletion, restarts |
| `strategy_host` | Is every strategy one process, found again after a restart? | `AdoptedIsOwn`, `TrackedOnce`, `RunningIsTracked`, `JobsMatch`, and `CallsReturn` (liveness), with a crash anywhere and pids that go to other programs |
| `session_cache` | What may a cache still answer after a change? | `NameCacheCurrent`, `VerifiedIsCurrent`, `RevokedIsRefused`, with two threads at once, expiry and a restart |
| `threads_duplicate` | Does the duplicate check prevent duplicates, as its comment says? | No (finding 1) |
| `squareoff_lost` | Are all open positions closed at square-off time, as a document says? | No, not after a restart (finding 2) |
| `strategy_raced` | Are orphans and duplicates excluded, as the changelog and a guide say? | Not if a start meets a restoration (finding 3) |

### Bounds, and why they are enough

- *Sandbox*: three market orders of one or two shares open, add to, reduce,
  close and reverse a position; two orders of mixed types let one rest while the
  other fills. Two prices give profit, loss and a limit beaten. The prices of
  `sandbox_market` are multiples of every sum of quantities its orders can hold,
  so the averages are exact and the equation of `ProfitIsCashFlow` has no rounding
  in it; in the other runs rounding is part of what is checked, and `BooksAgree`
  is proved with it. `Capital` is small enough for refusals. The clock has no
  bound: days follow one another until the order ids are used up, and then still.
- *Threads*: a race needs two threads and, for the account, a third order. Two
  resting orders open and close, a market order is filled by either thread or
  both, and cash suffices for one of the two larger ones at a time, so that every
  refusal is reached. One crash comes between any two commits. Each pass may leave
  any order open, so a price that never comes needs no bound.
- *Feed*: two connections of one key each and three keys: the third is refused.
  Two clients and two users, one of whose brokers is kept connected, give
  sharing, a last client and a client id that returns. Pools of more than one
  key a connection are covered by the proof.
- *Webhook strategies*: one order a window and windows of one tick make the second
  order wait; the ten and the second of the code differ from them only in the
  length of `recent`. Entries, edits and restarts are bounded together
  (`MaxEvents`); signals for smart orders are not, but are accepted only while
  few wait (`MaxSmart`), so that the run of `QueuesDrain` contains the endless
  streams its condition excludes. One failure reaches every lost order. A
  positional strategy with targets and an intraday one have a symbol each, two
  processor threads let a second one start, and the clock goes on past the
  square-off and its grace time, which is all the code compares it with. The grace
  time is none in `order_queue`: a job runs in its minute or is dropped. In
  `squareoff_lost` one strategy has two symbols and its job may be a minute late;
  any grace time and any number of symbols are in the proof of
  `ClosedAfterSquareoff`. Two events reach two entries, or an entry and a toggle or
  a restart.
- *Strategy host*: restoration, a page and a job meet with two threads; two pids
  give a strategy a second process, and the pid of the first to another program.
  One crash and two logins give a restoration after each. With one strategy, what
  strategies do to one another is left to the proofs, which have any number.
- *Session caches*: a reader and a writer are two threads; two logins and two keys
  give a new and an old one of each. Threads are symmetric.
- *Action Center*: three orders on two ids force an id to be reused while
  another request still holds it; one order is unsupported.

Deadlock is checked for the feed. The other systems may stop: a bounded set of
orders, events or requests is used up.

### Fairness

- `SandboxThreads`: strong fairness of each thread's steps inside a handler,
  weak fairness of the engine's pass. A thread is scheduled by the operating
  system; the only step that can be disabled again and again is obtaining the
  fund lock, which is held for one read and one commit, and a waiting thread gets
  it in the end. The engine's loop wakes every few seconds
  (`execution_thread.py`). Nobody is assumed to place or cancel anything, and
  nothing is assumed of the market: that the quotes, from some time on, never
  leave the order open is a condition of `OpenOrdersSettle` itself.
- `ActionCenter`: weak fairness of each request's own steps. A request that was
  received runs to its end; nobody is assumed to send one.
- `WebhookStrategy`: weak fairness of the processor's own steps, a thread that
  only sleeps and never ends, and of time. Nobody is assumed to send a signal or
  to answer a request. `QueuesDrain` states what it needs of others as its
  conditions, and both are necessary: `Answered`, because a request without a
  timeout may hang and with it the one processor, and `SignalsCease`, because
  smart orders go first and a stream of them starves the regular ones.
- `StrategyHost`: weak fairness of the steps inside a handler, strong fairness of
  the three that wait for `PROCESS_LOCK`: it is held for a start and a save and
  given back again and again. A deleted running strategy breaks this, and
  `CallsReturn` excepts it.
- `SandboxEngine`, `FeedProxy`, `SessionCache`: none; only safety is claimed.

## 4. The proofs

| Module | Theorems | Argument |
|---|---|---|
| `SandboxNettingProofs` | lemmas only: `NetCorrect`, `NetMarginNat`, `NetProfit`, `NetCashFlow`, `FundOperationsTyped`, `FundOperationsCash`; sums over trades: `SumInt`, `SumUpdate`, `SumTrade`, ... | a fill yields a well-formed row, moves its quantity by exactly what was traded, leaves no margin in a row that ends flat and no negative margin in any; it books what it closes, and as cash flow if no average is rounded; each fund operation moves cash by exactly the profit it is given; what one more trade does to a sum over trades |
| `SandboxEngineProofs` | `TypeCorrect`, `FlatRowsCorrect`, `CashFollowsPnlCorrect`, `FillsCorrect`, `BooksCorrect`, `ProfitCorrect`, `MarginedCorrect`, `SharesCorrect`, `CashFlowCorrect` | below |
| `SandboxThreadsProofs` | `ThreadsTypeCorrect`, `RealizedSafe`, `PositionSafe`, `FillsOnceSafe`, `CashSafe` | below |
| `FeedProxyProofs` | `FeedTypeCorrect`, `SubscribedIsIndexedCorrect`, `PoolsAgreeCorrect`, `NoFeedWithoutClientCorrect` | one lemma for each pool operation that it keeps a pool sound (counter = keys mapped = keys carried), then `FeedInv`, the conjunction of the four: a stored adapter has an initialized pool, and only a stored adapter's pool carries anything |
| `ActionCenterProofs` | `ActionCenterTypeCorrect`, `ActionCenterGates` | `GateInv` adds that every row's order was queued, every approved row's order, and every order a thread is about to place, was approved. Under it each step maps to a step of `ApprovalGate` or changes nothing there; the arithmetic of `credits` is that of the cardinality of a finite set when one thread joins or leaves it |
| `WebhookStrategyProofs` | `Types`, `Wanted`, `StaysClosed` (over `OrderQueue` and `WebhookStrategy`) | below |
| `StrategyHostProofs` | `Types`, `Adopted`, `Schedules`, `Restoration`, `OneProcess` | below |
| `SessionCacheProofs` | `Types`, `NameCache`, `VerifiedKeys`, `NoTokenOnceRevoked` | one invariant, `Inv`: the three properties with the types and `LostInv`. What is cached is current or was stored late. `KeyInv`: a key that is verified, or compared and about to be, is the current one, or a clear is still due, or it was compared when the last clear came; whoever is about to clear a cache is counted as a change in progress. `LostInv`: while a call that began without a login is under way the row stays revoked, so its last check of the row refuses whatever it carries |

*The sandbox.* Type correctness is inductive. `FlatRowsHoldNoMargin` is not: an
order for no shares would open a flat row that keeps the order's margin; `FlatInv`
adds `OpenOrdersTrade`, that open orders are for some shares. `FillsRespectPrices`
needs that what has a trade is complete (`PriceInv`), or a modification could move
a limit or a trigger after its fill. `BooksAgree` holds for market orders in MIS
and NRML and a quote service that answers, the hypothesis `ImmediateOnly` of the
theorem. Its invariant adds that no order is open, that the delivery row is flat
and that no row's margin is negative: the catch-up clamps `used_margin` at zero,
and only the last of these keeps the clamp from taking anything. That a margin
stays non-negative through a reduction is the one fact about rounding,
`RoundDivShare`: a share of an amount rounds to no more than the whole. The two
action properties follow step by step from `TypeOK` and the lemmas on the fund
operations.

`ProfitAgrees` and `OpenPositionsAreMargined` need `AmplePrices` besides
`ImmediateOnly`: a share costs at least as many units as the leverage times the
size of an order. Without it they are false, in the code as in the model: the
margin of a reversed row is a share of a margin that may already be a share
(`execution_engine.py:510`), it can round to nothing, and the profit of a row
without margin is never credited, since the credit comes with the release. The
invariant, `ProfitInv`, says that a row holds a unit of margin for each of its
shares; neither property is inductive without it.

`SharesConserved` needs `SharesInv`: only where delivery is traded do delivery
orders and rows exist, and an instrument that expires has none of them.
`ProfitIsCashFlow` is a theorem of the behaviours in which no average price of the
derivative row is rounded (`ExactAverages`, a condition on steps): `NetCashFlow`
shows, case by case of a fill, that then quantity times average, less the profit,
moves by the value of the trade. Adding to a position is the only case in which
the average is a quotient. The prices of `sandbox_market` are multiples of
everything an average of its orders divides by, and ample.

Both speak of sums over a set of trades. A sum is defined by recursion over
sets, and what a recursion computes would need induction; the lemmas use a
smallest counterexample instead: among the subsets of a finite set on which a
claim fails there is one with no smaller one, and the claim holds when one
element is taken from it.

*The sandbox's threads.* `RealizedNeverLost` needs to know that the copy a
releasing thread holds still has the current `realized_pnl`. `LockInv`: a thread
at a step under the lock is the holder, and its copy agrees with the row there;
no step outside the lock writes that column. The other three properties speak of
the time before the first market order is in the book (`RestingSoFar`), because
after it they are false (`threads_duplicate`, and section 5); an order row never
goes back, so the condition, once lost, stays lost (`StillResting`), and what holds
under it is carried from step to step. `OneExecutor`: request threads stay outside
executions. `EngineInv`: an order the engine is about to trade has
no trade; between its trade and its write the row is one trade behind, and what
it will write is not. That gives `PositionIsTrades`, and `FillsOnce` even with
crashes. `CashInv`: each copy of the fund row that is going to be written back,
under the lock or by the reconciliation without it, is worth what the row is
worth; it stays so because only the engine books profit, and the engine does
one thing at a time.

*The strategy host.* `Inv` holds the types, `ThreadsOK` (the holder of the lock is
the one thread at a step that holds it) and `AdoptedIsOwn`, which is inductive
with them: an entry forgets its pid in the step in which the pid is freed, so a
pid that is given away is tracked for nobody. The count of downloads is bounded
by that of logins. `JobsMatch` needs `JobsInv`: before the first page there is no
job that is not scheduled (pages may schedule before anything is restored), and
the thread of that page keeps its task until it has brought the jobs back or
failed, in which case initialization is due again.

`RunningIsTracked` and `TrackedOnce` follow the life of an entry. `RestInv`: a
thread half way through the strategies has answered for those it has dealt with
(tracked, or not listed as running), and both the configuration in memory and
that on disk are fit to restore from, since a crash may leave either to the next
restoration. `TrackInv` adds `EntryInv`, that an entry that is not there has no
pid. What is not tracked then is accounted for one by
one (`FoundInv`): it is in `missed` for one of its three reasons, or it is still
to be found: the configuration names it, no entry is there, and whoever restores
its strategy has not yet passed it. Nothing is noted because the host settles.

*Webhook strategies.* `QueueInv`: one processor thread at most, and none unless
the flag says so; an order that is being sent has a place in the rate's window.
`WantInv`: for each symbol, what the account holds, with what every stage still
owes (the smart order read but not traded, the queue of smart orders, the
regular order being sent, the regular queue), is what was asked for.
`PositionIsWanted` is its special case with nothing owed. The part of the queue
is a walk along positions (`Sums`), so that adding at the end and taking from
the front need no induction over sequences. `ClosedAfterSquareoff` needs `DayInv`.
`TimesInv`: a strategy whose job is under way or done has its square-off time
behind it, so that no entry is accepted for it any more. For each symbol such a
job has passed, unless it is in `overrun`, no entry is on its way and the position
wanted is none or `Unknown`. Handlers and jobs do not hold the clock up, which is
why `overrun` has to be remembered at the step that queues the closing order. It
speaks of the symbols no other strategy maps; two strategies with one symbol share
the account's position.

The assumptions are those of the modules: the named `ASSUME`s on the constants
(finiteness of keys and threads, positive quantities, prices, leverages and
capacities, distinct markers). Each is evaluated by TLC on every run of its
module.

What is only model-checked. The violated properties are refuted by a run and
have no theorem. Liveness (`OpenOrdersSettle`, `CallsReturn`,
`ApprovedIsExecuted`, `QueuesDrain`) needs fairness and ENABLED, which are out of
the prover's reach. The invariants and action properties of the passing runs are
all stated by a theorem, four of them under hypotheses that exclude
counterexamples: `ImmediateOnly` (`BooksAgree`, and with `AmplePrices`
`ProfitAgrees` and `OpenPositionsAreMargined`) and `ExactAverages`
(`ProfitIsCashFlow`). The instance of `sandbox_market`, which checks them,
satisfies the hypotheses.

## 5. Findings

Three runs end in a violation of a sentence of the repository; `PROJECT.json`
quotes each.

1. A market order can fill twice: it is inserted as open before its own thread
   executes it, and the check for a trade is not atomic with the trade
   (`execution_engine.py:217`; the comment at `:215`).
2. Positions can stay open after the square-off time: the job lives in the
   scheduler's memory and is added only when a strategy is created
   (`chartink.py:171`, `:305`), so a restart loses it (`docs/chartink.md:130`).
3. A start that meets a restoration leaves a process that is alive and not
   tracked, beside a second one of the same strategy: restoration takes no lock and
   overwrites entries (`python_strategy.py:1460`;
   `docs/python_strategies/CHANGELOG.md:44`).

Seven more sentences are contradicted by behaviour the models contain. The
properties that come near them say what they leave out.

- A key that was compared before its replacement and is stored after the caches
  were cleared stays accepted for up to ten hours (`auth_db.py:413`); the docstring
  at `:322` says that old keys are not usable after regeneration, the comment at
  `:104` that the long time is safe. `VerifiedIsCurrent` allows exactly such a key
  (`late.keys`).
- Restoration that finds the contracts not yet downloaded forgets processes that
  are alive and would start them again (`python_strategy.py:1425`; the sentence of
  finding 3, and `complete-implementation-guide.md:264`, which asks to ensure that a
  strategy is not already running). `TrackedOnce` allows it (`missed.forgotten`).
- An entry that passed the time check can be queued after the square-off and
  reopen the position: nothing looks at the time again (`chartink.py:616`,
  `strategy.py:643`); `docs/chartink.md:129` says that orders are only placed
  between start and end time. `ClosedAfterSquareoff` leaves its symbol out
  (`overrun`).
- The square-off's order goes through the smart queue and overtakes an entry that
  waits in the regular one, which then opens a position nobody closes
  (`chartink.py:64`; `docs/chartink.md:130`). `want` is `Unknown` then.
- The reconciliation writes the balance without the lock that, by its comment,
  prevents races, and can undo the profit another thread has just booked
  (`fund_manager.py:515`, `:56`). It takes two threads that execute, so a market
  order; `CashIsKept` ends with the first.
- A cancellation that read an order as open commits after its fill: the order
  has a trade and is listed as cancelled (`order_manager.py:581`), although
  `docs/sandbox/03_order_management.md:258` says that no trade is created. No
  property of `SandboxThreads` relates the status to the trades.
- `used_margin` can become negative: every fill reconciles it with the positions
  alone, which frees what the other resting orders blocked, and cancelling one
  of those frees it again (`fund_manager.py:259`, `:469`), although
  `docs/sandbox/04_margin_system.md:1730` ensures that it does not. `BooksAgree` is
  claimed for market orders only.

Behaviour met while modelling, with or without a sentence that excludes it. The
models do as the code does, unless the behaviour is listed as left out in
section 2.

- *Sandbox*. Two resting delivery sells of the same shares both pass the check and
  both fill (`order_manager.py:197`). Cancelling an order that blocked nothing,
  because it reduced a position, recomputes a margin and releases it
  (`order_manager.py:599`). An order placed to reduce a position blocks nothing,
  and if the position is gone when it fills it opens one without margin
  (`order_manager.py:316`). The margin of a reversed position is a share of a
  margin that already was one: the comment at `execution_engine.py:510` takes the
  order's margin for that of its full quantity. The catch-up clamps `used_margin`
  at zero without correcting the balance (`catch_up_processor.py:110`). T+1
  settlement transfers quantity times price, which differs from the margin the row
  held when its orders rested at other prices (`holdings_manager.py:210`).
- *Threads*. A fill that read an order as open commits after its
  cancellation (`execution_engine.py:320`). Two fills that read the same position
  row lose one of the trades (`execution_engine.py:365`); `PositionIsTrades` holds
  only while the engine is alone in executing. A crash between a trade and its
  position loses the position, and one between a margin and its order the margin.
- *Feed*. The index keeps clients that have unsubscribed (`server.py:826`;
  `docs/WEBSOCKET_OPTIMIZATION.md:64` calls it synchronized). A client that
  authenticates again as another user leaves the former user's adapter connected
  (`server.py:478`). The pool does not count subscribers, so an unsubscribe or a
  departure of one client ends the broker's feed for the user's other clients
  (`server.py:802`). `stop()` names a module by a name it was not imported under
  (`server.py:209`). The throttle may drop the last tick before a pause
  (`server.py:976`).
- *Action Center*. Two overlapping approvals of one order execute it twice
  (`action_center_db.py:178`). A rejection that read the row as pending commits over
  an approval; the order is executed and listed as rejected (`:212`). A request
  that outlives its row acts on the order that got the row's id, and the
  broker's answer can be written to it (`:279`). An options multi-order is queued
  by its service and refused by the execution
  (`options_multiorder_service.py:649`, `pending_order_execution_service.py:131`).
  Approve-all lacks an argument and fails at its first order (`orders.py:873`).
  When the mode cannot be read the order is executed at once
  (`order_router_service.py:63`). An order approved before a restart is not
  executed after it (`orders.py:752`).
- *Webhook strategies*. A signal answered with success is lost if the process
  ends before it is sent; the queues are in memory. A request for the positions
  that fails is read as a flat position, and the smart order then trades the full
  target (`broker/angel/api/order_api.py:75`, and others like it). Only accepted
  orders count against the rate, by a time taken before the request
  (`strategy.py:126`). Smart orders go first: an exit queued after an entry can be
  sent before it, and while they keep coming regular ones are not sent at all. One
  request that is never answered stops both queues (`strategy.py:93`). A strategy
  that was switched off goes on trading by its cached row for up to five minutes,
  while its square-off job is already gone
  (`strategy_db.py:188`). The last minute of a window counts as inside it on one
  platform and not on the other. The checks of a strategy's name and times return
  a pair, and `if not` of a pair never refuses (`strategy.py:329`, `:336`).
- *Strategy host*. Deleting a running strategy calls, under `PROCESS_LOCK`, a
  function that takes it again: the page never returns and no strategy can be
  started or stopped until the application is restarted
  (`python_strategy.py:929`); `CallsReturn` is claimed of all other calls. The
  exit hook does the same (`:1394`). Stop finds a process by the pid of the file
  and does not ask whose it is, so that of another program can be ended (`:461`);
  restoration does ask (`:1451`). A strategy whose process died keeps its entry
  until a page is opened, and its scheduled starts are refused until then.
- *Session caches*. A token cached by API key survives a new login until it
  expires, although the docstring of the function says otherwise
  (`auth_db.py:511`, `:488`). What a reader fetched before a logout it may store
  after it (`late.name`). The session cookie of an earlier login, when it expires,
  revokes a newer one (`utils/session.py:68`).

## 6. What is not modelled, and the plan

Broker adapters are about 135 000 of the repository's 196 000 lines of Python:
each translates one request to one broker's HTTP or WebSocket API and keeps at
most a connection. What the modelled components need of them (an order is
accepted or refused, an answer is lost, a position is read or is not) is in the
models' failures; what else they do is wording of an external protocol, thirty
times over, and a model of it would be a copy. Most of the other large files are
rendering, floating-point analytics, table definitions, logs, a bot's messages
and scripts that use the platform from outside: no state of theirs decides
anything. The map therefore covers a small part of the lines and nearly all of
the modules that keep state across requests.

Where a modelled definition is coarser than its code:

- `SandboxNetting.Reduce` rounds the released share once. The code hands the
  unrounded amount to the fund row and to the position row, and each column rounds
  by itself (`fund_manager.py:258`, `execution_engine.py:486`), so that at a tie
  they can differ by a paisa. The model has no such difference.
- `SandboxEngine.SettleExpired` may take an expired instrument's position at any
  time after its expiry; the code also looks at the row's date and session. It is
  allowed more than the code does.
- `SessionCache`: the ORM's read and commit of one row are one step (2.7).

Hazards no property catches are listed with a note: what the code does and no
sentence of the repository excludes (an order approved twice is executed twice; a
reader's late token under the user's name; what a failed read of the positions
does until the next target; a trade whose position two threads both created).
Two pairs of callers are not composed: API calls of smart orders that overlap
(`sandbox_service.py:515`; the queue's processor sends one at a time), and the
backup square-off beside the scheduled one (`squareoff_thread.py:86`; each places its
orders as a request thread of `SandboxThreads` does).

Planned, in the order of what can go wrong in it:

1. Theorems: what survives of `CashIsKept` and `PositionIsTrades` with market
   orders; how far rounding can take a row from the cash flow of its trades when
   averages are not exact.
2. Strategies that share a symbol, and two platforms at once: each blueprint has a
   processor of its own, and they share the account.
3. Jobs that overlap: T+1 settlement and catch-up as further threads of
   `SandboxThreads`.
4. The proxy's start and stop, a user who changes broker, and the throttle.
5. Upload and editing of Python strategies beside their restoration.
