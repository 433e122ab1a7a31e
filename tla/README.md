# Formal verification of BHC Markets

TLA+ models of the parts of this repository that decide what happens to orders, trades, money,
sessions and prices, with the TLC configurations that check them and proofs for TLAPS. Every definition is
translated from the code under `src/`; `PROJECT.json` ("map") names the lines.

    tlc -workers 2 -config MatchingEngine.cfg MCMatchingEngine.tla     # one run
    tlapm MatchingEngineProofs.tla                                     # the proofs

## 1. The system

The repository is a TypeScript monorepo: an order engine (a long-lived Node process), a ledger
library over PostgreSQL, a backend API (accounts, auth, risk, admin), a market-data service, and
user interfaces.

| Component | State | Operations | Talks to |
|---|---|---|---|
| Order book (`order-engine/.../matching/order-book.ts`) | price levels of both sides, `orderIndex` | add, remove, fill, iterate, snapshot | called by the engine only |
| Matching engine (`matching-engine.ts`) | the book; order objects shared with it | `processOrder`, `cancelOrder`, `loadOrder` | events to the order manager |
| Order manager (`orders/order-manager.ts`, `order-repository.ts`, `index.ts`) | stop orders, `pendingTrades`, a flush interval | `placeOrder`, `cancelOrder`, `updateMarketPrice`, `flushTrades`, `recoverOrders`, shutdown | engines by direct call; PostgreSQL and Redis by awaited calls |
| Order book manager | a map from symbol to engine | routing | engines |
| Order validator | rate buckets | `validate` | order manager |
| Ledger (`packages/ledger`) | `ledger_balances`, `ledger_holds`, `ledger_entries` | credit, debit, holds, `settleTrade` | PostgreSQL transactions |
| Position manager, trade processor, fees | positions | fills to positions, fees | created by `index.ts`; nothing in the order path calls them |
| Risk gateway and risk service | cached limits | stateless checks | not consulted by `placeOrder` |
| REST, WebSocket, health | connections | plumbing | order manager |
| Account service (`backend/.../account`) | account rows | open, close, deposit, withdraw, lock, settle, freeze | PostgreSQL, read then write |
| Auth service (`backend/.../auth`) | users, credentials, sessions, reset tokens, codes | register, login, refresh, logout, password change, reset | PostgreSQL, several awaited writes |
| Admin service (`backend/.../admin`) | the audit log; rows of all the others | suspend, freeze, deposit, halt trading, list symbols, cancel orders | the other services, or SQL past them |
| Market-data collectors and registry | connection state, timers, subscriptions, a circuit | start, reconnect, subscribe, stop | external feeds, timers |
| Candles, normalizer, tick repository | a candle per symbol, a buffer | ticks, closing timer, batches, shutdown | PostgreSQL |
| Market-data stream and the app's provider | sockets, two subscription maps, reference counts | subscribe, broadcast, ping, reconnect | WebSocket in both directions |
| Trading routes, email worker, database package, types, other UIs | little or none of their own | proxying, rendering | - |

What is hard in it, and what makes each part correct:

* **Order book and engine.** Sequential, but with shared mutable structure: iterators over arrays
  that the loop splices, an index that every splice must repair, an aggregate computed from an
  object that was already changed. Correct when the index and the levels agree, levels are sorted
  and FIFO, fills equal trades, only live orders rest, trades honour both limits, and closed
  orders stay closed.
* **Order manager.** Concurrency between awaits, with failures: two handlers, the trigger loop,
  overlapping flushes, rejected calls, a crash between the engine's step and the row's. Correct
  when no trade is lost or doubled while the process lives, a trade is committed before it is
  published, what was accepted survives a restart, a cancelled order does not trade, and trades
  get out.
* **Ledger.** Concurrent transactions over the same rows. Correct when each operation is atomic,
  nothing is overdrawn, holds and held balances agree, the entries explain the balances, and
  opposed settlements do not block for ever.
* **Account service.** Read-compute-write without a transaction; correct when no update is lost
  and money is conserved.
* **Auth service.** Awaits between the check of a session and its replacement; correct when a
  session that was ended stays ended, a code or a reset token works once, and the limit of
  sessions holds.
* **Admin service.** A read, a check, an act and an audit entry, each a statement of its own, over
  rows that the platform writes meanwhile; correct when an order that is finished stays so and a
  setting changes only to what somebody meant.
* **Collectors.** Timers racing with connects, closes and a circuit; correct when one
  reconnection runs at a time, subscriptions survive it, an open circuit is respected, and the
  collector comes back.
* **Candles.** Late ticks racing with the closing timer, batches that fail, a shutdown; correct
  when each tick is in one candle and each period has the right one.
* **Market-data stream.** Reference counts on one side, two maps on the other, connections that
  break between them; correct when broadcasts reach exactly those who follow a symbol.

`PROJECT.json` lists the hazards at their lines, with the properties that cover them or the reason
why none does.

## 2. The modules

| Module | What it is |
|---|---|
| `OrderBook` | data structure of one symbol: pure operators for levels, index, insertion, removal, snapshot |
| `MatchingEngine` | EXTENDS `OrderBook`: the engine as a state machine, one step per loop iteration |
| `OrderLifecycle` | abstract: what may happen to an order, without a book |
| `MatchingEngineProofs` | lemmas about the operators of the book; the inductive invariant and theorems of the engine |
| `SumProofs` | lemmas about sums, sequences that weigh what their elements weigh, largest elements and folds |
| `OrderManager`, `OrderManagerProofs` | the process around the engine: handlers between awaits, tables, flushes, crash and recovery; theorems |
| `TradeOutbox` | abstract: what may happen to a trade, without batches, timers or retries |
| `LedgerOperations` | rows and operations of the ledger |
| `Ledger`, `LedgerProofs` | transactions statement by statement under row locks; theorems |
| `AtomicLedger` | abstract: the operations one at a time |
| `AccountService`, `AccountProofs` | wallets of the backend, statement by statement; theorems |
| `AuthSessions`, `AuthProofs` | sessions, credentials, codes and reset tokens of one user; theorems |
| `AdminService`, `AdminProofs` | the administrators' operations against the rest of the platform; theorems |
| `MarketSymbols` | the instruments of the market data service, shared by its three modules |
| `Collector` | life cycle of a collector and its registry |
| `Candles` | validator, aggregator, buffer, inserts, shutdown, queries |
| `MarketStream` | the app's provider composed with the WebSocket server |
| `MarketDataProofs` | theorems about these three |
| `MC...` | instances of the modules for TLC |

### OrderBook and MatchingEngine

`levels[side]` is `bids` or `asks`: a sequence of records with price, queue of order ids and
aggregate; `index` is `orderIndex`. The comparator of `addToBids`/`addToAsks` is `Better`, the
binary search is its post-condition `IsInsertionPoint` (the search is over a sorted array, and
`LevelsSorted` is checked and proved), the splices are `AddAt` and `RemoveFrom`, and
`reindexLevels` is `Reindex`.

`processOrder` is synchronous, so no other operation runs until it returns. `ProcessOrder`
starts a call and puts the order in `taker`; each iteration of the loop is a step
(`ExecuteTrade`, `SkipMaker`, `NextLevel`), and `Fill`, `DropRemainder` and `Rest` return.
`cursor` holds the *slots* of the two nested JavaScript array iterators. They do not follow the
elements when a filled maker, or its emptied level, is spliced out underneath them, and the model
does exactly that. `trades` and `announced` are the events emitted; `feed` is the depth a
subscriber holds who applies every `book_update` to a first snapshot. The history variable `drift`
is what was traded from the level of a price since it was opened.

Left out: `currentPrice`, `averagePrice`, `updateId` and `pendingUpdates`, which nothing reads;
stop types, which the engine rejects at once; the routing by symbol. GTD shares the branch of
GTC, and nothing expires it. A recovered market order, whose price is undefined, is not in this
module (see `RemaindersStayCancelled`); a recovered stop order that already has fills is only in
`OrderManager`.

### OrderManager

A handler runs without interruption from one `await` to the next. Each handler is therefore one
action per awaited call: the call takes effect or rejects, and the code up to the next call runs.
`placing`, `cancelling`, `firings` and `flights` say which call each running `placeOrder`,
`cancelOrder`, `updateMarketPrice` loop and `flushTrades` waits for. `stops` is the set of the ids
in the list `stopOrders`, whose order is the order of arrival: `Trigger` takes the ones it fires in
ascending order.

| Code | Actions |
|---|---|
| `placeOrder`, `handleStopOrder` | `PlaceOrder`, `PlaceStopOrder`, `SaveOrder`, `UpdateOrder`, `AnswerOrder`, `PlaceFails` |
| `cancelOrder` | `ReadForCancel`, `CancelInEngine`, `CancelRow`, `AnswerCancel`, `CancelFails` |
| `updateMarketPrice`, `checkTriggers` | `Trigger`, `UpdateTriggered`, `NextTriggered`, `LastTriggered`, `TriggerFails` |
| `flushTrades`, its interval | `TimerFlush`, `SaveTrades`, `PublishTrade`, `FlushFails` |
| `performShutdown`, process exit, `recoverOrders` | `Shutdown`, `Exit`, `Recover` |

Prices are abstracted: which resting orders a taker meets is any choice in which each trade takes
all that one of the two has left. This over-approximates the engine, whose own behaviour is
checked in `MatchingEngine`; the properties here do not depend on price. "ioc" stands for IOC and
FOK, whose rows are written alike, and "limit" for GTC and GTD.

Assumptions of the model: a rejected call leaves the database as it was, except that a batch may
be committed and a later publish of it rejected; at most one `cancelOrder` per order runs at a
time; `Exit` (a crash, or the end of a shutdown) happens at most `MaxRestarts` times; a failed
read in `getOpenOrders` is a stutter. `order-repository.ts` uses the result of `getDbClient()`,
which is asynchronous, without awaiting it. The model describes what the repository functions are
written to do: each call takes effect or rejects.

Seen in the model and not contradicted by any document: a stop order that was not triggered
cannot be cancelled (`order-manager.ts:271` answers success only when the book had the order);
when a call rejects inside the trigger loop, the stop orders after it are forgotten until a
restart; a failed final flush leaves the process in shutdown.

### Ledger

PostgreSQL runs each call in a READ COMMITTED transaction. A call's `work` overlays the committed
`balances`; its domain is the set of rows the transaction has locked. `SELECT ... FOR UPDATE`,
`UPDATE` and `INSERT ... ON CONFLICT` wait for a row in somebody else's work; a plain `SELECT`
sees what is committed; what a transaction does with rows it holds is one step.

| Code | Actions |
|---|---|
| `withTransaction` | `Start`, `RollBack` in every failing step, `Crash` |
| `updateBalance`, for credit, debit and each leg of `settleTrade` | `FindNoRow`, `Upsert`, `UpdateBalance`, `Insufficient` |
| `insertEntry`, the holds of a settlement, COMMIT | `Commit` |
| `createHold` | `TakeHold`, `RefuseHold` |
| `releaseHold`, `consumeHold` | `ReadHold`, `FindNoHold`, `ReleaseHoldRead`, `ConsumeHoldRead` |
| PostgreSQL's deadlock detection (external) | `DeadlockAbort` |

`FindNoRow` and `Upsert` are separate because FOR UPDATE locks nothing when there is no row;
`ReadHold` is separate because it takes no lock. `entries` is the sum of the entries of a key
without those of type `fee`, since the trade entry of the same settlement already contains the
fee. `consumed` records what consumed holds took away, for which the code writes no entry.
`initializeBalance` is the initial state. Events and queries change nothing and are left out.

The callers are any: two of them may use one hold, take one twice, consume a part of it, be the
first to credit a balance together, or debit one that is not there. The history variable `faults`
names the three things that the ledger's locks and checks let through, when a call commits that did
one: `"overwrite"`, it found no row and its upsert replaced one made since; `"debit"`, it found no
row and wrote a negative amount; `"hold"`, it changed a balance by a hold that is not what it read.
The properties say that nothing else makes a balance negative, a hold disagree with what is held,
or an entry fail to explain its balance; the configurations of section 3 show each of the three.
Amounts are integers: the code adds floating point numbers rounded to ten decimals, which is
exact for small integers and is not modelled beyond them.

### AccountService

Each call is a sequence of statements: `Read` (and `ReadCredit` of a settlement) fetch rows and run
the validator, `Write` (and `WriteCredit`) update columns with values computed from what was read.
`Sets` says which columns each UPDATE sets, which decides what two overlapping calls can do to each
other: a deposit and a lock write different columns, so neither loses the other's.

| Code | Actions |
|---|---|
| `deposit`, `withdraw`, `lockFunds`, `unlockFunds`, `closeAccount`, `freezeAccount`, `unfreezeAccount` | `Read`, `Write` |
| `settleTrade` | `Read`, `ReadCredit`, `Write`, `WriteCredit` |
| `createAccount` | `Exists`, `Create` |
| a statement that rejects | `Reject` |

There is no lock, so the model has lost updates. The history variables tell where: `ought` is each
row as if every write had been applied to it in one step, and `late` collects the columns that were
written while another call relied on having read them. The properties say that everything which is
lost, torn or reopened is a column in `late`. Nothing else goes wrong. The two accounts of a
settlement are distinct.

Seen in the model: a frozen account refuses deposits, though the comment at `account.service.ts:409`
says that it receives them (`validateDeposit` asks for an active account); unlocking and settling do
not look at the status, so a closed account can be settled against; two overlapping `createAccount`
leave two wallets of one currency; `LockedFundsCovered` (`account.service.ts:298`) is kept only while
calls of an account do not overlap.

### AuthSessions

One user, with any number of sessions up to a bound. `db` holds the tables, `calls` the statement
each running call waits for, with what it has read. A check that fails before any write ends the
call unseen and is a guard.

| Code | Actions |
|---|---|
| `register`, `authenticate`, `issueInitialSession`, `pruneSessions` | `Register`, `InsertUser`, `InsertCredential`, `Login`, `Verify`, `CreateSession`, `List`, `Prune` |
| `refreshSession`, `rotateSession`, `logout`, `logoutAll` | `Refresh`, `FindUser`, `Rotate`, `Logout`, `RevokeOne`, `LogoutAll` |
| `updatePassword`, `requestPasswordReset`, `confirmPasswordReset` | `UpdatePassword`, `RequestReset`, `CreateReset`, `ConfirmReset`, `FindCredential`, `Change`, `EndAll`, `MarkReset` |
| `generateAuthCode`, `exchangeAuthCode` | `GenerateCode`, `Exchange`, `MarkCode`, `CodeUser`, `CodeCredential`, `CreateSession` |
| suspension, expiry, a statement that rejects | `SetStatus`, `Lapse`, `Reject` |

`pruneSessions` leaves its own session out before it counts the surplus (`auth.service.ts:198-202`),
so a user is left with one session more than the limit. `OneMoreThanLimit` says that it is one and no
more, whatever overlaps; `SessionsWithinLimit` is what `auth.config.ts:39` says, "Maximum concurrent
sessions per user", and `SessionLimit.cfg` shows that the code does not keep it.

The other properties are true of the code because they name its exceptions: a refresh that read a
session before it was ended makes it active again (`replaceRefreshToken` sets the status
whatever it is), a login that read the credential before a password change creates a session
of the old password, and a code presented twice before it is marked gives two sessions. The header
of the token manager says that password changes end sessions; `PasswordChangeEndsSessions` is that
statement without the exceptions, and is not kept under those races. Left out: hashing, signing,
emails, counters of failed attempts, last login, and the account that registration creates.

### AdminService

`Begin` is the part all operations share: the permission by the role in the access token, the read
and the check. `Act` is the write by the service or the SQL adapter of `admin.api.ts`, `Record` the
audit entry. Deposits and withdrawals go through the account service, which reads and checks again
(`ReadInner`) and is read once more for the entry (`ReadAgain`); `CancelNext` is one round of the
loop of `cancelAllOrders`. `Fill`, `Trade`, `Lock`, `CloseAccount` and `RenewToken` are what the
platform does of its own accord. `After` says what each operation writes, `Merged` how a symbol's row
is made of the input and the row that was read. What an entry says is left out, since nothing reads
the log; `entries` counts them.

The service's interface asks for the caller's id. The API passes a field that the claims of a token do
not have: the check against oneself then never applies, and the audit table, which needs the id,
rejects each entry after the act. A call of the model comes with or without the id (`Identified`), and
the properties of the run hold of both. Each operation decides by what it read and writes by the id
alone, so the properties name the race: `FinishedStaysFinished` says that a filled or cancelled order
is written only by a cancellation that had read it open, `SettingsAreMeant` that a setting of a symbol
is changed only to what a call was given, or back to what a call had read, since `upsertSymbol`,
`enableSymbol` and `disableSymbol` write the whole row.

Seen in the model: a role in a token outlives its revocation until the token is renewed; two
overlapping activations of the circuit breaker leave two active events, and one deactivation ends one
of them. Left out: the read-only lists, dashboards and reports, and breakers of single symbols.

### Collector

| Code | Actions |
|---|---|
| registry `start`, `subscribeToSymbols` | `Start`, `Subscribe`, `Subscribed` |
| `doConnect` resolves or fails, under `start` or `attemptReconnect` | `Connect`, `FailStart`, `FailReconnect`, `LoseReconnect` |
| `scheduleReconnect`, its timer | `ScheduleReconnect` in the failing steps, `AttemptReconnect` |
| the circuit's cooldown; `getHealth` | `Cool`, `GetHealth` |
| socket events, rate-limited polls | `SocketError`, `SocketClose`, `RateLimit` |
| `unsubscribe`, `stop` | `Unsubscribe`, `Stop` |
| availability of the source (external) | `Flip` |

`kind` makes one module of the two collectors: Binance over a socket, Yahoo by polling.
`timers` is a sequence because `scheduleReconnect` keeps only the handle of its last timer; that it
never has two elements is what `OneReconnect` says. The maximum number of attempts is infinite by
default and never set. The class `CircuitBreaker` and the retry helpers have no caller.

`attemptReconnect` forgets the symbols and subscribes them again inside its `try`
(`base.collector.ts:417-421`), whose `catch` would schedule another attempt while connected. That
never happens, so `Resubscribe` has no failing branch. For Binance, `doConnect` is resolved in the
`open` event, and what follows the await runs in the microtasks of that event: no close or error comes
between, the state is `connected`, and `ws.send` on an open socket does not throw. For Yahoo,
`doSubscribe` awaits `pollSymbols`, which catches every error of its source (`yahoo.collector.ts:219-270`);
what may happen during that poll (`asking`) is in the model: `Stop`, `RateLimit`, `Unsubscribe`.

Seen in the model: a reconnection over a socket that fails is never answered (`Recovers`, below);
the registry subscribes each collector once, so one that was not connected then never gets its
symbols; `stop` during an awaited connect is overtaken by it; asking for the health of a collector
closes a cooled circuit.

### Candles

`Receive` is a tick from the validator through the normalizer into `processTick`;
`FlushCompletedCandles` is the aggregator's timer; `FlushBuffer`, `Commit` and `Fail` save batches;
`StopService`, `StopAggregator` and `CloseDatabase` are the shutdown in the order of its awaits.
`Duplicate` skips a tick with the price of the last one whose time is within `RepeatWindow` of it on
either side. `Aggregate` is `aggregateCandles`, a fold with one step per minute (`AddCandle`). `Query` is
the set of the answers that `queryCandles` may give: the rows of a symbol from one time to before another,
by time, where rows of one time come in any order, and of these the first up to the limit. `GetCandles`
asks for twice the limit and aggregates. `TicksOf` are the positions of the ticks of a period among those let through, and `CandleOf`
the candle they make by definition. `OneCandlePerPeriod` compares a minute with it, wherever its candle is,
and `AggregatesTellTicks` what every answer aggregates to, for every range that holds the whole longer
period and every limit that is not used up before its end. `late` marks the periods that a late tick disturbed: its own, which gets a second candle,
and the one whose builder it closes early. A source that is delayed makes every tick late, so its
periods have several candles each.

Seen in the model: the shutdown flushes the buffer before the aggregator closes its candles into it;
failed batches are dropped; a longer candle at the start of the range or at the limit is made of the
minutes that the query returned. `getRecentCandles` asks for a range that starts at any moment
(`historical.service.ts:98-109`), so its first longer candle is cut short as a rule, and as rows that
late ticks doubled use up the limit, so may its last. Not modelled: the volume of a candle (which sums the 24-hour volumes the
ticks carry), the price cache, the enrichment of ticks.

### MarketStream

The provider (`MarketDataContext.tsx`) and the server (`websocket.server.ts`,
`subscription.manager.ts`, `connection.manager.ts`) composed, with `wire` between them. A socket's
name is free again when both sides have forgotten it (`Free`), so the model has any number of
connections one after the other and up to `MaxSockets` at a time.

| Code | Actions |
|---|---|
| `subscribe`, `unsubscribe`, `connect`, `onopen`, `onclose`, cleanup | `SubscribeSymbol`, `UnsubscribeSymbol`, `Reconnect`, `Open`, `OnClose`, `Unmount` |
| `handleMessage`, the rate limit's window | `HandleMessage`, `WindowEnds` |
| close event, heartbeat, pong | `Disconnect`, `Heartbeat`, `Pong` |

The server takes subscriptions of the symbols it knows only (`Listed`, which is `SYMBOL_MAP`); a component
may follow others, of which it then gets nothing. The run lists all its symbols, and the theorem is
for any `Listed`.

Seen in the model: `onclose` of an old socket forgets the new one; the cleanup of the provider clears a
running timer but keeps its handle, so that an `onclose` which comes later sets none, and without one
sets a timer although the provider is gone; a subscription refused by the rate limit is never asked for
again (connections with one are exempt). The platform app does not mount the provider yet. Left out: the throttling of `TickPublisher`, the limit of 100 subscriptions, payloads.

## 3. The runs

All bounds are constants of the `.cfg` files. Deadlock checking is off, since each of these
systems stops when no more orders are placed, no calls come or the restarts are used up.

| Run | Bounds | States | What it shows |
|---|---|---|---|
| `matching_engine` | 3 orders (1 recovered), 2 prices, quantity 2, every type and time in force | 156 thousand | `RestingAreLive`; `FillsAreTrades` (every fill is a trade and no order is overfilled); refinement of `OrderLifecycle`; `CallsReturn` |
| `order_book` | 4 orders (1 recovered), 3 prices, quantity 2, limit and market orders | 2.5 million | `IndexAgrees`, `LevelsSorted`, `FifoWithinLevel`, `TradesHonourLimits`, `TakerWalksAway`, `FeedFollowsBook`, `GoneStaysGone` |
| `order_manager` | 3 orders, 2 calls at once, 1 restart, 1 rejected call of any kind, batches of 2 | 912 thousand | `TradesAccountedFor`, `AcceptedIsRecoverable`, `RowsLagBehindTrades`, `CancelledStaysOut`, refinement of `TradeOutbox`, `TradesGetOut` |
| `ledger` | 4 calls at once, 3 accounts with 2 assets, one without balances, 2 holds | 50 thousand | `NeverOverdrawn`, `HeldIsHolds`, `EntriesExplainBalances`, refinement of `AtomicLedger`, `CallsEnd` |
| `accounts` | 2 holders, 2 accounts, 2 calls at once, 6 in all, amounts up to 2 | 179 thousand | `UpdatesAddUp`, `UndisturbedSolvent`, `MoneyConserved`, `ClosedStaysClosed` |
| `auth_sessions` | 1 user, limit of 1 session, 2 calls at once, 5 in all, 4 sessions, 5 tokens | 295 thousand | `OneMoreThanLimit`, `OldSessionsExplained`, `SingleUse`, `EndedStaysEnded` |
| `admin` | 2 of staff, 1 wallet, 2 orders, 1 symbol, 2 calls with or without an id, 1 step of the platform | 2.1 million | `FinishedStaysFinished`, `SettingsAreMeant` |
| `collector` | 2 symbols, a circuit that opens at 5 failures | 540 | `OneReconnect`, `SubscribedAreFollowed`, `NoAttemptWhileCooling`, `PollRecovers` |
| `candles` | 2 symbols, 2 prices, 3 ticks, periods of 2, the clock up to 3, ticks up to 2 late or 1 early, repeats within 1, batches of 2 | 842 thousand | `EveryTickCounted`, `CandlesTellTicks` |
| `market_stream` | 1 symbol, 2 components, 2 connections at a time, 2 messages in transit, 2 requests per window | 485 thousand | `BroadcastsReachFollowers`, `SilentClientsGo` |

Each module's `TypeOK` (`StreamTypeOK`, `CandleTypeOK`) documents the types of its variables. It is proved for
`MatchingEngine`, `Ledger`, `OrderManager`, `AdminService`, `Candles` and `MarketStream`; for the others it
can be added to the configuration.

Why the bounds are enough. In the book, three levels and four orders reach the splice of a first,
middle and last level and of a first and a later order of a queue, a taker that walks two levels,
and a taker that rests afterwards. Quantity 2 separates partial from complete fills on both sides.
In the order manager one order rests, one is armed and may fire, and one takes from both; batches
of 2 let a full batch, the interval and a retry overlap; one failure and one restart at any moment
reach each error path and each loss of memory. In the ledger two settlements lock the same rows in
opposite orders (the deadlock), the buyer's balance is low enough for withdrawals and settlements
to fail at different legs, and one account has no rows yet. The seller's hold is consumed by two
settlements or by one and a cancellation, a part of it or all; the buyer's is taken, taken again,
released or consumed while they run; two calls credit the missing balance at once, and a settlement and
a debit take from what is not there.

In the wallets two overlapping calls are what a race needs, and the calls before them bring accounts
to every balance; a third concurrent call adds no new kind of interference, since `late` is defined
by pairs. For sessions a limit of 1 lets the second login prune, and five calls are enough for a
refresh, the logout or password change that races with it, and the login before. Two administrators
and one step of the platform reach each order of read, write and read again of one row; the two
orders are for the loop of `cancelAllOrders`, and an upsert gives one field of a symbol or none. The collector's counters matter up to the threshold
only, so its state space is complete. Three ticks over three periods reach an early, a late and a
current one, a longer period with two minutes and one of the two outside the range or over the limit;
batches of 2 let one be full and one be flushed by
the timer or the shutdown. In the stream two connections at a time are an old one whose close the
server or the provider has not seen and a new one, and names are reused.

`FeedFollowsBook` says exactly what a subscriber has: the number of orders resting at each price, also
where none rests, and as quantity what these can still trade (`Offered`) plus `drift`. `executeTrade`
raises `filledQuantity` of the maker before `updateOrderFill` computes the difference to it, so the
aggregate keeps what was traded, and the update for a level that disappears carries a quantity that is
not 0 (`RemovedLevels.cfg`). `RowsLagBehindTrades` bounds rows from above only, because the rows of
makers are not updated. `MoneyConserved` counts the debit of a settlement that was cut short as a place
where money is, and `EveryTickCounted` the batches that failed: they describe these two losses and
exclude every other.

### Where the code does not do what the repository says

Each of these runs checks one statement and TLC finds a behaviour of the code that violates it.

| Run | Statement | What the code does |
|---|---|---|
| `price_time_priority` | `matching-engine.ts:9-10`, best price and earliest order first | when a filled maker is spliced out, the live iterators skip its neighbour |
| `collector_recovers` | `base.collector.ts:21`, automatic recovery after the cooldown | a socket of `attemptReconnect` that fails is neither resolved nor rejected, so nothing schedules the next attempt |

Further configurations beside the runs, each for one more statement that the code contradicts; TLC
reports the violation when they are run by hand
(`tlc -workers 2 -config FillOrKill.cfg MCMatchingEngine.tla`). None of the passing runs leaves these
behaviours out: their properties say what is left of the statement when they happen.

| Configuration | Module | Property | Statement | What the code does |
|---|---|---|---|---|
| `FillOrKill.cfg` | `MCMatchingEngine` | `FillOrKill` | `matching-engine.ts:23`, fill entirely or reject | the FOK check runs after the trades, which stay |
| `RemaindersStayCancelled.cfg` | `MCOrderManager` | `RemaindersStayCancelled` | `matching-engine.ts:262`, the rest is cancelled | the row stays open and recovery puts the rest in the book |
| `NeverOvertraded.cfg` | `MCOrderManager` | `NeverOvertraded` | `order.types.ts:52`, quantity already filled | rows of makers are never updated; after a restart they trade again |
| `RemovedLevels.cfg` | `MCMatchingEngine` | `RemovedLevelsShowZero` | `order-book.ts:37`, 0 means level removed | the aggregate keeps what was traded, so the update for a level that is gone carries it |
| `FlushRetry.cfg` | `MCOrderManager` | `RetriesSucceed` | `order-manager.ts:456`, put back for retry | if the batch was committed before publishing failed, each retry hits the primary key, for ever |
| `FirstDeposits.cfg` | `MCLedger` | `LocksPreventRaces` | `ledger.repository.ts:149`, row locks prevent races | two first credits both upsert; the second replaces the first |
| `DebitWithoutRow.cfg` | `MCLedger` | `DebitsThrow` | `ledger.service.ts:211`, will throw if insufficient | a debit of a missing row is upserted without a check; available becomes negative |
| `CancelledTwice.cfg` | `MCLedger` | `HeldIsReserved` | `ledger.repository.ts:11`, `ledger.types.ts:65` | two releases both read the hold and both apply it; held becomes negative |
| `CreditsEqualDebits.cfg` | `MCLedger` | `CreditsEqualDebits` | `ledger.service.ts:8`, every credit has a debit | `settleTrade` debits the available balance and consumes the hold too |
| `SessionLimit.cfg` | `MCAuthSessions` | `SessionsWithinLimit` | `auth.config.ts:39`, maximum concurrent sessions per user | the new session is left out before the surplus is counted, so one more stays |
| `ClosedForGood.cfg` | `MCAdminService` | `ClosedForGood` | `account.types.ts:52`, permanently closed | the admin adapter freezes by SQL and then unfreezes a closed account |
| `AdminRollback.cfg` | `MCAdminService` | `FailedCallsLeaveNothing` | `admin.service.ts:13`, rolled back when any step fails | there is no transaction: a failed audit entry leaves the act |
| `CancelsMatching.cfg` | `MCAdminService` | `CancelsMatching` | `admin.service.ts:905`, orders matching the filters | the query ignores the account (`admin.repository.pg.ts:653`) |
| `CandlesFlushed.cfg` | `MCCandles` | `RemainingAreFlushed` | header of market-data `index.ts`, flush remaining candles | the buffer is flushed before the aggregator closes its candles into it |

Also visible in the ledger's source and in no run: the idempotency keys that `ledger.service.ts:13`
announces are never written or looked up.

## 4. Fairness

* `MatchingEngine`: `WF(Process)`. A synchronous call that started runs on; the event loop cannot
  leave it. Clients owe nothing.
* `OrderManager`: `WF(TimerFlush)` and `WF(Flush)`. `setInterval` keeps firing while the process
  is up, and a promise of the database or of Redis settles. Nothing is assumed of clients, price
  ticks, crashes or recovery. `TradesGetOut` allows for the process stopping. `order_manager`
  bounds the number of rejections, so it shows that trades get out once calls stop failing, with one
  exception: a trade event that rejects after the commit puts its batch back under ids that are in the
  table, and each retry fails (`Blocked`). `FlushRetry.cfg` shows this against the code's own comment.
* `Ledger`: weak fairness of each call, and of the database breaking a cycle. A statement whose row
  is free runs; PostgreSQL's deadlock detector always runs. No fairness for crashes or new calls.
* `Collector`: `WF(Elapse)`, since timers fire and the cooldown passes, and `WF(Settle)`, since a
  connect to a source is answered or times out. `PollRecovers` and `Recovers` also assume that the
  source answers from some time on (`<>[]up`).
* `MarketStream`: `WF(Heartbeat)`, the server's interval. Nothing is assumed of browsers.
* The other modules state safety only.

## 5. What is proved

`MatchingEngineProofs` proves, for every value of the constants that satisfies
`BoundsAssumption` (the bounds are natural numbers) and `KindsAssumption` (the kinds that are
placed are among those of the engine):

| Theorem | States |
|---|---|
| `Inductive` | `Spec => []IInv` |
| `TypeCorrect` | `[]TypeOK` |
| `IndexCorrect` | `[]IndexAgrees`: `orderIndex` and the levels describe one book |
| `LevelsCorrect` | `[]LevelsSorted`: strictly sorted from the best price, no empty level |
| `RestingCorrect` | `[]RestingAreLive` |
| `FillsBounded` | `[]NoOverfill` |

The argument. `IndexAgrees` alone is not inductive: insertion is correct only in a sorted side
whose entries are distinct, and removal only if the id it is given stands where the index says and
the rest of the index does not mention it. The module therefore begins with `Sound(lv, idx,
side, Ids)` (levels and index agree in both directions, levels are not empty) and `Sorted`, and
shows for the pure operators that `AddAt` with `IndexAfterAdd`, `RemoveFrom` with
`IndexAfterRemove`, and a partial fill preserve both, and which orders stand where afterwards.
`IInv` is the conjunction of `TypeOK`, that `BookInv` for both sides, `Live` (whatever stands in
the book has a side, price, kind and remainder that fit, and is not the taker), `Priced` (market
orders, and only they, have no price), `NoOverfill` and `Fresh` (ids not yet used have no fills).
`Live` is what makes `ExecuteTrade` safe: it gives the maker at the cursor a positive remainder or
lets `SkipMaker` pass it. `Fresh` gives a new order its empty history, `Priced` the price of each
trade. There is one lemma per action (`LoadOrderInv` ... `ExecuteTradeInv`), joined in `NextInv`.

Seven more theorems of `MatchingEngineProofs` build on the inductive invariant `IInv` of the engine.

| Theorem | States |
|---|---|
| `TradesCorrect` | `[]TradesHonourLimits`: an older maker of the other side, at its price, within both limits |
| `WalkCorrect` | `[]TakerWalksAway`: the trades of one taker never get better |
| `FillsCorrect` | `[]FillsAreTrades`: what an order has filled is the sum of its trades |
| `FeedCorrect` | `[]FeedFollowsBook`: who applies every depth update has the number of orders at each price, and what they can trade plus the drift of that level |
| `LifecycleImplemented` | `ImplementsLifecycle`: the refinement of `OrderLifecycle` |
| `GoneForGood` | `GoneStaysGone`: what has left neither returns nor trades |
| `FifoCorrect` | `[]FifoWithinLevel`: orders of a level stand in the order of arrival |

* *Trades.* `TInv` adds `Newest`: the order inside `processOrder` is the last that arrived, and
  recovery runs without one. So every maker is older. The price of the level is the maker's own by
  `Live`, and `AtLevel` says that the taker accepts it. For the walk, `Ahead` says that no level the
  loop still has to look at is better than a trade of its taker. That holds although the iterators
  skip levels: what is spliced out stands behind the slot, and what slides back is no better.
* *Life cycle.* The lemmas `AddRests` and `RemoveRests` say which orders rest after an insertion and
  after a removal: one more, one less, and no other changes. With them each action is shown to be
  `Admit`, `Take`, `Settle` or `Withdraw` of the abstract module, or a stutter. `GoneStaysGone` needs
  `Answered` (only orders that arrived have a result) and that each step touches orders that are not gone.
* *Fills.* A trade adds one record to the trades of two orders and its quantity to the fills of
  both; no other step touches either. The sum over the longer list is the old sum plus the new term.
* *Feed.* `DInv` adds `FeedShows`: at every price the feed shows the level of the book or its absence.
  A handler changes one level and publishes that one (`ShowsTheRest` for the other prices); prices are
  distinct in sorted levels, so a level that is spliced out leaves none at its price. What a level
  counts is then the number of orders resting at its price (`OrdersOfLevel`). For quantities, `Totals`
  says that the aggregate of every level is what its orders can still trade and what was traded from it,
  and `FeedExact` that so is what the subscriber holds. An order that is added or cancelled changes the
  aggregate and the sum of what is offered alike; a trade moves its quantity from what is offered to the
  drift and leaves the aggregate as it is; a new level starts without drift.
* *FIFO.* An order that is added is younger than all that rest, so it belongs at the end of its
  level, and a removal keeps the relative order of the others, wherever it splices.

`AccountProofs` proves, for any number of accounts, calls and any amounts (`AccountBounds`):

| Theorem | States |
|---|---|
| `AccountInductive` | `Spec => []IInv` |
| `WritesAddUp` | `[]UpdatesAddUp`: a column nobody wrote under another call is the sum of its writes |
| `AccountsCovered` | `[]UndisturbedSolvent`: such an account covers what it locks |
| `ClosedForGood` | `ClosedStaysClosed` |
| `MoneyIsConserved` | `[]MoneyConserved`: while no write was late, balances and what is in transit add up |

The argument: `CallsFresh` says that what a call has read *and relies on* is what the row still
holds, unless that column is in `late`. A write changes only the columns its operation sets
(`RestIsKept`), and computes them from the columns it uses (`SetsWhatItUses`), so it either keeps
what others have read or marks it late. A column that is not late then equals its sum before and
after each write, and the check that the call made when it read still protects the row
(`ValidKeepsSolvent`).

For money, `OughtConserved` speaks of the rows as they ought to be: each write adds to them what its
operation moves, late or not, so they lose nothing whatever calls disturb each other. While no
write was late the rows are what they ought to be.

`LedgerProofs` proves, for any keys, orders and amounts and any calls (`KeyAssumption`, `MenuAssumption`),
when the books are in order at the start (`OpeningAssumption`: no balance is negative, and each holds what
the holds on it add up to):

| Theorem | States |
|---|---|
| `LedgerInductive`, `LedgerTypeCorrect` | `[]IInv`, `[]TypeOK` |
| `NeverOverdrawnCorrect` | `[]NeverOverdrawn`: only a debit that found no row makes a balance negative |
| `EntriesExplain` | `[]EntriesExplainBalances`: only a call that wrote over a row made since it looked leaves a balance unexplained |
| `HeldIsHeld` | `[]HeldIsHolds`: only such a call, or one that used or replaced a hold it had not read, makes holds and balances disagree |
| `LedgerIsAtomic` | `ImplementsAtomic`: every step that is not such a fault is one operation of `AtomicLedger` or none |

Nothing is asked of the callers: any of them may use any hold and be the first to write a balance. A fault
is a fact about one statement of one call and the row it writes, recorded when that call commits. So the
theorems say that the three faults are all there is: neither how transactions interleave, nor the order of
their locks, nor deadlocks, rejected statements, crashes or the partial consumption of a hold adds a fourth.

The argument: `IInv` says that a row under work has one owner (`Locked`), and how far each call has
come in its statements (`Progress`). On it, `NInv` adds that a committed row, or one in somebody's work,
that is negative was made by a debit which that call's commit records. `BInv` adds `View`, that a call
sees the committed balance plus the legs it has written (`Partial`, a sum over the legs done) unless it
has written over the row, and `Rows`, that there are no funds where there is no row. So what a commit
writes is what was committed plus all legs, or the fault is recorded. A statement on a hold moves as much
in the balance as in the hold when the hold is what the call had read, and records a fault when it is
not (`OneHoldChanges`). With this each commit and each statement on a hold that records no fault is one
operation of `AtomicLedger`, and every other step a stutter.

`AuthProofs` proves, for any number of calls and any bounds on sessions and tokens:

| Theorem | States |
|---|---|
| `OldSessionsAccounted` | `[]OldSessionsExplained`: an active session of an older password has one of three causes |
| `EndedForGood` | `EndedStaysEnded`: only a refresh that read it earlier revives a session |
| `UsedAtMostOnce` | `[]SingleUse`: a code or reset token works once, unless presented again before it is marked or cut short |
| `PruningLeavesOneMore` | `[]OneMoreThanLimit`: when no login has yet to prune, at most one session more than `MaxPerUser` counts |

The argument: `Linked` says that tokens belong to sessions and that a refresh which is under way
had read its session while that was active. Most statements neither touch sessions nor the
password (`HarmlessStep`). `EndAll` leaves no session active; a login that read the older
credential is remembered as overtaken when it creates its session, a refresh that writes after the
session ended as revived, and a change that keeps the sessions as kept.

For single use, `UInv` says of each code and token that it was used at most once, and when it was,
that it is marked or that the call which used it is about to mark it. For the limit, concurrent logins
prune from lists that are stale in different ways, so no bound on the number of active sessions is
inductive. `LInv` has a witness: for some `n`, at most one more than the limit of the sessions up to the
`n`-th count, and each later one belongs to a login that has yet to prune. A login that lists makes a new
candidate (`Settles`): once it has revoked what it found to be surplus, what is left up to the length of
its list is the limit and its own session, which it had set apart.

`OrderManagerProofs` proves, for any menu of orders, any batch size and any bounds on calls, restarts and
failures:

| Theorem | States |
|---|---|
| `ManagerInductive`, `ManagerTypeCorrect` | `[]IInv`, `[]TypeOK` |
| `TradesAccounted` | `[]TradesAccountedFor`: while the process runs, each of its trades is in one buffer once, or committed and published |
| `ManagerIsOutbox` | `ImplementsOutbox`: the refinement of `TradeOutbox` |
| `CancelledStaysCancelled` | `CancelledStaysOut`: a cancelled order neither rests nor trades again before a restart |
| `AcceptedIsFound` | `[]AcceptedIsRecoverable`: what was accepted and is in memory is among the rows that recovery reads |
| `RowsNeverRunAhead` | `[]RowsLagBehindTrades`: no row shows more than its order traded |

The argument. `IInv` is `TypeOK` with what every proof needs of a state: nothing has happened to an
order that did not arrive (`Fresh`), no count goes beyond its order (`FillsFit`), and a process that is
down remembers nothing (`Memory`). Each of the other properties adds what it depends on:

* *Trades.* `Accounted` says that the buffer and the batches under way have no trade in common and none
  of an earlier run, that a trade of this run is in one of them or saved and sent, and that a flush has
  saved and sent what its own state says. Processing an order appends new trades at the end of the
  buffer, cutting full batches off it (`Buffered`); a flush that fails puts its batch back in front.
  Neither doubles one, since batches are disjoint before (`Apart`).
* *Refinement.* The stage of a trade is a function of `saved`, `sent`, the run it was made in and the
  run there is now (`Where`). Processing is `Make`, a commit `Commit`, a published trade `Send`, the end of a
  process `Lose`; a batch that fails, a retry, recovery and everything else are stutters. To
  commit a trade twice, or to publish one that is not committed, would not be a step of `TradeOutbox`:
  the primary key of `trades` prevents the one, and `Accounted` says that a flush does not do the other.
* *Cancelled orders.* `WInv` says where an order can be. One in a list of a trigger loop is in no other
  list, not armed and not in the book (`LoopsApart`), and one that `cancelOrder` took out is nowhere. So no
  loop that wakes up after the cancellation finds the order.
* *Recovery.* `RInv` says of every order that is in the book, armed or about to be executed that neither
  the outcome the engine gave it nor a row its client knows of has a final status. This relates what is
  kept in memory between two awaits to what is in the table: a handler writes the outcome later than it
  was computed, and other orders may have traded with its order meanwhile.
* *Rows.* `SInv` says that neither a row nor an outcome that is still to be written shows more than the sum
  of the order's trades. Trades are only added, so the sum grows (`TradedGrows` on longer lists), and what
  `processOrder` counts is the trades it makes: each resting order it meets gives one trade, so the sum over the
  new trades is the sum over the orders met (`SumRenamed`).

`AdminProofs` proves, for any users, accounts, orders and calls, with or without the caller's id
(`AdminAssumption`):

| Theorem | States |
|---|---|
| `AdminInductive`, `AdminTypeCorrect` | `Spec => []AInv`, `[]TypeOK` |
| `FinishedCorrect` | `FinishedStaysFinished`: a finished order is written only by a cancellation that had read it open |
| `SettingsCorrect` | `SettingsAreMeant`: a setting changes only to what a running call gives, or back to what it had read |

The argument. `AInv` says that the tables keep their rows and their types (`Shaped`), of a call on one row
(`One`) what it may have read and which table it is about to write, and that it has read an open order if it is
to cancel one; a cancellation of many orders (`Many`) has read each order that it has left as open.
`RowWritten` says that a write changes its own row and no other, so a step of a call, or of the platform,
leaves every other call as it was. A finished order then is written by none but the cancellations that had
read it open: `Fill` asks for an open order (`FilledElsewhere`), and every other write is in another table
(`WritersOnly`, `OthersStay`). A symbol is written by `Act` of one of three operations only, and `MergedIs`
says what each field of the row becomes.

`MarketDataProofs` proves of the collector, for every set of symbols and every positive threshold:

| Theorem | States |
|---|---|
| `AtMostOneReconnect` | `[]OneReconnect`: at most one reconnection waits for its timer or its answer |

The argument: `IInv` adds `Quiet` to it: before the registry starts the collector, and while it is
connected, nothing is on its way. So a lost connection, which schedules only when the state is
connected, schedules the first timer, and each failed attempt is replaced by its successor. The
parts of `TypeOK` that the steps need are in `Typed`.

The cooldown and the subscriptions need more of the state:

| Theorem | States |
|---|---|
| `ConnectedMeansFollowed` | `[]SubscribedAreFollowed`: connected means that what is subscribed is received |
| `CooldownRespected` | `NoAttemptWhileCooling`: no step of any behaviour tries to reconnect while the circuit cools |

`Followed` says that nothing is subscribed before the registry asks for it, and that a collector
which is connected follows what is subscribed on the socket it has; each attempt that succeeds asks
again for all of it. `Rested` says that while a reconnection waits there is neither a socket nor a poll,
so nothing else counts failures; a timer that was scheduled by the backoff is therefore still one
of a circuit that is not open when it fires, and a timer that was scheduled by the circuit fires
after the cooldown.

Of `MarketStream` it proves, for any symbols, any rate limit, and any bounds on connections, components
and messages (`StreamBounds`):

| Theorem | States |
|---|---|
| `StreamInductive`, `StreamTypeCorrect` | `[]StreamInv`, `[]StreamTypeOK` |
| `BroadcastsCorrect` | `[]BroadcastsReachFollowers`: broadcasts go to registered clients, and to the provider exactly for what its components follow |

The property speaks of a moment at which every message is handled; what holds in between is `Settles`.
For each symbol the last message about it that is on its way says "subscribe" exactly if some component
follows it; or there is none, and then the server's map already says so. A provider action appends one
message that settles its own symbol and says nothing of others (`LastOneCounts`, `OthersDoNotCount`),
the server handles the oldest, which decides only where no later one does (`HandlingSettles`). This
holds of the connection that `wsRef` names, while it is open, registered and nothing was refused on it
(`Heard`). A new connection starts with the message of `onopen`, before which its client knows no
symbols and has no messages: `Strangers` says that of whoever is not a client, and `Opened` that a
connection which is not yet made is none. `Mapped` says that the two maps of the server are one
relation, which turns what it knows about a client into where it broadcasts.

Of `Candles` it proves, for any finite set of symbols, any prices and clock, and any timeframe,
tolerances and buffer size (`CandleBounds`):

| Theorem | States |
|---|---|
| `CandlesInductive`, `CandleTypeCorrect` | `[]CandleInv`, `[]CandleTypeOK` |
| `TicksAreCounted` | `[]EveryTickCounted`: the candles of a period, wherever they are, count its ticks |
| `CandlesCorrect` | `[]CandlesTellTicks`: one right candle for an undisturbed period, and right aggregates of the stored ones |

* *Conservation.* A candle moves from its builder to the buffer, into a batch, and to the table or away.
  For any weighing of candles, `Outside` is what all those outside the builders weigh. Closing a candle
  adds its weight, whether it fills the buffer or not, and in whatever order several are closed
  (`CloseWeighs`, `CloseAllWeighs`); starting or ending a batch changes nothing (`StartBatchWeighs`,
  `EndBatchWeighs`). `Counted` uses the weighing by `tickCount`: what is outside and what is built of a
  period add up to its ticks.
* *One candle.* `Kept` uses the weighing that counts one candle: the candle that the ticks of an
  undisturbed period make is the one being built, or it is outside and its period was left, by the
  clock, a newer tick or the stop of the aggregator. `Ordered` says that a tick behind a newer period
  made its period a late one, so that in an undisturbed period each tick comes before those of later
  ones and the builder is that of the newest. Since that candle alone counts all ticks and every candle
  counts one at least, it has the only place (`OnePlace`); the invariants weigh, the properties look at
  places, and `SumOverPlaces` is the step from one to the other.
* *Aggregation.* A stored undisturbed minute is one row (`RowIs`). Answers are sorted, so the at most
  two minutes of a longer period are next to each other in each (`AnswerFacts`, `LongerPeriod`); the
  fold passes over other periods (`OtherStep`), starts a candle with the first of the two and merges the
  second into it (`OneRow`, `TwoRows`). That the merged candle is the one of all ticks is `MadeUnion`,
  for sets of ticks one before the other (`MinutesInOrder`).

The folds of the model are recursive functions, as are its sums. `RunsExists` and `RunsAgree` show that
each has the steps its definition says (`BufferedSteps`, `AggregateSteps`).

`SumProofs` supports these proofs. `SumFunctionOnSet` of the community modules is a recursive function
on the subsets of a finite set. That it has the value its definition suggests follows from the
well-founded order of these subsets, by taking a smallest counterexample: `SumTakesOut`,
`SumAddsElement`, `SumChanges`, `SumSame`, `SumMonotonic`, `SumPlus`, `SumZero`, `SumSplits`, `SumSubset`,
`SumRenamed`. The module also has what the candles need of sequences: their `Weight`, their largest and
smallest elements, and the steps of a fold (`Runs`). Where a proof needs an induction over data, it goes the
same way: a least number or a smallest set for which the claim fails (`NumbersInduct`).

Only model-checked: the five liveness properties (`CallsReturn`, `TradesGetOut`, `CallsEnd`, `PollRecovers`,
`SilentClientsGo`), since the provers do not reason about ENABLED and fairness here. Every invariant, action
property and refinement that a passing run checks is also a theorem.

## 6. Not modelled

* **Risk service and risk gateway.** Checks of limits without state of their own, which no order
  passes through as the engine is wired; the platform-wide circuit breaker is in `AdminService`.
* **Order validator.** Checks of the input, and a counter per client and fixed window.
* **Order book manager.** Routes calls to the engine of a symbol.
* **Position manager, trade processor and fees.** Nothing in the order path calls them.
* **Trading routes, REST, WebSocket and health plumbing of the engine.** Proxying and formats.
* **Class `CircuitBreaker`, retry helpers, FMP service.** No caller; the collectors have their own
  circuit, which is modelled.
* **Email worker, database package, shared types.** I/O and definitions.
* **User interfaces.** Rendering and local state, most of the repository's lines; the one part with
  a protocol, the provider of market data, is in `MarketStream`.

What would come next: the throttling of `TickPublisher` and the price cache between `Candles` and `MarketStream`,
the order validator's windows, and the position manager's average price and realised profit against a
reference over fills, once something calls it.
