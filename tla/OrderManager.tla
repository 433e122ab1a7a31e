---------------------------- MODULE OrderManager ----------------------------
(***************************************************************************)
(* Class OrderManager of the order engine, with the orders and trades      *)
(* tables it writes and the process it runs in.                            *)
(*                                                                         *)
(* A handler runs without interruption from one await to the next, so each *)
(* handler is one action per awaited call: the call takes effect (or       *)
(* rejects) and the code up to the next call runs.  Everything between two *)
(* awaits of one handler interleaves with every other handler.             *)
(*                                                                         *)
(* Prices are left out: which resting orders a new order meets, and how    *)
(* many of them, is any choice OrderLifecycle allows in which each trade   *)
(* takes all that the maker or the taker has left (Math.min).  "ioc"       *)
(* stands for IOC and FOK, whose rows are written alike; "limit" for GTC   *)
(* and GTD.  A rejected call leaves the database as it was.                *)
(***************************************************************************)
EXTENDS Integers, Sequences, SequencesExt

CONSTANTS
    MaxOrders,    \* how many orders are ever placed
    MaxQuantity,  \* bound on an order's quantity
    MaxCalls,     \* how many calls of placeOrder and cancelOrder run at once
    MaxRestarts,  \* how often the service starts again
    MaxFailures,  \* how many calls of the database or of Redis reject
    BatchSize,    \* TRADE_BATCH_SIZE
    Menu,         \* the orders that clients may place first, second, and so on
    Failing       \* which calls may reject

AllKinds == {"market", "limit", "ioc", "stop", "stop_limit"}

\* Writes of the orders table, of the trades table, order events, trade events.
Calls == {"row", "batch", "event", "feed"}

ASSUME BoundsAssumption ==
    /\ MaxOrders \in Nat /\ MaxQuantity \in Nat /\ MaxCalls \in Nat
    /\ MaxRestarts \in Nat /\ MaxFailures \in Nat
    /\ BatchSize \in Nat \ {0}
Ids == 1..MaxOrders
Side == {"buy", "sell"}
Stops == {"stop", "stop_limit"}

Status == {"open", "partially_filled", "filled", "cancelled", "rejected"}
Cancellable == {"open", "partially_filled"}

Order == [side : Side, kind : AllKinds, quantity : 1..MaxQuantity]

ASSUME MenuAssumption == Menu \in [Ids -> SUBSET Order] /\ Failing \subseteq Calls

Outcome == [status : Status, filled : Nat]
NoRow == [status |-> "none", filled |-> 0]
Trade == [maker : Ids, taker : Ids, quantity : 1..MaxQuantity, run : Nat]

VARIABLES
    \* clients
    orders,      \* the orders placed, in order of arrival
    accepted,    \* the orders whose placeOrder answered success
    cancelled,   \* the orders whose cancelOrder answered success in this run
    \* the process
    mode,        \* "up", "stopping" (performShutdown) or "down"
    resting,     \* the orders in the books
    filled,      \* filledQuantity of the order objects in memory
    outcome,     \* what processOrder last returned for an order
    stops,       \* the orders of the stop order manager, a list in the order of their arrival
    placing,     \* the call each placeOrder waits for
    cancelling,  \* the call each cancelOrder waits for
    firings,     \* the running loops of updateMarketPrice
    pending,     \* pendingTrades
    flights,     \* the running calls of flushTrades
    \* the outside
    rows,        \* the orders table
    saved,       \* the trades table
    sent,        \* the trades published
    trades,      \* every trade ever made
    restarts, failures

memory == <<resting, filled, outcome, stops, placing, cancelling, firings, pending, flights>>
engine == <<resting, filled, outcome, trades, pending, flights>>
vars == <<orders, accepted, cancelled, mode, memory, rows, saved, sent, trades, restarts, failures>>

Flight(batch) == [batch |-> batch, committed |-> FALSE, sent |-> 0]
Firing(todo) == [todo |-> todo, at |-> "row"]

FlightsOf(numbers) ==
    {f \in [batch : Seq(numbers) \ {<<>>}, committed : BOOLEAN, sent : Nat] : f.sent < Len(f.batch)}

TypeOK ==
    /\ orders \in Seq(Order) /\ Len(orders) <= MaxOrders
    /\ accepted \subseteq Ids /\ cancelled \subseteq Ids
    /\ mode \in {"up", "stopping", "down"}
    /\ resting \subseteq DOMAIN orders
    /\ filled \in [Ids -> 0..MaxQuantity]
    /\ outcome \in [Ids -> Outcome]
    /\ stops \subseteq DOMAIN orders
    /\ placing \in [Ids -> {"no", "save", "update", "event"}]
    /\ cancelling \in [Ids -> {"no", "read", "row", "event"}]
    /\ firings \subseteq [todo : Seq(DOMAIN orders) \ {<<>>}, at : {"row", "event"}]
    /\ pending \in Seq(DOMAIN trades)
    /\ flights \subseteq FlightsOf(DOMAIN trades)
    /\ rows \in [Ids -> Outcome \cup {NoRow}]
    /\ saved \subseteq DOMAIN trades /\ sent \subseteq DOMAIN trades
    /\ trades \in Seq(Trade)
    /\ restarts \in 0..MaxRestarts /\ failures \in 0..MaxFailures

NoOutcome == [status |-> "open", filled |-> 0]

Init ==
    /\ orders = <<>> /\ accepted = {} /\ cancelled = {}
    /\ mode = "up"
    /\ resting = {} /\ filled = [o \in Ids |-> 0] /\ outcome = [o \in Ids |-> NoOutcome]
    /\ stops = {}
    /\ placing = [o \in Ids |-> "no"] /\ cancelling = [o \in Ids |-> "no"]
    /\ firings = {} /\ pending = <<>> /\ flights = {}
    /\ rows = [o \in Ids |-> NoRow] /\ saved = {} /\ sent = {}
    /\ trades = <<>> /\ restarts = 0 /\ failures = 0

Running == mode \in {"up", "stopping"}

\* A call of this sort rejects.
Rejects(call) ==
    /\ call \in Failing /\ failures < MaxFailures
    /\ failures' = failures + 1

-----------------------------------------------------------------------------
(* The engine: one call of processOrder, which buffers its trades           *)

\* handleMatchingEvent: a full buffer goes to flushTrades at once.
PushTrade(buffer, t) ==
    LET p == Append(buffer.pending, t)
    IN  IF Len(p) >= BatchSize
        THEN [pending |-> <<>>, flights |-> buffer.flights \cup {Flight(p)}]
        ELSE [buffer EXCEPT !.pending = p]

\* The buffer after the next n trades.
Buffered(n) ==
    LET after[i \in 0..n] == IF i = 0 THEN [pending |-> pending, flights |-> flights]
                             ELSE PushTrade(after[i - 1], Len(trades) + i)
    IN  after[n]

Left(o) == orders[o].quantity - filled[o]

\* What a taker of this side, with this much left, may take from each maker:
\* every trade exhausts its maker or its taker.
Takes(side, room, makers) ==
    {take \in [makers -> 0..MaxQuantity] :
        /\ SumFunction(take) <= room
        /\ \A m \in makers : /\ take[m] <= Left(m)
                             /\ take[m] \in {0, Left(m)} \/ SumFunction(take) = room}

\* The status a call of processOrder ends with.
FinalStatus(kind, quantity, got) ==
    IF got >= quantity THEN "filled"
    ELSE IF got > 0 THEN "partially_filled"
    ELSE CASE kind = "market" -> "rejected" [] kind = "ioc" -> "cancelled" [] OTHER -> "open"

\* processOrder(o) as an order of this kind, whose object brings "carried"
\* fills.  An order that rests restarts its object at what this call filled.
Process(o, order, kind, carried) ==
    LET makers == {m \in resting : orders[m].side # order.side}
    IN  \E take \in Takes(order.side, order.quantity - carried, makers) :
          LET got == SumFunction(take)
              hit == {m \in makers : take[m] > 0}
              made == SetToSeq({[maker |-> m, taker |-> o, quantity |-> take[m], run |-> restarts] : m \in hit})
              buffer == Buffered(Len(made))
              rests == kind = "limit" /\ carried + got < order.quantity
          IN  /\ trades' = trades \o made
              /\ pending' = buffer.pending /\ flights' = buffer.flights
              /\ resting' = (resting \ {m \in hit : take[m] = Left(m)}) \cup (IF rests THEN {o} ELSE {})
              /\ filled' = [m \in Ids |-> IF m \in hit THEN filled[m] + take[m]
                                          ELSE IF m # o THEN filled[m]
                                          ELSE IF rests THEN got ELSE carried + got]
              /\ outcome' = [outcome EXCEPT ![o] =
                                [status |-> FinalStatus(kind, order.quantity, got), filled |-> got]]

-----------------------------------------------------------------------------
(* placeOrder                                                               *)

CallsRunning == {o \in Ids : placing[o] # "no"} \cup {MaxOrders + o : o \in {x \in Ids : cancelling[x] # "no"}}

Arrives(order) ==
    /\ mode = "up" /\ Cardinality(CallsRunning) < MaxCalls
    /\ orders' = Append(orders, order)
    /\ placing' = [placing EXCEPT ![Len(orders) + 1] = "save"]

\* A regular order is processed before anything is persisted.
PlaceOrder(order) ==
    /\ order.kind \notin Stops
    /\ Arrives(order)
    /\ Process(Len(orders) + 1, order, order.kind, 0)
    /\ UNCHANGED <<accepted, cancelled, mode, stops, cancelling, firings, rows, saved, sent,
                   restarts, failures>>

\* handleStopOrder: a stop order is armed before it is persisted.
PlaceStopOrder(order) ==
    /\ order.kind \in Stops
    /\ Arrives(order)
    /\ stops' = stops \cup {Len(orders) + 1}
    /\ UNCHANGED <<accepted, cancelled, mode, engine, cancelling, firings, rows, saved, sent,
                   restarts, failures>>

IsStop(o) == orders[o].kind \in Stops

\* A plausible slip: answering before the order is persisted.
SaveOrderLater(o) ==
    /\ placing[o] = "save"
    /\ placing' = [placing EXCEPT ![o] = "event"]
    /\ UNCHANGED <<orders, accepted, cancelled, mode, engine, stops, cancelling, firings, rows,
                   saved, sent, restarts, failures>>

\* A plausible slip: writing what the order asks for as what it filled.
SaveOrderAsFilled(o) ==
    /\ placing[o] = "save"
    /\ rows' = [rows EXCEPT ![o] = [status |-> "open", filled |-> orders[o].quantity]]
    /\ placing' = [placing EXCEPT ![o] = "event"]
    /\ UNCHANGED <<orders, accepted, cancelled, mode, engine, stops, cancelling, firings,
                   saved, sent, restarts, failures>>

\* saveOrder inserts the row as open, with the fills the order object has.  A
\* stop order is answered at once, and an order that was rejected or cancelled
\* without a fill keeps this row.
SaveOrder(o) ==
    /\ placing[o] = "save"
    /\ rows' = [rows EXCEPT ![o] = [status |-> "open",
                                    filled |-> IF IsStop(o) THEN 0 ELSE outcome[o].filled]]
    /\ placing' = [placing EXCEPT ![o] = IF IsStop(o) THEN "no"
                                         ELSE IF outcome[o].filled > 0 \/ outcome[o].status = "open"
                                         THEN "update" ELSE "event"]
    /\ accepted' = IF IsStop(o) THEN accepted \cup {o} ELSE accepted
    /\ UNCHANGED <<orders, cancelled, mode, engine, stops, cancelling, firings, saved, sent,
                   restarts, failures>>

\* updateOrderStatus; it finds nothing to update when there is no row.
WithOutcome(o) == IF rows[o] = NoRow THEN rows ELSE [rows EXCEPT ![o] = outcome[o]]

UpdateOrder(o) ==
    /\ placing[o] = "update"
    /\ rows' = WithOutcome(o)
    /\ placing' = [placing EXCEPT ![o] = "event"]
    /\ UNCHANGED <<orders, accepted, cancelled, mode, engine, stops, cancelling, firings, saved,
                   sent, restarts, failures>>

\* order_placed is published, and placeOrder answers success.
AnswerOrder(o) ==
    /\ placing[o] = "event"
    /\ placing' = [placing EXCEPT ![o] = "no"]
    /\ accepted' = accepted \cup {o}
    /\ UNCHANGED <<orders, cancelled, mode, engine, stops, cancelling, firings, rows, saved,
                   sent, restarts, failures>>

\* A call rejects: placeOrder answers failure and undoes nothing.
PlaceFails(o) ==
    /\ placing[o] # "no"
    /\ Rejects(IF placing[o] = "event" THEN "event" ELSE "row")
    /\ placing' = [placing EXCEPT ![o] = "no"]
    /\ UNCHANGED <<orders, accepted, cancelled, mode, engine, stops, cancelling, firings, rows,
                   saved, sent, restarts>>

-----------------------------------------------------------------------------
(* cancelOrder                                                              *)

\* getOrderById and the checks of the row; the answers that refuse at once
\* change nothing.
ReadForCancel(o) ==
    /\ mode = "up" /\ cancelling[o] = "no" /\ Cardinality(CallsRunning) < MaxCalls
    /\ rows[o].status \in Cancellable
    /\ cancelling' = [cancelling EXCEPT ![o] = "read"]
    /\ UNCHANGED <<orders, accepted, cancelled, mode, engine, stops, placing, firings, rows,
                   saved, sent, restarts, failures>>

\* A plausible slip: leaving the book to the next restart.
CancelRowOnly(o) ==
    /\ cancelling[o] = "read"
    /\ cancelling' = [cancelling EXCEPT ![o] = "row"]
    /\ UNCHANGED <<orders, accepted, cancelled, mode, engine, stops, placing, firings, rows,
                   saved, sent, restarts, failures>>

\* The engine cancels the order if it rests; only then does the handler go on.
\* The removal from the stop orders finds nothing: a resting order is not one.
CancelInEngine(o) ==
    /\ cancelling[o] = "read"
    /\ resting' = resting \ {o}
    /\ stops' = IF o \in resting THEN stops \ {o} ELSE stops
    /\ cancelling' = [cancelling EXCEPT ![o] = IF o \in resting THEN "row" ELSE "no"]
    /\ UNCHANGED <<orders, accepted, cancelled, mode, filled, outcome, placing, firings, pending,
                   flights, rows, saved, sent, trades, restarts, failures>>

\* cancelOrderInDb, which leaves a row that is not open any more.
CancelRow(o) ==
    /\ cancelling[o] = "row"
    /\ rows' = IF rows[o].status \in Cancellable THEN [rows EXCEPT ![o].status = "cancelled"] ELSE rows
    /\ cancelling' = [cancelling EXCEPT ![o] = "event"]
    /\ UNCHANGED <<orders, accepted, cancelled, mode, engine, stops, placing, firings, saved,
                   sent, restarts, failures>>

\* order_cancelled is published, and cancelOrder answers success.
AnswerCancel(o) ==
    /\ cancelling[o] = "event"
    /\ cancelling' = [cancelling EXCEPT ![o] = "no"]
    /\ cancelled' = cancelled \cup {o}
    /\ UNCHANGED <<orders, accepted, mode, engine, stops, placing, firings, rows, saved, sent,
                   restarts, failures>>

CancelFails(o) ==
    /\ cancelling[o] # "no"
    /\ Rejects(IF cancelling[o] = "event" THEN "event" ELSE "row")
    /\ cancelling' = [cancelling EXCEPT ![o] = "no"]
    /\ UNCHANGED <<orders, accepted, cancelled, mode, engine, stops, placing, firings, rows,
                   saved, sent, restarts>>

-----------------------------------------------------------------------------
(* updateMarketPrice                                                        *)

\* A triggered stop order executes as a market or a limit order.
Execute(o) == Process(o, orders[o], IF orders[o].kind = "stop" THEN "market" ELSE "limit", filled[o])

\* checkTriggers takes every triggered order out of the list, and the loop
\* executes the first of them.
Trigger(which) ==
    /\ Running
    /\ which # {}
    /\ stops' = stops \ which
    /\ \E todo \in [1..Cardinality(which) -> which] :
           /\ \A i, j \in DOMAIN todo : i < j => todo[i] < todo[j]
           /\ Execute(Head(todo))
           /\ firings' = firings \cup {Firing(todo)}
    /\ UNCHANGED <<orders, accepted, cancelled, mode, placing, cancelling, rows, saved, sent,
                   restarts, failures>>

UpdateTriggered(f) ==
    /\ f.at = "row"
    /\ rows' = WithOutcome(Head(f.todo))
    /\ firings' = (firings \ {f}) \cup {[f EXCEPT !.at = "event"]}
    /\ UNCHANGED <<orders, accepted, cancelled, mode, engine, stops, placing, cancelling, saved,
                   sent, restarts, failures>>

\* stop_triggered is published, and the loop goes on to the next order.
NextTriggered(f) ==
    /\ f.at = "event" /\ Len(f.todo) > 1
    /\ Execute(f.todo[2])
    /\ firings' = (firings \ {f}) \cup {Firing(Tail(f.todo))}
    /\ UNCHANGED <<orders, accepted, cancelled, mode, stops, placing, cancelling, rows, saved,
                   sent, restarts, failures>>

LastTriggered(f) ==
    /\ f.at = "event" /\ Len(f.todo) = 1
    /\ firings' = firings \ {f}
    /\ UNCHANGED <<orders, accepted, cancelled, mode, engine, stops, placing, cancelling, rows,
                   saved, sent, restarts, failures>>

\* A call rejects, and the orders the loop did not reach are dropped.
TriggerFails(f) ==
    /\ Rejects(f.at)
    /\ firings' = firings \ {f}
    /\ UNCHANGED <<orders, accepted, cancelled, mode, engine, stops, placing, cancelling, rows,
                   saved, sent, restarts>>

-----------------------------------------------------------------------------
(* flushTrades                                                              *)

\* A plausible slip: flushing an empty buffer.
TimerFlushAlways ==
    /\ mode = "up"
    /\ flights' = flights \cup {Flight(pending)} /\ pending' = <<>>
    /\ UNCHANGED <<orders, accepted, cancelled, mode, resting, filled, outcome, stops, placing,
                   cancelling, firings, rows, saved, sent, trades, restarts, failures>>

\* The flush interval takes the buffer.
TimerFlush ==
    /\ mode = "up"
    /\ pending # <<>>
    /\ flights' = flights \cup {Flight(pending)} /\ pending' = <<>>
    /\ UNCHANGED <<orders, accepted, cancelled, mode, resting, filled, outcome, stops, placing,
                   cancelling, firings, rows, saved, sent, trades, restarts, failures>>

\* saveTrades inserts the batch in one transaction; a trade id that is in the
\* table already aborts it.
SaveTrades(f) ==
    /\ ~f.committed
    /\ ToSet(f.batch) \cap saved = {}
    /\ saved' = saved \cup ToSet(f.batch)
    /\ flights' = (flights \ {f}) \cup {[f EXCEPT !.committed = TRUE]}
    /\ UNCHANGED <<orders, accepted, cancelled, mode, resting, filled, outcome, stops, placing,
                   cancelling, firings, pending, rows, sent, trades, restarts, failures>>

\* A plausible slip: not waiting for the transaction.
PublishAtOnce(f) ==
    /\ sent' = sent \cup {f.batch[f.sent + 1]}
    /\ flights' = (flights \ {f}) \cup
                    IF f.sent + 1 = Len(f.batch) THEN {} ELSE {[f EXCEPT !.sent = @ + 1]}
    /\ UNCHANGED <<orders, accepted, cancelled, mode, resting, filled, outcome, stops, placing,
                   cancelling, firings, pending, rows, saved, trades, restarts, failures>>

\* The trades of a committed batch are published one after the other.
PublishTrade(f) ==
    /\ f.committed
    /\ sent' = sent \cup {f.batch[f.sent + 1]}
    /\ flights' = (flights \ {f}) \cup
                    IF f.sent + 1 = Len(f.batch) THEN {} ELSE {[f EXCEPT !.sent = @ + 1]}
    /\ UNCHANGED <<orders, accepted, cancelled, mode, resting, filled, outcome, stops, placing,
                   cancelling, firings, pending, rows, saved, trades, restarts, failures>>

FlushRejects(f) ==
    IF f.committed THEN Rejects("feed")
    ELSE \/ Rejects("batch")
         \/ ToSet(f.batch) \cap saved # {} /\ failures' = failures

\* A plausible slip: the catch restores the buffer it took.
FlushOverwrites(f) ==
    /\ FlushRejects(f)
    /\ pending' = f.batch
    /\ flights' = flights \ {f}
    /\ UNCHANGED <<orders, accepted, cancelled, mode, resting, filled, outcome, stops, placing,
                   cancelling, firings, rows, saved, sent, trades, restarts>>

\* A plausible slip: the error is logged and the batch forgotten.
FlushDrops(f) ==
    /\ FlushRejects(f)
    /\ flights' = flights \ {f}
    /\ UNCHANGED <<orders, accepted, cancelled, mode, resting, filled, outcome, stops, placing,
                   cancelling, firings, pending, rows, saved, sent, trades, restarts>>

\* The whole batch goes back to the front of the buffer.
FlushFails(f) ==
    /\ FlushRejects(f)
    /\ pending' = f.batch \o pending
    /\ flights' = flights \ {f}
    /\ UNCHANGED <<orders, accepted, cancelled, mode, resting, filled, outcome, stops, placing,
                   cancelling, firings, rows, saved, sent, trades, restarts>>

-----------------------------------------------------------------------------
(* The process                                                              *)

\* performShutdown: the REST server has answered every request, the interval
\* is cleared, and what is buffered is flushed.
Shutdown ==
    /\ mode = "up"
    /\ \A o \in Ids : placing[o] = "no" /\ cancelling[o] = "no"
    /\ mode' = "stopping"
    /\ flights' = IF pending = <<>> THEN flights ELSE flights \cup {Flight(pending)}
    /\ pending' = <<>>
    /\ UNCHANGED <<orders, accepted, cancelled, resting, filled, outcome, stops, placing,
                   cancelling, firings, rows, saved, sent, trades, restarts, failures>>

\* The process ends, by a crash or after its shutdown; its memory is lost.
Exit ==
    /\ Running
    /\ restarts < MaxRestarts
    /\ mode' = "down"
    /\ resting' = {} /\ filled' = [o \in Ids |-> 0] /\ outcome' = [o \in Ids |-> NoOutcome]
    /\ stops' = {} /\ firings' = {} /\ pending' = <<>> /\ flights' = {}
    /\ placing' = [o \in Ids |-> "no"] /\ cancelling' = [o \in Ids |-> "no"]
    /\ UNCHANGED <<orders, accepted, cancelled, rows, saved, sent, trades, restarts, failures>>

Recoverable == {o \in DOMAIN orders : rows[o].status \in Cancellable}

\* recoverOrders: the open rows go to the stop orders or straight to the book,
\* whatever their kind.
Recover ==
    /\ mode = "down"
    /\ mode' = "up"
    /\ restarts' = restarts + 1
    /\ cancelled' = {}
    /\ stops' = {o \in Recoverable : IsStop(o)}
    /\ resting' = {o \in Recoverable : ~IsStop(o)}
    /\ filled' = [o \in Ids |-> IF o \in Recoverable THEN rows[o].filled ELSE 0]
    /\ UNCHANGED <<orders, accepted, outcome, placing, cancelling, firings, pending, flights,
                   rows, saved, sent, trades, failures>>

-----------------------------------------------------------------------------
Place == Len(orders) < MaxOrders /\ \E order \in Menu[Len(orders) + 1] : PlaceOrder(order) \/ PlaceStopOrder(order)

Placing == \E o \in Ids : SaveOrder(o) \/ UpdateOrder(o) \/ AnswerOrder(o) \/ PlaceFails(o)

Cancel == \E o \in Ids : \/ ReadForCancel(o) \/ CancelInEngine(o) \/ CancelRow(o)
                         \/ AnswerCancel(o) \/ CancelFails(o)

Tick == \E which \in SUBSET stops : Trigger(which)

Firings == \E f \in firings : \/ UpdateTriggered(f) \/ NextTriggered(f) \/ LastTriggered(f)
                              \/ TriggerFails(f)

Flush == \E f \in flights : SaveTrades(f) \/ PublishTrade(f) \/ FlushFails(f)

Next == Place \/ Placing \/ Cancel \/ Tick \/ Firings \/ TimerFlush \/ Flush
          \/ Shutdown \/ Exit \/ Recover

Spec == Init /\ [][Next]_vars

\* The flush interval keeps firing, and a call of the database or of Redis
\* that was made comes back.
FairSpec == Spec /\ WF_vars(TimerFlush) /\ WF_vars(Flush)

-----------------------------------------------------------------------------
(* Safety                                                                   *)

InFlight == UNION {ToSet(f.batch) : f \in flights}

\* While the process runs, each trade it made is in one place: buffered once,
\* in one running flush, or committed and published.  Flushes that overlap,
\* fail and put their batch back neither lose nor double a trade.
TradesAccountedFor ==
    Running =>
        /\ IsInjective(pending)
        /\ \A f \in flights : IsInjective(f.batch) /\ ToSet(f.batch) \cap ToSet(pending) = {}
        /\ \A f, g \in flights : f # g => ToSet(f.batch) \cap ToSet(g.batch) = {}
        /\ \A t \in DOMAIN trades :
             trades[t].run = restarts => t \in ToSet(pending) \cup InFlight \cup (saved \cap sent)

\* An order that was accepted, and that still rests or is still armed, has a
\* row that recovery will find: a crash at any moment does not forget it.
AcceptedIsRecoverable ==
    Running => \A o \in accepted : (o \in resting \/ o \in stops) => o \in Recoverable

Traded(o) == SumFunctionOnSet([t \in DOMAIN trades |-> trades[t].quantity],
                              {t \in DOMAIN trades : o \in {trades[t].maker, trades[t].taker}})

\* A row never shows more fills than the order traded, whichever of
\* placeOrder, updateMarketPrice and cancelOrder wrote it last.
RowsLagBehindTrades == \A o \in DOMAIN orders : rows[o].filled <= Traded(o)

\* Once cancelOrder answered success for an order, it does not trade or rest
\* again before the service restarts.
CancelledStaysOut ==
    [][restarts' = restarts =>
         \A o \in cancelled :
           /\ o \notin resting'
           /\ \A t \in (DOMAIN trades') \ DOMAIN trades : o \notin {trades'[t].maker, trades'[t].taker}]_vars

(* Refinement                                                               *)

Stage(t) ==
    IF t \in sent THEN "sent"
    ELSE IF t \in saved THEN "saved"
    ELSE IF Running /\ trades[t].run = restarts THEN "made" ELSE "lost"

Outbox == INSTANCE TradeOutbox WITH stage <- [t \in DOMAIN trades |-> Stage(t)]

\* Batches, timers, retries and restarts do to each trade only what TradeOutbox
\* allows: committed before it is published, and lost only with the process.
ImplementsOutbox == Outbox!Spec

(* Liveness                                                                 *)

Outstanding == {t \in DOMAIN trades : trades[t].run = restarts} \ sent

\* A batch was put back, or goes out again, whose transaction has committed.
Blocked == \E t \in ToSet(pending) \cup UNION {ToSet(f.batch) : f \in {g \in flights : ~g.committed}} : t \in saved

\* Every trade is published in the end: again and again there is none left to publish,
\* however flushes overlap and calls reject.  One thing alone may stop them besides the end
\* of the process: a publication that is rejected after the commit puts its batch back under
\* the same ids, whose insert fails for ever, with every trade that is flushed with it.
TradesGetOut == []<>(mode # "up" \/ Outstanding = {} \/ Blocked)

-----------------------------------------------------------------------------
(* What the repository says of orders and trades and its code does not do   *)

\* "Put trades back for retry" (order-manager.ts:456): a flush that rejected is made good by
\* a later one.
RetriesSucceed == []<>(mode # "up" \/ Outstanding = {})

\* "Partial fill - rest is cancelled for market orders": what a market, IOC or
\* FOK order did not fill is never in the book.
RemaindersStayCancelled == \A o \in resting : orders[o].kind \notin {"market", "ioc", "stop"}

\* filledQuantity in the database is the "Quantity already filled": with it
\* recovered orders never trade more than their quantity.
NeverOvertraded == \A o \in DOMAIN orders : Traded(o) <= orders[o].quantity
=============================================================================
