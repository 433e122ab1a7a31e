--------------------------- MODULE MatchingEngine ---------------------------
(***************************************************************************)
(* The matching engine of one symbol (class MatchingEngine over OrderBook).*)
(*                                                                         *)
(* processOrder is synchronous: it runs to completion before any other     *)
(* call.  Its loop is one step per iteration here, with the incoming order *)
(* in "taker", and every other operation waits until there is no taker.    *)
(* "cursor" is the position of the two nested live array iterators of      *)
(* getMatchingOrders; it counts array slots, so it does not follow the     *)
(* elements when a fully filled maker is spliced out of the array.         *)
(*                                                                         *)
(* Order ids are the order of arrival.  A market order has no limit price, *)
(* which is undefined in the code and 0 here.  GTD shares the branch of    *)
(* GTC, and nothing expires it.                                            *)
(***************************************************************************)
EXTENDS OrderBook

CONSTANTS
    MaxOrders,    \* how many orders are ever loaded or placed
    MaxQuantity,  \* bound on an order's quantity
    MaxPrice,     \* bound on a limit price
    MaxLoaded,    \* how many orders recovery may load
    Kinds         \* the <<type, timeInForce>> pairs that clients place

AllKinds == {<<"market", "GTC">>} \cup ({"limit"} \X {"GTC", "GTD", "IOC", "FOK"})

ASSUME BoundsAssumption ==
    /\ MaxOrders \in Nat /\ MaxQuantity \in Nat /\ MaxPrice \in Nat
    /\ MaxLoaded \in Nat
ASSUME KindsAssumption == Kinds \subseteq AllKinds

Ids == 1..MaxOrders
NoId == 0
Prices == 1..MaxPrice
NoPrice == 0
Quantities == 1..MaxQuantity

\* carried is the filledQuantity an order brings from the database.
Order == [side : Side, kind : AllKinds, price : Prices \cup {NoPrice},
          quantity : Quantities, carried : Nat]

\* The status in the MatchResult that the last call for an order returned.
Result == {"none", "open", "partially_filled", "filled", "cancelled", "rejected"}

Trade == [maker : Ids, taker : Ids, price : Prices, quantity : Quantities]

VARIABLES
    orders,     \* the orders that reached the engine, in order of arrival
    filled,     \* filledQuantity of each order
    result,     \* status returned for each order
    levels,     \* bids and asks
    index,      \* orderIndex
    serving,    \* recovery is over and orders are accepted
    taker,      \* the order inside processOrder, or NoId
    cursor,     \* the slot its loop looks at next
    trades,     \* every 'trade' event
    announced,  \* the orders that got an 'order_filled' event
    feed,       \* depth held by a subscriber that applies 'book_update' events
    drift       \* history: what was traded from the level of a price since it was opened

vars == <<orders, filled, result, levels, index, serving, taker, cursor,
          trades, announced, feed, drift>>

FirstSlot == [level |-> 1, pos |-> 1]

TypeOK ==
    /\ orders \in Seq(Order) /\ Len(orders) <= MaxOrders
    /\ filled \in [Ids -> Nat]
    /\ result \in [Ids -> Result]
    /\ levels \in [Side -> Seq(Level)]
    /\ index \in [Ids -> Location]
    /\ serving \in BOOLEAN
    /\ taker \in {NoId} \cup 1..Len(orders)
    /\ cursor \in [level : Nat \ {0}, pos : Nat \ {0}]
    /\ trades \in Seq(Trade)
    /\ announced \subseteq Ids
    /\ feed \in [Side -> [Prices -> [quantity : Int, orderCount : Nat]]]
    /\ drift \in [Side -> [Prices -> Nat]]

Idle == taker = NoId
Remaining(o) == orders[o].quantity - filled[o]
Resting(o) == index[o] # Nowhere
StaysInBook(o) == orders[o].kind \in {<<"limit", "GTC">>, <<"limit", "GTD">>}

Init ==
    /\ orders = <<>>
    /\ filled = [o \in Ids |-> 0]
    /\ result = [o \in Ids |-> "none"]
    /\ levels = [side \in Side |-> <<>>]
    /\ index = [o \in Ids |-> Nowhere]
    /\ serving = FALSE
    /\ taker = NoId
    /\ cursor = FirstSlot
    /\ trades = <<>>
    /\ announced = {}
    /\ feed = [side \in Side |-> [p \in Prices |-> Depth(0, 0)]]
    /\ drift = [side \in Side |-> [p \in Prices |-> 0]]

-----------------------------------------------------------------------------
(* Changes of the book, shared by the operations                            *)

\* addOrder, for an order with this much left to trade.
AddOrder(o, order, remaining) ==
    LET lv == levels[order.side]
    IN  \E l \in 1..(Len(lv) + 1) :
          /\ IsInsertionPoint(lv, order.side, order.price, l)
          /\ LET new == AddAt(lv, l, order.price, o, remaining)
             IN  /\ levels' = [levels EXCEPT ![order.side] = new]
                 /\ index' = IndexAfterAdd(index, order.side, lv, new, l, o)
                 /\ drift' = IF JoinsLevel(lv, order.price, l) THEN drift
                             ELSE [drift EXCEPT ![order.side][order.price] = 0]

\* removeOrder, for an order of that side with this much left to trade.
RemoveOrder(o, side, remaining) ==
    LET lv == levels[side]
        i == index[o].level
        new == RemoveFrom(lv, i, o, remaining)
    IN  /\ levels' = [levels EXCEPT ![side] = new]
        /\ index' = IndexAfterRemove(index, side, lv, new, i, o)

\* A plausible slip: the event carries the order count from before the change.
StaleUpdate(side, price, quantity, orderCount) ==
    feed' = [feed EXCEPT ![side][price] = Depth(quantity, @.orderCount)]

\* A book_update event: the level at this price now has this depth.
BookUpdate(side, price, quantity, orderCount) ==
    feed' = [feed EXCEPT ![side][price] = Depth(quantity, orderCount)]

-----------------------------------------------------------------------------
(* Recovery: loadOrder puts an order in the book without matching it.  The  *)
(* order may have nothing left: its row still says open when the process    *)
(* stopped between saveOrder and updateOrderStatus.                         *)

LoadOrder(side, price, quantity, carried) ==
    LET o == Len(orders) + 1
        order == [side |-> side, kind |-> <<"limit", "GTC">>, price |-> price,
                  quantity |-> quantity, carried |-> carried]
    IN  /\ ~serving
        /\ Len(orders) < MaxLoaded /\ Len(orders) < MaxOrders
        /\ carried <= quantity
        /\ orders' = Append(orders, order)
        /\ filled' = [filled EXCEPT ![o] = carried]
        /\ result' = [result EXCEPT ![o] = IF carried > 0 THEN "partially_filled" ELSE "open"]
        /\ AddOrder(o, order, quantity - carried)
        /\ UNCHANGED <<serving, taker, cursor, trades, announced, feed>>

\* The engine starts to serve; a subscriber's depth starts from a snapshot.
Serve ==
    /\ ~serving
    /\ serving' = TRUE
    /\ feed' = [side \in Side |-> Snapshot(levels[side], Prices)]
    /\ UNCHANGED <<orders, filled, result, levels, index, taker, cursor, trades, announced, drift>>

-----------------------------------------------------------------------------
(* processOrder                                                             *)

ProcessOrder(side, kind, price, quantity) ==
    /\ serving /\ Idle
    /\ Len(orders) < MaxOrders
    /\ (kind[1] = "market") = (price = NoPrice)
    /\ orders' = Append(orders, [side |-> side, kind |-> kind, price |-> price,
                                 quantity |-> quantity, carried |-> 0])
    /\ taker' = Len(orders) + 1
    /\ cursor' = FirstSlot
    /\ UNCHANGED <<filled, result, levels, index, serving, trades, announced, feed, drift>>

TakerSide == orders[taker].side
MakerSide == Opposite(TakerSide)
Facing == levels[MakerSide]

\* The outer iterator is at a level whose price the taker accepts, and the
\* taker still wants something.
AtLevel ==
    /\ ~Idle
    /\ Remaining(taker) > 0
    /\ cursor.level <= Len(Facing)
    /\ \/ orders[taker].kind[1] = "market"
       \/ Crosses(TakerSide, orders[taker].price, Facing[cursor.level].price)

\* The inner iterator yields a maker.
AtMaker == AtLevel /\ cursor.pos <= Len(Facing[cursor.level].orders)

\* A plausible slip: trading the taker's whole remainder.
TakerQuantity(wanted, offered) == wanted

\* Math.min of the two remainders.
TradeQuantity(wanted, offered) == IF wanted <= offered THEN wanted ELSE offered

\* A plausible slip: trading at the taker's limit.
PriceOfTaker(maker) == orders[taker].price

\* The maker's price.
TradePrice(maker) == orders[maker].price

\* One iteration of the loop: executeTrade, then updateOrderFill.  executeTrade
\* has already changed the maker object that the level holds, so the
\* filledQuantity updateOrderFill finds there is the one it is told to set.
ExecuteTrade ==
    /\ AtMaker
    /\ LET level == Facing[cursor.level]
           maker == level.orders[cursor.pos]
           q == TradeQuantity(Remaining(taker), Remaining(maker))
           now == filled[maker] + q
           total == TotalAfterFill(level.total, orders[maker].quantity, now, now)
           left == orders[maker].quantity - now
       IN  /\ Remaining(maker) > 0
           /\ filled' = [filled EXCEPT ![taker] = @ + q, ![maker] = now]
           /\ trades' = Append(trades, [maker |-> maker, taker |-> taker,
                                        price |-> TradePrice(maker), quantity |-> q])
           /\ IF left > 0
              THEN /\ levels' = [levels EXCEPT ![MakerSide][cursor.level].total = total]
                   /\ index' = index
                   /\ BookUpdate(MakerSide, level.price, total, Len(level.orders))
              ELSE /\ RemoveOrder(maker, MakerSide, left)
                   /\ BookUpdate(MakerSide, level.price, total, Len(level.orders) - 1)
           /\ drift' = [drift EXCEPT ![MakerSide][level.price] = @ + q]
           /\ cursor' = IF left <= 0 /\ Len(level.orders) = 1
                        THEN [level |-> cursor.level + 1, pos |-> 1]
                        ELSE [cursor EXCEPT !.pos = @ + 1]
    /\ UNCHANGED <<orders, result, serving, taker, announced>>

\* executeTrade returns null for a maker that was recovered with nothing left.
SkipMaker ==
    /\ AtMaker
    /\ Remaining(Facing[cursor.level].orders[cursor.pos]) <= 0
    /\ cursor' = [cursor EXCEPT !.pos = @ + 1]
    /\ UNCHANGED <<orders, filled, result, levels, index, serving, taker, trades,
                   announced, feed, drift>>

\* A plausible slip: a loop that forgets to move on.
StayAtLevel ==
    /\ AtLevel /\ ~AtMaker
    /\ UNCHANGED vars

\* The inner iterator is exhausted.
NextLevel ==
    /\ AtLevel /\ ~AtMaker
    /\ cursor' = [level |-> cursor.level + 1, pos |-> 1]
    /\ UNCHANGED <<orders, filled, result, levels, index, serving, taker, trades,
                   announced, feed, drift>>

\* processOrder returns with this status.
Return(status) ==
    /\ result' = [result EXCEPT ![taker] = status]
    /\ taker' = NoId
    /\ cursor' = FirstSlot
    /\ UNCHANGED <<orders, filled, serving, trades>>

LoopDone == ~Idle /\ ~AtLevel

\* A plausible slip: announcing any order that traded.
FillOnAnyTrade ==
    /\ LoopDone /\ filled[taker] > 0
    /\ Return("filled")
    /\ announced' = announced \cup {taker}
    /\ UNCHANGED <<levels, index, feed, drift>>

\* Nothing is left of the taker: the one case that announces order_filled.
Fill ==
    /\ LoopDone /\ Remaining(taker) = 0
    /\ Return("filled")
    /\ announced' = announced \cup {taker}
    /\ UNCHANGED <<levels, index, feed, drift>>

\* The status of an order whose remainder is dropped: the final-status block
\* of processOrder turns any fill into partially_filled.
DropStatus(o) ==
    IF filled[o] > 0 THEN "partially_filled"
    ELSE IF orders[o].kind = <<"limit", "IOC">> THEN "cancelled" ELSE "rejected"

\* A market, IOC or FOK order ends with something left.
DropRemainder ==
    /\ LoopDone /\ Remaining(taker) > 0 /\ ~StaysInBook(taker)
    /\ Return(DropStatus(taker))
    /\ UNCHANGED <<levels, index, announced, feed, drift>>

\* A plausible slip: resting whatever kind of limit order has something left.
RestAnyLimit ==
    /\ LoopDone /\ Remaining(taker) > 0 /\ orders[taker].kind[1] = "limit"
    /\ Return(IF filled[taker] > 0 THEN "partially_filled" ELSE "open")
    /\ AddOrder(taker, orders[taker], Remaining(taker))
    /\ UNCHANGED <<announced, feed>>

\* A GTC or GTD order goes to the book with what is left.
Rest ==
    /\ LoopDone /\ Remaining(taker) > 0 /\ StaysInBook(taker)
    /\ Return(IF filled[taker] > 0 THEN "partially_filled" ELSE "open")
    /\ AddOrder(taker, orders[taker], Remaining(taker))
    /\ LET here == Snapshot(levels'[TakerSide], Prices)[orders[taker].price]
       IN  BookUpdate(TakerSide, orders[taker].price, here.quantity, here.orderCount)
    /\ UNCHANGED announced

-----------------------------------------------------------------------------
(* cancelOrder; for an id that is not in the book it changes nothing        *)

\* A plausible slip: an order that already left the book is cancelled too.
CancelAny(o) ==
    /\ serving /\ Idle
    /\ o \in DOMAIN orders
    /\ IF Resting(o)
       THEN LET side == orders[o].side
                level == levels[side][index[o].level]
            IN  /\ RemoveOrder(o, side, Remaining(o))
                /\ BookUpdate(side, level.price, level.total - Remaining(o), Len(level.orders) - 1)
       ELSE UNCHANGED <<levels, index, feed>>
    /\ result' = [result EXCEPT ![o] = "cancelled"]
    /\ UNCHANGED <<orders, filled, serving, taker, cursor, trades, announced, drift>>

CancelOrder(o) ==
    /\ serving /\ Idle
    /\ Resting(o)
    /\ LET side == orders[o].side
           level == levels[side][index[o].level]
       IN  /\ RemoveOrder(o, side, Remaining(o))
           /\ BookUpdate(side, level.price, level.total - Remaining(o), Len(level.orders) - 1)
    /\ result' = [result EXCEPT ![o] = "cancelled"]
    /\ UNCHANGED <<orders, filled, serving, taker, cursor, trades, announced, drift>>

-----------------------------------------------------------------------------
Recover == \E side \in Side, price \in Prices, quantity \in Quantities, carried \in 0..MaxQuantity :
             LoadOrder(side, price, quantity, carried)

Place == \E side \in Side, kind \in Kinds, price \in Prices \cup {NoPrice}, quantity \in Quantities :
           ProcessOrder(side, kind, price, quantity)

Cancel == \E o \in Ids : CancelOrder(o)

Process == ExecuteTrade \/ SkipMaker \/ NextLevel \/ Fill \/ DropRemainder \/ Rest

Next == Recover \/ Serve \/ Place \/ Process \/ Cancel

Spec == Init /\ [][Next]_vars

\* A synchronous call that has started runs on: the event loop does not stop.
FairSpec == Spec /\ WF_vars(Process)

-----------------------------------------------------------------------------
(* Safety                                                                   *)

IsAt(o, side, i, j) ==
    /\ i \in DOMAIN levels[side]
    /\ j \in DOMAIN levels[side][i].orders
    /\ levels[side][i].orders[j] = o

\* orderIndex and the price levels describe the same book: an id is indexed
\* exactly where it stands, and nowhere if it stands nowhere.  Every splice of
\* addToBids, addToAsks and removeOrder has to reindex what it moved.
IndexAgrees ==
    /\ \A side \in Side : \A i \in DOMAIN levels[side] :
         \A j \in DOMAIN levels[side][i].orders :
            index[levels[side][i].orders[j]] = At(side, i, j)
    /\ \A o \in Ids : Resting(o) => IsAt(o, index[o].side, index[o].level, index[o].pos)

\* Levels are strictly sorted from the best price and none is empty, whatever
\* levels were opened, emptied and spliced before.
LevelsSorted ==
    \A side \in Side : \A i \in DOMAIN levels[side] :
        /\ levels[side][i].orders # <<>>
        /\ \A k \in DOMAIN levels[side] :
             i < k => Better(side, levels[side][i].price, levels[side][k].price)

\* Recovery found this order with nothing left.
RecoveredSpent(o) == orders[o].carried = orders[o].quantity

\* Every resting order stands on its own side at its own price, still has
\* something to trade unless recovery found it spent, and is of a kind that may
\* rest: market, IOC and FOK orders never reach the book.
RestingAreLive ==
    \A side \in Side : \A i \in DOMAIN levels[side] :
        \A j \in DOMAIN levels[side][i].orders :
            LET o == levels[side][i].orders[j]
            IN  /\ o \in DOMAIN orders
                /\ orders[o].side = side /\ orders[o].price = levels[side][i].price
                /\ StaysInBook(o) /\ o # taker
                /\ filled[o] < orders[o].quantity \/ RecoveredSpent(o)

\* Orders of one level stand in the order they arrived (FIFO), also after
\* some of them were cancelled or filled from the middle.
FifoWithinLevel ==
    \A side \in Side : \A i \in DOMAIN levels[side] :
        \A j, k \in DOMAIN levels[side][i].orders :
            j < k => levels[side][i].orders[j] < levels[side][i].orders[k]

TradesOf(o) == {n \in DOMAIN trades : o \in {trades[n].maker, trades[n].taker}}

Traded(o) == SumFunctionOnSet([n \in DOMAIN trades |-> trades[n].quantity], TradesOf(o))

\* No order is filled beyond its quantity, and what it is filled is what it
\* brought from recovery plus exactly the trades announced for it.
FillsAreTrades ==
    \A o \in DOMAIN orders :
        /\ filled[o] <= orders[o].quantity
        /\ filled[o] = orders[o].carried + Traded(o)

NoOverfill == \A o \in DOMAIN orders : filled[o] <= orders[o].quantity

\* Each trade pairs an order with an older one of the other side, at the
\* older one's limit and within the newer one's.
TradesHonourLimits ==
    \A n \in DOMAIN trades :
        LET t == trades[n]
        IN  /\ t.taker \in DOMAIN orders
            /\ t.maker < t.taker
            /\ orders[t.maker].side = Opposite(orders[t.taker].side)
            /\ t.price = orders[t.maker].price
            /\ \/ orders[t.taker].kind[1] = "market"
               \/ Crosses(orders[t.taker].side, orders[t.taker].price, t.price)

\* The trades of one taker never get better for it as its loop walks the book.
TakerWalksAway ==
    \A m, n \in DOMAIN trades :
        (m < n /\ trades[m].taker = trades[n].taker)
            => ~Better(Opposite(orders[trades[n].taker].side), trades[n].price, trades[m].price)

OrdersAt(side, price) ==
    UNION {ToSet(levels[side][i].orders) : i \in {k \in DOMAIN levels[side] : levels[side][k].price = price}}

\* What the orders that rest at a price can still trade.
Offered(side, price) == SumFunctionOnSet([o \in DOMAIN orders |-> Remaining(o)], OrdersAt(side, price))

\* A subscriber that starts from a snapshot and applies every book_update has, at every
\* moment and every price, the number of resting orders, and for their quantity what they
\* can still trade plus all that was traded from their level since it was opened: the
\* aggregate of updateOrderFill never goes down by a fill, and the update of a level that
\* is gone carries what was traded from it (RemovedLevelsShowZero is not kept).
FeedFollowsBook ==
    serving => \A side \in Side, p \in Prices :
                  /\ feed[side][p].orderCount = Cardinality(OrdersAt(side, p))
                  /\ feed[side][p].quantity = Offered(side, p) + drift[side][p]

\* order_filled is announced only for orders that are completely filled.
AnnouncedAreFilled == \A o \in announced : filled[o] = orders[o].quantity

(* What a step may never do                                                 *)

Gone(o) == result[o] # "none" /\ ~Resting(o) /\ o # taker

\* An order that was filled, cancelled, rejected or dropped stays out: no later
\* call puts it back in the book or trades it.
GoneStaysGone ==
    [][\A o \in Ids : Gone(o) => Gone(o)' /\ filled'[o] = filled[o] /\ result'[o] = result[o]]_vars

(* Refinement                                                               *)

Stage(o) ==
    IF o \notin DOMAIN orders THEN "unknown"
    ELSE IF o = taker THEN "working"
    ELSE IF Resting(o) THEN "resting" ELSE "closed"

Lifecycle == INSTANCE OrderLifecycle WITH stage <- [o \in Ids |-> Stage(o)]

\* The engine, with its levels, index and iterators, only ever does to an order
\* what OrderLifecycle allows.
ImplementsLifecycle == Lifecycle!Spec

(* Liveness                                                                 *)

\* Every call of processOrder returns: the loop over the live arrays ends.
CallsReturn == ~Idle ~> Idle

-----------------------------------------------------------------------------
(* What the repository says of the engine and its code does not do          *)

Tradable(o) == Resting(o) /\ orders[o].side = MakerSide

\* "Price priority: Better prices match first. Time priority: At same price,
\* earlier orders match first": a trade takes the best order of the other side.
PriceTimePriority ==
    [][trades' # trades =>
         LET m == trades'[Len(trades')].maker
         IN  \A o \in Ids : (Tradable(o) /\ o # m) =>
               \/ Better(MakerSide, orders[m].price, orders[o].price)
               \/ orders[m].price = orders[o].price /\ m < o]_vars

\* "0 means level removed" (order-book.ts:37, of an update's quantity): a subscriber has
\* quantity 0 at every price where no order rests.
RemovedLevelsShowZero ==
    serving => \A side \in Side, p \in Prices : OrdersAt(side, p) = {} => feed[side][p].quantity = 0

\* "FOK: Fill Or Kill (fill entirely or reject)".
FillOrKill ==
    Idle => \A o \in DOMAIN orders :
              orders[o].kind = <<"limit", "FOK">> => filled[o] \in {0, orders[o].quantity}
=============================================================================
