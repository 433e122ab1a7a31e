------------------------------ MODULE OrderBook ------------------------------
(***************************************************************************)
(* The price-time priority book of one symbol, as the operations of class  *)
(* OrderBook compute it.  One side of a book is a sequence of price        *)
(* levels, best price first; a level holds the ids of its orders in FIFO   *)
(* order and a running total quantity.  orderIndex maps the id of every    *)
(* resting order to its side, level and position.  addToBids and addToAsks *)
(* are mirror images, so one operator with a side parameter stands for     *)
(* both.  Positions count from 1; an id that Map.get does not find is at   *)
(* Nowhere.                                                                *)
(***************************************************************************)
EXTENDS Integers, Sequences, SequencesExt

Side == {"buy", "sell"}

Opposite(side) == IF side = "buy" THEN "sell" ELSE "buy"

\* Price p stands ahead of price q in the book of this side.
Better(side, p, q) == IF side = "buy" THEN p > q ELSE p < q

\* A taker of this side with this limit may trade at this price.
Crosses(side, limit, price) == IF side = "buy" THEN price <= limit ELSE price >= limit

Level == [price : Nat, orders : Seq(Nat), total : Int]

Location == [side : Side, level : Nat, pos : Nat]
At(side, i, j) == [side |-> side, level |-> i, pos |-> j]
Nowhere == At("buy", 0, 0)

-----------------------------------------------------------------------------
(* Adding an order                                                          *)

\* A plausible slip: pushing every new level at the end of the array.
IsPointAtEnd(lv, side, price, l) == l = Len(lv) + 1

\* A plausible slip: stopping at the first level that is strictly worse, so
\* that an order at an existing price opens a second level.
IsPointPastEqual(lv, side, price, l) ==
    /\ l \in 1..(Len(lv) + 1)
    /\ \A i \in 1..(l - 1) : ~Better(side, price, lv[i].price)
    /\ l <= Len(lv) => Better(side, price, lv[l].price)

\* findIndex: the first level that is not strictly better than the price,
\* or one past the end.
IsInsertionPoint(lv, side, price, l) ==
    /\ l \in 1..(Len(lv) + 1)
    /\ \A i \in 1..(l - 1) : Better(side, lv[i].price, price)
    /\ l <= Len(lv) => ~Better(side, lv[l].price, price)

JoinsLevel(lv, price, l) == l <= Len(lv) /\ lv[l].price = price

\* A plausible slip: a later order is put in front of its level.
AddAtFront(lv, l, price, o, remaining) ==
    IF JoinsLevel(lv, price, l)
    THEN [lv EXCEPT ![l].orders = <<o>> \o @, ![l].total = @ + remaining]
    ELSE InsertAt(lv, l, [price |-> price, orders |-> <<o>>, total |-> remaining])

\* A plausible slip: joining a level forgets its aggregate.
AddWithoutTotal(lv, l, price, o, remaining) ==
    IF JoinsLevel(lv, price, l)
    THEN [lv EXCEPT ![l].orders = Append(@, o)]
    ELSE InsertAt(lv, l, [price |-> price, orders |-> <<o>>, total |-> remaining])

\* Join the level at l if it has the order's price, else open one there.
AddAt(lv, l, price, o, remaining) ==
    IF JoinsLevel(lv, price, l)
    THEN [lv EXCEPT ![l].orders = Append(@, o), ![l].total = @ + remaining]
    ELSE InsertAt(lv, l, [price |-> price, orders |-> <<o>>, total |-> remaining])

\* A plausible slip: forgetting to reindex the levels that moved.
KeepIndex(index, side, lv, which) == index

\* reindexLevels, and the forEach of removeOrder: every order of the levels
\* in "which" gets its current location.
Reindex(index, side, lv, which) ==
    [o \in DOMAIN index |->
        LET here == UNION {{At(side, i, j) : j \in {k \in DOMAIN lv[i].orders : lv[i].orders[k] = o}} : i \in which}
        IN  IF here = {} THEN index[o] ELSE CHOOSE loc \in here : TRUE]

\* orderIndex after the book lv became new by adding o at level l.
IndexAfterAdd(index, side, lv, new, l, o) ==
    LET placed == [index EXCEPT ![o] = At(side, l, Len(new[l].orders))]
    IN  IF Len(new) = Len(lv)
        THEN placed
        ELSE Reindex(placed, side, new, (l + 1)..Len(new))

-----------------------------------------------------------------------------
(* Removing an order                                                        *)

\* findIndex of the order inside its level; ids are unique in a book.
PositionIn(level, o) == CHOOSE k \in DOMAIN level.orders : level.orders[k] = o

\* splice the order out of level i, and the level itself when that empties it.
RemoveFrom(lv, i, o, remaining) ==
    IF Len(lv[i].orders) = 1
    THEN RemoveAt(lv, i)
    ELSE [lv EXCEPT ![i].orders = RemoveAt(@, PositionIn(lv[i], o)),
                    ![i].total = @ - remaining]

\* orderIndex after o left level i and the book of its side became new.
IndexAfterRemove(index, side, lv, new, i, o) ==
    LET deleted == [index EXCEPT ![o] = Nowhere]
    IN  IF Len(new) = Len(lv)
        THEN Reindex(deleted, side, new, {i})
        ELSE Reindex(deleted, side, new, 1..Len(new))

\* updateOrderFill: the aggregate after an order of the level went from
\* previousFilled to newFilled.
TotalAfterFill(total, quantity, previousFilled, newFilled) ==
    total - ((quantity - previousFilled) - (quantity - newFilled))

-----------------------------------------------------------------------------
(* Depth: what a snapshot shows of a side at each price                     *)

Depth(quantity, orderCount) == [quantity |-> quantity, orderCount |-> orderCount]

\* getSnapshot: quantity and order count of each level (0 where there is none).
Snapshot(lv, prices) ==
    [p \in prices |->
        LET at == {i \in DOMAIN lv : lv[i].price = p}
        IN  IF at = {} THEN Depth(0, 0)
            ELSE LET i == CHOOSE i \in at : TRUE
                 IN  Depth(lv[i].total, Len(lv[i].orders))]
=============================================================================
