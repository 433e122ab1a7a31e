--------------------------- MODULE OrderLifecycle ---------------------------
(***************************************************************************)
(* What the matching engine promises about each order, without a book:     *)
(* an order is admitted once, trades only while it works or rests, only    *)
(* with a compatible order of the other side and never beyond either       *)
(* remainder, and once closed it stays closed.  Which resting order a      *)
(* taker meets is left open.                                               *)
(***************************************************************************)
EXTENDS Integers, Sequences

CONSTANT MaxOrders

Ids == 1..MaxOrders

VARIABLES
    orders,   \* the terms of each admitted order
    stage,    \* where each order is in its life
    filled    \* how much of each order has traded

vars == <<orders, stage, filled>>

Working == {o \in Ids : stage[o] = "working"}
MayRest(terms) == terms.kind[1] = "limit" /\ terms.kind[2] \in {"GTC", "GTD"}
Open(o) == orders[o].quantity - filled[o]

Init ==
    /\ orders = <<>>
    /\ stage = [o \in Ids |-> "unknown"]
    /\ filled = [o \in Ids |-> 0]

\* A new order, to rest at once (recovered) or to work (placed).
Admit ==
    /\ Working = {}
    /\ Len(orders) < MaxOrders
    /\ Len(orders') = Len(orders) + 1
    /\ SubSeq(orders', 1, Len(orders)) = orders
    /\ LET o == Len(orders')
           terms == orders'[o]
       IN  /\ stage[o] = "unknown"
           /\ \/ /\ MayRest(terms) /\ terms.carried <= terms.quantity
                 /\ stage' = [stage EXCEPT ![o] = "resting"]
              \/ /\ terms.carried = 0
                 /\ stage' = [stage EXCEPT ![o] = "working"]
           /\ filled' = [filled EXCEPT ![o] = terms.carried]

Compatible(maker, taker) ==
    /\ orders[maker].side # orders[taker].side
    /\ \/ orders[taker].kind[1] = "market"
       \/ orders[taker].side = "buy" /\ orders[maker].price <= orders[taker].price
       \/ orders[taker].side = "sell" /\ orders[maker].price >= orders[taker].price

\* The working order takes from a resting one, which closes when exhausted.
Take(maker, taker) ==
    /\ stage[maker] = "resting" /\ stage[taker] = "working"
    /\ Compatible(maker, taker)
    /\ \E q \in 1..orders[maker].quantity :
         /\ q <= Open(maker) /\ q <= Open(taker)
         /\ filled' = [filled EXCEPT ![maker] = @ + q, ![taker] = @ + q]
         /\ stage' = [stage EXCEPT ![maker] = IF q = Open(maker) THEN "closed" ELSE "resting"]
    /\ UNCHANGED orders

\* The working order rests with its remainder, or closes.
Settle(o) ==
    /\ stage[o] = "working"
    /\ stage' = [stage EXCEPT ![o] =
                    IF MayRest(orders[o]) /\ Open(o) > 0 THEN "resting" ELSE "closed"]
    /\ UNCHANGED <<orders, filled>>

Withdraw(o) ==
    /\ Working = {}
    /\ stage[o] = "resting"
    /\ stage' = [stage EXCEPT ![o] = "closed"]
    /\ UNCHANGED <<orders, filled>>

Next ==
    \/ Admit
    \/ \E maker, taker \in Ids : Take(maker, taker)
    \/ \E o \in Ids : Settle(o) \/ Withdraw(o)

Spec == Init /\ [][Next]_vars
=============================================================================
