--------------------------- MODULE MCOrderManager ---------------------------
(* Instances of OrderManager for TLC. *)
EXTENDS OrderManager

MCOrder(side, kind, quantity) == [side |-> side, kind |-> kind, quantity |-> quantity]

\* One order rests, the second is armed and may rest or take once triggered, and
\* the third may meet both, and rests or is dropped with what it does not get.
MCMenu == <<{MCOrder("sell", "limit", 1)},
            {MCOrder("sell", "stop_limit", 1)},
            {MCOrder("buy", "limit", 2), MCOrder("buy", "market", 2)}>>

\* Orders that are dropped with a remainder.
MCDropped == <<{MCOrder("sell", "limit", 1)},
               {MCOrder("buy", "market", 2), MCOrder("buy", "ioc", 2)}>>

\* A maker that fills before the service restarts, and a second taker.
MCMaker == <<{MCOrder("sell", "limit", 1)}, {MCOrder("buy", "limit", 1)}, {MCOrder("buy", "limit", 1)}>>

\* One trade.
MCPair == <<{MCOrder("sell", "limit", 1)}, {MCOrder("buy", "limit", 1)}>>
=============================================================================
