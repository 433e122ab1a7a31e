------------------------------ MODULE MCLedger ------------------------------
(* Instances of Ledger for TLC. *)
EXTENDS Ledger

CONSTANTS a, b, c, bid, ask

\* Two traders, and an account that has no balances yet.  The seller's order has a
\* hold on the base asset, and the buyer's gets one on the quote asset.
MCAccounts == {a, b, c}
MCOrders == {bid, ask}
MCHoldKey == [o \in MCOrders |-> IF o = bid THEN <<a, "quote">> ELSE <<b, "base">>]
MCHeld == [o \in MCOrders |-> IF o = ask THEN 2 ELSE 0]
MCOpening == [k \in MCAccounts \X {"base", "quote"} |->
                 CASE k[1] = c -> NoRow
                   [] k = <<b, "base">> -> Balance(1, 2)
                   [] k[2] = "base" -> Balance(1, 0)
                   [] OTHER -> Balance(4, 0)]

\* Trades in both directions; two fills of the seller's order and its cancellation,
\* one of them a part of its hold; a hold that is taken while they run, twice if it
\* comes to that, and used by two calls; the first two changes of an account, and a
\* settlement and a debit of what is not there.
MCMenu == <<{Settlement(a, b, 1, 2, 1, 0, {bid}, {ask}), Settlement(c, b, 1, 1, 0, 0, {}, {ask})},
            {Settlement(b, a, 1, 3, 0, 1, {}, {}), ReleaseHold(ask), ConsumeHold(ask, 1)},
            {CreateHold(bid, 3), Change(<<c, "quote">>, 2), Change(<<b, "quote">>, 1)},
            {ReleaseHold(bid), ConsumeHold(bid, 1), CreateHold(bid, 1), ConsumeHold(ask, 0),
             Change(<<a, "quote">>, -3), Change(<<c, "quote">>, 1), Change(<<c, "base">>, -1)}>>

\* The first two deposits of an account.
MCFirstDeposits == <<{Change(<<c, "quote">>, 2)}, {Change(<<c, "quote">>, 1)},
                     {Change(<<a, "quote">>, -1)}, {Change(<<b, "quote">>, 1)}>>

\* A debit of an account that has no balance, and of one that has.
MCDebits == <<{Change(<<c, "quote">>, -1)}, {Change(<<a, "quote">>, -5)}>>

\* An order that is cancelled twice.
MCCancelledTwice == <<{ReleaseHold(ask)}, {ReleaseHold(ask)}, {Change(<<b, "base">>, 1)}>>

\* A trade whose seller has a hold.
MCTrade == <<{Settlement(a, b, 1, 2, 0, 0, {}, {ask})}, {Settlement(b, a, 1, 3, 0, 0, {}, {})}>>
=============================================================================
