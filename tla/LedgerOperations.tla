-------------------------- MODULE LedgerOperations --------------------------
(***************************************************************************)
(* The rows of the ledger and the operations its callers may ask for.      *)
(*                                                                         *)
(* Amounts are integers.  The code adds them as floating point numbers     *)
(* rounded to ten decimals, which is exact for the amounts used here.      *)
(***************************************************************************)
EXTENDS Integers, Sequences, FiniteSets, Functions

CONSTANTS
    Accounts,
    Orders,   \* the orders that hold funds
    HoldKey,  \* the account and asset whose funds each order holds
    Opening,  \* the balance rows at the start (initializeBalance)
    Held,     \* the amount each order holds at the start, 0 for none
    Menu      \* the operations that each call may ask for

Assets == {"base", "quote"}
Key == Accounts \X Assets

Row == [exists : BOOLEAN, available : Int, held : Int]
NoRow == [exists |-> FALSE, available |-> 0, held |-> 0]
Balance(available, held) == [exists |-> TRUE, available |-> available, held |-> held]

Slots == DOMAIN Menu

-----------------------------------------------------------------------------
(* The operations: the balances they change, in order, and the holds they   *)
(* use                                                                      *)

Leg(key, delta) == [key |-> key, delta |-> delta]
Use(order, amount) == [order |-> order, amount |-> amount]

\* credit, debit, deposit and withdraw.
Change(key, delta) == [kind |-> "change", legs |-> <<Leg(key, delta)>>, uses |-> {}]

CreateHold(order, amount) == [kind |-> "create", legs |-> <<>>, uses |-> {Use(order, amount)}]
ReleaseHold(order) == [kind |-> "release", legs |-> <<>>, uses |-> {Use(order, 0)}]
\* A consumption of 0 stands for the call without an amount: all that is held.
ConsumeHold(order, amount) == [kind |-> "consume", legs |-> <<>>, uses |-> {Use(order, amount)}]

\* settleTrade; bids and asks are the orders whose holds it consumes, if any.
Settlement(buyer, seller, quantity, value, buyerFee, sellerFee, bids, asks) ==
    [kind |-> "settle",
     legs |-> <<Leg(<<buyer, "quote">>, -(value + buyerFee)),
                Leg(<<buyer, "base">>, quantity),
                Leg(<<seller, "base">>, -quantity),
                Leg(<<seller, "quote">>, value - sellerFee)>>,
     uses |-> {Use(o, value + buyerFee) : o \in bids} \cup {Use(o, quantity) : o \in asks}]

Operation == [kind : {"change", "create", "release", "consume", "settle"},
              legs : Seq([key : Key, delta : Int]),
              uses : SUBSET [order : Orders, amount : Nat]]

ASSUME KeyAssumption ==
    /\ IsFiniteSet(Orders)
    /\ HoldKey \in [Orders -> Key] /\ Opening \in [Key -> Row] /\ Held \in [Orders -> Nat]
    /\ \A o \in Orders : Held[o] > 0 => Opening[HoldKey[o]].exists

\* A call that changes balances has legs; one that works on a hold names it; a change
\* uses none; and a settlement uses holds on rows of its own legs, at most one on each.
ASSUME MenuAssumption ==
    \A c \in Slots : \A op \in Menu[c] :
        /\ op \in Operation
        /\ op.kind \in {"change", "settle"} <=> op.legs # <<>>
        /\ op.kind = "change" => op.uses = {}
        /\ op.kind \in {"create", "release", "consume"} => \E u \in op.uses : op.uses = {u}
        /\ op.kind = "settle" =>
             /\ \A u \in op.uses : \E i \in DOMAIN op.legs : HoldKey[u.order] = op.legs[i].key
             /\ \A u, v \in op.uses : HoldKey[u.order] = HoldKey[v.order] => u = v

\* What the entries of an operation add up to for one key.
Posted(op, k) ==
    SumFunction([i \in DOMAIN op.legs |-> IF op.legs[i].key = k THEN op.legs[i].delta ELSE 0])

\* A plausible slip: the operands of the difference are swapped.
RemainingSwapped(hold, taken) == IF taken < hold THEN taken - hold ELSE 0

\* consumeHold: what is left of a hold of which "taken" is consumed.
Remaining(hold, taken) == IF taken < hold THEN hold - taken ELSE 0

\* The books are in order at the start, as initializeBalance leaves them.
ASSUME OpeningAssumption ==
    \A k \in Key :
        /\ Opening[k].available >= 0
        /\ ~Opening[k].exists => Opening[k] = NoRow
        /\ Opening[k].held = SumFunctionOnSet(Held, {o \in Orders : HoldKey[o] = k})
=============================================================================
