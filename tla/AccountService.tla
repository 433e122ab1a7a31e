--------------------------- MODULE AccountService ---------------------------
(***************************************************************************)
(* The wallets of the backend: every operation of account.service.ts reads *)
(* the row of an account, checks it, computes, and writes the columns it   *)
(* changes with a later statement, without a transaction or a lock.        *)
(* Statements of different calls interleave, and any of them may reject.   *)
(***************************************************************************)
EXTENDS Integers, Sequences, FiniteSets, Functions

CONSTANTS
    Holders,      \* pairs of a user and a currency
    Slots,        \* calls that run at the same time
    MaxAccounts,  \* bound on the rows of the table
    MaxAmount,    \* bound on the amount of an operation
    MaxCalls      \* bound on the calls ever made

ASSUME AccountBounds == /\ MaxAccounts \in Nat /\ MaxAmount \in Nat /\ MaxCalls \in Nat
                        /\ IsFiniteSet(Slots)

VARIABLES
    accounts,  \* the table; the position of a row is its id
    calls,     \* per slot: the running call, with the rows it has read
    made,      \* how many calls were made
    ought,     \* history: each row as if every write had been applied to it in one step
    late,      \* history: columns written under a call that had read them and relies on them
    net,       \* history: what was deposited less what was withdrawn
    stranded   \* history: amounts debited by a settlement whose credit rejected

vars == <<accounts, calls, made, ought, late, net, stranded>>

history == <<ought, late, net, stranded>>

Columns == {"balance", "locked", "status"}
Account == [holder : Holders, balance : Int, locked : Int, status : {"active", "locked", "closed"}]
Kinds == {"deposit", "withdraw", "lock", "unlock", "settle", "close", "freeze", "unfreeze"}
Ids == 1..MaxAccounts
Op == [kind : Kinds, id : Ids, to : Ids, amount : 1..MaxAmount]
Idle == [at |-> "idle"]

NewAccount(h) == [holder |-> h, balance |-> 0, locked |-> 0, status |-> "active"]

Init ==
    /\ accounts = <<>> /\ ought = <<>>
    /\ calls = [c \in Slots |-> Idle]
    /\ made = 0 /\ late = {} /\ net = 0 /\ stranded = 0

-----------------------------------------------------------------------------
(* What an operation checks, relies on and writes                           *)

Available(a) == a.balance - a.locked

\* A plausible slip: a withdrawal or a lock is checked against the whole balance.
ValidOnTotal(op, a) ==
    /\ op.kind \in {"deposit", "withdraw", "lock"} => a.status = "active"
    /\ op.kind \in {"withdraw", "lock"} => op.amount <= a.balance
    /\ op.kind \in {"unlock", "settle"} => op.amount <= a.locked
    /\ op.kind = "close" => a.balance <= 0 /\ a.locked <= 0
    /\ op.kind \in {"freeze", "unfreeze"} => a.status # "closed"

\* A plausible slip: a closed account can be frozen.
ValidWhenClosed(op, a) ==
    op.kind \in {"freeze", "unfreeze"} \/ ValidOnTotal(op, a)

Valid(op, a) ==
    CASE op.kind = "deposit" -> a.status = "active"
      [] op.kind \in {"withdraw", "lock"} -> a.status = "active" /\ op.amount <= Available(a)
      [] op.kind \in {"unlock", "settle"} -> op.amount <= a.locked
      [] op.kind = "close" -> a.balance <= 0 /\ a.locked <= 0
      [] op.kind \in {"freeze", "unfreeze"} -> a.status # "closed"

\* A plausible slip: a settlement returns the locked amount instead of paying it.
AfterReleasing(op, a) ==
    CASE op.kind = "deposit" -> [a EXCEPT !.balance = @ + op.amount]
      [] op.kind = "withdraw" -> [a EXCEPT !.balance = @ - op.amount]
      [] op.kind = "lock" -> [a EXCEPT !.locked = @ + op.amount]
      [] op.kind \in {"unlock", "settle"} -> [a EXCEPT !.locked = @ - op.amount]
      [] OTHER -> a

After(op, a) ==
    CASE op.kind = "deposit" -> [a EXCEPT !.balance = @ + op.amount]
      [] op.kind = "withdraw" -> [a EXCEPT !.balance = @ - op.amount]
      [] op.kind = "lock" -> [a EXCEPT !.locked = @ + op.amount]
      [] op.kind = "unlock" -> [a EXCEPT !.locked = @ - op.amount]
      [] op.kind = "settle" -> [a EXCEPT !.balance = @ - op.amount, !.locked = @ - op.amount]
      [] op.kind = "close" -> [a EXCEPT !.status = "closed"]
      [] op.kind = "freeze" -> [a EXCEPT !.status = "locked"]
      [] op.kind = "unfreeze" -> [a EXCEPT !.status = "active"]

Credited(op, a) == [a EXCEPT !.balance = @ + op.amount]

\* The columns of its account that the UPDATE of an operation sets.
\* (A plausible slip: the whole row is written back.)
SetsEverything(op) == Columns

Sets(op) ==
    CASE op.kind \in {"deposit", "withdraw"} -> {"balance"}
      [] op.kind \in {"lock", "unlock"} -> {"locked"}
      [] op.kind = "settle" -> {"balance", "locked"}
      [] op.kind \in {"close", "freeze", "unfreeze"} -> {"status"}

\* The columns that its check or its new values depend on.
Uses(op) ==
    CASE op.kind = "deposit" -> {"balance", "status"}
      [] op.kind \in {"withdraw", "lock"} -> Columns
      [] op.kind = "unlock" -> {"locked"}
      [] op.kind \in {"settle", "close"} -> {"balance", "locked"}
      [] op.kind \in {"freeze", "unfreeze"} -> {"status"}

\* The columns of account id that a running call has read and relies on.
ReliesOn(call, id) ==
    UNION {IF call.at \in {"reading", "writing"} /\ call.op.kind # "create" /\ call.op.id = id
             THEN Uses(call.op) ELSE {},
           IF call.at \in {"writing", "crediting"} /\ call.op.kind = "settle" /\ call.op.to = id
             THEN {"balance"} ELSE {}}

-----------------------------------------------------------------------------
(* Operations                                                               *)

\* Updates columns cols of the account from what the call computed.
Update(c, id, cols, new, owed) ==
    /\ accounts' = [accounts EXCEPT ![id] =
           [f \in DOMAIN @ |-> IF f \in cols THEN new[f] ELSE @[f]]]
    /\ ought' = [ought EXCEPT ![id] = owed]
    /\ late' = late \cup {<<id, col>> : col \in
           cols \cap UNION {ReliesOn(calls[d], id) : d \in Slots \ {c}}}

Return(c) == calls' = [calls EXCEPT ![c] = Idle]

\* Every operation but createAccount reads the row; a failed check ends the call unseen.
Read(c, op) ==
    /\ calls[c].at = "idle" /\ made < MaxCalls /\ op.id \in DOMAIN accounts
    /\ IF op.kind = "settle" THEN op.to \in DOMAIN accounts /\ op.to # op.id
                             ELSE op.to = op.id /\ Valid(op, accounts[op.id])
    /\ calls' = [calls EXCEPT ![c] =
           [at |-> IF op.kind = "settle" THEN "reading" ELSE "writing", op |-> op, seen |-> accounts[op.id]]]
    /\ made' = made + 1
    /\ UNCHANGED <<accounts, history>>

\* settleTrade reads the second account and checks the first.
ReadCredit(c) ==
    /\ calls[c].at = "reading"
    /\ calls' = [calls EXCEPT ![c] =
           IF Valid(@.op, @.seen)
             THEN [at |-> "writing", op |-> @.op, seen |-> @.seen, seenTo |-> accounts[@.op.to]]
             ELSE Idle]
    /\ UNCHANGED <<accounts, made, history>>

Write(c) ==
    LET call == calls[c]
        op == call.op
    IN  /\ call.at = "writing" /\ op.kind # "create"
        /\ Update(c, op.id, Sets(op), After(op, call.seen), After(op, ought[op.id]))
        /\ net' = net + (CASE op.kind = "deposit" -> op.amount
                           [] op.kind = "withdraw" -> -op.amount
                           [] OTHER -> 0)
        /\ IF op.kind = "settle" THEN calls' = [calls EXCEPT ![c].at = "crediting"] ELSE Return(c)
        /\ UNCHANGED <<made, stranded>>

\* The second statement of settleTrade.
WriteCredit(c) ==
    LET call == calls[c]
        op == call.op
    IN  /\ call.at = "crediting"
        /\ Update(c, op.to, {"balance"}, Credited(op, call.seenTo), Credited(op, ought[op.to]))
        /\ Return(c)
        /\ UNCHANGED <<made, net, stranded>>

\* createAccount: exists() found no account of this holder.
Exists(c, h) ==
    /\ calls[c].at = "idle" /\ made < MaxCalls
    /\ \A id \in DOMAIN accounts : accounts[id].holder # h
    /\ calls' = [calls EXCEPT ![c] = [at |-> "writing", op |-> [kind |-> "create", holder |-> h]]]
    /\ made' = made + 1
    /\ UNCHANGED <<accounts, history>>

\* The table has no unique index on user and currency.
Create(c) ==
    /\ calls[c].at = "writing" /\ calls[c].op.kind = "create" /\ Len(accounts) < MaxAccounts
    /\ accounts' = Append(accounts, NewAccount(calls[c].op.holder))
    /\ ought' = Append(ought, NewAccount(calls[c].op.holder))
    /\ Return(c)
    /\ UNCHANGED <<made, late, net, stranded>>

\* The next statement of a call rejects, or its process stops.
Reject(c) ==
    /\ calls[c].at # "idle"
    /\ stranded' = stranded + (IF calls[c].at = "crediting" THEN calls[c].op.amount ELSE 0)
    /\ Return(c)
    /\ UNCHANGED <<accounts, made, ought, late, net>>

Next ==
    \E c \in Slots :
        \/ \E op \in Op : Read(c, op)
        \/ ReadCredit(c) \/ Write(c) \/ WriteCredit(c)
        \/ \E h \in Holders : Exists(c, h)
        \/ Create(c) \/ Reject(c)

Spec == Init /\ [][Next]_vars

-----------------------------------------------------------------------------
(* Properties                                                               *)

TypeOK ==
    /\ accounts \in Seq(Account) /\ Len(accounts) <= MaxAccounts
    /\ ought \in Seq(Account) /\ Len(ought) = Len(accounts)
    /\ late \subseteq (DOMAIN accounts) \X Columns
    /\ made \in 0..MaxCalls /\ net \in Int /\ stranded \in Nat
    /\ \A c \in Slots : calls[c].at \in {"idle", "reading", "writing", "crediting"}

\* A column is exactly the sum of what was written to it, unless a call wrote it while another
\* one that had read it went on: deposits, locks and settlements of one account disturb each
\* other only where they set the same column.
UpdatesAddUp ==
    \A id \in DOMAIN accounts, col \in {"balance", "locked"} :
        <<id, col>> \notin late => accounts[id][col] = ought[id][col]

Undisturbed(id) == \A col \in Columns : <<id, col>> \notin late

\* As long as no call of an account writes under another one, no locked amount is negative or
\* exceeds the balance, whatever calls fail and wherever settlements are torn.
UndisturbedSolvent ==
    \A id \in DOMAIN accounts :
        Undisturbed(id) => 0 <= accounts[id].locked /\ accounts[id].locked <= accounts[id].balance

Balances(table) == SumFunction([id \in DOMAIN table |-> table[id].balance])

InTransit == SumFunction([c \in Slots |-> IF calls[c].at = "crediting" THEN calls[c].op.amount ELSE 0])

\* Settlements move money and create none: the balances, what is between the two statements of
\* a settlement and what failed ones left behind add up to what was deposited less withdrawn.
MoneyConserved ==
    late = {} => Balances(accounts) + InTransit + stranded = net

\* closeAccount is permanent for every call that starts after it.
ClosedStaysClosed ==
    [][\A id \in DOMAIN accounts :
          accounts[id].status = "closed" /\ <<id, "status">> \notin late => accounts'[id].status = "closed"]_vars

\* "we lock the required funds so they can't be spent elsewhere while the order is pending"
\* (account.service.ts:298).
LockedFundsCovered == \A id \in DOMAIN accounts : accounts[id].locked <= accounts[id].balance
=============================================================================
