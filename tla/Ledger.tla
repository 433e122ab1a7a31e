------------------------------- MODULE Ledger -------------------------------
(***************************************************************************)
(* The ledger service over its repository: balances, holds and entries in  *)
(* PostgreSQL, and any number of calls that run at once, each in a         *)
(* transaction of its own.                                                 *)
(*                                                                         *)
(* PostgreSQL runs them READ COMMITTED: SELECT ... FOR UPDATE and UPDATE   *)
(* wait for a row that another transaction has locked and then see what it *)
(* committed, a plain SELECT sees what is committed, and locks are kept to *)
(* the end.  A transaction's own writes are its "work", and the rows of    *)
(* its work are the rows it has locked.  What it does with rows it holds   *)
(* is one step, because nobody else can touch or see them.                 *)
(***************************************************************************)
EXTENDS LedgerOperations

VARIABLES
    balances,  \* ledger_balances
    holds,     \* ledger_holds: the amount of each order's hold, 0 without one
    entries,   \* ledger_entries: the sum of the entries of each key, without
               \* the 'fee' entries, which repeat what the trade entries contain
    consumed,  \* history: what was taken from each balance as a consumed hold
    faults,    \* history: what the calls that have committed did unseen, see Fault
    calls      \* the calls and their transactions

vars == <<balances, holds, entries, consumed, faults, calls>>
tables == <<balances, holds, entries, consumed, faults>>

\* The three things that the locks and the checks of the ledger let through: a call
\* that found no row and writes
\*   "overwrite"  over a row that another call has made since then,
\*   "debit"      a negative amount, which nothing checks;
\* and a call that changes a balance by a hold that is not, or no longer, what it
\* takes it for ("hold").
Fault(c, kind, k) == [call |-> c, kind |-> kind, key |-> k]

NoOperation == [kind |-> "change", legs |-> <<>>, uses |-> {}]
NoWork == [k \in {} |-> NoRow]

\* "done" counts the legs written, "blind" says that the next one found no row,
\* "read" is the amount of the hold that was read, once it was, and "slips" are the
\* faults of the transaction so far.
Idle == [at |-> "idle", op |-> NoOperation, done |-> 0, blind |-> FALSE, read |-> 0,
         work |-> NoWork, slips |-> {}]
Ended == [Idle EXCEPT !.at = "ended"]

TypeOK ==
    /\ balances \in [Key -> Row]
    /\ holds \in [Orders -> Nat]
    /\ entries \in [Key -> Int] /\ consumed \in [Key -> Int]
    /\ faults \subseteq [call : Slots, kind : {"overwrite", "debit", "hold"}, key : Key]
    /\ DOMAIN calls = Slots
    /\ \A c \in Slots :
         /\ calls[c].at \in {"idle", "running", "ended"}
         /\ calls[c].op \in Menu[c] \cup {NoOperation}
         /\ calls[c].done \in 0..Len(calls[c].op.legs)
         /\ calls[c].blind \in BOOLEAN /\ calls[c].read \in Nat
         /\ calls[c].slips \subseteq [call : {c}, kind : {"overwrite", "debit"}, key : Key]
         /\ DOMAIN calls[c].work \subseteq Key
         /\ \A k \in DOMAIN calls[c].work : calls[c].work[k] \in Row /\ calls[c].work[k].exists

Init ==
    /\ balances = Opening
    /\ holds = Held
    /\ entries = [k \in Key |-> 0] /\ consumed = [k \in Key |-> 0] /\ faults = {}
    /\ calls = [c \in Slots |-> Idle]

Running(c) == calls[c].at = "running"
Op(c) == calls[c].op

-----------------------------------------------------------------------------
(* Transactions                                                             *)

\* A plausible slip: the row is read without FOR UPDATE.
ReadUnlocked(c, k) == FALSE

\* Another transaction has the row locked.
LockedFor(c, k) == \E d \in Slots \ {c} : k \in DOMAIN calls[d].work

\* The row as this transaction sees it.
Seen(c, k) == IF k \in DOMAIN calls[c].work THEN calls[c].work[k] ELSE balances[k]

Start(c) ==
    /\ calls[c].at = "idle"
    /\ \E op \in Menu[c] : calls' = [calls EXCEPT ![c] = [Idle EXCEPT !.at = "running", !.op = op]]
    /\ UNCHANGED tables

\* A plausible slip: without a transaction, the legs that were written stay.
RollBackPartly(c) ==
    /\ balances' = [k \in Key |-> Seen(c, k)]
    /\ calls' = [calls EXCEPT ![c] = Ended]
    /\ UNCHANGED <<holds, entries, consumed, faults>>

\* A plausible slip: an error leaves the transaction open, with its locks.
RollBackNever(c) ==
    /\ calls' = [calls EXCEPT ![c].at = "ended"]
    /\ UNCHANGED tables

\* The call ends, and its transaction leaves nothing behind.
RollBack(c) ==
    /\ calls' = [calls EXCEPT ![c] = Ended]
    /\ UNCHANGED tables

\* The connection is lost, or the process dies.
Crash(c) == Running(c) /\ RollBack(c)

-----------------------------------------------------------------------------
(* updateBalance, for the next leg, and the end of calls that have legs     *)

HasLegs(c) == Running(c) /\ Op(c).kind \in {"change", "settle"}
NextLeg(c) == Op(c).legs[calls[c].done + 1]
InLegs(c) == HasLegs(c) /\ calls[c].done < Len(Op(c).legs)
LegsDone(c) == HasLegs(c) /\ calls[c].done = Len(Op(c).legs)

\* FOR UPDATE finds no committed row, and locks none.
FindNoRow(c) ==
    /\ InLegs(c) /\ ~calls[c].blind
    /\ ~Seen(c, NextLeg(c).key).exists
    /\ calls' = [calls EXCEPT ![c].blind = TRUE]
    /\ UNCHANGED tables

Write(c, k, row, slips) ==
    calls' = [calls EXCEPT ![c].work = [x \in {k} \cup DOMAIN @ |-> IF x = k THEN row ELSE @[x]],
                           ![c].done = @ + 1, ![c].blind = FALSE, ![c].slips = @ \cup slips]

\* What goes unseen when a leg is written as a new row.
Slips(c, leg) ==
    {f \in {Fault(c, kind, leg.key) : kind \in {"overwrite", "debit"}} :
        IF f.kind = "debit" THEN leg.delta < 0 ELSE balances[leg.key].exists}

\* upsertBalance: the delta becomes the balance, whatever is there by now.
Upsert(c) ==
    /\ InLegs(c) /\ calls[c].blind
    /\ ~LockedFor(c, NextLeg(c).key)
    /\ Write(c, NextLeg(c).key, Balance(NextLeg(c).delta, 0), Slips(c, NextLeg(c)))
    /\ UNCHANGED tables

\* The row of the next leg is there, and this transaction has it or gets it.
GetsRow(c) ==
    /\ InLegs(c) /\ ~calls[c].blind
    /\ Seen(c, NextLeg(c).key).exists
    /\ ~LockedFor(c, NextLeg(c).key)

\* A plausible slip: held funds count as available.
SufficientTotal(row, delta) == row.available + row.held + delta >= 0 /\ row.held >= 0

Sufficient(row, delta) == row.available + delta >= 0 /\ row.held >= 0

UpdateBalance(c) ==
    /\ GetsRow(c)
    /\ LET row == Seen(c, NextLeg(c).key)
       IN  /\ Sufficient(row, NextLeg(c).delta)
           /\ Write(c, NextLeg(c).key, Balance(row.available + NextLeg(c).delta, row.held), {})
    /\ UNCHANGED tables

\* "Insufficient balance": the error rolls the transaction back.
Insufficient(c) ==
    /\ GetsRow(c)
    /\ ~Sufficient(Seen(c, NextLeg(c).key), NextLeg(c).delta)
    /\ RollBack(c)

\* What the holds the call consumes take from one key.
Consumed(c, k) ==
    SumFunction([u \in {x \in Op(c).uses : HoldKey[x.order] = k /\ holds[x.order] > 0} |-> u.amount])

\* The uses of a settlement that take more than their hold has.
Overuses(c) ==
    {Fault(c, "hold", HoldKey[u.order]) :
        u \in {x \in Op(c).uses : 0 < holds[x.order] /\ holds[x.order] < x.amount}}

\* The entries are inserted, the holds of a settlement are consumed, and the
\* transaction commits.  The rows under its holds are among those it has locked.
Commit(c) ==
    /\ LegsDone(c)
    /\ balances' = [k \in Key |-> [Seen(c, k) EXCEPT !.held = @ - Consumed(c, k)]]
    /\ holds' = [o \in Orders |->
                   IF \E u \in Op(c).uses : u.order = o
                   THEN Remaining(holds[o], (CHOOSE u \in Op(c).uses : u.order = o).amount)
                   ELSE holds[o]]
    /\ entries' = [k \in Key |-> entries[k] + Posted(Op(c), k)]
    /\ consumed' = [k \in Key |-> consumed[k] + Consumed(c, k)]
    /\ faults' = faults \cup calls[c].slips \cup Overuses(c)
    /\ calls' = [calls EXCEPT ![c] = Ended]

-----------------------------------------------------------------------------
(* Holds                                                                    *)

TheUse(c) == CHOOSE u \in Op(c).uses : TRUE
TheOrder(c) == TheUse(c).order
TheKey(c) == HoldKey[TheOrder(c)]

\* What is left when the hold was not what the call takes it for.
Misuse(c, wrong) == faults' = IF wrong THEN faults \cup {Fault(c, "hold", TheKey(c))} ELSE faults

\* createHold: locks the balance, moves the amount and records the hold.
TakeHold(c) ==
    /\ Running(c) /\ Op(c).kind = "create"
    /\ balances[TheKey(c)].exists /\ ~LockedFor(c, TheKey(c))
    /\ balances[TheKey(c)].available >= TheUse(c).amount
    /\ balances' = [balances EXCEPT ![TheKey(c)].available = @ - TheUse(c).amount,
                                    ![TheKey(c)].held = @ + TheUse(c).amount]
    /\ holds' = [holds EXCEPT ![TheOrder(c)] = TheUse(c).amount]
    /\ Misuse(c, holds[TheOrder(c)] > 0)
    /\ calls' = [calls EXCEPT ![c] = Ended]
    /\ UNCHANGED <<entries, consumed>>

\* createHold answers false.
RefuseHold(c) ==
    /\ Running(c) /\ Op(c).kind = "create"
    /\ \/ ~balances[TheKey(c)].exists
       \/ ~LockedFor(c, TheKey(c)) /\ balances[TheKey(c)].available < TheUse(c).amount
    /\ RollBack(c)

UsesHold(c) == Running(c) /\ Op(c).kind \in {"release", "consume"}

\* releaseHold and consumeHold read the hold, without a lock.
ReadHold(c) ==
    /\ UsesHold(c) /\ calls[c].read = 0 /\ holds[TheOrder(c)] > 0
    /\ calls' = [calls EXCEPT ![c].read = holds[TheOrder(c)]]
    /\ UNCHANGED tables

\* There is none: they answer false.
FindNoHold(c) == UsesHold(c) /\ calls[c].read = 0 /\ holds[TheOrder(c)] = 0 /\ RollBack(c)

\* Then they change the balance as soon as its row is free, and the hold.
HasHold(c, kind) == UsesHold(c) /\ Op(c).kind = kind /\ calls[c].read > 0 /\ ~LockedFor(c, TheKey(c))

\* A plausible slip: the hold is not deleted.
ReleaseKeepingHold(c) ==
    /\ HasHold(c, "release")
    /\ balances' = [balances EXCEPT ![TheKey(c)].available = @ + calls[c].read,
                                    ![TheKey(c)].held = @ - calls[c].read]
    /\ Misuse(c, holds[TheOrder(c)] # calls[c].read)
    /\ calls' = [calls EXCEPT ![c] = Ended]
    /\ UNCHANGED <<holds, entries, consumed>>

ReleaseHoldRead(c) ==
    /\ HasHold(c, "release")
    /\ balances' = [balances EXCEPT ![TheKey(c)].available = @ + calls[c].read,
                                    ![TheKey(c)].held = @ - calls[c].read]
    /\ holds' = [holds EXCEPT ![TheOrder(c)] = 0]
    /\ Misuse(c, holds[TheOrder(c)] # calls[c].read)
    /\ calls' = [calls EXCEPT ![c] = Ended]
    /\ UNCHANGED <<entries, consumed>>

\* A hold that is gone by now is not updated.
ConsumeHoldRead(c) ==
    /\ HasHold(c, "consume")
    /\ LET amount == IF TheUse(c).amount = 0 THEN calls[c].read ELSE TheUse(c).amount
       IN  /\ balances' = [balances EXCEPT ![TheKey(c)].held = @ - amount]
           /\ holds' = [holds EXCEPT ![TheOrder(c)] =
                           IF @ = 0 THEN 0 ELSE Remaining(calls[c].read, amount)]
           /\ consumed' = [consumed EXCEPT ![TheKey(c)] = @ + amount]
           /\ Misuse(c, holds[TheOrder(c)] # calls[c].read \/ calls[c].read < amount)
    /\ calls' = [calls EXCEPT ![c] = Ended]
    /\ UNCHANGED entries

-----------------------------------------------------------------------------
(* PostgreSQL aborts one transaction of a cycle of waiting ones             *)

\* The row the next statement of the call locks.
Wants(c, k) ==
    /\ InLegs(c) /\ k = NextLeg(c).key
    /\ calls[c].blind \/ Seen(c, k).exists

WaitsFor(c, d) == c # d /\ \E k \in DOMAIN calls[d].work : Wants(c, k)

Waiting == {c \in Slots : \E d \in Slots : WaitsFor(c, d)}

DeadlockAbort(c) ==
    /\ \E S \in SUBSET Waiting : c \in S /\ \A d \in S : \E e \in S : WaitsFor(d, e)
    /\ RollBack(c)

-----------------------------------------------------------------------------
Process(c) ==
    \/ FindNoRow(c) \/ Upsert(c) \/ UpdateBalance(c) \/ Insufficient(c) \/ Commit(c)
    \/ TakeHold(c) \/ RefuseHold(c)
    \/ ReadHold(c) \/ FindNoHold(c) \/ ReleaseHoldRead(c) \/ ConsumeHoldRead(c)

Next == \E c \in Slots : Start(c) \/ Process(c) \/ DeadlockAbort(c) \/ Crash(c)

Spec == Init /\ [][Next]_vars

\* A statement that can run does, and the database finds deadlocks.
Fairness == (\A c \in Slots : WF_vars(Process(c))) /\ WF_vars(\E c \in Slots : DeadlockAbort(c))
FairSpec == Spec /\ Fairness

-----------------------------------------------------------------------------
(* Properties                                                               *)

Faulty(k, kinds) == \E f \in faults : f.key = k /\ f.kind \in kinds

\* A balance is negative only where a debit, or the debit leg of a settlement, found no
\* row and committed: what updateBalance and createHold check under their locks still
\* holds when they write, however the calls interleave.
NeverOverdrawn == \A k \in Key : balances[k].available < 0 => Faulty(k, {"debit"})

\* The comment of ledger.service.ts:211, "will throw if insufficient", of every debit.
DebitsThrow == \A k \in Key : balances[k].available >= 0

\* The part of a balance that is held is the sum of the holds on it, until a call
\* commits that writes over the row, or that releases, consumes or replaces a hold
\* which is not what it read: nothing else makes the two tables disagree, not the
\* partial consumption of a hold either.
HoldsAgree(k) == balances[k].held = SumFunctionOnSet(holds, {o \in Orders : HoldKey[o] = k})

HeldIsHolds == \A k \in Key : Faulty(k, {"overwrite", "hold"}) \/ HoldsAgree(k)

\* ledger.types.ts:65, "Held: Funds reserved for pending orders", whoever uses a hold.
HeldIsReserved == \A k \in Key : HoldsAgree(k)

\* The audit trail explains a balance: what there was, plus the entries, minus the
\* holds that were consumed.  A call whose update is lost breaks it, and only the
\* call that makes a row over one just made loses one.
Explained(k) ==
    balances[k].available + balances[k].held =
        Opening[k].available + Opening[k].held + entries[k] - consumed[k]

EntriesExplainBalances == \A k \in Key : Faulty(k, {"overwrite"}) \/ Explained(k)

\* ledger.repository.ts:149, "row-level locking to prevent race conditions", of every row.
LocksPreventRaces == \A k \in Key : Explained(k)

\* Calls run at once, statement by statement, and some fail half way; to those who
\* read the tables, every operation happens at one moment, in full or not at all,
\* except the steps that are faults, each of them a step of a call of its own.
Atomic == INSTANCE AtomicLedger
ImplementsAtomic ==
    Atomic!Init /\ [][Atomic!Next \/ faults' # faults]_<<balances, holds>>

\* Every call that starts ends: rows are waited for, but locks do not outlive their
\* transaction and a cycle of waiting transactions is broken.
CallsEnd == \A c \in Slots : Running(c) ~> calls[c].at = "ended"

\* Settlements without fees move assets between accounts and neither make nor
\* destroy any ("every credit has a debit").
CreditsEqualDebits ==
    LET Total(rows, asset) ==
            SumFunction([a \in Accounts |-> rows[<<a, asset>>].available + rows[<<a, asset>>].held])
    IN  \A asset \in Assets : Total(balances, asset) = Total(Opening, asset)
=============================================================================
