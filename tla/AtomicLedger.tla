---------------------------- MODULE AtomicLedger ----------------------------
(***************************************************************************)
(* What the ledger promises to those who read its tables: the operations   *)
(* happen one at a time, each of them in full, and none of them spends     *)
(* what is not there.                                                      *)
(***************************************************************************)
EXTENDS LedgerOperations

VARIABLES balances, holds

\* The balances an operation changes; it makes those that are not there.
Touched(op) == {op.legs[i].key : i \in DOMAIN op.legs}

\* A balance after entries of "delta" and a consumed hold of "taken".
After(row, delta, taken) == Balance(row.available + delta, row.held - taken)

\* How much of its hold an operation takes from the balance under the key.
Taken(op, k) ==
    SumFunction([u \in {x \in op.uses : HoldKey[x.order] = k} |->
                    holds[u.order] - Remaining(holds[u.order], u.amount)])

\* A change of one balance, or a trade between two accounts.
Post(op) ==
    /\ op.kind \in {"change", "settle"}
    /\ holds' = [o \in Orders |-> IF \E u \in op.uses : u.order = o
                                   THEN Remaining(holds[o], (CHOOSE u \in op.uses : u.order = o).amount)
                                   ELSE holds[o]]
    /\ balances' = [k \in Key |-> IF k \in Touched(op)
                                  THEN After(balances[k], Posted(op, k), Taken(op, k))
                                  ELSE balances[k]]
    /\ \A k \in Touched(op) : balances'[k].available >= 0

\* An order without a hold gets one.
Reserve(op) ==
    /\ op.kind = "create"
    /\ \E u \in op.uses :
         LET k == HoldKey[u.order]
         IN  /\ holds[u.order] = 0 /\ balances[k].available >= u.amount
             /\ balances' = [balances EXCEPT ![k].available = @ - u.amount, ![k].held = @ + u.amount]
             /\ holds' = [holds EXCEPT ![u.order] = u.amount]

\* What is held goes back to the account, all of it.
Release(op) ==
    /\ op.kind = "release"
    /\ \E u \in op.uses :
         LET k == HoldKey[u.order]
         IN  /\ balances' = [balances EXCEPT ![k].available = @ + holds[u.order],
                                             ![k].held = @ - holds[u.order]]
             /\ holds' = [holds EXCEPT ![u.order] = 0]

\* Part of what is held leaves the account, or all of it.
Consume(op) ==
    /\ op.kind = "consume"
    /\ \E u \in op.uses :
         LET rest == IF u.amount = 0 THEN 0 ELSE Remaining(holds[u.order], u.amount)
         IN  /\ balances' = [balances EXCEPT ![HoldKey[u.order]].held = @ - (holds[u.order] - rest)]
             /\ holds' = [holds EXCEPT ![u.order] = rest]

\* An operation that is refused, or whose transaction fails, changes nothing.
Refuse == UNCHANGED <<balances, holds>>

Init == balances = Opening /\ holds = Held
Next ==
    \/ Refuse
    \/ \E c \in Slots : \E op \in Menu[c] : Post(op) \/ Reserve(op) \/ Release(op) \/ Consume(op)
Spec == Init /\ [][Next]_<<balances, holds>>
=============================================================================
