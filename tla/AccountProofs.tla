---------------------------- MODULE AccountProofs ----------------------------
(***************************************************************************)
(* What the calls of account.service.ts keep although nothing locks a row: *)
(* a column that no call wrote under another one is the sum of its writes, *)
(* such an account covers what is locked in it, and it stays closed.  All  *)
(* rest on one invariant: what a call has read and relies on is what the   *)
(* row still holds, unless the column is marked as written under a call.   *)
(***************************************************************************)
EXTENDS AccountService, SumProofs, SequenceTheorems

Single == [kind : Kinds \ {"settle"}, id : Ids, to : Ids, amount : 1..MaxAmount]
Paying == [kind : {"settle"}, id : Ids, to : Ids, amount : 1..MaxAmount]

\* The calls, by what they have read.
Creating == [at : {"writing"}, op : [kind : {"create"}, holder : Holders]]
Reading == [at : {"reading"}, op : Paying, seen : Account]
Writing == [at : {"writing"}, op : Single, seen : Account]
Settling == [at : {"writing", "crediting"}, op : Paying, seen : Account, seenTo : Account]

Call == {Idle} \cup Creating \cup Reading \cup Writing \cup Settling

\* A call that has read a row.
Running(call) == call.at # "idle" /\ call.op.kind # "create"

\* A settlement that has read the account it credits.
Credits(call) == call.at \in {"writing", "crediting"} /\ call.op.kind = "settle"

Typed ==
    /\ accounts \in Seq(Account)
    /\ ought \in Seq(Account) /\ Len(ought) = Len(accounts)
    /\ calls \in [Slots -> Call]

\* The rows of a call exist, a settlement has two, and what it read passed its check.
Checked(call) ==
    /\ call.op.id \in DOMAIN accounts /\ call.op.to \in DOMAIN accounts
    /\ call.op.kind = "settle" => call.op.to # call.op.id
    /\ call.at = "writing" => Valid(call.op, call.seen)

\* What a call has read of its account, before it writes it, is what the row still holds.
SeenIsFresh(call) ==
    call.at # "crediting" => \A col \in Uses(call.op) :
        <<call.op.id, col>> \notin late => call.seen[col] = accounts[call.op.id][col]

\* So is the balance of the account that a settlement credits.
CreditIsFresh(call) ==
    Credits(call) /\ <<call.op.to, "balance">> \notin late
        => call.seenTo.balance = accounts[call.op.to].balance

CallsFresh ==
    \A c \in Slots : Running(calls[c]) =>
        Checked(calls[c]) /\ SeenIsFresh(calls[c]) /\ CreditIsFresh(calls[c])

IInv == Typed /\ CallsFresh /\ UpdatesAddUp /\ UndisturbedSolvent

-----------------------------------------------------------------------------
(* One operation on one row                                                 *)

\* What an operation computes is an account again.
LEMMA AfterTyped ==
    ASSUME NEW op \in Op, NEW a \in Account
    PROVE  After(op, a) \in Account /\ Credited(op, a) \in Account
<1>1. op.amount \in Int /\ op.kind \in Kinds
    BY AccountBounds DEF Op
<1>2. a.balance \in Int /\ a.locked \in Int
    BY DEF Account
<1>3. \A b, l \in Int :
          /\ [a EXCEPT !.balance = b] \in Account
          /\ [a EXCEPT !.locked = l] \in Account
          /\ [a EXCEPT !.balance = b, !.locked = l] \in Account
    BY DEF Account
<1>4. /\ a.balance + op.amount \in Int /\ a.balance - op.amount \in Int
      /\ a.locked + op.amount \in Int /\ a.locked - op.amount \in Int
    BY <1>1, <1>2
<1>5. Credited(op, a) \in Account
    BY <1>3, <1>4, Zenon DEF Credited
<1>6. CASE op.kind = "deposit"
    <2>1. After(op, a) = [a EXCEPT !.balance = a.balance + op.amount]
        BY <1>6 DEF After
    <2> QED
        BY <1>3, <1>4, <1>5, <2>1, Zenon
<1>7. CASE op.kind = "withdraw"
    <2>1. After(op, a) = [a EXCEPT !.balance = a.balance - op.amount]
        BY <1>7 DEF After
    <2> QED
        BY <1>3, <1>4, <1>5, <2>1, Zenon
<1>8. CASE op.kind = "lock"
    <2>1. After(op, a) = [a EXCEPT !.locked = a.locked + op.amount]
        BY <1>8 DEF After
    <2> QED
        BY <1>3, <1>4, <1>5, <2>1, Zenon
<1>9. CASE op.kind = "unlock"
    <2>1. After(op, a) = [a EXCEPT !.locked = a.locked - op.amount]
        BY <1>9 DEF After
    <2> QED
        BY <1>3, <1>4, <1>5, <2>1, Zenon
<1>10. CASE op.kind = "settle"
    <2>1. After(op, a) = [a EXCEPT !.balance = a.balance - op.amount, !.locked = a.locked - op.amount]
        BY <1>10 DEF After
    <2> QED
        BY <1>3, <1>4, <1>5, <2>1, Zenon
<1>11. CASE op.kind \in {"close", "freeze", "unfreeze"}
    <2>1. PICK s \in {"active", "locked", "closed"} : After(op, a) = [a EXCEPT !.status = s]
        BY <1>11 DEF After
    <2>2. [a EXCEPT !.status = s] \in Account
        BY DEF Account
    <2> QED
        BY <1>5, <2>1, <2>2, Zenon
<1> QED
    BY <1>1, <1>6, <1>7, <1>8, <1>9, <1>10, <1>11 DEF Kinds

\* A column that an operation adds to depends on nothing else, and the operation has read it.
LEMMA SetsWhatItUses ==
    ASSUME NEW op \in Op, NEW a \in Account, NEW b \in Account,
           NEW col \in {"balance", "locked"}, col \in Sets(op)
    PROVE  /\ col \in Uses(op)
           /\ a[col] = b[col] => After(op, a)[col] = After(op, b)[col]
<1>1. op.amount \in Int /\ op.kind \in Kinds
    BY AccountBounds DEF Op
<1>2. col \in Uses(op)
    BY <1>1 DEF Sets, Uses, Columns, Kinds
<1>3. a[col] = b[col] => After(op, a)[col] = After(op, b)[col]
    BY <1>1 DEF Sets, After, Account, Kinds
<1> QED
    BY <1>2, <1>3

\* A column that an operation does not set is not part of what it computes.
LEMMA RestIsKept ==
    ASSUME NEW op \in Op, NEW a \in Account, NEW col \in Columns, col \notin Sets(op)
    PROVE  After(op, a)[col] = a[col]
<1>1. op.kind \in Kinds
    BY DEF Op
<1> QED
    BY <1>1 DEF Sets, After, Account, Kinds, Columns

\* An operation whose check passed on what it used keeps what is locked covered.
LEMMA ValidKeepsSolvent ==
    ASSUME NEW op \in Op, NEW seen \in Account, NEW row \in Account, NEW new \in Account,
           Valid(op, seen), \A col \in Uses(op) : seen[col] = row[col],
           \A col \in Columns : new[col] = IF col \in Sets(op) THEN After(op, seen)[col] ELSE row[col],
           0 <= row.locked, row.locked <= row.balance
    PROVE  0 <= new.locked /\ new.locked <= new.balance
<1>1. op.amount \in Int /\ op.amount >= 1 /\ op.kind \in Kinds
    BY AccountBounds DEF Op
<1>2. /\ seen.balance \in Int /\ seen.locked \in Int /\ row.balance \in Int /\ row.locked \in Int
      /\ new.balance = IF "balance" \in Sets(op) THEN After(op, seen).balance ELSE row.balance
      /\ new.locked = IF "locked" \in Sets(op) THEN After(op, seen).locked ELSE row.locked
    BY DEF Account, Columns
<1>3. CASE op.kind = "deposit"
    BY <1>1, <1>2, <1>3 DEF Sets, Uses, After, Account
<1>4. CASE op.kind = "withdraw"
    BY <1>1, <1>2, <1>4 DEF Sets, Uses, After, Account, Valid, Available, Columns
<1>5. CASE op.kind = "lock"
    BY <1>1, <1>2, <1>5 DEF Sets, Uses, After, Account, Valid, Available, Columns
<1>6. CASE op.kind = "unlock"
    BY <1>1, <1>2, <1>6 DEF Sets, Uses, After, Account, Valid
<1>7. CASE op.kind = "settle"
    <2>1. /\ op.amount <= seen.locked /\ seen.locked = row.locked /\ seen.balance = row.balance
          /\ "balance" \in Sets(op) /\ "locked" \in Sets(op)
        BY <1>7 DEF Sets, Uses, Valid
    <2>2. /\ After(op, seen).balance = seen.balance - op.amount
          /\ After(op, seen).locked = seen.locked - op.amount
        BY <1>7 DEF After, Account
    <2> QED
        BY <1>1, <1>2, <2>1, <2>2
<1>8. CASE op.kind \in {"close", "freeze", "unfreeze"}
    BY <1>1, <1>2, <1>8 DEF Sets
<1> QED
    BY <1>1, <1>3, <1>4, <1>5, <1>6, <1>7, <1>8 DEF Kinds

-----------------------------------------------------------------------------
(* A statement that updates a row                                           *)

\* The UPDATE that call c makes next: its row, its columns and what they become.
Crediting(c) == calls[c].at = "crediting"
Target(c) == IF Crediting(c) THEN calls[c].op.to ELSE calls[c].op.id
Assigned(c) == IF Crediting(c) THEN {"balance"} ELSE Sets(calls[c].op)
Computed(c) == IF Crediting(c) THEN Credited(calls[c].op, calls[c].seenTo)
                               ELSE After(calls[c].op, calls[c].seen)
Owed(c) == IF Crediting(c) THEN Credited(calls[c].op, ought[calls[c].op.to])
                           ELSE After(calls[c].op, ought[calls[c].op.id])

Statement(c) ==
    /\ Target(c) \in DOMAIN accounts /\ Computed(c) \in Account /\ Owed(c) \in Account
    /\ Update(c, Target(c), Assigned(c), Computed(c), Owed(c))

\* The row of an update takes the columns it sets; the other rows keep theirs.
LEMMA UpdateRows ==
    ASSUME Typed, NEW c \in Slots, Statement(c)
    PROVE  /\ accounts' \in Seq(Account) /\ ought' \in Seq(Account)
           /\ DOMAIN accounts' = DOMAIN accounts /\ Len(ought') = Len(accounts')
           /\ \A k \in DOMAIN accounts : k # Target(c) => accounts'[k] = accounts[k] /\ ought'[k] = ought[k]
           /\ \A col \in Columns :
                  accounts'[Target(c)][col] = IF col \in Assigned(c) THEN Computed(c)[col] ELSE accounts[Target(c)][col]
           /\ ought'[Target(c)] = Owed(c)
           /\ late \subseteq late'
<1>0. PICK id, cols, new, owed :
          /\ id = Target(c) /\ cols = Assigned(c) /\ new = Computed(c) /\ owed = Owed(c)
          /\ id \in DOMAIN accounts /\ new \in Account /\ owed \in Account
          /\ Update(c, id, cols, new, owed)
    BY DEF Statement
<1> DEFINE row == [f \in DOMAIN accounts[id] |-> IF f \in cols THEN new[f] ELSE accounts[id][f]]
<1>1. accounts[id] \in Account /\ id \in 1..Len(accounts) /\ id \in 1..Len(ought)
    BY <1>0, LenProperties, ElementOfSeq DEF Typed
<1>2. row \in Account
    BY <1>0, <1>1 DEF Account
<1>3. \A col \in Columns : row[col] = IF col \in cols THEN new[col] ELSE accounts[id][col]
    BY <1>1 DEF Account, Columns
<1>4. accounts' = [accounts EXCEPT ![id] = row] /\ ought' = [ought EXCEPT ![id] = owed]
    BY <1>0 DEF Update
<1> HIDE DEF row
<1>5. /\ accounts' \in Seq(Account) /\ Len(accounts') = Len(accounts)
      /\ \A j \in 1..Len(accounts) : accounts'[j] = IF j = id THEN row ELSE accounts[j]
    BY <1>1, <1>2, <1>4, ExceptSeq DEF Typed
<1>6. /\ ought' \in Seq(Account) /\ Len(ought') = Len(ought)
      /\ \A j \in 1..Len(ought) : ought'[j] = IF j = id THEN owed ELSE ought[j]
    BY <1>0, <1>1, <1>4, ExceptSeq DEF Typed
<1>7. DOMAIN accounts = 1..Len(accounts) /\ DOMAIN accounts' = 1..Len(accounts')
    BY <1>5, LenProperties DEF Typed
<1>8. late \subseteq late'
    BY <1>0 DEF Update
<1> QED
    BY <1>0, <1>1, <1>3, <1>5, <1>6, <1>7, <1>8 DEF Typed

\* What a call that has read a row carries.
LEMMA CallTyped ==
    ASSUME NEW call \in Call, Running(call)
    PROVE  /\ call \in Reading \cup Writing \cup Settling
           /\ call.op \in Op /\ call.op.kind \in Kinds /\ call.seen \in Account
           /\ Uses(call.op) \subseteq Columns
<1>1. call \in Reading \cup Writing \cup Settling
    BY DEF Call, Running, Idle, Creating
<1>2. call.op \in Single \cup Paying /\ call.seen \in Account
    <2>1. CASE call \in Reading
        BY <2>1 DEF Reading
    <2>2. CASE call \in Writing
        BY <2>2 DEF Writing
    <2>3. CASE call \in Settling
        BY <2>3 DEF Settling
    <2> QED
        BY <1>1, <2>1, <2>2, <2>3
<1>3. call.op \in Op /\ call.op.kind \in Kinds
    BY <1>2 DEF Single, Paying, Op, Kinds
<1>4. Uses(call.op) \subseteq Columns
    BY <1>3 DEF Kinds, Uses, Columns
<1> QED
    BY <1>1, <1>2, <1>3, <1>4

\* A call that is not the writer still sees the row, or the column is marked.
LEMMA OthersStayFresh ==
    ASSUME IInv, NEW c \in Slots, Statement(c),
           NEW d \in Slots \ {c}, calls'[d] = calls[d], Running(calls[d])
    PROVE  Checked(calls[d])' /\ SeenIsFresh(calls[d])' /\ CreditIsFresh(calls[d])'
<1>0. PICK id, cols : id = Target(c) /\ cols = Assigned(c)
    OBVIOUS
<1> DEFINE call == calls[d]
<1>1. /\ Checked(call) /\ SeenIsFresh(call) /\ CreditIsFresh(call)
      /\ call \in Reading \cup Writing \cup Settling
    BY DEF IInv, CallsFresh, Typed, Call, Running, Idle, Creating
<1>2. /\ DOMAIN accounts' = DOMAIN accounts /\ late \subseteq late'
      /\ \A k \in DOMAIN accounts : k # id => accounts'[k] = accounts[k]
      /\ \A col \in Columns : col \notin cols => accounts'[id][col] = accounts[id][col]
    BY <1>0, UpdateRows DEF IInv
<1>3. call.op \in Op /\ call.op.kind \in Kinds /\ Uses(call.op) \subseteq Columns
    BY CallTyped DEF IInv, Typed
<1>4. \A col \in cols \cap ReliesOn(call, id) : <<id, col>> \in late'
    BY <1>0 DEF Statement, Update
<1>5. ASSUME call.at # "crediting", NEW col \in Uses(call.op), <<call.op.id, col>> \notin late'
      PROVE  call.seen[col] = accounts'[call.op.id][col]
    <2>1. call.seen[col] = accounts[call.op.id][col]
        BY <1>1, <1>2, <1>5 DEF SeenIsFresh
    <2>2. CASE call.op.id # id
        BY <1>1, <1>2, <2>1, <2>2 DEF Checked
    <2>3. CASE call.op.id = id
        <3>1. call.at \in {"reading", "writing"} /\ call.op.kind # "create"
            BY <1>1, <1>3, <1>5 DEF Reading, Writing, Settling, Kinds
        <3>2. col \in ReliesOn(call, id)
            BY <1>5, <2>3, <3>1 DEF ReliesOn
        <3>3. col \notin cols
            BY <1>4, <1>5, <2>3, <3>2
        <3> QED
            BY <1>2, <1>3, <1>5, <2>1, <2>3, <3>3
    <2> QED
        BY <2>2, <2>3
<1>6. ASSUME Credits(call), <<call.op.to, "balance">> \notin late'
      PROVE  call.seenTo.balance = accounts'[call.op.to].balance
    <2>1. call.seenTo.balance = accounts[call.op.to].balance
        BY <1>1, <1>2, <1>6 DEF CreditIsFresh
    <2>2. CASE call.op.to # id
        BY <1>1, <1>2, <2>1, <2>2 DEF Checked
    <2>3. CASE call.op.to = id
        <3>1. "balance" \in ReliesOn(call, id)
            BY <1>6, <2>3 DEF ReliesOn, Credits
        <3>2. "balance" \notin cols
            BY <1>4, <1>6, <2>3, <3>1
        <3> QED
            BY <1>2, <2>1, <2>3, <3>2 DEF Columns
    <2> QED
        BY <2>2, <2>3
<1>7. Checked(call)'
    BY <1>1, <1>2 DEF Checked
<1>8. SeenIsFresh(call)'
    BY <1>5 DEF SeenIsFresh
<1>9. CreditIsFresh(call)'
    BY <1>6 DEF CreditIsFresh, Credits
<1> QED
    BY <1>7, <1>8, <1>9

\* The two statements of the calls are updates of this form.
LEMMA WritesAreStatements ==
    ASSUME IInv, NEW c \in Slots, Write(c) \/ WriteCredit(c)
    PROVE  /\ Statement(c) /\ Running(calls[c])
           /\ calls[c].at \in {"writing", "crediting"}
           /\ Crediting(c) => Credits(calls[c]) /\ calls[c].seenTo \in Account
           /\ WriteCredit(c) <=> Crediting(c)
           /\ accounts[Target(c)] \in Account /\ ought[Target(c)] \in Account
<1> DEFINE call == calls[c]
<1>1. call \in Call /\ Running(call) /\ call.at \in {"writing", "crediting"}
      /\ (WriteCredit(c) <=> call.at = "crediting")
    <2>1. CASE Write(c)
        BY <2>1 DEF Write, WriteCredit, Running, IInv, Typed
    <2>2. CASE WriteCredit(c)
        <3>1. call.at = "crediting" /\ call \in Call
            BY <2>2 DEF WriteCredit, IInv, Typed
        <3>2. call \in Settling
            BY <3>1 DEF Call, Idle, Creating, Reading, Writing
        <3> QED
            BY <2>2, <3>1, <3>2 DEF Running, Settling, Paying
    <2> QED
        BY <2>1, <2>2
<1>2. /\ call \in Reading \cup Writing \cup Settling
      /\ call.op \in Op /\ call.seen \in Account /\ Checked(call)
    BY <1>1, CallTyped DEF IInv, CallsFresh
<1>3. call.at = "crediting" => call.op.kind = "settle" /\ call.seenTo \in Account
    <2>1. call.at = "crediting" => call \in Settling
        BY <1>2 DEF Reading, Writing
    <2> QED
        BY <2>1 DEF Settling, Paying
<1>4. Target(c) \in DOMAIN accounts
    BY <1>2 DEF Target, Checked
<1>5. accounts[Target(c)] \in Account /\ ought[Target(c)] \in Account
    BY <1>4, LenProperties, ElementOfSeq DEF IInv, Typed
<1>6. Computed(c) \in Account
    BY <1>2, <1>3, AfterTyped DEF Computed, Crediting
<1>7. Owed(c) \in Account
    BY <1>2, <1>5, AfterTyped DEF Owed, Target, Crediting
<1>8. Update(c, Target(c), Assigned(c), Computed(c), Owed(c))
    <2>1. CASE WriteCredit(c)
        BY <1>1, <2>1 DEF WriteCredit, Target, Assigned, Computed, Owed, Crediting
    <2>2. CASE ~WriteCredit(c)
        BY <1>1, <2>2 DEF Write, Target, Assigned, Computed, Owed, Crediting
    <2> QED
        BY <2>1, <2>2
<1> QED
    BY <1>1, <1>3, <1>4, <1>5, <1>6, <1>7, <1>8 DEF Statement, Crediting, Credits

\* The row that is written is the sum of its writes, as it was.
LEMMA WriteAddsUp ==
    ASSUME IInv, NEW c \in Slots, Write(c) \/ WriteCredit(c),
           NEW col \in {"balance", "locked"}, <<Target(c), col>> \notin late
    PROVE  accounts'[Target(c)][col] = ought'[Target(c)][col]
<1> DEFINE call == calls[c]
<1>1. /\ Statement(c) /\ Running(call) /\ call.at \in {"writing", "crediting"}
      /\ accounts[Target(c)] \in Account /\ ought[Target(c)] \in Account
      /\ Crediting(c) => Credits(call) /\ call.seenTo \in Account
    BY WritesAreStatements
<1>2. /\ call.op \in Op /\ call.seen \in Account
      /\ Checked(call) /\ SeenIsFresh(call) /\ CreditIsFresh(call)
    BY <1>1, CallTyped DEF IInv, CallsFresh, Typed
<1>3. /\ accounts'[Target(c)][col] = IF col \in Assigned(c) THEN Computed(c)[col] ELSE accounts[Target(c)][col]
      /\ ought'[Target(c)] = Owed(c)
    BY <1>1, UpdateRows DEF IInv, Columns
<1>4. accounts[Target(c)][col] = ought[Target(c)][col]
    BY <1>1 DEF IInv, UpdatesAddUp, Statement
<1>5. CASE Crediting(c)
    <2>1. col = "balance" => call.seenTo[col] = accounts[Target(c)][col]
        BY <1>1, <1>2, <1>5 DEF CreditIsFresh, Target
    <2>2. Computed(c) = Credited(call.op, call.seenTo) /\ Owed(c) = Credited(call.op, ought[Target(c)])
          /\ Assigned(c) = {"balance"}
        BY <1>5 DEF Computed, Owed, Target, Assigned
    <2>3. CASE col = "balance"
        BY <1>1, <1>3, <1>4, <1>5, <2>1, <2>2, <2>3 DEF Credited, Account
    <2>4. CASE col = "locked"
        BY <1>1, <1>3, <1>4, <2>2, <2>4 DEF Credited, Account
    <2> QED
        BY <2>3, <2>4
<1>6. CASE ~Crediting(c)
    <2>1. /\ Computed(c) = After(call.op, call.seen) /\ Owed(c) = After(call.op, ought[Target(c)])
          /\ Assigned(c) = Sets(call.op) /\ Target(c) = call.op.id
        BY <1>6 DEF Computed, Owed, Target, Assigned
    <2>2. CASE col \in Sets(call.op)
        <3>1. col \in Uses(call.op)
            BY <1>2, <2>2, SetsWhatItUses
        <3>2. call.seen[col] = ought[Target(c)][col]
            BY <1>2, <1>4, <1>6, <2>1, <3>1 DEF SeenIsFresh, Crediting
        <3>3. After(call.op, call.seen)[col] = After(call.op, ought[Target(c)])[col]
            BY <1>1, <1>2, <2>2, <3>2, SetsWhatItUses
        <3> QED
            BY <1>3, <2>1, <2>2, <3>3
    <2>3. CASE col \notin Sets(call.op)
        <3>1. After(call.op, ought[Target(c)])[col] = ought[Target(c)][col]
            BY <1>1, <1>2, <2>3, RestIsKept DEF Columns
        <3> QED
            BY <1>3, <1>4, <2>1, <2>3, <3>1
    <2> QED
        BY <2>2, <2>3
<1> QED
    BY <1>5, <1>6

\* The row that is written covers what is locked in it, as it did.
LEMMA WriteKeepsSolvent ==
    ASSUME IInv, NEW c \in Slots, Write(c) \/ WriteCredit(c), Undisturbed(Target(c))
    PROVE  0 <= accounts'[Target(c)].locked /\ accounts'[Target(c)].locked <= accounts'[Target(c)].balance
<1> DEFINE call == calls[c]
<1>1. /\ Statement(c) /\ Running(call) /\ call.at \in {"writing", "crediting"}
      /\ accounts[Target(c)] \in Account
      /\ Crediting(c) => Credits(call) /\ call.seenTo \in Account
    BY WritesAreStatements
<1>2. /\ call.op \in Op /\ call.seen \in Account /\ Uses(call.op) \subseteq Columns
      /\ Checked(call) /\ SeenIsFresh(call) /\ CreditIsFresh(call)
    BY <1>1, CallTyped DEF IInv, CallsFresh, Typed
<1>3. \A col \in Columns :
          accounts'[Target(c)][col] = IF col \in Assigned(c) THEN Computed(c)[col] ELSE accounts[Target(c)][col]
    BY <1>1, UpdateRows DEF IInv
<1>4. 0 <= accounts[Target(c)].locked /\ accounts[Target(c)].locked <= accounts[Target(c)].balance
    BY <1>1 DEF IInv, UndisturbedSolvent, Statement
<1>5. accounts'[Target(c)] \in Account
    <2>1. Target(c) \in DOMAIN accounts' /\ accounts' \in Seq(Account)
        BY <1>1, UpdateRows DEF IInv, Statement
    <2> QED
        BY <2>1, LenProperties, ElementOfSeq
<1>6. CASE Crediting(c)
    <2>1. /\ Computed(c) = Credited(call.op, call.seenTo) /\ Assigned(c) = {"balance"}
          /\ Target(c) = call.op.to
        BY <1>6 DEF Computed, Target, Assigned
    <2>2. call.seenTo.balance = accounts[Target(c)].balance
        BY <1>1, <1>2, <1>6, <2>1 DEF CreditIsFresh, Undisturbed, Columns
    <2>3. accounts'[Target(c)].balance = call.seenTo.balance + call.op.amount
        BY <1>1, <1>3, <1>6, <2>1 DEF Columns, Credited, Account
    <2>4. accounts'[Target(c)].locked = accounts[Target(c)].locked
        BY <1>3, <2>1 DEF Columns
    <2>5. call.op.amount \in Int /\ call.op.amount >= 1
        BY <1>2, AccountBounds DEF Op
    <2>6. accounts[Target(c)].balance \in Int /\ accounts[Target(c)].locked \in Int
        BY <1>1 DEF Account
    <2> QED
        BY <1>4, <2>2, <2>3, <2>4, <2>5, <2>6
<1>7. CASE ~Crediting(c)
    <2>1. /\ Computed(c) = After(call.op, call.seen) /\ Assigned(c) = Sets(call.op)
          /\ Target(c) = call.op.id
        BY <1>7 DEF Computed, Target, Assigned
    <2>2. \A col \in Uses(call.op) : call.seen[col] = accounts[Target(c)][col]
        BY <1>2, <1>7, <2>1 DEF SeenIsFresh, Crediting, Undisturbed
    <2>3. Valid(call.op, call.seen)
        BY <1>1, <1>2, <1>7 DEF Checked, Crediting
    <2> QED
        BY <1>1, <1>2, <1>3, <1>4, <1>5, <2>1, <2>2, <2>3, ValidKeepsSolvent
<1> QED
    BY <1>6, <1>7

-----------------------------------------------------------------------------
(* The invariant                                                            *)

\* A call that only reads, starts, returns or rejects, with no row written.
LEMMA CallStep ==
    ASSUME IInv, NEW c \in Slots, NEW call \in Call,
           calls' = [calls EXCEPT ![c] = call], UNCHANGED <<accounts, ought, late>>,
           Running(call) => Checked(call) /\ SeenIsFresh(call) /\ CreditIsFresh(call)
    PROVE  IInv'
<1>1. Typed'
    BY DEF IInv, Typed
<1>2. \A d \in Slots : calls'[d] = IF d = c THEN call ELSE calls[d]
    BY DEF IInv, Typed
<1>3. CallsFresh'
    <2> SUFFICES ASSUME NEW d \in Slots, Running(calls'[d])
                 PROVE  (Checked(calls[d]) /\ SeenIsFresh(calls[d]) /\ CreditIsFresh(calls[d]))'
        BY DEF CallsFresh, Running
    <2>1. Checked(calls'[d]) /\ SeenIsFresh(calls'[d]) /\ CreditIsFresh(calls'[d])
        BY <1>2 DEF IInv, CallsFresh
    <2> QED
        BY <2>1 DEF Checked, SeenIsFresh, CreditIsFresh, Credits
<1>4. UpdatesAddUp' /\ UndisturbedSolvent'
    BY DEF IInv, UpdatesAddUp, UndisturbedSolvent, Undisturbed
<1> QED
    BY <1>1, <1>3, <1>4 DEF IInv

LEMMA IdleStep ==
    ASSUME IInv, NEW c \in Slots, Return(c), UNCHANGED <<accounts, ought, late>>
    PROVE  IInv'
<1>1. Idle \in Call /\ ~Running(Idle)
    BY DEF Call, Idle, Running
<1> QED
    BY <1>1, CallStep DEF Return

\* createAccount adds a row that nothing was written to, under no other call.
LEMMA CreateStep == ASSUME IInv, NEW c \in Slots, Create(c) PROVE IInv'
<1>1. PICK h : h \in Holders /\ accounts' = Append(accounts, NewAccount(h))
                /\ ought' = Append(ought, NewAccount(h))
    <2>1. calls[c] \in Creating
        BY DEF Create, IInv, Typed, Call, Idle, Reading, Writing, Settling, Single, Paying, Kinds
    <2>2. calls[c].op.holder \in Holders
        BY <2>1 DEF Creating
    <2> QED
        BY <2>2 DEF Create
<1>2. NewAccount(h) \in Account
    BY <1>1 DEF NewAccount, Account
<1>3. /\ accounts' \in Seq(Account) /\ ought' \in Seq(Account)
      /\ Len(accounts') = Len(accounts) + 1 /\ Len(ought') = Len(accounts')
      /\ \A id \in 1..Len(accounts) : accounts'[id] = accounts[id] /\ ought'[id] = ought[id]
      /\ accounts'[Len(accounts) + 1] = NewAccount(h) /\ ought'[Len(accounts) + 1] = NewAccount(h)
    BY <1>1, <1>2, AppendProperties DEF IInv, Typed
<1>4. /\ DOMAIN accounts = 1..Len(accounts) /\ DOMAIN accounts' = 1..(Len(accounts) + 1)
      /\ Len(accounts) \in Nat
    BY <1>3, LenProperties DEF IInv, Typed
<1>5. late' = late /\ calls' = [calls EXCEPT ![c] = Idle]
    BY DEF Create, Return
<1>6. Typed'
    BY <1>3, <1>5 DEF IInv, Typed, Call
<1>7. CallsFresh'
    <2> SUFFICES ASSUME NEW d \in Slots, Running(calls'[d])
                 PROVE  (Checked(calls[d]) /\ SeenIsFresh(calls[d]) /\ CreditIsFresh(calls[d]))'
        BY DEF CallsFresh, Running
    <2>1. calls'[d] = calls[d]
        BY <1>5 DEF IInv, Typed, Running, Idle
    <2>2. Checked(calls[d]) /\ SeenIsFresh(calls[d]) /\ CreditIsFresh(calls[d])
        BY <2>1 DEF IInv, CallsFresh
    <2> QED
        BY <1>3, <1>4, <1>5, <2>1, <2>2 DEF Checked, SeenIsFresh, CreditIsFresh, Credits
<1>8. ASSUME NEW id \in DOMAIN accounts'
      PROVE  \/ id \in DOMAIN accounts /\ accounts'[id] = accounts[id] /\ ought'[id] = ought[id]
             \/ accounts'[id] = NewAccount(h) /\ ought'[id] = NewAccount(h)
    BY <1>3, <1>4
<1>9. UpdatesAddUp'
    BY <1>5, <1>8 DEF IInv, UpdatesAddUp
<1>10. UndisturbedSolvent'
    <2> SUFFICES ASSUME NEW id \in DOMAIN accounts', Undisturbed(id)'
                 PROVE  0 <= accounts'[id].locked /\ accounts'[id].locked <= accounts'[id].balance
        BY DEF UndisturbedSolvent
    <2>1. Undisturbed(id)
        BY <1>5 DEF Undisturbed
    <2>2. NewAccount(h).locked = 0 /\ NewAccount(h).balance = 0
        BY DEF NewAccount
    <2> QED
        BY <1>8, <2>1, <2>2 DEF IInv, UndisturbedSolvent
<1> QED
    BY <1>6, <1>7, <1>9, <1>10 DEF IInv

LEMMA WriteStep == ASSUME IInv, NEW c \in Slots, Write(c) \/ WriteCredit(c) PROVE IInv'
<1>1. /\ Statement(c) /\ Running(calls[c])
      /\ calls[c].at \in {"writing", "crediting"}
      /\ Target(c) \in DOMAIN accounts
      /\ WriteCredit(c) <=> Crediting(c)
    BY WritesAreStatements DEF Statement
<1>2. /\ accounts' \in Seq(Account) /\ ought' \in Seq(Account)
      /\ DOMAIN accounts' = DOMAIN accounts /\ Len(ought') = Len(accounts')
      /\ \A k \in DOMAIN accounts : k # Target(c) => accounts'[k] = accounts[k] /\ ought'[k] = ought[k]
      /\ late \subseteq late'
    BY <1>1, UpdateRows DEF IInv
<1>3. /\ calls[c] \in Call /\ calls[c] \in Reading \cup Writing \cup Settling
      /\ Checked(calls[c]) /\ CreditIsFresh(calls[c])
    BY <1>1, CallTyped DEF IInv, Typed, CallsFresh
<1>4. PICK call \in Call :
          /\ calls' = [calls EXCEPT ![c] = call]
          /\ \/ call = Idle
             \/ /\ ~Crediting(c) /\ calls[c] \in Settling
                /\ call \in Settling /\ call.at = "crediting"
                /\ call.op = calls[c].op /\ call.seenTo = calls[c].seenTo
    <2>1. CASE calls' = [calls EXCEPT ![c] = Idle]
        BY <2>1 DEF Call
    <2>2. CASE calls' # [calls EXCEPT ![c] = Idle]
        <3>1. ~Crediting(c) /\ calls[c].op.kind = "settle" /\ calls' = [calls EXCEPT ![c].at = "crediting"]
            BY <1>1, <2>2 DEF Write, WriteCredit, Return
        <3>2. calls[c] \in Settling
            BY <1>1, <1>3, <3>1 DEF Reading, Writing, Single
        <3> DEFINE call == [calls[c] EXCEPT !.at = "crediting"]
        <3>3. call \in Settling /\ call.at = "crediting"
              /\ call.op = calls[c].op /\ call.seenTo = calls[c].seenTo
            BY <3>2 DEF Settling
        <3>4. calls' = [calls EXCEPT ![c] = call]
            BY <3>1
        <3> QED
            BY <3>1, <3>2, <3>3, <3>4 DEF Call
    <2> QED
        BY <2>1, <2>2
<1>5. Typed'
    BY <1>2, <1>4 DEF IInv, Typed
<1>6. \A d \in Slots : calls'[d] = IF d = c THEN call ELSE calls[d]
    BY <1>4 DEF IInv, Typed
<1>7. CallsFresh'
    <2> SUFFICES ASSUME NEW d \in Slots, Running(calls'[d])
                 PROVE  (Checked(calls[d]) /\ SeenIsFresh(calls[d]) /\ CreditIsFresh(calls[d]))'
        BY DEF CallsFresh, Running
    <2>1. CASE d # c
        <3>1. calls'[d] = calls[d] /\ Running(calls[d])
            BY <1>6, <2>1
        <3> QED
            BY <1>1, <2>1, <3>1, OthersStayFresh
    <2>2. CASE d = c
        <3>1. calls'[d] = call /\ call # Idle
            BY <1>6, <2>2 DEF Running, Idle
        <3>2. /\ ~Crediting(c) /\ calls[c] \in Settling /\ call.at = "crediting"
              /\ call.op = calls[c].op /\ call.seenTo = calls[c].seenTo
            BY <1>4, <3>1
        <3>3. /\ call.op.id \in DOMAIN accounts /\ call.op.to \in DOMAIN accounts
              /\ call.op.kind = "settle" => call.op.to # call.op.id
            BY <1>3, <3>2 DEF Checked
        <3>4. Target(c) = call.op.id /\ Credits(calls[c]) /\ call.op.to # call.op.id
            BY <1>1, <3>2, <3>3 DEF Target, Credits, Settling, Paying
        <3>5. <<call.op.to, "balance">> \notin late' => call.seenTo.balance = accounts'[call.op.to].balance
            BY <1>2, <1>3, <3>2, <3>3, <3>4 DEF CreditIsFresh
        <3>6. Checked(calls[d])'
            BY <1>2, <3>1, <3>2, <3>3 DEF Checked
        <3>7. SeenIsFresh(calls[d])'
            BY <3>1, <3>2 DEF SeenIsFresh
        <3>8. CreditIsFresh(calls[d])'
            BY <3>1, <3>5 DEF CreditIsFresh
        <3> QED
            BY <3>6, <3>7, <3>8
    <2> QED
        BY <2>1, <2>2
<1>8. UpdatesAddUp'
    <2> SUFFICES ASSUME NEW id \in DOMAIN accounts, NEW col \in {"balance", "locked"},
                        <<id, col>> \notin late'
                 PROVE  accounts'[id][col] = ought'[id][col]
        BY <1>2 DEF UpdatesAddUp
    <2>1. CASE id = Target(c)
        BY <1>2, <2>1, WriteAddsUp
    <2>2. CASE id # Target(c)
        BY <1>2, <2>2 DEF IInv, UpdatesAddUp
    <2> QED
        BY <2>1, <2>2
<1>9. UndisturbedSolvent'
    <2> SUFFICES ASSUME NEW id \in DOMAIN accounts, Undisturbed(id)'
                 PROVE  0 <= accounts'[id].locked /\ accounts'[id].locked <= accounts'[id].balance
        BY <1>2 DEF UndisturbedSolvent
    <2>1. Undisturbed(id)
        BY <1>2 DEF Undisturbed
    <2>2. CASE id = Target(c)
        BY <2>1, <2>2, WriteKeepsSolvent
    <2>3. CASE id # Target(c)
        BY <1>2, <2>1, <2>3 DEF IInv, UndisturbedSolvent
    <2> QED
        BY <2>2, <2>3
<1> QED
    BY <1>5, <1>7, <1>8, <1>9 DEF IInv

\* A read is fresh, and a settlement goes on to write when its check passes.
LEMMA ReadStep ==
    ASSUME IInv, NEW c \in Slots,
           (\E op \in Op : Read(c, op)) \/ ReadCredit(c) \/ (\E h \in Holders : Exists(c, h))
    PROVE  IInv'
<1>1. ASSUME NEW op \in Op, Read(c, op) PROVE IInv'
    <2> DEFINE call == [at |-> IF op.kind = "settle" THEN "reading" ELSE "writing",
                        op |-> op, seen |-> accounts[op.id]]
    <2>1. /\ op.id \in DOMAIN accounts /\ accounts[op.id] \in Account /\ op.kind \in Kinds
          /\ calls' = [calls EXCEPT ![c] = call] /\ UNCHANGED <<accounts, ought, late>>
        BY <1>1, LenProperties, ElementOfSeq DEF Read, history, IInv, Typed, Op
    <2>2. call \in Reading \cup Writing
        <3>1. CASE op.kind = "settle"
            <4>1. op \in Paying
                BY <3>1 DEF Op, Paying
            <4> QED
                BY <2>1, <3>1, <4>1 DEF Reading
        <3>2. CASE op.kind # "settle"
            <4>1. op \in Single
                BY <3>2 DEF Op, Single
            <4> QED
                BY <2>1, <3>2, <4>1 DEF Writing
        <3> QED
            BY <3>1, <3>2
    <2>3. Checked(call)
        BY <1>1, <2>1 DEF Read, Checked
    <2>4. SeenIsFresh(call) /\ CreditIsFresh(call)
        BY DEF SeenIsFresh, CreditIsFresh, Credits
    <2> HIDE DEF call
    <2> QED
        BY <2>1, <2>2, <2>3, <2>4, CallStep DEF Call
<1>2. CASE ReadCredit(c)
    <2> DEFINE old == calls[c]
               call == [at |-> "writing", op |-> old.op, seen |-> old.seen,
                        seenTo |-> accounts[old.op.to]]
    <2>1. old \in Reading /\ old.at = "reading"
        BY <1>2 DEF ReadCredit, IInv, Typed, Call, Idle, Creating, Writing, Settling
    <2>2. /\ old.op \in Paying /\ old.seen \in Account /\ old.op.kind = "settle"
          /\ Running(old)
        BY <2>1 DEF Reading, Paying, Running
    <2>3. Checked(old) /\ SeenIsFresh(old)
        BY <2>2 DEF IInv, CallsFresh
    <2>4. CASE ~Valid(old.op, old.seen)
        <3>1. Return(c) /\ UNCHANGED <<accounts, ought, late>>
            BY <1>2, <2>4 DEF ReadCredit, Return, history
        <3> QED
            BY <3>1, IdleStep
    <2>5. CASE Valid(old.op, old.seen)
        <3>1. calls' = [calls EXCEPT ![c] = call] /\ UNCHANGED <<accounts, ought, late>>
            BY <1>2, <2>5 DEF ReadCredit, history
        <3>2. accounts[old.op.to] \in Account
            BY <2>3, LenProperties, ElementOfSeq DEF Checked, IInv, Typed
        <3>3. call \in Settling
            BY <2>2, <3>2 DEF Settling
        <3>4. Checked(call)
            BY <2>3, <2>5 DEF Checked
        <3>5. SeenIsFresh(call)
            BY <2>1, <2>3 DEF SeenIsFresh
        <3>6. CreditIsFresh(call)
            BY DEF CreditIsFresh
        <3> HIDE DEF call
        <3> QED
            BY <3>1, <3>3, <3>4, <3>5, <3>6, CallStep DEF Call
    <2> QED
        BY <2>4, <2>5
<1>3. ASSUME NEW h \in Holders, Exists(c, h) PROVE IInv'
    <2> DEFINE call == [at |-> "writing", op |-> [kind |-> "create", holder |-> h]]
    <2>1. calls' = [calls EXCEPT ![c] = call] /\ UNCHANGED <<accounts, ought, late>>
        BY <1>3 DEF Exists, history
    <2>2. call \in Call /\ ~Running(call)
        BY DEF Call, Creating, Running
    <2> HIDE DEF call
    <2> QED
        BY <2>1, <2>2, CallStep
<1> QED
    BY <1>1, <1>2, <1>3

LEMMA InitIInv == Init => IInv
<1> SUFFICES ASSUME Init PROVE IInv
    OBVIOUS
<1>1. Typed
    BY EmptySeq DEF Init, Typed, Call
<1>2. DOMAIN accounts = {}
    BY DEF Init
<1>3. CallsFresh
    BY DEF Init, CallsFresh, Running, Idle
<1> QED
    BY <1>1, <1>2, <1>3 DEF IInv, UpdatesAddUp, UndisturbedSolvent

LEMMA NextIInv == IInv /\ [Next]_vars => IInv'
<1> SUFFICES ASSUME IInv, [Next]_vars PROVE IInv'
    OBVIOUS
<1>1. ASSUME NEW c \in Slots,
             \/ \E op \in Op : Read(c, op)
             \/ ReadCredit(c)
             \/ \E h \in Holders : Exists(c, h)
      PROVE  IInv'
    BY <1>1, ReadStep
<1>2. ASSUME NEW c \in Slots, Write(c) \/ WriteCredit(c) PROVE IInv'
    BY <1>2, WriteStep
<1>3. ASSUME NEW c \in Slots, Create(c) PROVE IInv'
    BY <1>3, CreateStep
<1>4. ASSUME NEW c \in Slots, Reject(c) PROVE IInv'
    BY <1>4, IdleStep DEF Reject
<1>5. CASE UNCHANGED vars
    BY <1>5 DEF vars, history, IInv, Typed, CallsFresh, Running, Checked, SeenIsFresh, CreditIsFresh,
           Credits, UpdatesAddUp, UndisturbedSolvent, Undisturbed
<1> QED
    BY <1>1, <1>2, <1>3, <1>4, <1>5 DEF Next

\* Every read of account.service.ts still holds for the columns its call relies on, unless
\* another call wrote one of them in between.
THEOREM AccountInductive == Spec => []IInv
BY InitIInv, NextIInv, PTL DEF Spec

\* A column that no call wrote under another one is the sum of what was written to it,
\* however deposits, withdrawals, locks and settlements interleave, reject or are torn.
THEOREM WritesAddUp == Spec => []UpdatesAddUp
<1>1. IInv => UpdatesAddUp
    BY DEF IInv
<1> QED
    BY <1>1, AccountInductive, PTL

\* An account that no call wrote under another one covers what is locked in it.
THEOREM AccountsCovered == Spec => []UndisturbedSolvent
<1>1. IInv => UndisturbedSolvent
    BY DEF IInv
<1> QED
    BY <1>1, AccountInductive, PTL

\* A step leaves a closed account closed, unless its status was written under a call.
LEMMA ClosedStep ==
    ASSUME IInv, [Next]_vars, NEW id \in DOMAIN accounts,
           accounts[id].status = "closed", <<id, "status">> \notin late
    PROVE  accounts'[id].status = "closed"
<1>1. ASSUME NEW c \in Slots, Write(c) \/ WriteCredit(c) PROVE accounts'[id].status = "closed"
    <2>1. /\ Statement(c) /\ Running(calls[c]) /\ calls[c].at \in {"writing", "crediting"}
          /\ accounts[Target(c)] \in Account
        BY <1>1, WritesAreStatements
    <2>2. CASE id # Target(c)
        BY <2>1, <2>2, UpdateRows DEF IInv
    <2>3. CASE id = Target(c) /\ "status" \notin Assigned(c)
        <3>1. accounts'[Target(c)]["status"] = accounts[Target(c)]["status"]
            BY <2>1, <2>3, UpdateRows DEF IInv, Columns
        <3> QED
            BY <2>3, <3>1
    <2>4. CASE id = Target(c) /\ "status" \in Assigned(c)
        <3>1. ~Crediting(c) /\ calls[c].at = "writing"
            BY <2>1, <2>4 DEF Assigned, Crediting
        <3>2. /\ Computed(c) = After(calls[c].op, calls[c].seen) /\ Target(c) = calls[c].op.id
              /\ Assigned(c) = Sets(calls[c].op)
            BY <3>1 DEF Computed, Target, Assigned
        <3>3. /\ calls[c].op \in Op /\ calls[c].op.kind \in Kinds /\ calls[c].seen \in Account
              /\ Valid(calls[c].op, calls[c].seen) /\ SeenIsFresh(calls[c])
            BY <2>1, <3>1, CallTyped DEF IInv, Typed, CallsFresh, Checked
        <3>4. Computed(c).status = "closed"
            <4>1. calls[c].op.kind \in {"close", "freeze", "unfreeze"}
                BY <2>4, <3>2, <3>3 DEF Sets, Kinds
            <4>2. CASE calls[c].op.kind = "close"
                BY <3>2, <3>3, <4>2 DEF After, Account
            <4>3. CASE calls[c].op.kind \in {"freeze", "unfreeze"}
                <5>1. calls[c].seen.status = "closed"
                    BY <2>4, <3>1, <3>2, <3>3, <4>3 DEF SeenIsFresh, Uses
                <5> QED
                    BY <3>3, <4>3, <5>1 DEF Valid
            <4> QED
                BY <4>1, <4>2, <4>3
        <3>5. accounts'[Target(c)]["status"] = Computed(c)["status"]
            BY <2>1, <2>4, UpdateRows DEF IInv, Columns
        <3> QED
            BY <2>4, <3>4, <3>5
    <2> QED
        BY <2>2, <2>3, <2>4
<1>2. ASSUME NEW c \in Slots, Create(c) PROVE accounts'[id].status = "closed"
    <2>1. accounts' = Append(accounts, NewAccount(calls[c].op.holder)) /\ id \in 1..Len(accounts)
        BY <1>2, LenProperties DEF Create, IInv, Typed
    <2>2. accounts'[id] = accounts[id]
        BY <2>1 DEF IInv, Typed
    <2> QED
        BY <2>2
<1>3. UNCHANGED accounts => accounts'[id].status = "closed"
    OBVIOUS
<1>4. ASSUME NEW c \in Slots,
             \/ \E op \in Op : Read(c, op)
             \/ ReadCredit(c) \/ Reject(c)
             \/ \E h \in Holders : Exists(c, h)
      PROVE  UNCHANGED accounts
    BY <1>4 DEF Read, ReadCredit, Reject, Exists
<1>5. UNCHANGED vars => UNCHANGED accounts
    BY DEF vars
<1> QED
    BY <1>1, <1>2, <1>3, <1>4, <1>5 DEF Next

\* closeAccount is permanent: freeze and unfreeze check the status, and theirs is the
\* status of the row, unless a call wrote it in between.
THEOREM ClosedForGood == Spec => ClosedStaysClosed
<1>1. IInv /\ [Next]_vars
        => [\A id \in DOMAIN accounts :
               accounts[id].status = "closed" /\ <<id, "status">> \notin late
                   => accounts'[id].status = "closed"]_vars
    BY ClosedStep
<1> QED
    BY <1>1, AccountInductive, PTL DEF Spec, ClosedStaysClosed

-----------------------------------------------------------------------------
(* Money                                                                    *)

\* What a call has debited and not yet credited, and what an operation adds to its account.
Transit(call) == IF call.at = "crediting" THEN call.op.amount ELSE 0

Moved(op) ==
    CASE op.kind = "deposit" -> op.amount
      [] op.kind \in {"withdraw", "settle"} -> -op.amount
      [] OTHER -> 0

\* Whatever calls disturb each other: the rows as they ought to be lose nothing.
OughtConserved ==
    /\ net \in Int /\ stranded \in Int
    /\ Balances(ought) + InTransit + stranded = net

\* The sum over a table is the sum over its positions.
LEMMA BalancesAdd ==
    ASSUME NEW table \in Seq(Account)
    PROVE  /\ DOMAIN table = 1..Len(table) /\ IsFiniteSet(DOMAIN table)
           /\ \A id \in DOMAIN table : table[id] \in Account /\ table[id].balance \in Int
           /\ Balances(table) = SumFunctionOnSet([id \in DOMAIN table |-> table[id].balance], DOMAIN table)
           /\ Balances(table) \in Int
<1> DEFINE f == [id \in DOMAIN table |-> table[id].balance]
<1>1. DOMAIN table = 1..Len(table) /\ Len(table) \in Nat
    BY LenProperties
<1>2. IsFiniteSet(DOMAIN table)
    BY <1>1, FS_Interval
<1>3. \A id \in DOMAIN table : table[id] \in Account
    BY <1>1, ElementOfSeq
<1>4. \A id \in DOMAIN table : table[id].balance \in Int
    BY <1>3 DEF Account
<1>5. Balances(table) = SumFunctionOnSet(f, DOMAIN table)
    BY DEF Balances, SumFunction
<1>6. \A id \in DOMAIN table : f[id] \in Int
    BY <1>4
<1> HIDE DEF f
<1>7. SumFunctionOnSet(f, DOMAIN table) \in Int
    BY <1>2, <1>6, SumInt
<1> QED
    BY <1>1, <1>2, <1>3, <1>4, <1>5, <1>7 DEF f

\* An update of one row moves the sum by what it moves the row.
LEMMA RowMovesSum ==
    ASSUME NEW old \in Seq(Account), NEW new \in Seq(Account), DOMAIN new = DOMAIN old,
           NEW id \in DOMAIN old, \A k \in DOMAIN old : k # id => new[k] = old[k]
    PROVE  Balances(new) = Balances(old) - old[id].balance + new[id].balance
<1> DEFINE f == [k \in DOMAIN old |-> old[k].balance]
           g == [k \in DOMAIN new |-> new[k].balance]
           S == DOMAIN old
<1>1. IsFiniteSet(S) /\ Balances(old) = SumFunctionOnSet(f, S) /\ \A k \in S : old[k].balance \in Int
    BY BalancesAdd
<1>2. Balances(new) = SumFunctionOnSet(g, S) /\ \A k \in S : new[k].balance \in Int
    BY BalancesAdd
<1>3. \A k \in S : f[k] \in Int /\ g[k] \in Int
    BY <1>1, <1>2
<1>4. \A k \in S : k # id => f[k] = g[k]
    OBVIOUS
<1>5. f[id] = old[id].balance /\ g[id] = new[id].balance
    OBVIOUS
<1> HIDE DEF f, g
<1>6. SumFunctionOnSet(g, S) = SumFunctionOnSet(f, S) - f[id] + g[id]
    BY <1>1, <1>3, <1>4, SumChanges
<1> QED
    BY <1>1, <1>2, <1>5, <1>6

\* A new row adds nothing.
LEMMA NewRowAddsNothing ==
    ASSUME NEW table \in Seq(Account), NEW h \in Holders
    PROVE  Balances(Append(table, NewAccount(h))) = Balances(table)
<1> DEFINE grown == Append(table, NewAccount(h))
           f == [k \in DOMAIN table |-> table[k].balance]
           g == [k \in DOMAIN grown |-> grown[k].balance]
           S == DOMAIN table
           y == Len(table) + 1
<1>1. NewAccount(h) \in Account /\ NewAccount(h).balance = 0
    BY DEF NewAccount, Account
<1>2. /\ grown \in Seq(Account) /\ Len(grown) = y
      /\ \A k \in 1..Len(table) : grown[k] = table[k]
      /\ grown[y] = NewAccount(h)
    BY <1>1, AppendProperties
<1>3. /\ S = 1..Len(table) /\ Len(table) \in Nat /\ IsFiniteSet(S)
      /\ Balances(table) = SumFunctionOnSet(f, S) /\ \A k \in S : table[k].balance \in Int
    BY BalancesAdd, LenProperties
<1>4. DOMAIN grown = 1..y
    BY <1>2, LenProperties
<1>5. DOMAIN grown = S \cup {y} /\ y \notin S
    BY <1>3, <1>4
<1>6. Balances(grown) = SumFunctionOnSet(g, DOMAIN grown)
    BY <1>2, BalancesAdd
<1>7. \A k \in S : g[k] = f[k] /\ f[k] \in Int /\ g[k] \in Int
    BY <1>2, <1>3, <1>5
<1>8. g[y] = 0
    BY <1>1, <1>2, <1>5
<1> HIDE DEF f, g, grown, S, y
<1>9. SumFunctionOnSet(g, S \cup {y}) = g[y] + SumFunctionOnSet(g, S)
    <2>1. IsFiniteSet(S) /\ y \notin S /\ g[y] \in Int /\ \A k \in S : g[k] \in Int
        BY <1>3, <1>5, <1>7, <1>8
    <2> QED
        BY <2>1, SumAddsElement, Zenon
<1>10. SumFunctionOnSet(f, S) = SumFunctionOnSet(g, S)
    BY <1>3, <1>7, SumSame
<1>11. SumFunctionOnSet(f, S) \in Int
    BY <1>3, <1>7, SumInt
<1>12. Balances(grown) = Balances(table)
    BY <1>3, <1>5, <1>6, <1>8, <1>9, <1>10, <1>11
<1> QED
    BY <1>12 DEF grown

LEMMA TransitTyped ==
    ASSUME NEW call \in Call
    PROVE  Transit(call) \in Int
<1>1. CASE call.at # "crediting"
    BY <1>1 DEF Transit
<1>2. CASE call.at = "crediting"
    <2>1. call \in Settling
        BY <1>2 DEF Call, Idle, Creating, Reading, Writing
    <2>2. call.op.amount \in 1..MaxAmount
        BY <2>1 DEF Settling, Paying
    <2> QED
        BY <1>2, <2>2, AccountBounds DEF Transit
<1> QED
    BY <1>1, <1>2

LEMMA InTransitAdds ==
    ASSUME Typed
    PROVE  /\ InTransit = SumFunctionOnSet([c \in Slots |-> Transit(calls[c])], Slots)
           /\ \A c \in Slots : calls[c] \in Call /\ Transit(calls[c]) \in Int
           /\ InTransit \in Int
<1> DEFINE f == [c \in Slots |-> Transit(calls[c])]
<1>1. InTransit = SumFunctionOnSet(f, Slots)
    BY DEF InTransit, SumFunction, Transit
<1>2. \A c \in Slots : calls[c] \in Call
    BY DEF Typed
<1>3. \A c \in Slots : Transit(calls[c]) \in Int
    BY <1>2, TransitTyped
<1>4. \A c \in Slots : f[c] \in Int
    BY <1>3
<1> HIDE DEF f
<1>5. SumFunctionOnSet(f, Slots) \in Int
    BY <1>4, AccountBounds, SumInt
<1> QED
    BY <1>1, <1>2, <1>3, <1>5 DEF f

\* A step of one call moves what is in transit by what that call has there.
LEMMA SlotMovesTransit ==
    ASSUME Typed, Typed', NEW c \in Slots, NEW call, calls' = [calls EXCEPT ![c] = call]
    PROVE  /\ InTransit' = InTransit - Transit(calls[c]) + Transit(call)
           /\ Transit(calls[c]) \in Int /\ Transit(call) \in Int
<1> DEFINE f == [d \in Slots |-> Transit(calls[d])]
           g == [d \in Slots |-> Transit(calls'[d])]
<1>1. calls'[c] = call /\ \A d \in Slots : d # c => calls'[d] = calls[d]
    BY DEF Typed
<1>2. InTransit = SumFunctionOnSet(f, Slots) /\ \A d \in Slots : Transit(calls[d]) \in Int
    BY InTransitAdds
<1>3. InTransit' = SumFunctionOnSet(g, Slots)
    BY DEF InTransit, SumFunction, Transit
<1>4. \A d \in Slots : Transit(calls'[d]) \in Int
    BY TransitTyped DEF Typed
<1>5. \A d \in Slots : f[d] \in Int /\ g[d] \in Int
    BY <1>2, <1>4
<1>6. \A d \in Slots : d # c => f[d] = g[d]
    BY <1>1
<1>7. f[c] = Transit(calls[c]) /\ g[c] = Transit(call)
    BY <1>1
<1> HIDE DEF f, g
<1>8. SumFunctionOnSet(g, Slots) = SumFunctionOnSet(f, Slots) - f[c] + g[c]
    BY <1>5, <1>6, AccountBounds, SumChanges
<1> QED
    BY <1>1, <1>2, <1>3, <1>4, <1>7, <1>8

\* What an operation moves on its row.
LEMMA OperationMoves ==
    ASSUME NEW op \in Op, NEW a \in Account
    PROVE  /\ After(op, a).balance = a.balance + Moved(op)
           /\ Credited(op, a).balance = a.balance + op.amount
           /\ Moved(op) \in Int /\ op.amount \in Int /\ a.balance \in Int
<1>1. op.amount \in Int /\ op.kind \in Kinds /\ a.balance \in Int
    BY AccountBounds DEF Op, Account
<1>2. After(op, a).balance = a.balance + Moved(op)
    BY <1>1 DEF After, Moved, Account, Kinds
<1>3. Credited(op, a).balance = a.balance + op.amount
    BY <1>1 DEF Credited, Account
<1> QED
    BY <1>1, <1>2, <1>3 DEF Moved

\* The two statements of a call, in turn, move its row, its own amount in transit and the net.
LEMMA WriteConserves ==
    ASSUME IInv, IInv', OughtConserved, NEW c \in Slots, Write(c) \/ WriteCredit(c)
    PROVE  OughtConserved'
<1>1. /\ Statement(c) /\ Running(calls[c]) /\ calls[c].at \in {"writing", "crediting"}
      /\ WriteCredit(c) <=> Crediting(c)
      /\ ought[Target(c)] \in Account
    BY WritesAreStatements
<1>2. /\ ought' \in Seq(Account) /\ DOMAIN ought' = DOMAIN ought /\ ought'[Target(c)] = Owed(c)
      /\ Target(c) \in DOMAIN ought
      /\ \A k \in DOMAIN ought : k # Target(c) => ought'[k] = ought[k]
    <2>1. /\ accounts' \in Seq(Account) /\ ought' \in Seq(Account)
          /\ DOMAIN accounts' = DOMAIN accounts /\ Len(ought') = Len(accounts')
          /\ \A k \in DOMAIN accounts : k # Target(c) => ought'[k] = ought[k]
          /\ ought'[Target(c)] = Owed(c)
        BY <1>1, UpdateRows DEF IInv
    <2>2. DOMAIN ought = DOMAIN accounts /\ DOMAIN ought' = DOMAIN accounts'
        BY <2>1, LenProperties DEF IInv, Typed
    <2> QED
        BY <1>1, <2>1, <2>2 DEF Statement
<1>3. Balances(ought') = Balances(ought) - ought[Target(c)].balance + Owed(c).balance
    BY <1>2, RowMovesSum DEF IInv, Typed
<1>4. calls[c] \in Call /\ calls[c].op \in Op /\ calls[c].op.kind \in Kinds
    BY <1>1, CallTyped DEF IInv, Typed
<1>5. Balances(ought) \in Int /\ InTransit \in Int
    BY BalancesAdd, InTransitAdds DEF IInv, Typed
<1>6. CASE Write(c)
    <2>1. /\ calls[c].at = "writing" /\ ~Crediting(c)
          /\ Owed(c) = After(calls[c].op, ought[Target(c)])
        BY <1>6 DEF Write, Crediting, Owed, Target
    <2>2. /\ Owed(c).balance = ought[Target(c)].balance + Moved(calls[c].op)
          /\ Moved(calls[c].op) \in Int /\ calls[c].op.amount \in Int
          /\ ought[Target(c)].balance \in Int
        BY <1>1, <1>4, <2>1, OperationMoves
    <2>3. Balances(ought') = Balances(ought) + Moved(calls[c].op)
        BY <1>3, <1>5, <2>2
    <2>4. stranded' = stranded
        BY <1>6 DEF Write
    <2>5. Transit(calls[c]) = 0
        BY <2>1 DEF Transit
    <2>6. CASE calls[c].op.kind = "settle"
        <3> DEFINE call == [calls[c] EXCEPT !.at = "crediting"]
        <3>1. calls' = [calls EXCEPT ![c] = call] /\ net' = net + 0
            BY <1>6, <2>6 DEF Write
        <3>2. call.at = "crediting" /\ call.op = calls[c].op
            <4>1. calls[c] \in Settling
                BY <1>1, <1>4, <2>1, <2>6, CallTyped DEF Reading, Writing, Single
            <4> QED
                BY <4>1 DEF Settling
        <3>3. Transit(call) = calls[c].op.amount
            BY <3>2 DEF Transit
        <3> HIDE DEF call
        <3>4. InTransit' = InTransit - Transit(calls[c]) + Transit(call)
            BY <3>1, SlotMovesTransit DEF IInv
        <3>5. InTransit' = InTransit + calls[c].op.amount
            BY <1>5, <2>2, <2>5, <3>3, <3>4
        <3>6. Moved(calls[c].op) = -calls[c].op.amount
            BY <2>6 DEF Moved
        <3> QED
            BY <1>5, <2>2, <2>3, <2>4, <3>1, <3>5, <3>6 DEF OughtConserved
    <2>7. CASE calls[c].op.kind # "settle"
        <3>1. calls' = [calls EXCEPT ![c] = Idle] /\ Transit(Idle) = 0
            BY <1>6, <2>7 DEF Write, Return, Transit, Idle
        <3>2. InTransit' = InTransit - Transit(calls[c]) + Transit(Idle)
            BY <3>1, SlotMovesTransit DEF IInv
        <3>3. InTransit' = InTransit
            BY <1>5, <2>5, <3>1, <3>2
        <3>4. net' = net + Moved(calls[c].op)
            BY <1>6, <2>7 DEF Write, Moved
        <3> QED
            BY <1>5, <2>2, <2>3, <2>4, <3>3, <3>4 DEF OughtConserved
    <2> QED
        BY <2>6, <2>7
<1>7. CASE WriteCredit(c)
    <2>1. /\ calls[c].at = "crediting" /\ Crediting(c)
          /\ Owed(c) = Credited(calls[c].op, ought[Target(c)])
        BY <1>7 DEF WriteCredit, Crediting, Owed, Target
    <2>2. /\ Owed(c).balance = ought[Target(c)].balance + calls[c].op.amount
          /\ calls[c].op.amount \in Int /\ ought[Target(c)].balance \in Int
        BY <1>1, <1>4, <2>1, OperationMoves
    <2>3. Balances(ought') = Balances(ought) + calls[c].op.amount
        BY <1>3, <1>5, <2>2
    <2>4. stranded' = stranded /\ net' = net
        BY <1>7 DEF WriteCredit
    <2>5. calls' = [calls EXCEPT ![c] = Idle] /\ Transit(Idle) = 0
        BY <1>7 DEF WriteCredit, Return, Transit, Idle
    <2>6. InTransit' = InTransit - Transit(calls[c]) + Transit(Idle)
        BY <2>5, SlotMovesTransit DEF IInv
    <2>7. Transit(calls[c]) = calls[c].op.amount
        BY <2>1 DEF Transit
    <2>8. InTransit' = InTransit - calls[c].op.amount
        BY <1>5, <2>2, <2>5, <2>6, <2>7
    <2> QED
        BY <1>5, <2>2, <2>3, <2>4, <2>8 DEF OughtConserved
<1> QED
    BY <1>6, <1>7

\* The other steps leave the rows alone, but for a new one, which is empty; a settlement whose
\* credit rejects leaves behind what it had debited.
LEMMA OthersConserve ==
    ASSUME IInv, IInv', OughtConserved, NEW c \in Slots,
           \/ \E op \in Op : Read(c, op)
           \/ ReadCredit(c)
           \/ \E h \in Holders : Exists(c, h)
           \/ Create(c) \/ Reject(c)
    PROVE  OughtConserved'
<1>0. Balances(ought) \in Int /\ InTransit \in Int /\ calls[c] \in Call
    BY BalancesAdd, InTransitAdds DEF IInv, Typed
<1>1. ASSUME \/ \E op \in Op : Read(c, op)
             \/ ReadCredit(c)
             \/ \E h \in Holders : Exists(c, h)
      PROVE  OughtConserved'
    <2>1. ought' = ought /\ net' = net /\ stranded' = stranded
        BY <1>1 DEF Read, ReadCredit, Exists, history
    <2>2. PICK call : calls' = [calls EXCEPT ![c] = call] /\ Transit(call) = 0 /\ Transit(calls[c]) = 0
        <3>1. ASSUME NEW op \in Op, Read(c, op)
              PROVE  \E call : calls' = [calls EXCEPT ![c] = call] /\ Transit(call) = 0 /\ Transit(calls[c]) = 0
            <4> DEFINE new == [at |-> IF op.kind = "settle" THEN "reading" ELSE "writing",
                               op |-> op, seen |-> accounts[op.id]]
            <4>1. calls' = [calls EXCEPT ![c] = new] /\ calls[c].at = "idle" /\ new.at # "crediting"
                BY <3>1 DEF Read
            <4>2. Transit(new) = 0 /\ Transit(calls[c]) = 0
                BY <4>1 DEF Transit
            <4> QED
                BY <4>1, <4>2
        <3>2. CASE ReadCredit(c)
            <4> DEFINE old == calls[c]
                       new == IF Valid(old.op, old.seen)
                                THEN [at |-> "writing", op |-> old.op, seen |-> old.seen,
                                      seenTo |-> accounts[old.op.to]]
                                ELSE Idle
            <4>1. calls' = [calls EXCEPT ![c] = new] /\ calls[c].at = "reading"
                BY <3>2 DEF ReadCredit, IInv, Typed
            <4>2. new.at # "crediting"
                BY DEF Idle
            <4>3. Transit(new) = 0 /\ Transit(calls[c]) = 0
                BY <4>1, <4>2 DEF Transit
            <4> QED
                BY <4>1, <4>3
        <3>3. ASSUME NEW h \in Holders, Exists(c, h)
              PROVE  \E call : calls' = [calls EXCEPT ![c] = call] /\ Transit(call) = 0 /\ Transit(calls[c]) = 0
            <4> DEFINE new == [at |-> "writing", op |-> [kind |-> "create", holder |-> h]]
            <4>1. calls' = [calls EXCEPT ![c] = new] /\ calls[c].at = "idle" /\ new.at # "crediting"
                BY <3>3 DEF Exists
            <4>2. Transit(new) = 0 /\ Transit(calls[c]) = 0
                BY <4>1 DEF Transit
            <4> QED
                BY <4>1, <4>2
        <3> QED
            BY <1>1, <3>1, <3>2, <3>3
    <2>3. InTransit' = InTransit - Transit(calls[c]) + Transit(call)
        BY <2>2, SlotMovesTransit DEF IInv
    <2>4. InTransit' = InTransit
        BY <1>0, <2>2, <2>3
    <2> QED
        BY <2>1, <2>4 DEF OughtConserved
<1>2. CASE Create(c)
    <2>1. /\ ought' = Append(ought, NewAccount(calls[c].op.holder))
          /\ calls' = [calls EXCEPT ![c] = Idle] /\ net' = net /\ stranded' = stranded
          /\ calls[c].at = "writing" /\ calls[c].op.kind = "create"
        BY <1>2 DEF Create, Return
    <2>2. calls[c].op.holder \in Holders
        <3>1. calls[c] \in Creating
            BY <1>0, <2>1 DEF Call, Idle, Creating, Reading, Writing, Settling, Single, Paying, Kinds
        <3> QED
            BY <3>1 DEF Creating
    <2>3. Balances(ought') = Balances(ought)
        BY <2>1, <2>2, NewRowAddsNothing DEF IInv, Typed
    <2>4. Transit(calls[c]) = 0 /\ Transit(Idle) = 0
        BY <2>1 DEF Transit, Idle
    <2>5. InTransit' = InTransit - Transit(calls[c]) + Transit(Idle)
        BY <2>1, SlotMovesTransit DEF IInv
    <2>6. InTransit' = InTransit
        BY <1>0, <2>4, <2>5
    <2> QED
        BY <2>1, <2>3, <2>6 DEF OughtConserved
<1>3. CASE Reject(c)
    <2>1. /\ ought' = ought /\ net' = net /\ stranded' = stranded + Transit(calls[c])
          /\ calls' = [calls EXCEPT ![c] = Idle]
        BY <1>3 DEF Reject, Return, Transit
    <2>2. InTransit' = InTransit - Transit(calls[c]) + Transit(Idle) /\ Transit(calls[c]) \in Int
        BY <2>1, SlotMovesTransit DEF IInv
    <2>3. Transit(Idle) = 0
        BY DEF Transit, Idle
    <2> QED
        BY <1>0, <2>1, <2>2, <2>3 DEF OughtConserved
<1> QED
    BY <1>1, <1>2, <1>3

LEMMA InitConserved == Init => OughtConserved
<1> SUFFICES ASSUME Init PROVE OughtConserved
    OBVIOUS
<1>1. Typed
    BY InitIInv DEF IInv
<1>2. Balances(ought) = 0
    <2>1. DOMAIN ought = {}
        BY DEF Init
    <2>2. Balances(ought) = SumFunctionOnSet([id \in DOMAIN ought |-> ought[id].balance], DOMAIN ought)
        BY <1>1, BalancesAdd DEF Typed
    <2> QED
        BY <2>1, <2>2, SumEmpty
<1>3. InTransit = 0
    <2> DEFINE f == [c \in Slots |-> Transit(calls[c])]
    <2>1. InTransit = SumFunctionOnSet(f, Slots)
        BY <1>1, InTransitAdds
    <2>2. \A c \in Slots : f[c] = 0
        BY DEF Init, Idle, Transit
    <2> HIDE DEF f
    <2> QED
        BY <2>1, <2>2, AccountBounds, SumZero
<1> QED
    BY <1>2, <1>3 DEF Init, OughtConserved

LEMMA NextConserved == IInv /\ OughtConserved /\ [Next]_vars => OughtConserved'
<1> SUFFICES ASSUME IInv, OughtConserved, [Next]_vars PROVE OughtConserved'
    OBVIOUS
<1>1. IInv'
    BY NextIInv
<1>2. ASSUME NEW c \in Slots, Write(c) \/ WriteCredit(c) PROVE OughtConserved'
    BY <1>1, <1>2, WriteConserves
<1>3. ASSUME NEW c \in Slots,
             \/ \E op \in Op : Read(c, op)
             \/ ReadCredit(c)
             \/ \E h \in Holders : Exists(c, h)
             \/ Create(c) \/ Reject(c)
      PROVE  OughtConserved'
    BY <1>1, <1>3, OthersConserve
<1>4. CASE UNCHANGED vars
    BY <1>4 DEF vars, history, OughtConserved, Balances, InTransit
<1> QED
    BY <1>2, <1>3, <1>4 DEF Next

\* A table in which no column was written under a call has the balances it ought to have.
LEMMA AsItOughtToBe ==
    ASSUME IInv, late = {}
    PROVE  Balances(accounts) = Balances(ought)
<1>1. DOMAIN accounts = DOMAIN ought
    BY LenProperties DEF IInv, Typed
<1>2. \A id \in DOMAIN accounts : accounts[id]["balance"] = ought[id]["balance"]
    BY DEF IInv, UpdatesAddUp
<1>3. [id \in DOMAIN accounts |-> accounts[id].balance] = [id \in DOMAIN ought |-> ought[id].balance]
    BY <1>1, <1>2
<1> QED
    BY <1>3 DEF Balances

\* Settlements move money and create none, however calls interleave: what every write moves,
\* with what torn settlements left behind, is what was deposited less what was withdrawn.  While
\* no call wrote under another one, the balances of the table are those.
THEOREM MoneyIsConserved == Spec => [](MoneyConserved /\ OughtConserved)
<1>1. IInv /\ OughtConserved => MoneyConserved
    BY AsItOughtToBe DEF OughtConserved, MoneyConserved
<1>2. Init => IInv /\ OughtConserved
    BY InitIInv, InitConserved
<1>3. (IInv /\ OughtConserved) /\ [Next]_vars => (IInv /\ OughtConserved)'
    BY NextIInv, NextConserved
<1> QED
    BY <1>1, <1>2, <1>3, PTL DEF Spec
=============================================================================
