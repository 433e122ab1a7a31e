---------------------------- MODULE AdminProofs ----------------------------
(***************************************************************************)
(* Theorems about AdminService, for any users, accounts, orders and calls. *)
(***************************************************************************)
EXTENDS AdminService, FiniteSetTheorems, TLAPS

-----------------------------------------------------------------------------
(* The tables                                                               *)

Tables == {"users", "wallets", "orders", "positions", "symbols", "breakers"}

Ids(table) ==
    CASE table = "users" -> Users
      [] table = "wallets" -> Wallets
      [] table = "orders" -> Orders
      [] table = "positions" -> Wallets
      [] table = "symbols" -> {Symbol}
      [] table = "breakers" -> {Platform}

OrderStatuses == OpenStatuses \cup {"filled", "cancelled"}

Rows(table) ==
    CASE table = "users" -> [status : Statuses, role : Roles]
      [] table = "wallets" -> [balance : Int, locked : Int, status : Statuses]
      [] table = "orders" -> [status : OrderStatuses]
      [] table = "positions" -> [quantity : Int]
      [] table = "symbols" -> SymbolRow
      [] table = "breakers" -> [events : SUBSET (-1..MaxCalls), flag : BOOLEAN]

IsTarget(t) == t.table \in Tables /\ t.id \in Ids(t.table) /\ t = Target(t.table, t.id)

\* The row of t in the tables b.
In(b, t) == b[t.table][t.id]

Shaped(b) ==
    /\ DOMAIN b = Tables
    /\ \A table \in Tables : /\ DOMAIN b[table] = Ids(table)
                             /\ \A i \in Ids(table) : b[table][i] \in Rows(table)

-----------------------------------------------------------------------------
(* The calls                                                                *)

Ops == {"suspend", "unsuspend", "role", "deposit", "withdraw", "freeze", "unfreeze", "activate",
        "deactivate", "upsert", "enable", "disable", "cancel", "close"}

TableOf(op) ==
    CASE op \in {"suspend", "unsuspend", "role"} -> "users"
      [] op \in {"deposit", "withdraw", "freeze", "unfreeze"} -> "wallets"
      [] op \in {"activate", "deactivate"} -> "breakers"
      [] op \in {"upsert", "enable", "disable"} -> "symbols"
      [] op = "cancel" -> "orders"
      [] op = "close" -> "positions"

Given == [enabled : SUBSET BOOLEAN, fee : SUBSET (0..1)]

\* The argument fits the operation.
Suits(op, arg) ==
    (op = "role" => arg \in Roles) /\ (op \in {"upsert", "enable", "disable"} => arg \in Given)

\* A call on one row: it names its table, and a cancellation has read the order open.
One(call) ==
    /\ DOMAIN call = {"at", "no", "op", "on", "arg", "known", "seen", "inner", "wrote"}
    /\ call.at \in {"inner", "act", "reread", "record"}
    /\ call.op \in Ops /\ call.no \in 1..MaxCalls /\ Suits(call.op, call.arg)
    /\ IsTarget(call.on) /\ call.on.table = TableOf(call.op)
    /\ call.seen \in Rows(call.on.table)
    /\ call.op = "cancel" => call.seen.status \in OpenStatuses
    /\ call.at = "act" /\ call.op \in {"deposit", "withdraw"} => call.inner \in Int
    /\ IsFiniteSet(call.wrote)

\* A cancellation of many orders has read those that are left open.
Many(call) ==
    /\ DOMAIN call = {"at", "op", "on", "known", "seen", "left", "wrote"}
    /\ call.op = "cancelAll" /\ call.at \in {"cancelling", "record"} /\ call.left \subseteq Orders
    /\ call.at = "cancelling" => \A o \in call.left : call.seen[o].status \in OpenStatuses
    /\ IsFiniteSet(call.wrote)

CallOk(call) == call.at = "idle" \/ One(call) \/ Many(call)

AInv ==
    /\ Shaped(db)
    /\ made \in 0..MaxCalls /\ outside \in 0..MaxOutside /\ entries \in Nat /\ behind \in Nat
    /\ DOMAIN calls = Slots
    /\ \A c \in Slots : CallOk(calls[c])

-----------------------------------------------------------------------------
(* What a write changes                                                     *)

\* A row that is written changes, and no other.
LEMMA RowWritten ==
    ASSUME NEW b, Shaped(b), NEW t, IsTarget(t), NEW row \in Rows(t.table)
    PROVE  \E new : /\ new = [b EXCEPT ![t.table][t.id] = row]
                    /\ Shaped(new) /\ In(new, t) = row
                    /\ \A u : IsTarget(u) /\ u # t => In(new, u) = In(b, u)
<1>1. PICK new : new = [b EXCEPT ![t.table][t.id] = row]
    OBVIOUS
<1>2. PICK tt, i : tt = t.table /\ i = t.id /\ tt \in Tables /\ i \in Ids(tt)
    BY DEF IsTarget
<1>3. /\ DOMAIN b = Tables
      /\ \A table \in Tables : /\ DOMAIN b[table] = Ids(table)
                               /\ \A j \in Ids(table) : b[table][j] \in Rows(table)
    BY DEF Shaped
<1>4. /\ DOMAIN new = Tables
      /\ \A table \in Tables : DOMAIN new[table] = Ids(table)
      /\ \A table \in Tables : \A j \in Ids(table) :
            new[table][j] = IF table = tt /\ j = i THEN row ELSE b[table][j]
    BY <1>1, <1>2, <1>3
<1>5. Shaped(new)
    <2>1. ASSUME NEW table \in Tables, NEW j \in Ids(table) PROVE new[table][j] \in Rows(table)
        BY <1>2, <1>3, <1>4, <2>1
    <2> QED
        BY <1>4, <2>1 DEF Shaped
<1>6. In(new, t) = row
    BY <1>2, <1>4 DEF In
<1>7. ASSUME NEW u, IsTarget(u), u # t PROVE In(new, u) = In(b, u)
    <2>1. u.table # tt \/ u.id # i
        BY <1>2, <1>7 DEF IsTarget
    <2>2. u.table \in Tables /\ u.id \in Ids(u.table)
        BY <1>7 DEF IsTarget
    <2> QED
        BY <1>4, <2>1, <2>2 DEF In
<1> QED
    BY <1>1, <1>5, <1>6, <1>7

LEMMA RowTyped ==
    ASSUME NEW b, Shaped(b), NEW t, IsTarget(t)
    PROVE  In(b, t) \in Rows(t.table)
BY DEF Shaped, IsTarget, In

-----------------------------------------------------------------------------
(* Steps of one call                                                        *)

Counters == made \in 0..MaxCalls /\ outside \in 0..MaxOutside /\ entries \in Nat /\ behind \in Nat

LEMMA CallIs ==
    ASSUME AInv, NEW c \in Slots
    PROVE  CallOk(calls[c]) /\ Shaped(db) /\ Counters /\ DOMAIN calls = Slots
BY DEF AInv, Counters

\* A step of one call; the tables keep their shape.
LEMMA CallMoves ==
    ASSUME AInv, NEW c \in Slots, NEW call, CallOk(call), calls' = [calls EXCEPT ![c] = call],
           Shaped(db'), made' \in 0..MaxCalls, outside' \in 0..MaxOutside, entries' \in Nat, behind' \in Nat
    PROVE  AInv'
<1>1. DOMAIN calls' = Slots /\ \A d \in Slots : calls'[d] = IF d = c THEN call ELSE calls[d]
    BY DEF AInv
<1>2. \A d \in Slots : CallOk(calls'[d])
    BY <1>1 DEF AInv
<1> QED
    BY <1>1, <1>2 DEF AInv

LEMMA RowIs == \A t : Row(t) = In(db, t)
BY DEF Row, In

\* The check of a cancellation leaves an open order.
LEMMA OpenWhenPassed ==
    ASSUME NEW r \in Rows("orders"), NEW self, Passes("cancel", r, self)
    PROVE  r.status \in OpenStatuses
<1>1. r.status \in OrderStatuses
    BY DEF Rows
<1>2. r.status \notin {"filled", "cancelled"}
    BY DEF Passes
<1> QED
    BY <1>1, <1>2 DEF OrderStatuses

Twice == {"deposit", "withdraw", "deactivate"}

LEMMA BeginInv ==
    ASSUME AInv, NEW c \in Slots, NEW by, NEW op \in Ops, NEW t, IsTarget(t), t.table = TableOf(op),
           NEW arg, Suits(op, arg), NEW step, step = IF op \in Twice THEN "inner" ELSE "act",
           Begin(c, by, op, t, arg, step)
    PROVE  AInv'
<1>1. CallOk(calls[c]) /\ Shaped(db) /\ Counters /\ DOMAIN calls = Slots
    BY CallIs
<1>2. PICK known \in Identified : /\ Passes(op, Row(t), known /\ t.id = by)
                                /\ calls' = [calls EXCEPT ![c] = NewCall(op, t, arg, known, step)]
    BY DEF Begin
<1>3. db' = db /\ made' = made + 1 /\ made < MaxCalls /\ outside' = outside /\ entries' = entries /\ behind' = behind
    BY DEF Begin
<1>4. PICK call : call = NewCall(op, t, arg, known, step)
    OBVIOUS
<1>5. In(db, t) \in Rows(t.table)
    BY <1>1, RowTyped
<1>6. /\ DOMAIN call = {"at", "no", "op", "on", "arg", "known", "seen", "inner", "wrote"}
      /\ call.at = step /\ call.no = made + 1 /\ call.op = op /\ call.on = t /\ call.arg = arg
      /\ call.seen = In(db, t) /\ call.wrote = {} /\ call.inner = 0
    BY <1>4, RowIs DEF NewCall
<1>7. op = "cancel" => In(db, t).status \in OpenStatuses
    <2>1. SUFFICES ASSUME op = "cancel" PROVE In(db, t).status \in OpenStatuses
        OBVIOUS
    <2>2. PICK r, self : r = In(db, t) /\ self = (known /\ t.id = by)
        OBVIOUS
    <2>3. r \in Rows("orders") /\ Passes("cancel", r, self)
        BY <1>2, <1>5, <2>1, <2>2, RowIs DEF TableOf
    <2> QED
        BY <2>2, <2>3, OpenWhenPassed
<1>8. One(call)
    <2>1. made + 1 \in 1..MaxCalls
        BY <1>1, <1>3, AdminAssumption DEF Counters
    <2>2. IsFiniteSet({})
        BY FS_EmptySet
    <2>3. step \in {"inner", "act", "reread", "record"}
        OBVIOUS
    <2> QED
        BY <1>5, <1>6, <1>7, <2>1, <2>2, <2>3 DEF One
<1>9. made' \in 0..MaxCalls
    BY <1>1, <1>3, AdminAssumption DEF Counters
<1>10. /\ CallOk(call) /\ calls' = [calls EXCEPT ![c] = call] /\ Shaped(db')
       /\ outside' \in 0..MaxOutside /\ entries' \in Nat /\ behind' \in Nat
    BY <1>1, <1>2, <1>3, <1>4, <1>8 DEF CallOk, Counters
<1> QED
    BY <1>9, <1>10, CallMoves

\* Each operation aims at a row of its table.
LEMMA StartsOn ==
    ASSUME AInv, NEW c \in Slots, NEW by, NEW op \in Ops, NEW id \in Ids(TableOf(op)), NEW arg, Suits(op, arg),
           NEW step, step = IF op \in Twice THEN "inner" ELSE "act",
           Begin(c, by, op, Target(TableOf(op), id), arg, step)
    PROVE  AInv'
<1>1. PICK t : t = Target(TableOf(op), id)
    OBVIOUS
<1>2. TableOf(op) \in Tables
    BY DEF Ops, TableOf, Tables
<1>3. IsTarget(t) /\ t.table = TableOf(op)
    BY <1>1, <1>2 DEF IsTarget, Target
<1>4. Begin(c, by, op, t, arg, step)
    BY <1>1
<1> QED
    BY <1>3, <1>4, BeginInv

LEMMA TargetOf ==
    /\ Symbol \in Ids("symbols") /\ Platform \in Ids("breakers")
    /\ \A u \in Users : u \in Ids("users")
    /\ \A w \in Wallets : w \in Ids("wallets") /\ w \in Ids("positions")
    /\ \A o \in Orders : o \in Ids("orders")
BY DEF Ids

LEMMA StartInv ==
    ASSUME AInv, NEW c \in Slots, NEW by \in Staff, Start(c, by)
    PROVE  AInv'
<1>1. ASSUME NEW u \in Users, SuspendUser(c, by, u) PROVE AInv'
    <2>1. TableOf("suspend") = "users" /\ "suspend" \in Ops /\ Suits("suspend", 0)
        BY DEF TableOf, Ops, Suits
    <2>2. Begin(c, by, "suspend", Target(TableOf("suspend"), u), 0, "act")
        BY <1>1, <2>1 DEF SuspendUser
    <2>3. "act" = IF "suspend" \in Twice THEN "inner" ELSE "act"
        BY DEF Twice
    <2> QED
        BY <2>1, <2>2, <2>3, StartsOn, TargetOf
<1>2. ASSUME NEW u \in Users, UnsuspendUser(c, by, u) PROVE AInv'
    <2>1. TableOf("unsuspend") = "users" /\ "unsuspend" \in Ops /\ Suits("unsuspend", 0)
        BY DEF TableOf, Ops, Suits
    <2>2. Begin(c, by, "unsuspend", Target(TableOf("unsuspend"), u), 0, "act")
        BY <1>2, <2>1 DEF UnsuspendUser
    <2>3. "act" = IF "unsuspend" \in Twice THEN "inner" ELSE "act"
        BY DEF Twice
    <2> QED
        BY <2>1, <2>2, <2>3, StartsOn, TargetOf
<1>3. ASSUME NEW u \in Users, NEW role \in Roles, UpdateUserRole(c, by, u, role) PROVE AInv'
    <2>1. TableOf("role") = "users" /\ "role" \in Ops /\ Suits("role", role)
        BY DEF TableOf, Ops, Suits
    <2>2. Begin(c, by, "role", Target(TableOf("role"), u), role, "act")
        BY <1>3, <2>1 DEF UpdateUserRole
    <2>3. "act" = IF "role" \in Twice THEN "inner" ELSE "act"
        BY DEF Twice
    <2> QED
        BY <2>1, <2>2, <2>3, StartsOn, TargetOf
<1>4. ASSUME NEW w \in Wallets, AdminDeposit(c, by, w) PROVE AInv'
    <2>1. TableOf("deposit") = "wallets" /\ "deposit" \in Ops /\ Suits("deposit", 1)
        BY DEF TableOf, Ops, Suits
    <2>2. Begin(c, by, "deposit", Target(TableOf("deposit"), w), 1, "inner")
        BY <1>4, <2>1 DEF AdminDeposit
    <2>3. "inner" = IF "deposit" \in Twice THEN "inner" ELSE "act"
        BY DEF Twice
    <2> QED
        BY <2>1, <2>2, <2>3, StartsOn, TargetOf
<1>5. ASSUME NEW w \in Wallets, AdminWithdraw(c, by, w) PROVE AInv'
    <2>1. TableOf("withdraw") = "wallets" /\ "withdraw" \in Ops /\ Suits("withdraw", 1)
        BY DEF TableOf, Ops, Suits
    <2>2. Begin(c, by, "withdraw", Target(TableOf("withdraw"), w), 1, "inner")
        BY <1>5, <2>1 DEF AdminWithdraw
    <2>3. "inner" = IF "withdraw" \in Twice THEN "inner" ELSE "act"
        BY DEF Twice
    <2> QED
        BY <2>1, <2>2, <2>3, StartsOn, TargetOf
<1>6. ASSUME NEW w \in Wallets, FreezeAccount(c, by, w) PROVE AInv'
    <2>1. TableOf("freeze") = "wallets" /\ "freeze" \in Ops /\ Suits("freeze", 0)
        BY DEF TableOf, Ops, Suits
    <2>2. Begin(c, by, "freeze", Target(TableOf("freeze"), w), 0, "act")
        BY <1>6, <2>1 DEF FreezeAccount
    <2>3. "act" = IF "freeze" \in Twice THEN "inner" ELSE "act"
        BY DEF Twice
    <2> QED
        BY <2>1, <2>2, <2>3, StartsOn, TargetOf
<1>7. ASSUME NEW w \in Wallets, UnfreezeAccount(c, by, w) PROVE AInv'
    <2>1. TableOf("unfreeze") = "wallets" /\ "unfreeze" \in Ops /\ Suits("unfreeze", 0)
        BY DEF TableOf, Ops, Suits
    <2>2. Begin(c, by, "unfreeze", Target(TableOf("unfreeze"), w), 0, "act")
        BY <1>7, <2>1 DEF UnfreezeAccount
    <2>3. "act" = IF "unfreeze" \in Twice THEN "inner" ELSE "act"
        BY DEF Twice
    <2> QED
        BY <2>1, <2>2, <2>3, StartsOn, TargetOf
<1>8. ASSUME ActivateBreaker(c, by) PROVE AInv'
    <2>1. TableOf("activate") = "breakers" /\ "activate" \in Ops /\ Suits("activate", 0)
        BY DEF TableOf, Ops, Suits
    <2>2. Begin(c, by, "activate", Target(TableOf("activate"), Platform), 0, "act")
        BY <1>8, <2>1 DEF ActivateBreaker
    <2>3. "act" = IF "activate" \in Twice THEN "inner" ELSE "act"
        BY DEF Twice
    <2> QED
        BY <2>1, <2>2, <2>3, StartsOn, TargetOf
<1>9. ASSUME DeactivateBreaker(c, by) PROVE AInv'
    <2>1. TableOf("deactivate") = "breakers" /\ "deactivate" \in Ops /\ Suits("deactivate", 0)
        BY DEF TableOf, Ops, Suits
    <2>2. Begin(c, by, "deactivate", Target(TableOf("deactivate"), Platform), 0, "inner")
        BY <1>9, <2>1 DEF DeactivateBreaker
    <2>3. "inner" = IF "deactivate" \in Twice THEN "inner" ELSE "act"
        BY DEF Twice
    <2> QED
        BY <2>1, <2>2, <2>3, StartsOn, TargetOf
<1>10. ASSUME EnableSymbol(c, by) PROVE AInv'
    <2>1. TableOf("enable") = "symbols" /\ "enable" \in Ops /\ Suits("enable", [enabled |-> {TRUE}, fee |-> {}])
        BY DEF TableOf, Ops, Suits, Given
    <2>2. Begin(c, by, "enable", Target(TableOf("enable"), Symbol), [enabled |-> {TRUE}, fee |-> {}], "act")
        BY <1>10, <2>1 DEF EnableSymbol
    <2>3. "act" = IF "enable" \in Twice THEN "inner" ELSE "act"
        BY DEF Twice
    <2> QED
        BY <2>1, <2>2, <2>3, StartsOn, TargetOf
<1>11. ASSUME DisableSymbol(c, by) PROVE AInv'
    <2>1. TableOf("disable") = "symbols" /\ "disable" \in Ops /\ Suits("disable", [enabled |-> {FALSE}, fee |-> {}])
        BY DEF TableOf, Ops, Suits, Given
    <2>2. Begin(c, by, "disable", Target(TableOf("disable"), Symbol), [enabled |-> {FALSE}, fee |-> {}], "act")
        BY <1>11, <2>1 DEF DisableSymbol
    <2>3. "act" = IF "disable" \in Twice THEN "inner" ELSE "act"
        BY DEF Twice
    <2> QED
        BY <2>1, <2>2, <2>3, StartsOn, TargetOf
<1>12. ASSUME NEW o \in Orders, CancelOrder(c, by, o) PROVE AInv'
    <2>1. TableOf("cancel") = "orders" /\ "cancel" \in Ops /\ Suits("cancel", 0)
        BY DEF TableOf, Ops, Suits
    <2>2. Begin(c, by, "cancel", Target(TableOf("cancel"), o), 0, "act")
        BY <1>12, <2>1 DEF CancelOrder
    <2>3. "act" = IF "cancel" \in Twice THEN "inner" ELSE "act"
        BY DEF Twice
    <2> QED
        BY <2>1, <2>2, <2>3, StartsOn, TargetOf
<1>13. ASSUME NEW w \in Wallets, ForceClosePosition(c, by, w) PROVE AInv'
    <2>1. TableOf("close") = "positions" /\ "close" \in Ops /\ Suits("close", 0)
        BY DEF TableOf, Ops, Suits
    <2>2. Begin(c, by, "close", Target(TableOf("close"), w), 0, "act")
        BY <1>13, <2>1 DEF ForceClosePosition
    <2>3. "act" = IF "close" \in Twice THEN "inner" ELSE "act"
        BY DEF Twice
    <2> QED
        BY <2>1, <2>2, <2>3, StartsOn, TargetOf
<1>14. ASSUME NEW given \in Inputs, UpsertSymbol(c, by, given) PROVE AInv'
    <2>1. TableOf("upsert") = "symbols" /\ "upsert" \in Ops /\ Suits("upsert", given)
        BY DEF TableOf, Ops, Suits, Given, Inputs
    <2>2. Begin(c, by, "upsert", Target(TableOf("upsert"), Symbol), given, "act")
        BY <1>14, <2>1 DEF UpsertSymbol
    <2>3. "act" = IF "upsert" \in Twice THEN "inner" ELSE "act"
        BY DEF Twice
    <2> QED
        BY <2>1, <2>2, <2>3, StartsOn, TargetOf
<1>15. ASSUME NEW filter \in Wallets \cup {"all"}, CancelAllOrders(c, by, filter) PROVE AInv'
    <2>1. CallOk(calls[c]) /\ Shaped(db) /\ Counters /\ DOMAIN calls = Slots
        BY CallIs
    <2>2. PICK listed : listed = {o \in Orders : db.orders[o].status \in OpenStatuses}
        OBVIOUS
    <2>3. PICK known \in Identified : calls' = [calls EXCEPT ![c] =
             [at |-> "cancelling", op |-> "cancelAll", on |-> Target("orders", filter), known |-> known,
              seen |-> db.orders, left |-> listed, wrote |-> {}]]
        BY <1>15, <2>2 DEF CancelAllOrders
    <2>4. PICK call : call =
             [at |-> "cancelling", op |-> "cancelAll", on |-> Target("orders", filter), known |-> known,
              seen |-> db.orders, left |-> listed, wrote |-> {}]
        OBVIOUS
    <2>5. db' = db /\ made' = made + 1 /\ made < MaxCalls /\ outside' = outside /\ entries' = entries /\ behind' = behind
        BY <1>15 DEF CancelAllOrders
    <2>6. IsFiniteSet({})
        BY FS_EmptySet
    <2>7. Many(call)
        BY <2>2, <2>4, <2>6 DEF Many
    <2>8. made' \in 0..MaxCalls
        BY <2>1, <2>5, AdminAssumption DEF Counters
    <2>9. /\ CallOk(call) /\ calls' = [calls EXCEPT ![c] = call] /\ Shaped(db')
          /\ outside' \in 0..MaxOutside /\ entries' \in Nat /\ behind' \in Nat
        BY <2>1, <2>3, <2>4, <2>5, <2>7 DEF CallOk, Counters
    <2> QED
        BY <2>8, <2>9, CallMoves
<1> QED
    BY <1>1, <1>2, <1>3, <1>4, <1>5, <1>6, <1>7, <1>8, <1>9, <1>10, <1>11, <1>12, <1>13, <1>14, <1>15 DEF Start

-----------------------------------------------------------------------------
(* What a write leaves                                                      *)

\* A symbol is a symbol again, each of its fields given, read or the default.
LEMMA MergedIs ==
    ASSUME NEW seen \in SymbolRow, NEW given \in Given
    PROVE  /\ Merged(seen, given) \in SymbolRow
           /\ \A f \in {"enabled", "fee"} :
                 IF given[f] # {} THEN Merged(seen, given)[f] \in given[f]
                 ELSE Merged(seen, given)[f] = IF seen.present THEN seen[f] ELSE Defaults[f]
<1>1. PICK e, f, row :
         /\ e = IF given["enabled"] # {} THEN CHOOSE v \in given["enabled"] : TRUE
                ELSE IF seen.present THEN seen["enabled"] ELSE Defaults["enabled"]
         /\ f = IF given["fee"] # {} THEN CHOOSE v \in given["fee"] : TRUE
                ELSE IF seen.present THEN seen["fee"] ELSE Defaults["fee"]
         /\ row = [present |-> TRUE, enabled |-> e, fee |-> f]
    OBVIOUS
<1>2. Merged(seen, given) = row
    BY <1>1 DEF Merged
<1>3. /\ Defaults["enabled"] = TRUE /\ Defaults["fee"] = 1
      /\ seen["enabled"] \in BOOLEAN /\ seen["fee"] \in 0..1
      /\ given["enabled"] \in SUBSET BOOLEAN /\ given["fee"] \in SUBSET (0..1)
    BY DEF Defaults, SymbolRow, Given
<1>4. IF given["enabled"] # {} THEN e \in given["enabled"]
      ELSE e = IF seen.present THEN seen["enabled"] ELSE Defaults["enabled"]
    BY <1>1
<1>5. IF given["fee"] # {} THEN f \in given["fee"]
      ELSE f = IF seen.present THEN seen["fee"] ELSE Defaults["fee"]
    BY <1>1
<1>6. e \in BOOLEAN
    BY <1>3, <1>4
<1>7. f \in 0..1
    BY <1>3, <1>5
<1>8. row \in SymbolRow
    BY <1>1, <1>6, <1>7 DEF SymbolRow
<1>9. row["enabled"] = e /\ row["fee"] = f
    BY <1>1
<1> QED
    BY <1>2, <1>4, <1>5, <1>8, <1>9

\* A row that an operation writes is a row of its table.
LEMMA AfterTyped ==
    ASSUME NEW call, One(call), call.at = "act", NEW r \in Rows(call.on.table)
    PROVE  After(call, r) \in Rows(call.on.table)
<1>1. PICK op, rows : op = call.op /\ rows = Rows(call.on.table) /\ op \in Ops /\ rows = Rows(TableOf(op))
    BY DEF One
<1>2. /\ Suits(op, call.arg) /\ call.no \in 1..MaxCalls /\ r \in rows /\ call.seen \in rows
      /\ op \in {"deposit", "withdraw"} => call.inner \in Int
    BY <1>1 DEF One
<1>3. CASE op \in {"suspend", "unsuspend", "role"}
    <2>1. rows = [status : Statuses, role : Roles]
        BY <1>1, <1>3 DEF TableOf, Rows
    <2> QED
        BY <1>1, <1>2, <1>3, <2>1 DEF After, Suits, Statuses
<1>4. CASE op \in {"deposit", "withdraw", "freeze", "unfreeze"}
    <2>1. rows = [balance : Int, locked : Int, status : Statuses]
        BY <1>1, <1>4 DEF TableOf, Rows
    <2> QED
        BY <1>1, <1>2, <1>4, <2>1 DEF After, Statuses
<1>5. CASE op \in {"activate", "deactivate"}
    <2>1. rows = [events : SUBSET (-1..MaxCalls), flag : BOOLEAN]
        BY <1>1, <1>5 DEF TableOf, Rows
    <2>2. r.events \in SUBSET (-1..MaxCalls)
        BY <1>2, <2>1
    <2>3. call.no \in -1..MaxCalls
        BY <1>2, AdminAssumption
    <2>4. r.events \cup {call.no} \in SUBSET (-1..MaxCalls) /\ r.events \ call.inner \in SUBSET (-1..MaxCalls)
        BY <2>2, <2>3
    <2> QED
        BY <1>1, <1>2, <1>5, <2>1, <2>4 DEF After
<1>6. CASE op \in {"upsert", "enable", "disable"}
    <2>1. rows = SymbolRow /\ call.arg \in Given
        BY <1>1, <1>2, <1>6 DEF TableOf, Rows, Suits
    <2>2. Merged(call.seen, call.arg) \in SymbolRow
        BY <1>2, <2>1, MergedIs
    <2> QED
        BY <1>1, <1>6, <2>1, <2>2 DEF After
<1>7. CASE op = "cancel"
    <2>1. rows = [status : OrderStatuses]
        BY <1>1, <1>7 DEF TableOf, Rows
    <2> QED
        BY <1>1, <1>2, <1>7, <2>1 DEF After, OrderStatuses
<1>8. CASE op = "close"
    <2>1. rows = [quantity : Int]
        BY <1>1, <1>8 DEF TableOf, Rows
    <2>2. After(call, r) = [r EXCEPT !.quantity = 0]
        BY <1>1, <1>8 DEF After
    <2>3. [r EXCEPT !.quantity = 0] \in rows
        BY <1>2, <2>1
    <2> QED
        BY <1>1, <2>2, <2>3
<1> QED
    BY <1>1, <1>3, <1>4, <1>5, <1>6, <1>7, <1>8 DEF Ops

LEMMA OneIs ==
    ASSUME NEW call, CallOk(call), call.at \in {"inner", "act", "reread"}
    PROVE  One(call)
BY DEF CallOk, Many

\* A write of a row of its table keeps the shape of the tables.
LEMMA ShapedAfter ==
    ASSUME Shaped(db), NEW t, IsTarget(t), NEW row \in Rows(t.table), db' = [db EXCEPT ![t.table][t.id] = row]
    PROVE  Shaped(db') /\ \A u : IsTarget(u) /\ u # t => In(db', u) = In(db, u)
<1>1. PICK b : b = db
    OBVIOUS
<1>2. PICK new : /\ new = [b EXCEPT ![t.table][t.id] = row]
                 /\ Shaped(new) /\ In(new, t) = row
                 /\ \A u : IsTarget(u) /\ u # t => In(new, u) = In(b, u)
    <2>1. Shaped(b)
        BY <1>1
    <2> QED
        BY <2>1, RowWritten
<1> QED
    BY <1>1, <1>2

LEMMA ReadInnerInv ==
    ASSUME AInv, NEW c \in Slots, ReadInner(c)
    PROVE  AInv'
<1>1. CallOk(calls[c]) /\ Shaped(db) /\ Counters /\ DOMAIN calls = Slots
    BY CallIs
<1>2. PICK call, r : call = calls[c] /\ r = In(db, call.on)
    OBVIOUS
<1>3. PICK x : x = CASE call.op = "deposit" -> r.balance + 1
                      [] call.op = "withdraw" -> r.balance - 1
                      [] call.op = "deactivate" -> IF r.events = {} THEN {} ELSE {Max(r.events)}
    OBVIOUS
<1>4. /\ call.at = "inner"
      /\ calls' = [calls EXCEPT ![c].at = "act", ![c].inner = x]
      /\ db' = db /\ made' = made /\ outside' = outside /\ entries' = entries /\ behind' = behind
    BY <1>2, <1>3, RowIs DEF ReadInner
<1>5. One(call) /\ In(db, call.on) \in Rows(call.on.table)
    <2>1. One(call)
        BY <1>1, <1>2, <1>4, OneIs
    <2> QED
        BY <1>1, <2>1, RowTyped DEF One
<1>6. call.op \in {"deposit", "withdraw"} => x \in Int
    <2>1. SUFFICES ASSUME call.op \in {"deposit", "withdraw"} PROVE x \in Int
        OBVIOUS
    <2>2. Rows(call.on.table) = [balance : Int, locked : Int, status : Statuses]
        BY <1>5, <2>1 DEF One, TableOf, Rows
    <2>3. r.balance \in Int
        BY <1>2, <1>5, <2>2
    <2> QED
        BY <1>3, <2>1, <2>3
<1>7. PICK new : new = [call EXCEPT !.at = "act", !.inner = x]
    OBVIOUS
<1>8. One(new)
    BY <1>5, <1>6, <1>7 DEF One
<1>9. calls' = [calls EXCEPT ![c] = new]
    BY <1>1, <1>2, <1>4, <1>7
<1> QED
    BY <1>1, <1>4, <1>8, <1>9, CallMoves DEF CallOk, Counters

LEMMA ActInv ==
    ASSUME AInv, NEW c \in Slots, Act(c)
    PROVE  AInv'
<1>1. CallOk(calls[c]) /\ Shaped(db) /\ Counters /\ DOMAIN calls = Slots
    BY CallIs
<1>2. PICK call, t, row : call = calls[c] /\ t = call.on /\ row = After(call, In(db, t))
    OBVIOUS
<1>3. call.at = "act" /\ One(call) /\ IsTarget(t)
    <2>1. call.at = "act"
        BY <1>2 DEF Act
    <2>2. One(call)
        BY <1>1, <1>2, <2>1, OneIs
    <2> QED
        BY <1>2, <2>1, <2>2 DEF One
<1>4. row \in Rows(t.table)
    <2>1. In(db, t) \in Rows(t.table)
        BY <1>1, <1>3, RowTyped
    <2> QED
        BY <1>2, <1>3, <2>1, AfterTyped
<1>5. PICK new : new = [call EXCEPT !.at = IF call.op \in {"deposit", "withdraw"} THEN "reread" ELSE "record",
                                   !.wrote = @ \cup {t}]
    OBVIOUS
<1>6. /\ db' = [db EXCEPT ![t.table][t.id] = row] /\ calls' = [calls EXCEPT ![c] = new]
      /\ made' = made /\ outside' = outside /\ entries' = entries /\ behind' = behind
    <2>1. PICK next : next = [call EXCEPT !.at = IF call.op \in {"deposit", "withdraw"} THEN "reread" ELSE "record"]
        OBVIOUS
    <2>2. Write(c, t, next)
        BY <1>2, <2>1 DEF Act
    <2>3. [next EXCEPT !.wrote = @ \cup {t}] = new
        BY <1>3, <1>5, <2>1 DEF One
    <2> QED
        BY <1>2, <2>2, <2>3, RowIs DEF Act, Write
<1>7. One(new)
    <2>1. IsFiniteSet(call.wrote \cup {t})
        BY <1>3, FS_AddElement DEF One
    <2> QED
        BY <1>3, <1>5, <2>1 DEF One
<1>8. Shaped(db')
    BY <1>1, <1>3, <1>4, <1>6, ShapedAfter
<1> QED
    BY <1>1, <1>6, <1>7, <1>8, CallMoves DEF CallOk, Counters

LEMMA ReadAgainInv ==
    ASSUME AInv, NEW c \in Slots, ReadAgain(c)
    PROVE  AInv'
<1>1. CallOk(calls[c]) /\ Shaped(db) /\ Counters /\ DOMAIN calls = Slots
    BY CallIs
<1>2. PICK call, new : call = calls[c] /\ new = [call EXCEPT !.at = "record"]
    OBVIOUS
<1>3. One(call)
    BY <1>1, <1>2, OneIs DEF ReadAgain
<1>4. One(new)
    BY <1>2, <1>3 DEF One
<1>5. /\ calls' = [calls EXCEPT ![c] = new]
      /\ db' = db /\ made' = made /\ outside' = outside /\ entries' = entries /\ behind' = behind
    BY <1>1, <1>2 DEF ReadAgain
<1> QED
    BY <1>1, <1>4, <1>5, CallMoves DEF CallOk, Counters

LEMMA RecordInv ==
    ASSUME AInv, NEW c \in Slots, Record(c)
    PROVE  AInv'
<1>1. CallOk(calls[c]) /\ Shaped(db) /\ Counters /\ DOMAIN calls = Slots
    BY CallIs
<1>2. /\ calls' = [calls EXCEPT ![c] = Idle]
      /\ db' = db /\ made' = made /\ outside' = outside /\ entries' = entries + 1 /\ behind' = behind
    BY DEF Record, Return
<1>3. CallOk(Idle) /\ entries' \in Nat
    BY <1>1, <1>2 DEF CallOk, Idle, Counters
<1> QED
    BY <1>1, <1>2, <1>3, CallMoves DEF Counters

LEMMA FailInv ==
    ASSUME AInv, NEW c \in Slots, Fail(c)
    PROVE  AInv'
<1>1. CallOk(calls[c]) /\ Shaped(db) /\ Counters /\ DOMAIN calls = Slots
    BY CallIs
<1>2. /\ calls' = [calls EXCEPT ![c] = Idle] /\ behind' = behind + Cardinality(calls[c].wrote)
      /\ db' = db /\ made' = made /\ outside' = outside /\ entries' = entries
    BY DEF Fail, Return
<1>3. Cardinality(calls[c].wrote) \in Nat
    <2>1. IsFiniteSet(calls[c].wrote)
        BY <1>1 DEF CallOk, One, Many, Fail, Running
    <2> QED
        BY <2>1, FS_CardinalityType
<1>4. CallOk(Idle) /\ behind' \in Nat
    BY <1>1, <1>2, <1>3 DEF CallOk, Idle, Counters
<1> QED
    BY <1>1, <1>2, <1>4, CallMoves DEF Counters

LEMMA CancelNextInv ==
    ASSUME AInv, NEW c \in Slots, NEW o \in Orders, NEW rejects \in BOOLEAN, CancelNext(c, o, rejects)
    PROVE  AInv'
<1>1. CallOk(calls[c]) /\ Shaped(db) /\ Counters /\ DOMAIN calls = Slots
    BY CallIs
<1>2. PICK call, t : call = calls[c] /\ t = Target("orders", o)
    OBVIOUS
<1>3. /\ call.at = "cancelling" /\ Many(call) /\ IsTarget(t)
      /\ t.table = "orders"
    <2>1. call.at = "cancelling"
        BY <1>2 DEF CancelNext
    <2> QED
        BY <1>1, <1>2, <2>1 DEF CallOk, One, IsTarget, Target, Tables, Ids
<1>4. PICK next : next = [call EXCEPT !.left = @ \ {o}, !.at = IF call.left = {o} THEN "record" ELSE @]
    OBVIOUS
<1>5. Many(next)
    BY <1>3, <1>4 DEF Many
<1>6. made' = made /\ outside' = outside /\ entries' = entries /\ behind' = behind
    BY DEF CancelNext
<1>7. CASE rejects
    <2>1. calls' = [calls EXCEPT ![c] = next] /\ db' = db
        BY <1>2, <1>4, <1>7 DEF CancelNext
    <2> QED
        BY <1>1, <1>5, <1>6, <2>1, CallMoves DEF CallOk, Counters
<1>8. CASE ~rejects
    <2>1. Write(c, t, next)
        BY <1>2, <1>4, <1>8 DEF CancelNext
    <2>2. PICK row, new : row = After(call, In(db, t)) /\ new = [next EXCEPT !.wrote = @ \cup {t}]
        OBVIOUS
    <2>3. db' = [db EXCEPT ![t.table][t.id] = row] /\ calls' = [calls EXCEPT ![c] = new]
        BY <1>2, <2>1, <2>2, RowIs DEF Write
    <2>4. row \in Rows(t.table)
        <3>1. In(db, t) \in Rows(t.table) /\ Rows(t.table) = [status : OrderStatuses]
            BY <1>1, <1>3, RowTyped DEF Rows
        <3>2. row = [In(db, t) EXCEPT !.status = "cancelled"]
            BY <1>3, <2>2 DEF After, Many
        <3> QED
            BY <3>1, <3>2 DEF OrderStatuses
    <2>5. Many(new)
        <3>1. IsFiniteSet(next.wrote \cup {t})
            BY <1>5, FS_AddElement DEF Many
        <3> QED
            BY <1>5, <2>2, <3>1 DEF Many
    <2>6. Shaped(db')
        BY <1>1, <1>3, <2>3, <2>4, ShapedAfter
    <2> QED
        BY <1>1, <1>6, <2>3, <2>5, <2>6, CallMoves DEF CallOk, Counters
<1> QED
    BY <1>7, <1>8

-----------------------------------------------------------------------------
(* The rest of the platform                                                 *)

LEMMA ElsewhereInv ==
    ASSUME AInv, NEW t, IsTarget(t), NEW row \in Rows(t.table), Elsewhere(t, row)
    PROVE  AInv'
<1>1. Shaped(db) /\ Counters
    BY DEF AInv, Counters
<1>2. /\ db' = [db EXCEPT ![t.table][t.id] = row] /\ calls' = calls
      /\ made' = made /\ outside' = outside + 1 /\ outside < MaxOutside /\ entries' = entries /\ behind' = behind
    BY DEF Elsewhere
<1>3. Shaped(db')
    BY <1>1, <1>2, ShapedAfter
<1>4. outside' \in 0..MaxOutside
    BY <1>1, <1>2, AdminAssumption DEF Counters
<1> QED
    BY <1>2, <1>3, <1>4 DEF AInv

LEMMA WorldInv ==
    ASSUME AInv, World
    PROVE  AInv'
<1>1. Shaped(db)
    BY DEF AInv
<1>2. ASSUME NEW o \in Orders, Fill(o) PROVE AInv'
    <2>1. IsTarget(Target("orders", o)) /\ [status |-> "filled"] \in Rows(Target("orders", o).table)
        BY DEF IsTarget, Target, Tables, Ids, Rows, OrderStatuses
    <2>2. Elsewhere(Target("orders", o), [status |-> "filled"])
        BY <1>2 DEF Fill
    <2> QED
        BY <2>1, <2>2, ElsewhereInv
<1>3. ASSUME NEW w \in Wallets, Trade(w) PROVE AInv'
    <2>1. PICK row : row = [quantity |-> 1 - db.positions[w].quantity]
        OBVIOUS
    <2>2. IsTarget(Target("positions", w)) /\ Rows(Target("positions", w).table) = [quantity : Int]
        BY DEF IsTarget, Target, Tables, Ids, Rows
    <2>3. In(db, Target("positions", w)) \in [quantity : Int]
        BY <1>1, <2>2, RowTyped
    <2>4. row \in [quantity : Int]
        BY <2>1, <2>3 DEF In, Target
    <2>5. Elsewhere(Target("positions", w), row)
        BY <1>3, <2>1 DEF Trade
    <2> QED
        BY <2>2, <2>4, <2>5, ElsewhereInv
<1>4. ASSUME NEW w \in Wallets, Lock(w) \/ CloseAccount(w) PROVE AInv'
    <2>1. PICK r : r = db.wallets[w]
        OBVIOUS
    <2>2. /\ IsTarget(Target("wallets", w))
          /\ Rows(Target("wallets", w).table) = [balance : Int, locked : Int, status : Statuses]
        BY DEF IsTarget, Target, Tables, Ids, Rows
    <2>3. In(db, Target("wallets", w)) \in [balance : Int, locked : Int, status : Statuses]
        BY <1>1, <2>2, RowTyped
    <2>4. r \in [balance : Int, locked : Int, status : Statuses]
        BY <2>1, <2>3 DEF In, Target
    <2>5. PICK row : /\ row \in [balance : Int, locked : Int, status : Statuses]
                     /\ Elsewhere(Target("wallets", w), row)
        <3>1. /\ [r EXCEPT !.locked = @ + 1] \in [balance : Int, locked : Int, status : Statuses]
              /\ [r EXCEPT !.status = "closed"] \in [balance : Int, locked : Int, status : Statuses]
            BY <2>4 DEF Statuses
        <3>2. \/ Elsewhere(Target("wallets", w), [r EXCEPT !.locked = @ + 1])
              \/ Elsewhere(Target("wallets", w), [r EXCEPT !.status = "closed"])
            BY <1>4, <2>1 DEF Lock, CloseAccount
        <3> QED
            BY <3>1, <3>2
    <2> QED
        BY <2>2, <2>5, ElsewhereInv
<1>5. ASSUME NEW s \in Staff, RenewToken(s) PROVE AInv'
    BY <1>5 DEF RenewToken, AInv
<1> QED
    BY <1>2, <1>3, <1>4, <1>5 DEF World

LEMMA NextAInv == AInv /\ [Next]_vars => AInv'
<1> SUFFICES ASSUME AInv, [Next]_vars PROVE AInv'
    OBVIOUS
<1>1. ASSUME NEW c \in Slots, Continue(c) PROVE AInv'
    BY <1>1, ReadInnerInv, ActInv, ReadAgainInv, RecordInv, FailInv, CancelNextInv DEF Continue
<1>2. ASSUME NEW c \in Slots, NEW by \in Staff, Start(c, by) PROVE AInv'
    BY <1>2, StartInv
<1>3. ASSUME UNCHANGED vars PROVE AInv'
    BY <1>3 DEF vars, AInv
<1> QED
    BY <1>1, <1>2, <1>3, WorldInv DEF Next

LEMMA FreshShaped == Shaped(Fresh)
<1>1. DOMAIN Fresh = Tables
    BY DEF Fresh, Tables
<1>2. \A table \in Tables : DOMAIN Fresh[table] = Ids(table)
    BY DEF Fresh, Tables, Ids
<1>3. /\ \A u \in Users : Fresh.users[u] \in [status : Statuses, role : Roles]
      /\ \A w \in Wallets : Fresh.wallets[w] \in [balance : Int, locked : Int, status : Statuses]
      /\ \A o \in Orders : Fresh.orders[o] \in [status : OrderStatuses]
      /\ \A w \in Wallets : Fresh.positions[w] \in [quantity : Int]
      /\ Fresh.symbols[Symbol] \in SymbolRow
    BY DEF Fresh, Statuses, OrderStatuses, OpenStatuses, Roles, SymbolRow
<1>4. Fresh.breakers[Platform] \in [events : SUBSET (-1..MaxCalls), flag : BOOLEAN]
    BY DEF Fresh
<1>5. \A table \in Tables : \A i \in Ids(table) : Fresh[table][i] \in Rows(table)
    BY <1>3, <1>4 DEF Tables, Ids, Rows
<1> QED
    BY <1>1, <1>2, <1>5 DEF Shaped

LEMMA InitShaped == Init => Shaped(db)
<1> SUFFICES ASSUME Init PROVE Shaped(db)
    OBVIOUS
<1>1. PICK fresh : fresh = Fresh
    OBVIOUS
<1>2. /\ DOMAIN fresh = Tables
      /\ \A table \in Tables : DOMAIN fresh[table] = Ids(table)
      /\ \A table \in Tables : \A i \in Ids(table) : fresh[table][i] \in Rows(table)
    BY <1>1, FreshShaped DEF Shaped
<1>3. db \in Databases
    BY DEF Init
<1>4. ASSUME NEW table \in Tables, NEW i \in Ids(table), NEW row \in Rows(table),
             db = [fresh EXCEPT ![table][i] = row]
      PROVE  Shaped(db)
    <2>1. DOMAIN db = Tables /\ \A x \in Tables : DOMAIN db[x] = Ids(x)
        BY <1>2, <1>4
    <2>2. \A x \in Tables : \A j \in Ids(x) : db[x][j] = IF x = table /\ j = i THEN row ELSE fresh[x][j]
        BY <1>2, <1>4
    <2>3. \A x \in Tables : \A j \in Ids(x) : db[x][j] \in Rows(x)
        BY <1>2, <1>4, <2>2
    <2> QED
        BY <2>1, <2>3 DEF Shaped
<1>5. CASE db = fresh
    BY <1>1, <1>5, FreshShaped
<1>6. ASSUME NEW e \in BOOLEAN, NEW f \in 0..1,
             db = [fresh EXCEPT !.symbols[Symbol] = [present |-> TRUE, enabled |-> e, fee |-> f]]
      PROVE  Shaped(db)
    <2>1. "symbols" \in Tables /\ Symbol \in Ids("symbols") /\ Rows("symbols") = SymbolRow
        BY DEF Tables, Ids, Rows
    <2>2. [present |-> TRUE, enabled |-> e, fee |-> f] \in Rows("symbols")
        BY <2>1 DEF SymbolRow
    <2> QED
        BY <1>4, <1>6, <2>1, <2>2
<1>7. ASSUME NEW u \in Users, db = [fresh EXCEPT !.users[u].status = "suspended"]
      PROVE  Shaped(db)
    <2>1. "users" \in Tables /\ u \in Ids("users") /\ Rows("users") = [status : Statuses, role : Roles]
        BY DEF Tables, Ids, Rows
    <2>2. [fresh["users"][u] EXCEPT !.status = "suspended"] \in Rows("users")
        <3>1. PICK r : r = fresh["users"][u]
            OBVIOUS
        <3>2. r \in [status : Statuses, role : Roles]
            BY <1>2, <2>1, <3>1
        <3>3. "suspended" \in Statuses
            BY DEF Statuses
        <3>4. [r EXCEPT !.status = "suspended"] \in [status : Statuses, role : Roles]
            BY <3>2, <3>3
        <3> QED
            BY <2>1, <3>1, <3>4
    <2>3. db = [fresh EXCEPT !["users"][u] = [fresh["users"][u] EXCEPT !.status = "suspended"]]
        BY <1>2, <1>7, <2>1
    <2> QED
        BY <1>4, <2>1, <2>2, <2>3
<1>8. ASSUME NEW w \in Wallets, NEW n \in 0..1, NEW st \in {"active", "locked"},
             db = [fresh EXCEPT !.wallets[w] = [balance |-> n, locked |-> 0, status |-> st]]
      PROVE  Shaped(db)
    <2>1. /\ "wallets" \in Tables /\ w \in Ids("wallets")
          /\ Rows("wallets") = [balance : Int, locked : Int, status : Statuses]
        BY DEF Tables, Ids, Rows
    <2>2. [balance |-> n, locked |-> 0, status |-> st] \in Rows("wallets")
        <3>1. st \in Statuses
            BY DEF Statuses
        <3>2. n \in Int /\ 0 \in Int
            OBVIOUS
        <3>3. [balance |-> n, locked |-> 0, status |-> st] \in [balance : Int, locked : Int, status : Statuses]
            BY <3>1, <3>2
        <3> QED
            BY <2>1, <3>3
    <2> QED
        BY <1>4, <1>8, <2>1, <2>2
<1>9. ASSUME NEW e \in {{-1}, {-1, 0}}, NEW f \in BOOLEAN,
             db = [fresh EXCEPT !.breakers[Platform] = [events |-> e, flag |-> f]]
      PROVE  Shaped(db)
    <2>1. /\ "breakers" \in Tables /\ Platform \in Ids("breakers")
          /\ Rows("breakers") = [events : SUBSET (-1..MaxCalls), flag : BOOLEAN]
        BY DEF Tables, Ids, Rows
    <2>2. -1 \in -1..MaxCalls /\ 0 \in -1..MaxCalls
        BY AdminAssumption
    <2>3. e \in SUBSET (-1..MaxCalls)
        BY <2>2
    <2>4. [events |-> e, flag |-> f] \in Rows("breakers")
        BY <2>1, <2>3
    <2> QED
        BY <1>4, <1>9, <2>1, <2>4
<1> QED
    BY <1>1, <1>3, <1>5, <1>6, <1>7, <1>8, <1>9 DEF Databases

LEMMA InitAInv == Init => AInv
<1> SUFFICES ASSUME Init PROVE AInv
    OBVIOUS
<1>1. \A c \in Slots : CallOk(calls[c])
    BY DEF Init, CallOk, Idle
<1>2. made \in 0..MaxCalls /\ outside \in 0..MaxOutside /\ entries \in Nat /\ behind \in Nat
    BY AdminAssumption DEF Init
<1> QED
    BY <1>1, <1>2, InitShaped DEF Init, AInv

-----------------------------------------------------------------------------
(* Theorems                                                                 *)

\* The tables keep their rows, and what a call holds fits its table: a call that is going
\* to cancel an order has read it open.
THEOREM AdminInductive == Spec => []AInv
BY InitAInv, NextAInv, PTL DEF Spec

\* The rows have their types, and the breaker's events are those of calls.
THEOREM AdminTypeCorrect == Spec => []TypeOK
<1>1. ASSUME AInv PROVE TypeOK
    <2>1. /\ \A u \in Users : In(db, Target("users", u)) \in [status : Statuses, role : Roles]
          /\ \A w \in Wallets : In(db, Target("wallets", w)) \in [balance : Int, locked : Int, status : Statuses]
          /\ \A o \in Orders : In(db, Target("orders", o)) \in [status : OrderStatuses]
          /\ In(db, Target("symbols", Symbol)) \in SymbolRow
          /\ In(db, Target("breakers", Platform)) \in [events : SUBSET (-1..MaxCalls), flag : BOOLEAN]
        <3>1. \A table \in Tables : \A i \in Ids(table) : db[table][i] \in Rows(table)
            BY <1>1 DEF AInv, Shaped
        <3> QED
            BY <3>1 DEF In, Target, Tables, Ids, Rows
    <2>2. OrderStatuses \subseteq Statuses
        BY DEF OrderStatuses, OpenStatuses, Statuses
    <2> QED
        BY <1>1, <2>1, <2>2 DEF AInv, In, Target, TypeOK
<1> QED
    BY <1>1, AdminInductive, PTL

\* The steps that write a row: the act of a call, one cancellation of many, and the rest of
\* the platform; every other step leaves the tables.
LEMMA WritersOnly ==
    ASSUME AInv, [Next]_vars
    PROVE  \/ db' = db
           \/ \E c \in Slots : Act(c)
           \/ \E c \in Slots, o \in Orders, rejects \in BOOLEAN : CancelNext(c, o, rejects)
           \/ \E o \in Orders : Fill(o)
           \/ \E w \in Wallets : Trade(w) \/ Lock(w) \/ CloseAccount(w)
<1>1. ASSUME NEW c \in Slots, Continue(c), ~Act(c),
             ~\E o \in Orders, rejects \in BOOLEAN : CancelNext(c, o, rejects)
      PROVE  db' = db
    BY <1>1 DEF Continue, ReadInner, ReadAgain, Record, Fail
<1>2. ASSUME NEW c \in Slots, NEW by \in Staff, Start(c, by) PROVE db' = db
    BY <1>2 DEF Start, SuspendUser, UnsuspendUser, UpdateUserRole, AdminDeposit, AdminWithdraw, FreezeAccount,
         UnfreezeAccount, ActivateBreaker, DeactivateBreaker, UpsertSymbol, EnableSymbol, DisableSymbol,
         CancelOrder, CancelAllOrders, ForceClosePosition, Begin
<1>3. ASSUME NEW s \in Staff, RenewToken(s) PROVE db' = db
    BY <1>3 DEF RenewToken
<1>4. ASSUME UNCHANGED vars PROVE db' = db
    BY <1>4 DEF vars
<1> QED
    BY <1>1, <1>2, <1>3, <1>4 DEF Next, World

\* A write leaves the rows of the other targets.
LEMMA ActWrites ==
    ASSUME AInv, NEW c \in Slots, Act(c)
    PROVE  /\ One(calls[c]) /\ calls[c].at = "act"
           /\ In(db', calls[c].on) = After(calls[c], In(db, calls[c].on))
           /\ \A u : IsTarget(u) /\ u # calls[c].on => In(db', u) = In(db, u)
<1>1. CallOk(calls[c]) /\ Shaped(db) /\ Counters /\ DOMAIN calls = Slots
    BY CallIs
<1>2. PICK call, t, b, row : call = calls[c] /\ t = call.on /\ b = db /\ row = After(call, In(db, t))
    OBVIOUS
<1>3. call.at = "act" /\ One(call) /\ IsTarget(t)
    <2>1. call.at = "act"
        BY <1>2 DEF Act
    <2>2. One(call)
        BY <1>1, <1>2, <2>1, OneIs
    <2> QED
        BY <1>2, <2>1, <2>2 DEF One
<1>4. row \in Rows(t.table)
    <2>1. In(db, t) \in Rows(t.table)
        BY <1>1, <1>3, RowTyped
    <2> QED
        BY <1>2, <1>3, <2>1, AfterTyped
<1>5. db' = [b EXCEPT ![t.table][t.id] = row]
    BY <1>2, RowIs DEF Act, Write
<1>6. PICK new : /\ new = [b EXCEPT ![t.table][t.id] = row]
                 /\ Shaped(new) /\ In(new, t) = row
                 /\ \A u : IsTarget(u) /\ u # t => In(new, u) = In(b, u)
    <2>1. Shaped(b)
        BY <1>1, <1>2
    <2> QED
        BY <1>3, <1>4, <2>1, RowWritten
<1> QED
    BY <1>2, <1>3, <1>5, <1>6

\* The step writes a row at t, if any.
WritesAt(t) == \E row : db' = [db EXCEPT ![t.table][t.id] = row]

\* The rest of the platform, and a cancellation of many, leave the other rows.
LEMMA OthersStay ==
    ASSUME AInv, NEW t, IsTarget(t), WritesAt(t)
    PROVE  \A u : IsTarget(u) /\ u # t => In(db', u) = In(db, u)
<1>0. PICK row : db' = [db EXCEPT ![t.table][t.id] = row]
    BY DEF WritesAt
<1>1. ASSUME NEW u, IsTarget(u), u # t PROVE In(db', u) = In(db, u)
    <2>1. PICK tt, i, x, j : tt = t.table /\ i = t.id /\ x = u.table /\ j = u.id
        OBVIOUS
    <2>2. x # tt \/ j # i
        BY <1>1, <2>1 DEF IsTarget
    <2>3. x \in Tables /\ j \in Ids(x) /\ DOMAIN db = Tables /\ DOMAIN db[x] = Ids(x)
        BY <1>1, <2>1 DEF IsTarget, AInv, Shaped
    <2>4. db'[x][j] = db[x][j]
        BY <1>0, <2>1, <2>2, <2>3
    <2> QED
        BY <2>1, <2>4 DEF In
<1> QED
    BY <1>1

LEMMA FilledElsewhere ==
    ASSUME AInv, NEW o \in Orders, Fill(o), NEW u, IsTarget(u), u # Target("orders", o)
    PROVE  In(db', u) = In(db, u)
<1>1. PICK t, row : t = Target("orders", o) /\ row = [status |-> "filled"]
    OBVIOUS
<1>2. IsTarget(t) /\ WritesAt(t)
    BY <1>1 DEF WritesAt, Fill, Elsewhere, IsTarget, Target, Tables, Ids
<1>3. \A v : IsTarget(v) /\ v # t => In(db', v) = In(db, v)
    BY <1>2, OthersStay
<1> QED
    BY <1>1, <1>3

LEMMA WalletsElsewhere ==
    ASSUME AInv, NEW w \in Wallets, Trade(w) \/ Lock(w) \/ CloseAccount(w),
           NEW u, IsTarget(u), u.table \in {"orders", "symbols"}
    PROVE  In(db', u) = In(db, u)
<1>1. PICK table \in {"positions", "wallets"} : \E row : Elsewhere(Target(table, w), row)
    BY DEF Trade, Lock, CloseAccount
<1>2. PICK t, row : t = Target(table, w) /\ Elsewhere(t, row)
    BY <1>1
<1>3. WritesAt(t)
    BY <1>2 DEF WritesAt, Elsewhere
<1>5. t.table = table /\ t.id = w /\ t = Target(t.table, t.id)
    BY <1>2 DEF Target
<1>6. IsTarget(t) /\ t # u
    BY <1>5 DEF IsTarget, Tables, Ids
<1>4. \A v : IsTarget(v) /\ v # t => In(db', v) = In(db, v)
    BY <1>3, <1>6, OthersStay
<1> QED
    BY <1>4, <1>6

LEMMA CancelledElsewhere ==
    ASSUME AInv, NEW c \in Slots, NEW o \in Orders, NEW rejects \in BOOLEAN, CancelNext(c, o, rejects),
           NEW u, IsTarget(u), u # Target("orders", o)
    PROVE  In(db', u) = In(db, u)
<1>1. CASE rejects
    BY <1>1 DEF CancelNext
<1>2. CASE ~rejects
    <2>1. PICK t, row : /\ t = Target("orders", o) /\ row = After(calls[c], Row(t))
        OBVIOUS
    <2>2. IsTarget(t) /\ WritesAt(t)
        BY <1>2, <2>1 DEF WritesAt, CancelNext, Write, IsTarget, Target, Tables, Ids
    <2>3. \A v : IsTarget(v) /\ v # t => In(db', v) = In(db, v)
        BY <2>2, OthersStay
    <2> QED
        BY <2>1, <2>3
<1> QED
    BY <1>1, <1>2

\* For any users, orders and overlapping calls, nothing changes a filled or cancelled order
\* but a cancellation under way that had read it open.
THEOREM FinishedCorrect == Spec => FinishedStaysFinished
<1>1. ASSUME AInv, [Next]_vars, NEW o \in Orders, db.orders[o].status \notin OpenStatuses, db'.orders[o] # db.orders[o]
      PROVE  Cancelling(o) # {}
    <2>0. PICK t : t = Target("orders", o)
        OBVIOUS
    <2>1. t = Target("orders", o) /\ IsTarget(t)
        BY <2>0 DEF IsTarget, Target, Tables, Ids
    <2>2. In(db, t) = db.orders[o] /\ In(db', t) = db'.orders[o] /\ In(db', t) # In(db, t)
        BY <1>1, <2>1 DEF In, Target
    <2>3. ASSUME NEW c \in Slots, Act(c) PROVE c \in Cancelling(o)
        <3>1. One(calls[c]) /\ calls[c].at = "act" /\ calls[c].on = t
            BY <1>1, <2>1, <2>2, <2>3, ActWrites
        <3>2. calls[c].op = "cancel"
            <4>1. TableOf(calls[c].op) = "orders" /\ calls[c].op \in Ops
                BY <2>1, <3>1 DEF One, Target
            <4> QED
                BY <4>1 DEF Ops, TableOf
        <3> QED
            BY <2>1, <3>1, <3>2 DEF One, Cancelling
    <2>4. ASSUME NEW c \in Slots, NEW p \in Orders, NEW rejects \in BOOLEAN, CancelNext(c, p, rejects)
          PROVE  c \in Cancelling(o)
        <3>1. p = o
            <4>1. t = Target("orders", p)
                BY <1>1, <2>1, <2>2, <2>4, CancelledElsewhere
            <4> QED
                BY <2>1, <4>1 DEF Target
        <3>2. calls[c].at = "cancelling" /\ o \in calls[c].left /\ Many(calls[c])
            <4>1. CallOk(calls[c])
                BY <1>1, CallIs
            <4> QED
                BY <2>4, <3>1, <4>1 DEF CancelNext, CallOk, One
        <3> QED
            BY <3>2 DEF Many, Cancelling
    <2>5. ASSUME NEW p \in Orders, Fill(p) PROVE FALSE
        <3>1. p = o
            <4>1. t = Target("orders", p)
                BY <1>1, <2>1, <2>2, <2>5, FilledElsewhere
            <4> QED
                BY <2>1, <4>1 DEF Target
        <3> QED
            BY <1>1, <2>5, <3>1 DEF Fill
    <2>6. ASSUME NEW w \in Wallets, Trade(w) \/ Lock(w) \/ CloseAccount(w) PROVE FALSE
        <3>1. t.table \in {"orders", "symbols"}
            BY <2>1 DEF Target
        <3> QED
            BY <1>1, <2>1, <2>2, <2>6, <3>1, WalletsElsewhere
    <2> QED
        BY <1>1, <2>2, <2>3, <2>4, <2>5, <2>6, WritersOnly
<1>2. AInv /\ [Next]_vars =>
         [\A o \in Orders :
             db.orders[o].status \notin OpenStatuses /\ db'.orders[o] # db.orders[o] => Cancelling(o) # {}]_vars
    BY <1>1
<1> QED
    BY <1>2, AdminInductive, PTL DEF Spec, FinishedStaysFinished

\* For any overlapping calls, a setting of a symbol that exists changes only to a value
\* that a call gives, or back to the value that a call which gives none had read.
THEOREM SettingsCorrect == Spec => SettingsAreMeant
<1>1. ASSUME AInv, [Next]_vars, NEW f \in {"enabled", "fee"}, db.symbols[Symbol].present,
             db'.symbols[Symbol][f] # db.symbols[Symbol][f]
      PROVE  \E c \in Slots :
                  /\ calls[c].at = "act" /\ calls[c].on = Target("symbols", Symbol)
                  /\ \/ db'.symbols[Symbol][f] \in calls[c].arg[f]
                     \/ /\ calls[c].arg[f] = {}
                        /\ db'.symbols[Symbol][f] = IF calls[c].seen.present THEN calls[c].seen[f] ELSE Defaults[f]
    <2>0. PICK t : t = Target("symbols", Symbol)
        OBVIOUS
    <2>1. t = Target("symbols", Symbol) /\ IsTarget(t)
        BY <2>0 DEF IsTarget, Target, Tables, Ids
    <2>2. In(db, t) = db.symbols[Symbol] /\ In(db', t) = db'.symbols[Symbol] /\ In(db', t) # In(db, t)
        BY <1>1, <2>1 DEF In, Target
    <2>3. ASSUME NEW c \in Slots, Act(c)
          PROVE  /\ calls[c].at = "act" /\ calls[c].on = Target("symbols", Symbol)
                 /\ \/ db'.symbols[Symbol][f] \in calls[c].arg[f]
                    \/ /\ calls[c].arg[f] = {}
                       /\ db'.symbols[Symbol][f] = IF calls[c].seen.present THEN calls[c].seen[f] ELSE Defaults[f]
        <3>1. /\ One(calls[c]) /\ calls[c].at = "act" /\ calls[c].on = t
              /\ In(db', t) = After(calls[c], In(db, t))
            BY <1>1, <2>1, <2>2, <2>3, ActWrites
        <3>2. calls[c].op \in {"upsert", "enable", "disable"}
            <4>1. TableOf(calls[c].op) = "symbols" /\ calls[c].op \in Ops
                BY <2>1, <3>1 DEF One, Target
            <4> QED
                BY <4>1 DEF Ops, TableOf
        <3>3. In(db', t) = Merged(calls[c].seen, calls[c].arg)
            BY <3>1, <3>2 DEF After
        <3>4. calls[c].seen \in SymbolRow /\ calls[c].arg \in Given
            BY <3>1, <3>2 DEF One, TableOf, Rows, Suits
        <3>5. IF calls[c].arg[f] # {} THEN In(db', t)[f] \in calls[c].arg[f]
              ELSE In(db', t)[f] = IF calls[c].seen.present THEN calls[c].seen[f] ELSE Defaults[f]
            BY <3>3, <3>4, MergedIs
        <3> QED
            BY <2>1, <2>2, <3>1, <3>5
    <2>4. ASSUME NEW c \in Slots, NEW p \in Orders, NEW rejects \in BOOLEAN, CancelNext(c, p, rejects)
          PROVE  FALSE
        <3>1. t # Target("orders", p)
            BY <2>1 DEF Target
        <3> QED
            BY <1>1, <2>1, <2>2, <2>4, <3>1, CancelledElsewhere
    <2>5. ASSUME NEW p \in Orders, Fill(p) PROVE FALSE
        <3>1. t # Target("orders", p)
            BY <2>1 DEF Target
        <3> QED
            BY <1>1, <2>1, <2>2, <2>5, <3>1, FilledElsewhere
    <2>6. ASSUME NEW w \in Wallets, Trade(w) \/ Lock(w) \/ CloseAccount(w) PROVE FALSE
        <3>1. t.table \in {"orders", "symbols"}
            BY <2>1 DEF Target
        <3> QED
            BY <1>1, <2>1, <2>2, <2>6, <3>1, WalletsElsewhere
    <2> QED
        BY <1>1, <2>2, <2>3, <2>4, <2>5, <2>6, WritersOnly
<1>2. AInv /\ [Next]_vars =>
         [\A f \in {"enabled", "fee"} :
             db.symbols[Symbol].present /\ db'.symbols[Symbol][f] # db.symbols[Symbol][f] =>
                 \E c \in Slots :
                     /\ calls[c].at = "act" /\ calls[c].on = Target("symbols", Symbol)
                     /\ \/ db'.symbols[Symbol][f] \in calls[c].arg[f]
                        \/ /\ calls[c].arg[f] = {}
                           /\ db'.symbols[Symbol][f] = IF calls[c].seen.present THEN calls[c].seen[f] ELSE Defaults[f]]_vars
    BY <1>1
<1> QED
    BY <1>2, AdminInductive, PTL DEF Spec, SettingsAreMeant
=============================================================================
