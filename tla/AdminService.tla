---------------------------- MODULE AdminService ----------------------------
(***************************************************************************)
(* The administrators' operations of admin.service.ts: every one reads its *)
(* target, checks it, acts through the service or the SQL adapter that     *)
(* admin.api.ts gives it, and writes an audit entry, each step a statement *)
(* of its own.  Calls overlap with each other and with the rest of the     *)
(* platform, and any statement may reject, which ends the call.  The       *)
(* service's interface asks for the caller's id; admin.api.ts passes a     *)
(* field that the claims of its token do not have, so that its calls come  *)
(* without one.  A call may come either way.                               *)
(***************************************************************************)
EXTENDS Integers, Sequences, FiniteSets, FiniteSetsExt

CONSTANTS
    Users,          \* users, among them the staff
    Staff,          \* the users who call these operations
    Wallets,        \* accounts
    Orders,         \* orders
    WalletOf,       \* the account of each order
    Slots,          \* calls that run at the same time
    MaxCalls,       \* bound on the calls ever made
    MaxOutside,     \* bound on what the rest of the platform does
    Identified      \* whether a call brings its caller's id: FALSE as admin.api.ts makes it

ASSUME AdminAssumption ==
    /\ Staff \subseteq Users /\ WalletOf \in [Orders -> Wallets]
    /\ MaxCalls \in Nat /\ MaxOutside \in Nat /\ Identified \subseteq BOOLEAN

VARIABLES
    db,       \* the tables: per table, the row of each id
    claims,   \* per member of staff: the role in the access token
    calls,    \* per slot: the running call
    entries,  \* how many audit entries there are: the log is append-only, and no operation reads it
    made,     \* how many calls were made
    outside,  \* how much the rest of the platform did
    behind    \* history: writes of calls that ended without an audit entry

vars == <<db, claims, calls, entries, made, outside, behind>>

-----------------------------------------------------------------------------
(* Tables and targets                                                       *)

Roles == {"user", "support", "admin"}
Symbol == "symbol"      \* one symbol; fee stands for every field of it but tradingEnabled
Platform == "platform"  \* the platform-wide circuit breaker: its active events and the flag in memory

\* The fields that the input of an upsert gives: none or one (a bound).
Inputs == {i \in [enabled : SUBSET BOOLEAN, fee : SUBSET (0..1)] : Cardinality(i.enabled) + Cardinality(i.fee) < 2}

SymbolRow == [present : BOOLEAN, enabled : BOOLEAN, fee : 0..1]
OpenStatuses == {"new", "partially_filled"}

Target(table, id) == [table |-> table, id |-> id]
Row(t) == db[t.table][t.id]
Halted(r) == r.flag \/ r.events # {}

Idle == [at |-> "idle"]

Fresh ==
    [users |-> [u \in Users |-> [status |-> "active", role |-> IF u \in Staff THEN "admin" ELSE "user"]],
     wallets |-> [w \in Wallets |-> [balance |-> 1, locked |-> 0, status |-> "active"]],
     orders |-> [o \in Orders |-> [status |-> "new"]],
     positions |-> [w \in Wallets |-> [quantity |-> 1]],
     symbols |-> [s \in {Symbol} |-> [present |-> FALSE, enabled |-> FALSE, fee |-> 0]],
     breakers |-> [p \in {Platform} |-> [events |-> {}, flag |-> FALSE]]]

\* The states of the platform a behaviour begins in; after a restart the flag of a breaker
\* that is active in the table is down, and overlapping activations leave two events.
Databases ==
    {Fresh}
    \cup {[Fresh EXCEPT !.symbols[Symbol] = [present |-> TRUE, enabled |-> e, fee |-> f]] : e \in BOOLEAN, f \in 0..1}
    \cup {[Fresh EXCEPT !.users[u].status = "suspended"] : u \in Users}
    \cup {[Fresh EXCEPT !.wallets[w] = [balance |-> b, locked |-> 0, status |-> st]] :
              w \in Wallets, b \in 0..1, st \in {"active", "locked"}}
    \cup {[Fresh EXCEPT !.breakers[Platform] = [events |-> e, flag |-> f]] :
              e \in {{-1}, {-1, 0}}, f \in BOOLEAN}

Init ==
    /\ db \in Databases
    /\ claims = [s \in Staff |-> "admin"]
    /\ calls = [c \in Slots |-> Idle]
    /\ entries = 0 /\ made = 0 /\ outside = 0 /\ behind = 0

-----------------------------------------------------------------------------
(* What each operation may do, checks, writes and reports                   *)

Permitted(role, op) ==
    \/ role = "admin"
    \/ role = "support" /\ op \in {"suspend", "unsuspend", "cancel"}

\* The check on the row that was read; self: the caller is the target.
Passes(op, r, self) ==
    CASE op = "suspend" -> ~self /\ r.status # "suspended"
      [] op = "unsuspend" -> r.status = "suspended"
      [] op = "role" -> ~self
      [] op = "withdraw" -> r.balance - r.locked >= 1
      [] op = "freeze" -> r.status # "locked"
      [] op = "unfreeze" -> r.status = "locked"
      [] op = "activate" -> ~Halted(r)
      [] op = "deactivate" -> Halted(r)
      [] op = "enable" -> r.present /\ ~r.enabled
      [] op = "disable" -> r.present /\ r.enabled
      [] op = "cancel" -> r.status \notin {"filled", "cancelled"}
      [] op = "close" -> r.quantity # 0
      [] OTHER -> TRUE

\* The check of the account service on the row that it reads.
AccountAccepts(op, r) ==
    r.status = "active" /\ (op = "withdraw" => r.balance - r.locked >= 1)

Defaults == [enabled |-> TRUE, fee |-> 1]

\* A plausible slip: what the input leaves out is set to the defaults.
MergedWithDefaults(seen, given) ==
    LET field(f) == IF given[f] # {} THEN CHOOSE v \in given[f] : TRUE ELSE Defaults[f]
    IN [present |-> TRUE, enabled |-> field("enabled"), fee |-> field("fee")]

\* A symbol is written whole: the fields the input leaves out come from the row that was
\* read, or are the defaults.
Merged(seen, given) ==
    LET field(f) == IF given[f] # {} THEN CHOOSE v \in given[f] : TRUE
                    ELSE IF seen.present THEN seen[f] ELSE Defaults[f]
    IN [present |-> TRUE, enabled |-> field("enabled"), fee |-> field("fee")]

\* The row after the write; a deposit or a withdrawal writes the balance that the account
\* service computed.
After(call, r) ==
    CASE call.op = "suspend" -> [r EXCEPT !.status = "suspended"]
      [] call.op = "unsuspend" -> [r EXCEPT !.status = "active"]
      [] call.op = "role" -> [r EXCEPT !.role = call.arg]
      [] call.op \in {"deposit", "withdraw"} -> [r EXCEPT !.balance = call.inner]
      [] call.op = "freeze" -> [r EXCEPT !.status = "locked"]
      [] call.op = "unfreeze" -> [r EXCEPT !.status = "active"]
      [] call.op = "activate" -> [events |-> r.events \cup {call.no}, flag |-> TRUE]
      [] call.op = "deactivate" -> [events |-> r.events \ call.inner, flag |-> FALSE]
      [] call.op \in {"upsert", "enable", "disable"} -> Merged(call.seen, call.arg)
      [] call.op \in {"cancel", "cancelAll"} -> [r EXCEPT !.status = "cancelled"]
      [] call.op = "close" -> [r EXCEPT !.quantity = 0]

-----------------------------------------------------------------------------
(* Operations: the permission, the read and the check                       *)

Running(c) == calls[c].at # "idle"
Return(c) == calls' = [calls EXCEPT ![c] = Idle]

NewCall(op, t, arg, known, step) ==
    [at |-> step, no |-> made + 1, op |-> op, on |-> t, arg |-> arg, known |-> known,
     seen |-> Row(t), inner |-> 0, wrote |-> {}]

\* A plausible slip: the row is read for the audit entry only.
BeginUnchecked(c, by, op, t, arg, step) ==
    /\ ~Running(c) /\ made < MaxCalls /\ Permitted(claims[by], op)
    /\ made' = made + 1
    /\ \E known \in Identified : calls' = [calls EXCEPT ![c] = NewCall(op, t, arg, known, step)]
    /\ UNCHANGED <<db, claims, entries, outside, behind>>

\* Without the caller's id nobody is oneself.
Begin(c, by, op, t, arg, step) ==
    /\ ~Running(c) /\ made < MaxCalls
    /\ Permitted(claims[by], op)
    /\ made' = made + 1
    /\ \E known \in Identified :
           /\ Passes(op, Row(t), known /\ t.id = by)
           /\ calls' = [calls EXCEPT ![c] = NewCall(op, t, arg, known, step)]
    /\ UNCHANGED <<db, claims, entries, outside, behind>>

SuspendUser(c, by, u) == Begin(c, by, "suspend", Target("users", u), 0, "act")
UnsuspendUser(c, by, u) == Begin(c, by, "unsuspend", Target("users", u), 0, "act")
UpdateUserRole(c, by, u, role) == Begin(c, by, "role", Target("users", u), role, "act")
AdminDeposit(c, by, w) == Begin(c, by, "deposit", Target("wallets", w), 1, "inner")
AdminWithdraw(c, by, w) == Begin(c, by, "withdraw", Target("wallets", w), 1, "inner")
FreezeAccount(c, by, w) == Begin(c, by, "freeze", Target("wallets", w), 0, "act")
UnfreezeAccount(c, by, w) == Begin(c, by, "unfreeze", Target("wallets", w), 0, "act")
ActivateBreaker(c, by) == Begin(c, by, "activate", Target("breakers", Platform), 0, "act")
DeactivateBreaker(c, by) == Begin(c, by, "deactivate", Target("breakers", Platform), 0, "inner")
UpsertSymbol(c, by, given) == Begin(c, by, "upsert", Target("symbols", Symbol), given, "act")
EnableSymbol(c, by) == Begin(c, by, "enable", Target("symbols", Symbol), [enabled |-> {TRUE}, fee |-> {}], "act")
DisableSymbol(c, by) == Begin(c, by, "disable", Target("symbols", Symbol), [enabled |-> {FALSE}, fee |-> {}], "act")
CancelOrder(c, by, o) == Begin(c, by, "cancel", Target("orders", o), 0, "act")
ForceClosePosition(c, by, w) == Begin(c, by, "close", Target("positions", w), 0, "act")

\* getOpenOrderIds leaves the account of the request out of its query, and the query
\* rejects when the request names a user or a symbol, which it numbers but never binds.
CancelAllOrders(c, by, filter) ==
    LET listed == {o \in Orders : db.orders[o].status \in OpenStatuses} IN
    /\ ~Running(c) /\ made < MaxCalls /\ listed # {}
    /\ Permitted(claims[by], "cancelAll")
    /\ made' = made + 1
    /\ \E known \in Identified : calls' = [calls EXCEPT ![c] =
           [at |-> "cancelling", op |-> "cancelAll", on |-> Target("orders", filter), known |-> known,
            seen |-> db.orders, left |-> listed, wrote |-> {}]]
    /\ UNCHANGED <<db, claims, entries, outside, behind>>

-----------------------------------------------------------------------------
(* Operations: the act and the audit entry                                  *)

\* The write of a call, which then stands at next.
Write(c, t, next) ==
    /\ db' = [db EXCEPT ![t.table][t.id] = After(calls[c], Row(t))]
    /\ calls' = [calls EXCEPT ![c] = [next EXCEPT !.wrote = @ \cup {t}]]

\* deposit and withdraw of the account service read the row, check it and compute;
\* the deactivation of the breaker finds its latest active event.
ReadInner(c) ==
    LET call == calls[c]
        r == Row(call.on) IN
    /\ call.at = "inner"
    /\ call.op # "deactivate" => AccountAccepts(call.op, r)
    /\ calls' = [calls EXCEPT ![c].at = "act", ![c].inner =
           CASE call.op = "deposit" -> r.balance + 1
             [] call.op = "withdraw" -> r.balance - 1
             [] call.op = "deactivate" -> IF r.events = {} THEN {} ELSE {Max(r.events)}]
    /\ UNCHANGED <<db, claims, entries, made, outside, behind>>

Act(c) ==
    LET call == calls[c] IN
    /\ call.at = "act"
    /\ Write(c, call.on, [call EXCEPT !.at = IF call.op \in {"deposit", "withdraw"} THEN "reread" ELSE "record"])
    /\ UNCHANGED <<claims, entries, made, outside, behind>>

\* The balance is read once more, for the audit entry.
ReadAgain(c) ==
    /\ calls[c].at = "reread"
    /\ calls' = [calls EXCEPT ![c].at = "record"]
    /\ UNCHANGED <<db, claims, entries, made, outside, behind>>

\* The loop of cancelAllOrders: an order whose cancellation rejects is counted and passed over.
CancelNext(c, o, rejects) ==
    LET call == calls[c]
        next == [call EXCEPT !.left = @ \ {o}, !.at = IF call.left = {o} THEN "record" ELSE @] IN
    /\ call.at = "cancelling" /\ o \in call.left
    /\ IF rejects THEN calls' = [calls EXCEPT ![c] = next] /\ db' = db
                  ELSE Write(c, Target("orders", o), next)
    /\ UNCHANGED <<claims, entries, made, outside, behind>>

\* The audit table takes no entry without the id of the administrator.
Record(c) ==
    /\ calls[c].at = "record" /\ calls[c].known
    /\ entries' = entries + 1
    /\ Return(c)
    /\ UNCHANGED <<db, claims, made, outside, behind>>

\* A statement rejects, or the account service refuses: the call ends where it is.
Fail(c) ==
    /\ Running(c) /\ calls[c].at # "cancelling"
    /\ behind' = behind + Cardinality(calls[c].wrote)
    /\ Return(c)
    /\ UNCHANGED <<db, claims, entries, made, outside>>

-----------------------------------------------------------------------------
(* The rest of the platform                                                 *)

\* Trading, the wallet's owner and the engine write rows of their own accord.
Elsewhere(t, row) ==
    /\ outside < MaxOutside /\ row # Row(t)
    /\ outside' = outside + 1
    /\ db' = [db EXCEPT ![t.table][t.id] = row]
    /\ UNCHANGED <<claims, calls, entries, made, behind>>

Fill(o) == db.orders[o].status \in OpenStatuses /\ Elsewhere(Target("orders", o), [status |-> "filled"])
Trade(w) == Elsewhere(Target("positions", w), [quantity |-> 1 - db.positions[w].quantity])
Lock(w) == LET r == db.wallets[w] IN
    r.status = "active" /\ r.balance > r.locked /\ Elsewhere(Target("wallets", w), [r EXCEPT !.locked = @ + 1])
CloseAccount(w) == LET r == db.wallets[w] IN
    r.balance <= 0 /\ r.locked <= 0 /\ Elsewhere(Target("wallets", w), [r EXCEPT !.status = "closed"])

\* A refreshed access token carries the role of the user's row.
RenewToken(s) ==
    /\ claims[s] # db.users[s].role
    /\ claims' = [claims EXCEPT ![s] = db.users[s].role]
    /\ UNCHANGED <<db, calls, entries, made, outside, behind>>

Start(c, by) ==
    \/ \E u \in Users : SuspendUser(c, by, u) \/ UnsuspendUser(c, by, u)
    \/ \E u \in Users, role \in Roles : UpdateUserRole(c, by, u, role)
    \/ \E w \in Wallets : AdminDeposit(c, by, w) \/ AdminWithdraw(c, by, w)
    \/ \E w \in Wallets : FreezeAccount(c, by, w) \/ UnfreezeAccount(c, by, w)
    \/ ActivateBreaker(c, by) \/ DeactivateBreaker(c, by)
    \/ \E given \in Inputs : UpsertSymbol(c, by, given)
    \/ EnableSymbol(c, by) \/ DisableSymbol(c, by)
    \/ \E o \in Orders : CancelOrder(c, by, o)
    \/ \E filter \in Wallets \cup {"all"} : CancelAllOrders(c, by, filter)
    \/ \E w \in Wallets : ForceClosePosition(c, by, w)

Continue(c) ==
    \/ ReadInner(c) \/ Act(c) \/ ReadAgain(c) \/ Record(c) \/ Fail(c)
    \/ \E o \in Orders, rejects \in BOOLEAN : CancelNext(c, o, rejects)

World ==
    \/ \E o \in Orders : Fill(o)
    \/ \E w \in Wallets : Trade(w) \/ Lock(w) \/ CloseAccount(w)
    \/ \E s \in Staff : RenewToken(s)

Next == (\E c \in Slots : Continue(c) \/ \E by \in Staff : Start(c, by)) \/ World

Spec == Init /\ [][Next]_vars

-----------------------------------------------------------------------------
(* Properties                                                               *)

Statuses == {"active", "suspended", "locked", "closed", "filled", "cancelled", "new", "partially_filled"}

TypeOK ==
    /\ \A u \in Users : db.users[u].role \in Roles /\ db.users[u].status \in Statuses
    /\ \A w \in Wallets : db.wallets[w].balance \in Int /\ db.wallets[w].status \in Statuses
    /\ \A o \in Orders : db.orders[o].status \in Statuses
    /\ db.symbols[Symbol] \in SymbolRow
    /\ db.breakers[Platform].events \subseteq -1..MaxCalls
    /\ entries \in Nat /\ made \in 0..MaxCalls /\ outside \in 0..MaxOutside /\ behind \in Nat

\* The cancellations under way that are still to write order o and had read it open.
Cancelling(o) ==
    {c \in Slots :
        \/ /\ calls[c].at = "act" /\ calls[c].on = Target("orders", o)
           /\ calls[c].seen.status \in OpenStatuses
        \/ calls[c].at = "cancelling" /\ o \in calls[c].left /\ calls[c].seen[o].status \in OpenStatuses}

\* A filled or cancelled order stays as it is, over any calls of administrators and any
\* fills, but for one race: a cancellation of one order or of all that had read the order
\* open before it was filled still writes its row, which the adapter updates by its id
\* alone (admin.service.ts:845-896, 898-974; admin.api.ts:214).
FinishedStaysFinished ==
    [][\A o \in Orders :
          db.orders[o].status \notin OpenStatuses /\ db'.orders[o] # db.orders[o] => Cancelling(o) # {}]_vars

\* A setting of a symbol changes only to a value that a running call gives for it, or,
\* where a call gives none, back to the value that this call had read before somebody
\* else changed it (or to the default, if somebody else made the row): the whole row is
\* written from the read (admin.service.ts:703-815), so that an enabling and an upsert of
\* the fee may undo one another, and nothing else ever undoes them.
SettingsAreMeant ==
    [][\A f \in {"enabled", "fee"} :
          db.symbols[Symbol].present /\ db'.symbols[Symbol][f] # db.symbols[Symbol][f] =>
              \E c \in Slots :
                  /\ calls[c].at = "act" /\ calls[c].on = Target("symbols", Symbol)
                  /\ \/ db'.symbols[Symbol][f] \in calls[c].arg[f]
                     \/ /\ calls[c].arg[f] = {}
                        /\ db'.symbols[Symbol][f] = IF calls[c].seen.present THEN calls[c].seen[f] ELSE Defaults[f]]_vars

\* If any step of an operation fails, the entire operation is rolled back
\* (admin.service.ts:13): a call without an audit entry leaves no write behind.
FailedCallsLeaveNothing == behind = 0

\* Open orders are cancelled for the account that the request names (admin.service.ts:905).
CancelsMatching ==
    \A c \in Slots : Running(c) /\ calls[c].op = "cancelAll" /\ calls[c].on.id \in Wallets =>
        \A t \in calls[c].wrote : WalletOf[t.id] = calls[c].on.id

\* A closed account is permanently closed (account.types.ts:52).
ClosedForGood ==
    [][\A w \in Wallets : db.wallets[w].status = "closed" => db'.wallets[w].status = "closed"]_vars
=============================================================================
