---------------------------- MODULE LedgerProofs ----------------------------
(***************************************************************************)
(* Proofs about the ledger, for any number of accounts, orders and calls.  *)
(*                                                                         *)
(* Everything rests on what the row locks give: the rows of a call's work  *)
(* are its own until it ends.  What the locks do not cover is counted as   *)
(* faults, for any menu of operations.                                     *)
(***************************************************************************)
EXTENDS Ledger, SumProofs

Operations == {NoOperation} \cup UNION {Menu[c] : c \in Slots}
Works == UNION {[D -> Row] : D \in SUBSET Key}
Faults == [call : Slots, kind : {"overwrite", "debit", "hold"}, key : Key]
SlipsOf(c) == [call : {c}, kind : {"overwrite", "debit"}, key : Key]
Call == [at : {"idle", "running", "ended"}, op : Operations, done : Nat, blind : BOOLEAN,
         read : Nat, work : Works, slips : SUBSET Faults]

Shapes ==
    /\ balances \in [Key -> Row]
    /\ holds \in [Orders -> Nat]
    /\ entries \in [Key -> Int] /\ consumed \in [Key -> Int] /\ faults \in SUBSET Faults
    /\ calls \in [Slots -> Call]

\* Where a call that runs can be.
Progress(c) ==
    LET x == calls[c]
    IN  /\ x.op \in Menu[c]
        /\ x.done \in 0..Len(x.op.legs)
        /\ DOMAIN x.work = {x.op.legs[i].key : i \in 1..x.done}
        /\ \A k \in DOMAIN x.work : x.work[k].exists
        /\ x.blind => x.done < Len(x.op.legs)
        /\ x.slips \in SUBSET SlipsOf(c)

CallsSound == \A c \in Slots : calls[c] \in {Idle, Ended} \/ (Running(c) /\ Progress(c))

\* A row has one owner.
Locked == \A c, d \in Slots : c # d => DOMAIN calls[c].work \cap DOMAIN calls[d].work = {}

\* A fault is of a call that has ended.
FaultsOfEnded == \A f \in faults : calls[f.call].at = "ended"

IInv == Shapes /\ CallsSound /\ Locked /\ FaultsOfEnded

-----------------------------------------------------------------------------
(* What the assumptions say                                                 *)

LEMMA MenuFacts ==
    ASSUME NEW c \in Slots, NEW op \in Menu[c]
    PROVE  /\ op \in Operation
           /\ op.kind \in {"change", "settle"} <=> op.legs # <<>>
           /\ op.kind = "change" => op.uses = {}
           /\ op.kind \in {"create", "release", "consume"} => \E u \in op.uses : op.uses = {u}
           /\ op.kind = "settle" =>
                /\ \A u \in op.uses : \E i \in DOMAIN op.legs : HoldKey[u.order] = op.legs[i].key
                /\ \A u, v \in op.uses : HoldKey[u.order] = HoldKey[v.order] => u = v
           /\ op.legs \in Seq([key : Key, delta : Int])
           /\ op.uses \subseteq [order : Orders, amount : Nat]
BY MenuAssumption DEF Operation

LEMMA OperationFacts ==
    ASSUME NEW op \in Operations
    PROVE  /\ op.legs \in Seq([key : Key, delta : Int])
           /\ op.uses \subseteq [order : Orders, amount : Nat]
<1>1. CASE op = NoOperation
    BY <1>1 DEF NoOperation
<1>2. CASE \E c \in Slots : op \in Menu[c]
    BY <1>2, MenuFacts
<1>3. QED
    BY <1>1, <1>2 DEF Operations

LEMMA WorkFacts ==
    ASSUME NEW w \in Works
    PROVE  DOMAIN w \subseteq Key /\ w \in [DOMAIN w -> Row]
<1>1. PICK D \in SUBSET Key : w \in [D -> Row]
    BY DEF Works
<1>2. QED
    BY <1>1

LEMMA CallFacts ==
    ASSUME Shapes, NEW c \in Slots
    PROVE  /\ calls[c] \in Call
           /\ calls[c].at \in {"idle", "running", "ended"}
           /\ calls[c].op \in Operations /\ calls[c].done \in Nat /\ calls[c].blind \in BOOLEAN
           /\ calls[c].read \in Nat /\ calls[c].work \in Works /\ calls[c].slips \in SUBSET Faults
           /\ DOMAIN calls[c].work \subseteq Key
           /\ \A k \in DOMAIN calls[c].work : calls[c].work[k] \in Row
<1>1. calls[c] \in Call
    BY DEF Shapes
<1>2. calls[c].work \in Works
    BY <1>1 DEF Call
<1>3. DOMAIN calls[c].work \subseteq Key /\ calls[c].work \in [DOMAIN calls[c].work -> Row]
    BY <1>2, WorkFacts
<1>4. QED
    BY <1>1, <1>2, <1>3 DEF Call

LEMMA NoWorkFacts == DOMAIN NoWork = {} /\ NoWork \in Works
<1>1. NoWork \in [{} -> Row]
    BY DEF NoWork
<1>2. QED
    BY <1>1 DEF NoWork, Works

LEMMA IdleFacts ==
    /\ Idle \in Call /\ Ended \in Call
    /\ Idle.at = "idle" /\ Ended.at = "ended"
    /\ \A x \in {Idle, Ended} : /\ x.op = NoOperation /\ x.done = 0 /\ ~x.blind /\ x.read = 0
                                /\ x.work = NoWork /\ DOMAIN x.work = {} /\ x.slips = {}
<1>1. Idle \in Call /\ Idle.at = "idle"
    BY NoWorkFacts DEF Idle, Call, Operations
<1>2. /\ Idle.op = NoOperation /\ Idle.done = 0 /\ ~Idle.blind /\ Idle.read = 0
      /\ Idle.work = NoWork /\ DOMAIN Idle.work = {} /\ Idle.slips = {}
    BY NoWorkFacts DEF Idle
<1>3. /\ Ended \in Call /\ Ended.at = "ended" /\ Ended.op = Idle.op /\ Ended.done = Idle.done
      /\ Ended.blind = Idle.blind /\ Ended.read = Idle.read /\ Ended.work = Idle.work
      /\ Ended.slips = Idle.slips
    BY <1>1 DEF Ended, Call
<1>4. QED
    BY <1>1, <1>2, <1>3

LEMMA SeenFacts ==
    ASSUME Shapes, NEW c \in Slots, NEW k \in Key
    PROVE  Seen(c, k) \in Row
BY CallFacts DEF Seen, Shapes

LEMMA ElementIsIn ==
    ASSUME NEW S, NEW s \in Seq(S), NEW i \in DOMAIN s
    PROVE  s[i] \in S
OBVIOUS

LEMMA NextLegFacts ==
    ASSUME IInv, NEW c \in Slots, InLegs(c)
    PROVE  /\ Running(c) /\ Op(c) \in Menu[c] /\ Op(c).kind \in {"change", "settle"}
           /\ calls[c].done \in Nat /\ calls[c].done + 1 \in DOMAIN Op(c).legs
           /\ NextLeg(c).key \in Key /\ NextLeg(c).delta \in Int
<1>1. Running(c) /\ Op(c).kind \in {"change", "settle"} /\ calls[c].done < Len(Op(c).legs)
    BY DEF InLegs, HasLegs
<1>2. Progress(c)
    BY <1>1, IdleFacts DEF IInv, CallsSound, Running
<1>3. Op(c) \in Menu[c] /\ calls[c].done \in Nat
    BY <1>2 DEF Progress, Op
<1>4. Op(c).legs \in Seq([key : Key, delta : Int])
    BY <1>3, MenuFacts
<1>5. calls[c].done + 1 \in DOMAIN Op(c).legs
    BY <1>1, <1>3, <1>4
<1>6. Op(c).legs[calls[c].done + 1] \in [key : Key, delta : Int]
    BY <1>4, <1>5, ElementIsIn
<1>7. NextLeg(c) \in [key : Key, delta : Int]
    BY <1>6 DEF NextLeg
<1>8. QED
    BY <1>1, <1>3, <1>5, <1>7
\* The first n legs on one balance add up to a number.
LegDeltas(op, k) == [i \in DOMAIN op.legs |-> IF op.legs[i].key = k THEN op.legs[i].delta ELSE 0]
Partial(op, k, n) == SumFunctionOnSet(LegDeltas(op, k), 1..n)

LEMMA PartialFacts ==
    ASSUME NEW op \in Operations, NEW k \in Key
    PROVE  /\ Partial(op, k, 0) = 0
           /\ \A n \in 0..Len(op.legs) : Partial(op, k, n) \in Int
           /\ \A n \in Nat : n + 1 \in DOMAIN op.legs =>
                 Partial(op, k, n + 1) = Partial(op, k, n)
                     + (IF op.legs[n + 1].key = k THEN op.legs[n + 1].delta ELSE 0)
           /\ Posted(op, k) = Partial(op, k, Len(op.legs))
<1> DEFINE f == LegDeltas(op, k)
<1>1. op.legs \in Seq([key : Key, delta : Int]) /\ Len(op.legs) \in Nat /\ DOMAIN op.legs = 1..Len(op.legs)
  <2>1. op.legs \in Seq([key : Key, delta : Int])
      BY OperationFacts
  <2>2. QED
      BY <2>1
<1>2. \A i \in DOMAIN op.legs : f[i] \in Int
  <2>1. \A i \in DOMAIN op.legs : op.legs[i] \in [key : Key, delta : Int]
      BY <1>1, ElementIsIn
  <2>2. QED
      BY <2>1 DEF LegDeltas
<1>3. \A n \in Nat : IsFiniteSet(1..n)
    BY FS_Interval
<1>4. Partial(op, k, 0) = 0
  <2>1. 1..0 = {}
      OBVIOUS
  <2>2. QED
      BY <2>1, SumEmpty DEF Partial
<1>5. ASSUME NEW n \in 0..Len(op.legs) PROVE Partial(op, k, n) \in Int
  <2>1. n \in Nat /\ 1..n \subseteq DOMAIN op.legs
      BY <1>1
  <2>2. QED
      BY <1>2, <1>3, <2>1, SumInt DEF Partial
<1>6. ASSUME NEW n \in Nat, n + 1 \in DOMAIN op.legs
      PROVE  Partial(op, k, n + 1) = Partial(op, k, n)
                 + (IF op.legs[n + 1].key = k THEN op.legs[n + 1].delta ELSE 0)
  <2>1. 1..n \subseteq DOMAIN op.legs /\ n + 1 \notin 1..n /\ 1..(n + 1) = (1..n) \cup {n + 1}
      BY <1>1, <1>6
  <2>2. Partial(op, k, n + 1) = f[n + 1] + Partial(op, k, n)
    <3>1. \A i \in 1..n : f[i] \in Int
        BY <1>2, <2>1
    <3>2. SumFunctionOnSet(f, (1..n) \cup {n + 1}) = f[n + 1] + SumFunctionOnSet(f, 1..n)
        BY <1>2, <1>3, <1>6, <2>1, <3>1, SumAddsElement
    <3>3. QED
        BY <2>1, <3>2 DEF Partial
  <2>3. f[n + 1] = IF op.legs[n + 1].key = k THEN op.legs[n + 1].delta ELSE 0
      BY <1>6 DEF LegDeltas
  <2>4. f[n + 1] \in Int /\ Partial(op, k, n) \in Int
    <3>1. n \in 0..Len(op.legs)
        BY <1>1, <1>6
    <3>2. QED
        BY <1>2, <1>5, <1>6, <3>1
  <2>5. QED
      BY <2>2, <2>3, <2>4
<1>7. Posted(op, k) = Partial(op, k, Len(op.legs))
  <2>1. DOMAIN f = 1..Len(op.legs)
      BY <1>1 DEF LegDeltas
  <2>2. QED
      BY <2>1 DEF Posted, Partial, SumFunction, LegDeltas
<1>8. QED
    BY <1>4, <1>5, <1>6, <1>7

\* A call has written no more legs than it has.
LEMMA PartialIsInt ==
    ASSUME IInv, NEW c \in Slots, NEW k \in Key
    PROVE  Partial(calls[c].op, k, calls[c].done) \in Int
<1>1. calls[c].op \in Operations
    BY CallFacts DEF IInv
<1>2. calls[c].done \in 0..Len(calls[c].op.legs)
  <2>1. CASE Running(c) /\ Progress(c)
      BY <2>1 DEF Progress
  <2>2. CASE calls[c] \in {Idle, Ended}
    <3>1. 0 \in 0..Len(NoOperation.legs)
        BY DEF NoOperation
    <3>2. QED
        BY <2>2, <3>1, IdleFacts
  <2>3. QED
      BY <2>1, <2>2 DEF IInv, CallsSound
<1>3. QED
    BY <1>1, <1>2, PartialFacts

LEMMA BlindInLegs ==
    ASSUME IInv, NEW c \in Slots, calls[c].blind
    PROVE  InLegs(c)
<1>1. Running(c) /\ Progress(c)
    BY IdleFacts DEF IInv, CallsSound
<1>2. calls[c].done < Len(Op(c).legs) /\ Op(c) \in Menu[c]
    BY <1>1 DEF Progress, Op
<1>3. Op(c).legs # <<>>
    BY <1>1, <1>2 DEF Progress
<1>4. QED
    BY <1>1, <1>2, <1>3, MenuFacts DEF InLegs, HasLegs

LEMMA PostedType ==
    ASSUME NEW op \in Operations, NEW k \in Key
    PROVE  Posted(op, k) \in Int
<1>1. Len(op.legs) \in 0..Len(op.legs)
    BY OperationFacts
<1>2. QED
    BY <1>1, PartialFacts

-----------------------------------------------------------------------------
(* What the steps of one call do                                            *)

\* One call changes, and the rest stays.
OnlyCall(c) == calls' = [calls EXCEPT ![c] = calls'[c]]

LEMMA OthersStay ==
    ASSUME Shapes, NEW c \in Slots, OnlyCall(c)
    PROVE  /\ \A d \in Slots : d # c => calls'[d] = calls[d]
           /\ calls'[c] \in Call => calls' \in [Slots -> Call]
BY DEF OnlyCall, Shapes

LEMMA OtherCallsSound ==
    ASSUME CallsSound, NEW c \in Slots, \A d \in Slots : d # c => calls'[d] = calls[d],
           (calls[c] \in {Idle, Ended} \/ (Running(c) /\ Progress(c)))'
    PROVE  CallsSound'
<1>1. ASSUME NEW d \in Slots
      PROVE  (calls[d] \in {Idle, Ended} \/ (Running(d) /\ Progress(d)))'
  <2>1. CASE d = c
      BY <2>1
  <2>2. CASE d # c
    <3>1. calls'[d] = calls[d]
        BY <2>2
    <3>2. calls[d] \in {Idle, Ended} \/ (Running(d) /\ Progress(d))
        BY DEF CallsSound
    <3>3. QED
        BY <3>1, <3>2 DEF Running, Progress
  <2>3. QED
      BY <2>1, <2>2
<1>2. QED
    BY <1>1 DEF CallsSound

\* A step that ends a call.
LEMMA EndStep ==
    ASSUME IInv, NEW c \in Slots, calls' = [calls EXCEPT ![c] = Ended],
           balances' \in [Key -> Row], holds' \in [Orders -> Nat],
           entries' \in [Key -> Int], consumed' \in [Key -> Int],
           faults' \in SUBSET Faults, \A f \in faults' : f \in faults \/ f.call = c
    PROVE  /\ IInv'
           /\ calls'[c] = Ended /\ DOMAIN calls'[c].work = {} /\ ~calls'[c].blind /\ calls'[c].read = 0
           /\ \A d \in Slots : d # c => calls'[d] = calls[d]
           /\ ~Running(c)'
<1>1. calls'[c] = Ended /\ \A d \in Slots : d # c => calls'[d] = calls[d]
    BY DEF IInv, Shapes
<1>2. Shapes'
    BY <1>1, IdleFacts DEF IInv, Shapes
<1>3. CallsSound'
    BY <1>1 DEF IInv, CallsSound, Running, Progress
<1>4. Locked'
    BY <1>1, IdleFacts DEF IInv, Locked
<1>5. FaultsOfEnded'
    BY <1>1, IdleFacts DEF IInv, FaultsOfEnded, Shapes, Faults
<1>6. QED
    BY <1>1, <1>2, <1>3, <1>4, <1>5, IdleFacts DEF IInv, Running

LEMMA StartStep ==
    ASSUME IInv, NEW c \in Slots, Start(c)
    PROVE  /\ IInv'
           /\ \E op \in Menu[c] : calls'[c] = [Idle EXCEPT !.at = "running", !.op = op]
           /\ DOMAIN calls'[c].work = {} /\ ~calls'[c].blind /\ calls'[c].read = 0 /\ calls'[c].done = 0
           /\ calls'[c].slips = {}
           /\ \A d \in Slots : d # c => calls'[d] = calls[d]
<1>1. PICK op \in Menu[c] : calls' = [calls EXCEPT ![c] = [Idle EXCEPT !.at = "running", !.op = op]]
    BY DEF Start
<1> DEFINE x == [Idle EXCEPT !.at = "running", !.op = op]
<1>2. /\ x \in Call /\ x.at = "running" /\ x.op = op /\ x.done = 0 /\ ~x.blind /\ x.read = 0
      /\ x.work = NoWork /\ x.slips = {}
  <2>1. op \in Operations
      BY DEF Operations
  <2>2. QED
      BY <2>1, IdleFacts DEF Call
<1> HIDE DEF x
<1>3. calls'[c] = x /\ \A d \in Slots : d # c => calls'[d] = calls[d]
    BY <1>1 DEF IInv, Shapes, x
<1>4. Shapes'
    BY <1>1, <1>2 DEF IInv, Shapes, Start, tables, x
<1>5. DOMAIN calls'[c].work = {}
    BY <1>2, <1>3, NoWorkFacts
<1>6. (Running(c) /\ Progress(c))'
  <2>1. op.legs \in Seq([key : Key, delta : Int])
      BY MenuFacts
  <2>2. 0 \in 0..Len(op.legs)
      BY <2>1
  <2>3. QED
      BY <1>2, <1>3, <1>5, <2>2 DEF Running, Progress
<1>7. CallsSound'
    BY <1>3, <1>6, OtherCallsSound DEF IInv
<1>8. Locked'
    BY <1>3, <1>5 DEF IInv, Locked
<1>9. FaultsOfEnded'
    BY <1>3 DEF IInv, FaultsOfEnded, Shapes, Faults, Start, tables
<1>10. QED
    BY <1>1, <1>2, <1>3, <1>4, <1>5, <1>7, <1>8, <1>9 DEF IInv, x

\* Writing a leg.
LEMMA WriteStep ==
    ASSUME IInv, NEW c \in Slots, InLegs(c), NEW row \in Row, row.exists,
           ~LockedFor(c, NextLeg(c).key), NEW slips \in SUBSET SlipsOf(c),
           Write(c, NextLeg(c).key, row, slips), UNCHANGED tables
    PROVE  /\ IInv'
           /\ calls'[c].at = "running" /\ calls'[c].op = calls[c].op
           /\ calls'[c].done = calls[c].done + 1 /\ ~calls'[c].blind /\ calls'[c].read = calls[c].read
           /\ DOMAIN calls'[c].work = {NextLeg(c).key} \cup DOMAIN calls[c].work
           /\ calls'[c].work[NextLeg(c).key] = row
           /\ \A k \in DOMAIN calls[c].work : k # NextLeg(c).key => calls'[c].work[k] = calls[c].work[k]
           /\ calls'[c].slips = calls[c].slips \cup slips
           /\ \A d \in Slots : d # c => calls'[d] = calls[d]
<1> DEFINE k == NextLeg(c).key
           w == [x \in {k} \cup DOMAIN calls[c].work |-> IF x = k THEN row ELSE calls[c].work[x]]
           y == [calls[c] EXCEPT !.work = w, !.done = calls[c].done + 1, !.blind = FALSE,
                           !.slips = calls[c].slips \cup slips]
<1>1. calls[c] \in Call /\ k \in Key
    BY CallFacts, NextLegFacts DEF IInv
<1>2. w \in [{k} \cup DOMAIN calls[c].work -> Row] /\ {k} \cup DOMAIN calls[c].work \subseteq Key
    BY <1>1, CallFacts DEF IInv
<1>3. w \in Works /\ DOMAIN w = {k} \cup DOMAIN calls[c].work
    BY <1>2 DEF Works
<1>4. w[k] = row /\ \A x \in DOMAIN calls[c].work : x # k => w[x] = calls[c].work[x]
    OBVIOUS
<1>5. calls' = [calls EXCEPT ![c] = y]
    BY <1>1 DEF Write, IInv, Shapes, Call
<1> HIDE DEF w
<1>6. /\ y \in Call /\ y.work = w /\ y.done = calls[c].done + 1 /\ y.blind = FALSE
      /\ y.at = calls[c].at /\ y.op = calls[c].op /\ y.read = calls[c].read
      /\ y.slips = calls[c].slips \cup slips
  <2>1. calls[c].done + 1 \in Nat /\ calls[c].slips \cup slips \in SUBSET Faults
      BY <1>1 DEF Call, SlipsOf, Faults
  <2>2. QED
      BY <1>1, <1>3, <2>1 DEF Call
<1> HIDE DEF y
<1>7. calls'[c] = y /\ \A d \in Slots : d # c => calls'[d] = calls[d]
    BY <1>5 DEF IInv, Shapes
<1>8. Shapes'
    BY <1>5, <1>6 DEF IInv, Shapes, tables
<1>9. Running(c) /\ Progress(c) /\ calls[c].done < Len(Op(c).legs)
    BY IdleFacts DEF IInv, CallsSound, InLegs, HasLegs, Running
<1>10. /\ calls[c].done \in Nat /\ calls[c].op.legs \in Seq([key : Key, delta : Int])
       /\ calls[c].done + 1 \in 0..Len(calls[c].op.legs)
  <2>1. calls[c].op.legs \in Seq([key : Key, delta : Int])
      BY <1>9, MenuFacts DEF Progress
  <2>2. QED
      BY <1>1, <1>9, <2>1 DEF Call, Op
<1>11. DOMAIN w = {calls[c].op.legs[i].key : i \in 1..(calls[c].done + 1)}
  <2>1. DOMAIN calls[c].work = {calls[c].op.legs[i].key : i \in 1..calls[c].done}
      BY <1>9 DEF Progress
  <2>2. k = calls[c].op.legs[calls[c].done + 1].key
      BY DEF NextLeg, Op
  <2>3. 1..(calls[c].done + 1) = (1..calls[c].done) \cup {calls[c].done + 1}
      BY <1>10
  <2>4. QED
      BY <1>3, <2>1, <2>2, <2>3
<1>12. \A x \in DOMAIN w : w[x].exists
    BY <1>3, <1>4, <1>9 DEF Progress
<1>13. (Running(c) /\ Progress(c))'
  <2>1. calls'[c].op \in Menu[c] /\ calls'[c].at = "running"
      BY <1>6, <1>7, <1>9 DEF Running, Progress
  <2>2. calls'[c].done \in 0..Len(calls'[c].op.legs)
      BY <1>6, <1>7, <1>10
  <2>3. DOMAIN calls'[c].work = {calls'[c].op.legs[i].key : i \in 1..calls'[c].done}
      BY <1>6, <1>7, <1>11
  <2>4. \A x \in DOMAIN calls'[c].work : calls'[c].work[x].exists
      BY <1>6, <1>7, <1>12
  <2>5. ~calls'[c].blind
      BY <1>6, <1>7
  <2>6. calls'[c].slips \in SUBSET SlipsOf(c)
      BY <1>6, <1>7, <1>9 DEF Progress
  <2>7. QED
      BY <2>1, <2>2, <2>3, <2>4, <2>5, <2>6 DEF Running, Progress
<1>14. CallsSound'
    BY <1>7, <1>13, OtherCallsSound DEF IInv
<1>15. Locked'
    BY <1>3, <1>6, <1>7 DEF IInv, Locked, LockedFor
<1>16. FaultsOfEnded'
    BY <1>6, <1>7 DEF IInv, FaultsOfEnded, Shapes, Faults, tables
<1>17. QED
    BY <1>3, <1>4, <1>6, <1>7, <1>8, <1>9, <1>14, <1>15, <1>16 DEF IInv, Running

\* A step that changes what a call knows, and nothing else.
LEMMA NoteStep ==
    ASSUME IInv, NEW c \in Slots, Running(c), NEW y \in Call, calls' = [calls EXCEPT ![c] = y],
           y.at = "running", y.op = calls[c].op, y.done = calls[c].done, y.work = calls[c].work,
           y.slips = calls[c].slips,
           y.blind => calls[c].done < Len(Op(c).legs), UNCHANGED tables
    PROVE  /\ IInv' /\ calls'[c] = y
           /\ \A d \in Slots : d # c => calls'[d] = calls[d]
<1>1. calls'[c] = y /\ \A d \in Slots : d # c => calls'[d] = calls[d]
    BY DEF IInv, Shapes
<1>2. Shapes'
    BY DEF IInv, Shapes, tables
<1>3. Progress(c)
    BY IdleFacts DEF IInv, CallsSound, Running
<1>4. (Running(c) /\ Progress(c))'
    BY <1>1, <1>3 DEF Running, Progress, Op
<1>5. CallsSound'
    BY <1>1, <1>4, OtherCallsSound DEF IInv
<1>6. Locked'
    BY <1>1 DEF IInv, Locked
<1>7. FaultsOfEnded'
    BY <1>1 DEF IInv, FaultsOfEnded, Shapes, Faults, tables, Running
<1>8. QED
    BY <1>1, <1>2, <1>5, <1>6, <1>7 DEF IInv

LEMMA FindNoRowStep ==
    ASSUME IInv, NEW c \in Slots, FindNoRow(c)
    PROVE  /\ IInv' /\ calls'[c] = [calls[c] EXCEPT !.blind = TRUE]
           /\ \A d \in Slots : d # c => calls'[d] = calls[d]
<1> DEFINE y == [calls[c] EXCEPT !.blind = TRUE]
<1>1. calls[c] \in Call
    BY CallFacts DEF IInv
<1>2. /\ y \in Call /\ y.at = calls[c].at /\ y.op = calls[c].op /\ y.done = calls[c].done
      /\ y.work = calls[c].work /\ y.slips = calls[c].slips
    BY <1>1 DEF Call
<1>3. calls' = [calls EXCEPT ![c] = y]
    BY DEF FindNoRow
<1>4. Running(c) /\ calls[c].done < Len(Op(c).legs)
    BY DEF FindNoRow, InLegs, HasLegs
<1>5. UNCHANGED tables
    BY DEF FindNoRow
<1> HIDE DEF y
<1>6. IInv' /\ calls'[c] = y /\ \A d \in Slots : d # c => calls'[d] = calls[d]
    BY <1>2, <1>3, <1>4, <1>5, NoteStep DEF Running
<1>7. QED
    BY <1>6 DEF y

\* A call without legs has locked nothing.
LEMMA NoLegs ==
    ASSUME IInv, NEW c \in Slots, Running(c), Op(c).kind \in {"create", "release", "consume"}
    PROVE  DOMAIN calls[c].work = {}
<1>1. Progress(c)
    BY IdleFacts DEF IInv, CallsSound, Running
<1>2. calls[c].op.legs = <<>>
    BY <1>1, MenuFacts DEF Progress, Op
<1>3. calls[c].done = 0
    BY <1>1, <1>2 DEF Progress
<1>4. QED
    BY <1>1, <1>3 DEF Progress

\* The hold a call works on.
LEMMA UseFacts ==
    ASSUME IInv, NEW c \in Slots, Running(c), Op(c).kind \in {"create", "release", "consume"}
    PROVE  /\ Op(c) \in Menu[c] /\ Op(c).uses = {TheUse(c)}
           /\ TheUse(c).amount \in Nat /\ TheOrder(c) \in Orders /\ TheKey(c) \in Key
<1>1. Op(c) \in Menu[c]
    BY IdleFacts DEF IInv, CallsSound, Running, Progress, Op
<1>2. (\E u \in Op(c).uses : Op(c).uses = {u}) /\ Op(c).uses \subseteq [order : Orders, amount : Nat]
    BY <1>1, MenuFacts
<1>3. TheUse(c) \in Op(c).uses /\ Op(c).uses = {TheUse(c)}
    BY <1>2 DEF TheUse
<1>4. TheUse(c) \in [order : Orders, amount : Nat]
    BY <1>2, <1>3
<1>5. QED
    BY <1>1, <1>3, <1>4, KeyAssumption DEF TheOrder, TheKey

LEMMA ReadHoldStep ==
    ASSUME IInv, NEW c \in Slots, ReadHold(c)
    PROVE  /\ IInv' /\ calls'[c] = [calls[c] EXCEPT !.read = holds[TheOrder(c)]]
           /\ \A d \in Slots : d # c => calls'[d] = calls[d]
<1> DEFINE y == [calls[c] EXCEPT !.read = holds[TheOrder(c)]]
<1>1. calls[c] \in Call
    BY CallFacts DEF IInv
<1>2. Running(c) /\ holds[TheOrder(c)] \in Nat
    BY UseFacts DEF ReadHold, UsesHold, IInv, Shapes
<1>3. /\ y \in Call /\ y.at = calls[c].at /\ y.op = calls[c].op /\ y.done = calls[c].done
      /\ y.work = calls[c].work /\ y.blind = calls[c].blind /\ y.slips = calls[c].slips
    BY <1>1, <1>2 DEF Call
<1>4. calls' = [calls EXCEPT ![c] = y]
    BY DEF ReadHold
<1>5. calls[c].blind => calls[c].done < Len(Op(c).legs)
    BY <1>2, IdleFacts DEF IInv, CallsSound, Progress, Op
<1>6. UNCHANGED tables
    BY DEF ReadHold
<1> HIDE DEF y
<1>7. IInv' /\ calls'[c] = y /\ \A d \in Slots : d # c => calls'[d] = calls[d]
    BY <1>2, <1>3, <1>4, <1>5, <1>6, NoteStep DEF Running
<1>8. QED
    BY <1>7 DEF y

\* A misuse is noted, and it is one more.
LEMMA MisuseFacts ==
    ASSUME IInv, NEW c \in Slots, Running(c), Op(c).kind \in {"create", "release", "consume"},
           NEW wrong \in BOOLEAN, Misuse(c, wrong)
    PROVE  /\ faults' \in SUBSET Faults /\ \A f \in faults' : f \in faults \/ f.call = c
           /\ faults \subseteq faults'
           /\ wrong => faults' # faults /\ \E f \in faults' : f.key = TheKey(c) /\ f.kind = "hold"
<1> DEFINE g == Fault(c, "hold", TheKey(c))
<1>1. g \in Faults /\ g.call = c /\ g.kind = "hold" /\ g.key = TheKey(c)
    BY UseFacts DEF Fault, Faults
<1>2. g \notin faults
    BY <1>1 DEF IInv, FaultsOfEnded, Running
<1> HIDE DEF g
<1>3. faults' = IF wrong THEN faults \cup {g} ELSE faults
    BY DEF Misuse, g
<1>4. faults \in SUBSET Faults
    BY DEF IInv, Shapes
<1>5. QED
    BY <1>1, <1>2, <1>3, <1>4

-----------------------------------------------------------------------------
(* What a commit takes out of the holds                                     *)

\* The uses of a settlement are of rows it has locked, and at most one of each row.
LEMMA SettledUses ==
    ASSUME IInv, NEW c \in Slots, LegsDone(c), NEW u \in Op(c).uses
    PROVE  /\ u.order \in Orders /\ u.amount \in Nat
           /\ HoldKey[u.order] \in DOMAIN calls[c].work
           /\ \A v \in Op(c).uses : HoldKey[u.order] = HoldKey[v.order] => u = v
<1>1. Running(c) /\ Op(c).kind \in {"change", "settle"} /\ calls[c].done = Len(Op(c).legs)
    BY DEF LegsDone, HasLegs
<1>2. Progress(c)
    BY <1>1, IdleFacts DEF IInv, CallsSound, Running
<1>3. Op(c) \in Menu[c]
    BY <1>2 DEF Progress, Op
<1>4. Op(c).kind = "settle"
    BY <1>1, <1>3, MenuFacts
<1>5. /\ u \in [order : Orders, amount : Nat] /\ Op(c).legs \in Seq([key : Key, delta : Int])
      /\ \E i \in DOMAIN Op(c).legs : HoldKey[u.order] = Op(c).legs[i].key
      /\ \A v \in Op(c).uses : HoldKey[u.order] = HoldKey[v.order] => u = v
    BY <1>3, <1>4, MenuFacts
<1>6. DOMAIN Op(c).legs = 1..calls[c].done
    BY <1>1, <1>5
<1>7. HoldKey[u.order] \in DOMAIN calls[c].work
    BY <1>2, <1>5, <1>6 DEF Progress, Op
<1>8. QED
    BY <1>5, <1>7

LEMMA ConsumedIs ==
    ASSUME IInv, NEW c \in Slots, LegsDone(c), NEW k \in Key
    PROVE  /\ Consumed(c, k) \in Nat
           /\ k \notin DOMAIN calls[c].work => Consumed(c, k) = 0
           /\ \A u \in Op(c).uses : HoldKey[u.order] = k =>
                 Consumed(c, k) = IF holds[u.order] > 0 THEN u.amount ELSE 0
           /\ (\A u \in Op(c).uses : HoldKey[u.order] # k) => Consumed(c, k) = 0
<1> DEFINE T == {x \in Op(c).uses : HoldKey[x.order] = k /\ holds[x.order] > 0}
           f == [u \in T |-> u.amount]
<1>1. Consumed(c, k) = SumFunctionOnSet(f, T)
    BY DEF Consumed, SumFunction
<1>2. CASE T = {}
  <2>1. Consumed(c, k) = 0
      BY <1>1, <1>2, SumEmpty
  <2>2. QED
      BY <1>2, <2>1
<1>3. CASE T # {}
  <2>1. PICK u \in T : TRUE
      BY <1>3
  <2>2. /\ u.amount \in Nat /\ HoldKey[u.order] \in DOMAIN calls[c].work
        /\ \A v \in Op(c).uses : HoldKey[u.order] = HoldKey[v.order] => u = v
      BY <2>1, SettledUses
  <2>3. T = {u} /\ f[u] = u.amount
      BY <2>1, <2>2
  <2>4. Consumed(c, k) = u.amount
      BY <1>1, <2>2, <2>3, SumSingle
  <2>5. QED
      BY <2>1, <2>2, <2>3, <2>4
<1>4. QED
    BY <1>2, <1>3

LEMMA CommitHolds ==
    ASSUME IInv, NEW c \in Slots, LegsDone(c), Commit(c), NEW o \in Orders
    PROVE  /\ holds'[o] \in Nat
           /\ \A u \in Op(c).uses : u.order = o => holds'[o] = Remaining(holds[o], u.amount)
           /\ (\A u \in Op(c).uses : u.order # o) => holds'[o] = holds[o]
<1>1. holds'[o] = IF \E u \in Op(c).uses : u.order = o
                  THEN Remaining(holds[o], (CHOOSE u \in Op(c).uses : u.order = o).amount)
                  ELSE holds[o]
    BY DEF Commit
<1>2. holds[o] \in Nat
    BY DEF IInv, Shapes
<1>3. CASE \E u \in Op(c).uses : u.order = o
  <2> DEFINE v == CHOOSE u \in Op(c).uses : u.order = o
  <2>1. v \in Op(c).uses /\ v.order = o
      BY <1>3
  <2>2. v.amount \in Nat /\ \A u \in Op(c).uses : u.order = o => u = v
      BY <2>1, SettledUses
  <2>3. holds'[o] = Remaining(holds[o], v.amount)
      BY <1>1, <1>3
  <2>4. Remaining(holds[o], v.amount) \in Nat
      BY <1>2, <2>2 DEF Remaining
  <2>5. QED
      BY <1>3, <2>2, <2>3, <2>4
<1>4. QED
    BY <1>1, <1>2, <1>3

\* The balances after a commit.
LEMMA CommitBalances ==
    ASSUME IInv, NEW c \in Slots, Commit(c), NEW k \in Key
    PROVE  /\ balances'[k] \in Row
           /\ balances'[k].exists = Seen(c, k).exists
           /\ balances'[k].available = Seen(c, k).available
           /\ balances'[k].held = Seen(c, k).held - Consumed(c, k)
<1>1. balances'[k] = [Seen(c, k) EXCEPT !.held = Seen(c, k).held - Consumed(c, k)]
    BY DEF Commit
<1>2. Seen(c, k) \in Row /\ Consumed(c, k) \in Nat
    BY SeenFacts, ConsumedIs DEF IInv, Commit
<1>3. QED
    BY <1>1, <1>2 DEF Row

\* The faults of a commit.
LEMMA CommitFaults ==
    ASSUME IInv, NEW c \in Slots, Commit(c)
    PROVE  /\ faults' \in SUBSET Faults /\ \A f \in faults' : f \in faults \/ f.call = c
           /\ faults \subseteq faults'
           /\ faults' = faults => calls[c].slips = {} /\ Overuses(c) = {}
<1>1. LegsDone(c) /\ faults' = (faults \cup calls[c].slips) \cup Overuses(c)
    BY DEF Commit
<1>2. Running(c) /\ Progress(c)
    BY <1>1, IdleFacts DEF LegsDone, HasLegs, IInv, CallsSound, Running
<1>3. \A f \in calls[c].slips : f \in Faults /\ f.call = c
    BY <1>2 DEF Progress, SlipsOf, Faults
<1>4. \A f \in Overuses(c) : f \in Faults /\ f.call = c
  <2>1. ASSUME NEW u \in Op(c).uses
        PROVE  Fault(c, "hold", HoldKey[u.order]) \in Faults /\ Fault(c, "hold", HoldKey[u.order]).call = c
      BY <1>1, <2>1, SettledUses, KeyAssumption DEF Fault, Faults
  <2>2. QED
      BY <2>1 DEF Overuses
<1>5. \A f \in faults : f \in Faults /\ f.call # c
    BY <1>2 DEF IInv, Shapes, FaultsOfEnded, Running
<1>6. QED
    BY <1>1, <1>3, <1>4, <1>5

LEMMA CommitStep ==
    ASSUME IInv, NEW c \in Slots, Commit(c)
    PROVE  /\ IInv' /\ ~Running(c)' /\ calls'[c] = Ended
           /\ DOMAIN calls'[c].work = {} /\ ~calls'[c].blind /\ calls'[c].read = 0
           /\ \A d \in Slots : d # c => calls'[d] = calls[d]
<1>1. \A k \in Key : balances'[k] \in Row
    BY CommitBalances
<1>2. balances' \in [Key -> Row]
    BY <1>1 DEF Commit
<1>3. \A o \in Orders : holds'[o] \in Nat
    BY CommitHolds DEF Commit
<1>4. holds' \in [Orders -> Nat]
    BY <1>3 DEF Commit
<1>5. \A k \in Key : Consumed(c, k) \in Nat
    BY ConsumedIs DEF Commit
<1>6. consumed' \in [Key -> Int]
    BY <1>5 DEF Commit, IInv, Shapes
<1>7. Op(c) \in Operations
    BY CallFacts DEF IInv, Op
<1>8. \A k \in Key : Posted(Op(c), k) \in Int
    BY <1>7, PostedType
<1>9. entries' \in [Key -> Int]
    BY <1>8 DEF Commit, IInv, Shapes
<1>10. calls' = [calls EXCEPT ![c] = Ended]
    BY DEF Commit
<1>11. QED
    BY <1>2, <1>4, <1>6, <1>9, <1>10, CommitFaults, EndStep

-----------------------------------------------------------------------------
(* What the steps on one hold do                                            *)

\* A hold moves funds of one row that nobody has locked.
LEMMA TakeHoldStep ==
    ASSUME IInv, NEW c \in Slots, TakeHold(c)
    PROVE  /\ IInv' /\ ~Running(c)' /\ calls'[c] = Ended
           /\ DOMAIN calls'[c].work = {} /\ ~calls'[c].blind /\ calls'[c].read = 0
           /\ \A d \in Slots : d # c => calls'[d] = calls[d]
           /\ Op(c) \in Menu[c] /\ Op(c).uses = {TheUse(c)} /\ TheOrder(c) \in Orders /\ TheKey(c) \in Key
           /\ TheUse(c).amount \in Nat
           /\ \A d \in Slots : TheKey(c) \notin DOMAIN calls[d].work \/ d = c
           /\ DOMAIN calls[c].work = {}
           /\ balances'[TheKey(c)] = [balances[TheKey(c)] EXCEPT !.available = @ - TheUse(c).amount,
                                                                  !.held = @ + TheUse(c).amount]
           /\ \A k \in Key : k # TheKey(c) => balances'[k] = balances[k]
           /\ holds'[TheOrder(c)] = TheUse(c).amount
           /\ \A o \in Orders : o # TheOrder(c) => holds'[o] = holds[o]
<1>1. Running(c) /\ Op(c).kind = "create" /\ ~LockedFor(c, TheKey(c))
    BY DEF TakeHold
<1>2. /\ Op(c) \in Menu[c] /\ Op(c).uses = {TheUse(c)}
      /\ TheUse(c).amount \in Nat /\ TheOrder(c) \in Orders /\ TheKey(c) \in Key
    BY <1>1, UseFacts
<1>3. DOMAIN calls[c].work = {}
    BY <1>1, <1>2, NoLegs
<1> DEFINE k == TheKey(c)
           a == TheUse(c).amount
           row == [balances[k] EXCEPT !.available = balances[k].available - a, !.held = balances[k].held + a]
<1>4. row \in Row
  <2>1. balances[k] \in Row
      BY <1>2 DEF IInv, Shapes
  <2>2. balances[k].available - a \in Int /\ balances[k].held + a \in Int
      BY <1>2, <2>1 DEF Row
  <2>3. QED
      BY <2>1, <2>2 DEF Row
<1>5. balances' = [balances EXCEPT ![k] = row]
    BY <1>2 DEF TakeHold, IInv, Shapes, Row
<1>6. balances' \in [Key -> Row] /\ balances'[k] = row /\ \A x \in Key : x # k => balances'[x] = balances[x]
    BY <1>2, <1>4, <1>5 DEF IInv, Shapes
<1>7. holds' = [holds EXCEPT ![TheOrder(c)] = a]
    BY DEF TakeHold
<1>8. /\ holds' \in [Orders -> Nat] /\ holds'[TheOrder(c)] = a
      /\ \A o \in Orders : o # TheOrder(c) => holds'[o] = holds[o]
    BY <1>2, <1>7 DEF IInv, Shapes
<1>9. entries' \in [Key -> Int] /\ consumed' \in [Key -> Int] /\ calls' = [calls EXCEPT ![c] = Ended]
    BY DEF TakeHold, IInv, Shapes
<1>91. faults' \in SUBSET Faults /\ \A f \in faults' : f \in faults \/ f.call = c
  <2>1. (holds[TheOrder(c)] > 0) \in BOOLEAN
      BY <1>2 DEF IInv, Shapes
  <2>2. QED
      BY <1>1, <2>1, MisuseFacts DEF TakeHold
<1>10. \A d \in Slots : k \notin DOMAIN calls[d].work \/ d = c
    BY <1>1 DEF LockedFor
<1>11. /\ IInv' /\ ~Running(c)' /\ calls'[c] = Ended
       /\ DOMAIN calls'[c].work = {} /\ ~calls'[c].blind /\ calls'[c].read = 0
       /\ \A d \in Slots : d # c => calls'[d] = calls[d]
    BY <1>6, <1>8, <1>9, <1>91, EndStep
<1>12. QED
    BY <1>2, <1>3, <1>6, <1>8, <1>10, <1>11

LEMMA ReleaseHoldStep ==
    ASSUME IInv, NEW c \in Slots, ReleaseHoldRead(c)
    PROVE  /\ IInv' /\ ~Running(c)' /\ calls'[c] = Ended
           /\ DOMAIN calls'[c].work = {} /\ ~calls'[c].blind /\ calls'[c].read = 0
           /\ \A d \in Slots : d # c => calls'[d] = calls[d]
           /\ Op(c) \in Menu[c] /\ Op(c).uses = {TheUse(c)} /\ TheOrder(c) \in Orders /\ TheKey(c) \in Key
           /\ calls[c].read \in Nat
           /\ \A d \in Slots : TheKey(c) \notin DOMAIN calls[d].work \/ d = c
           /\ DOMAIN calls[c].work = {}
           /\ balances'[TheKey(c)] = [balances[TheKey(c)] EXCEPT !.available = @ + calls[c].read,
                                                                  !.held = @ - calls[c].read]
           /\ \A k \in Key : k # TheKey(c) => balances'[k] = balances[k]
           /\ holds'[TheOrder(c)] = 0
           /\ \A o \in Orders : o # TheOrder(c) => holds'[o] = holds[o]
<1>1. Running(c) /\ Op(c).kind = "release" /\ ~LockedFor(c, TheKey(c))
    BY DEF ReleaseHoldRead, HasHold, UsesHold
<1>2. Op(c) \in Menu[c] /\ Op(c).uses = {TheUse(c)} /\ TheOrder(c) \in Orders /\ TheKey(c) \in Key
    BY <1>1, UseFacts
<1>3. DOMAIN calls[c].work = {} /\ calls[c].read \in Nat
    BY <1>1, <1>2, NoLegs, CallFacts DEF IInv
<1> DEFINE k == TheKey(c)
           a == calls[c].read
           row == [balances[k] EXCEPT !.available = balances[k].available + a, !.held = balances[k].held - a]
<1>4. row \in Row
  <2>1. balances[k] \in Row
      BY <1>2 DEF IInv, Shapes
  <2>2. balances[k].available + a \in Int /\ balances[k].held - a \in Int
      BY <1>3, <2>1 DEF Row
  <2>3. QED
      BY <2>1, <2>2 DEF Row
<1>5. balances' = [balances EXCEPT ![k] = row]
    BY <1>2 DEF ReleaseHoldRead, IInv, Shapes, Row
<1>6. balances' \in [Key -> Row] /\ balances'[k] = row /\ \A x \in Key : x # k => balances'[x] = balances[x]
    BY <1>2, <1>4, <1>5 DEF IInv, Shapes
<1>7. holds' = [holds EXCEPT ![TheOrder(c)] = 0]
    BY DEF ReleaseHoldRead
<1>8. /\ holds' \in [Orders -> Nat] /\ holds'[TheOrder(c)] = 0
      /\ \A o \in Orders : o # TheOrder(c) => holds'[o] = holds[o]
    BY <1>2, <1>7 DEF IInv, Shapes
<1>9. entries' \in [Key -> Int] /\ consumed' \in [Key -> Int] /\ calls' = [calls EXCEPT ![c] = Ended]
    BY DEF ReleaseHoldRead, IInv, Shapes
<1>91. faults' \in SUBSET Faults /\ \A f \in faults' : f \in faults \/ f.call = c
    BY <1>1, MisuseFacts DEF ReleaseHoldRead
<1>10. \A d \in Slots : k \notin DOMAIN calls[d].work \/ d = c
    BY <1>1 DEF LockedFor
<1>11. /\ IInv' /\ ~Running(c)' /\ calls'[c] = Ended
       /\ DOMAIN calls'[c].work = {} /\ ~calls'[c].blind /\ calls'[c].read = 0
       /\ \A d \in Slots : d # c => calls'[d] = calls[d]
    BY <1>6, <1>8, <1>9, <1>91, EndStep
<1>12. QED
    BY <1>2, <1>3, <1>6, <1>8, <1>10, <1>11

\* What a consumption takes.
Taking(c) == IF TheUse(c).amount = 0 THEN calls[c].read ELSE TheUse(c).amount

LEMMA ConsumeHoldStep ==
    ASSUME IInv, NEW c \in Slots, ConsumeHoldRead(c)
    PROVE  /\ IInv' /\ ~Running(c)' /\ calls'[c] = Ended
           /\ DOMAIN calls'[c].work = {} /\ ~calls'[c].blind /\ calls'[c].read = 0
           /\ \A d \in Slots : d # c => calls'[d] = calls[d]
           /\ Op(c) \in Menu[c] /\ Op(c).uses = {TheUse(c)} /\ TheOrder(c) \in Orders /\ TheKey(c) \in Key
           /\ calls[c].read \in Nat /\ TheUse(c).amount \in Nat /\ Taking(c) \in Nat
           /\ \A d \in Slots : TheKey(c) \notin DOMAIN calls[d].work \/ d = c
           /\ DOMAIN calls[c].work = {}
           /\ balances'[TheKey(c)] = [balances[TheKey(c)] EXCEPT !.held = @ - Taking(c)]
           /\ \A k \in Key : k # TheKey(c) => balances'[k] = balances[k]
           /\ holds'[TheOrder(c)] = (IF holds[TheOrder(c)] = 0 THEN 0 ELSE Remaining(calls[c].read, Taking(c)))
           /\ \A o \in Orders : o # TheOrder(c) => holds'[o] = holds[o]
           /\ consumed'[TheKey(c)] = consumed[TheKey(c)] + Taking(c)
           /\ \A k \in Key : k # TheKey(c) => consumed'[k] = consumed[k]
<1>1. Running(c) /\ Op(c).kind = "consume" /\ ~LockedFor(c, TheKey(c))
    BY DEF ConsumeHoldRead, HasHold, UsesHold
<1>2. /\ Op(c) \in Menu[c] /\ Op(c).uses = {TheUse(c)} /\ TheOrder(c) \in Orders /\ TheKey(c) \in Key
      /\ TheUse(c).amount \in Nat
    BY <1>1, UseFacts
<1>3. DOMAIN calls[c].work = {} /\ calls[c].read \in Nat
    BY <1>1, <1>2, NoLegs, CallFacts DEF IInv
<1> DEFINE k == TheKey(c)
           a == Taking(c)
           row == [balances[k] EXCEPT !.held = balances[k].held - a]
           rest == IF holds[TheOrder(c)] = 0 THEN 0 ELSE Remaining(calls[c].read, a)
<1>4. a \in Nat /\ rest \in Nat
    BY <1>2, <1>3 DEF Taking, Remaining
<1>5. row \in Row
    BY <1>2, <1>4 DEF IInv, Shapes, Row
<1>6. /\ balances' = [balances EXCEPT ![k] = row]
      /\ holds' = [holds EXCEPT ![TheOrder(c)] = rest]
      /\ consumed' = [consumed EXCEPT ![k] = consumed[k] + a]
  <2> HIDE DEF a
  <2>1. /\ balances' = [balances EXCEPT ![k].held = @ - a]
        /\ holds' = [holds EXCEPT ![TheOrder(c)] = IF @ = 0 THEN 0 ELSE Remaining(calls[c].read, a)]
        /\ consumed' = [consumed EXCEPT ![k] = @ + a]
      BY DEF ConsumeHoldRead, Taking, a
  <2>2. QED
      BY <1>2, <2>1 DEF IInv, Shapes, Row
<1> HIDE DEF a, rest
<1>7. balances' \in [Key -> Row] /\ balances'[k] = row /\ \A x \in Key : x # k => balances'[x] = balances[x]
    BY <1>2, <1>5, <1>6 DEF IInv, Shapes
<1>8. /\ holds' \in [Orders -> Nat] /\ holds'[TheOrder(c)] = rest
      /\ \A o \in Orders : o # TheOrder(c) => holds'[o] = holds[o]
    BY <1>2, <1>4, <1>6 DEF IInv, Shapes
<1>9. /\ consumed' \in [Key -> Int] /\ consumed'[k] = consumed[k] + a
      /\ \A x \in Key : x # k => consumed'[x] = consumed[x]
    BY <1>2, <1>4, <1>6 DEF IInv, Shapes
<1>10. entries' \in [Key -> Int] /\ calls' = [calls EXCEPT ![c] = Ended]
    BY DEF ConsumeHoldRead, IInv, Shapes
<1>101. faults' \in SUBSET Faults /\ \A f \in faults' : f \in faults \/ f.call = c
    BY <1>1, MisuseFacts DEF ConsumeHoldRead
<1>11. \A d \in Slots : k \notin DOMAIN calls[d].work \/ d = c
    BY <1>1 DEF LockedFor
<1>12. /\ IInv' /\ ~Running(c)' /\ calls'[c] = Ended
       /\ DOMAIN calls'[c].work = {} /\ ~calls'[c].blind /\ calls'[c].read = 0
       /\ \A d \in Slots : d # c => calls'[d] = calls[d]
    BY <1>7, <1>8, <1>9, <1>10, <1>101, EndStep
<1>13. QED
    BY <1>2, <1>3, <1>4, <1>7, <1>8, <1>9, <1>11, <1>12 DEF a, rest
-----------------------------------------------------------------------------
(* The types, and who has which rows                                        *)

LEMMA RollBackStep ==
    ASSUME IInv, NEW c \in Slots, RollBack(c)
    PROVE  /\ IInv' /\ ~Running(c)' /\ calls'[c] = Ended
           /\ DOMAIN calls'[c].work = {} /\ ~calls'[c].blind /\ calls'[c].read = 0
           /\ \A d \in Slots : d # c => calls'[d] = calls[d]
           /\ UNCHANGED tables
<1>1. /\ calls' = [calls EXCEPT ![c] = Ended] /\ UNCHANGED tables
      /\ balances' \in [Key -> Row] /\ holds' \in [Orders -> Nat]
      /\ entries' \in [Key -> Int] /\ consumed' \in [Key -> Int]
      /\ faults' \in SUBSET Faults /\ \A f \in faults' : f \in faults
    BY DEF RollBack, tables, IInv, Shapes
<1>2. QED
    BY <1>1, EndStep

\* An upsert makes the row of the next leg.
LEMMA UpsertStep ==
    ASSUME IInv, NEW c \in Slots, Upsert(c)
    PROVE  /\ IInv' /\ UNCHANGED tables
           /\ calls'[c].at = "running" /\ calls'[c].op = calls[c].op
           /\ calls'[c].done = calls[c].done + 1 /\ ~calls'[c].blind /\ calls'[c].read = calls[c].read
           /\ DOMAIN calls'[c].work = {NextLeg(c).key} \cup DOMAIN calls[c].work
           /\ calls'[c].work[NextLeg(c).key] = Balance(NextLeg(c).delta, 0)
           /\ \A k \in DOMAIN calls[c].work : k # NextLeg(c).key => calls'[c].work[k] = calls[c].work[k]
           /\ calls'[c].slips = calls[c].slips \cup Slips(c, NextLeg(c))
           /\ \A d \in Slots : d # c => calls'[d] = calls[d]
<1> DEFINE row == Balance(NextLeg(c).delta, 0)
<1>1. /\ InLegs(c) /\ ~LockedFor(c, NextLeg(c).key) /\ UNCHANGED tables
      /\ Write(c, NextLeg(c).key, row, Slips(c, NextLeg(c)))
    BY DEF Upsert
<1>11. Slips(c, NextLeg(c)) \in SUBSET SlipsOf(c)
    BY <1>1, NextLegFacts DEF Slips, Fault, SlipsOf
<1>2. row \in Row /\ row.exists
    BY <1>1, NextLegFacts DEF Balance, Row
<1> HIDE DEF row
<1>3. QED
    BY <1>1, <1>11, <1>2, WriteStep DEF row

\* An update adds the next leg to the row.
LEMMA UpdateStep ==
    ASSUME IInv, NEW c \in Slots, UpdateBalance(c)
    PROVE  /\ IInv' /\ UNCHANGED tables
           /\ calls'[c].at = "running" /\ calls'[c].op = calls[c].op
           /\ calls'[c].done = calls[c].done + 1 /\ ~calls'[c].blind /\ calls'[c].read = calls[c].read
           /\ DOMAIN calls'[c].work = {NextLeg(c).key} \cup DOMAIN calls[c].work
           /\ calls'[c].work[NextLeg(c).key] = Balance(Seen(c, NextLeg(c).key).available + NextLeg(c).delta,
                                                       Seen(c, NextLeg(c).key).held)
           /\ \A k \in DOMAIN calls[c].work : k # NextLeg(c).key => calls'[c].work[k] = calls[c].work[k]
           /\ calls'[c].slips = calls[c].slips
           /\ \A d \in Slots : d # c => calls'[d] = calls[d]
<1> DEFINE old == Seen(c, NextLeg(c).key)
           row == Balance(old.available + NextLeg(c).delta, old.held)
<1>1. InLegs(c) /\ ~LockedFor(c, NextLeg(c).key) /\ UNCHANGED tables /\ Write(c, NextLeg(c).key, row, {})
    BY DEF UpdateBalance, GetsRow
<1>2. NextLeg(c).key \in Key /\ NextLeg(c).delta \in Int
    BY <1>1, NextLegFacts
<1>3. old \in Row
    BY <1>2, SeenFacts DEF IInv
<1>4. old.available + NextLeg(c).delta \in Int /\ old.held \in Int
    BY <1>2, <1>3 DEF Row
<1> HIDE DEF old
<1>5. row \in Row /\ row.exists
    BY <1>4 DEF Balance, Row
<1> HIDE DEF row
<1>6. {} \in SUBSET SlipsOf(c) /\ calls[c].slips \cup {} = calls[c].slips
    OBVIOUS
<1>7. QED
    BY <1>1, <1>5, <1>6, WriteStep DEF row, old

LEMMA InitInv == Init => IInv
<1> SUFFICES ASSUME Init PROVE IInv
    OBVIOUS
<1>1. calls = [c \in Slots |-> Idle]
    BY DEF Init
<1>2. Shapes
    BY <1>1, IdleFacts, KeyAssumption DEF Init, Shapes
<1>3. CallsSound /\ Locked /\ FaultsOfEnded
    BY <1>1, IdleFacts DEF CallsSound, Locked, FaultsOfEnded, Init
<1>4. QED
    BY <1>2, <1>3 DEF IInv

\* Every step is one of these.
LEMMA Steps ==
    ASSUME Next
    PROVE  \E c \in Slots : \/ Start(c) \/ FindNoRow(c) \/ Upsert(c) \/ UpdateBalance(c) \/ Commit(c)
                            \/ TakeHold(c) \/ ReadHold(c) \/ ReleaseHoldRead(c) \/ ConsumeHoldRead(c)
                            \/ RollBack(c)
BY DEF Next, Process, Insufficient, RefuseHold, FindNoHold, DeadlockAbort, Crash

LEMMA NextInv == IInv /\ [Next]_vars => IInv'
<1> SUFFICES ASSUME IInv, [Next]_vars PROVE IInv'
    OBVIOUS
<1>1. CASE UNCHANGED vars
    BY <1>1 DEF vars, IInv, Shapes, CallsSound, Running, Progress, Locked, FaultsOfEnded
<1>2. CASE Next
  <2>1. PICK c \in Slots : \/ Start(c) \/ FindNoRow(c) \/ Upsert(c) \/ UpdateBalance(c) \/ Commit(c)
                           \/ TakeHold(c) \/ ReadHold(c) \/ ReleaseHoldRead(c) \/ ConsumeHoldRead(c)
                           \/ RollBack(c)
      BY <1>2, Steps
  <2>2. CASE Start(c)
      BY <2>2, StartStep
  <2>3. CASE FindNoRow(c) \/ ReadHold(c)
      BY <2>3, FindNoRowStep, ReadHoldStep
  <2>4. CASE Upsert(c) \/ UpdateBalance(c)
      BY <2>4, UpsertStep, UpdateStep
  <2>5. CASE Commit(c) \/ RollBack(c)
      BY <2>5, CommitStep, RollBackStep
  <2>6. CASE TakeHold(c) \/ ReleaseHoldRead(c) \/ ConsumeHoldRead(c)
      BY <2>6, TakeHoldStep, ReleaseHoldStep, ConsumeHoldStep
  <2>7. QED
      BY <2>1, <2>2, <2>3, <2>4, <2>5, <2>6
<1>3. QED
    BY <1>1, <1>2

\* Rows, holds and calls keep their types, a running call has written the legs that it
\* counts and locked just their rows, and no row is locked twice.
THEOREM LedgerInductive == Spec => []IInv
<1>1. Init => IInv
    BY InitInv
<1>2. IInv /\ [Next]_vars => IInv'
    BY NextInv
<1>3. QED
    BY <1>1, <1>2, PTL DEF Spec

\* Every variable keeps its type.
THEOREM LedgerTypeCorrect == Spec => []TypeOK
<1>1. IInv => TypeOK
  <2> SUFFICES ASSUME IInv PROVE TypeOK
      OBVIOUS
  <2>1. ASSUME NEW c \in Slots
        PROVE  /\ calls[c].at \in {"idle", "running", "ended"}
               /\ calls[c].op \in Menu[c] \cup {NoOperation}
               /\ calls[c].done \in 0..Len(calls[c].op.legs)
               /\ calls[c].blind \in BOOLEAN /\ calls[c].read \in Nat
               /\ calls[c].slips \subseteq SlipsOf(c)
               /\ DOMAIN calls[c].work \subseteq Key
               /\ \A k \in DOMAIN calls[c].work : calls[c].work[k] \in Row /\ calls[c].work[k].exists
    <3>1. CASE Running(c) /\ Progress(c)
        BY <3>1, CallFacts DEF IInv, Progress
    <3>2. CASE calls[c] \in {Idle, Ended}
      <4>1. 0 \in 0..Len(NoOperation.legs)
          BY DEF NoOperation
      <4>2. QED
          BY <3>2, <4>1, IdleFacts, CallFacts DEF IInv
    <3>3. QED
        BY <3>1, <3>2 DEF IInv, CallsSound
  <2>2. QED
      BY <2>1 DEF IInv, Shapes, TypeOK, SlipsOf, Faults
<1>2. QED
    BY <1>1, LedgerInductive, PTL
-----------------------------------------------------------------------------
(* No overdraft                                                             *)

\* What was noted stays.
LEMMA FaultsGrow ==
    ASSUME NEW c \in Slots,
           \/ Start(c) \/ FindNoRow(c) \/ Upsert(c) \/ UpdateBalance(c) \/ Commit(c)
           \/ TakeHold(c) \/ ReadHold(c) \/ ReleaseHoldRead(c) \/ ConsumeHoldRead(c)
           \/ RollBack(c)
    PROVE  \A f \in faults : f \in faults'
<1>1. CASE Start(c) \/ FindNoRow(c) \/ Upsert(c) \/ UpdateBalance(c) \/ ReadHold(c) \/ RollBack(c)
    BY <1>1 DEF Start, FindNoRow, Upsert, UpdateBalance, ReadHold, RollBack, tables
<1>2. CASE Commit(c)
    BY <1>2 DEF Commit
<1>3. CASE TakeHold(c) \/ ReleaseHoldRead(c)
    BY <1>3 DEF TakeHold, ReleaseHoldRead, Misuse
<1>4. CASE ConsumeHoldRead(c)
    BY <1>4 DEF ConsumeHoldRead, Misuse
<1>5. QED
    BY <1>1, <1>2, <1>3, <1>4

\* A negative balance, or a negative row in anybody's work, was made by a debit.
Debited(k) == \E f \in faults : f.key = k /\ f.kind = "debit"
NInv ==
    /\ IInv
    /\ \A k \in Key : balances[k].available < 0 => Debited(k)
    /\ \A c \in Slots : \A k \in DOMAIN calls[c].work :
           calls[c].work[k].available < 0 => Fault(c, "debit", k) \in calls[c].slips

LEMMA NoOverdraftInit == Init => NInv
<1> SUFFICES ASSUME Init PROVE NInv
    OBVIOUS
<1>1. \A c \in Slots : DOMAIN calls[c].work = {}
    BY IdleFacts DEF Init
<1>2. \A k \in Key : ~(balances[k].available < 0)
  <2>1. \A k \in Key : Opening[k] \in Row /\ Opening[k].available >= 0
      BY KeyAssumption, OpeningAssumption
  <2>2. QED
      BY <2>1 DEF Init, Row
<1>3. QED
    BY <1>1, <1>2, InitInv DEF NInv

\* A step that leaves the tables alone and adds one row at most to the work of its
\* call, with the slip that a negative one is.
LEMMA WriteKeepsNInv ==
    ASSUME NInv, IInv', NEW c \in Slots, UNCHANGED tables, NEW k \in Key,
           DOMAIN calls'[c].work \subseteq {k} \cup DOMAIN calls[c].work,
           \A x \in DOMAIN calls[c].work : x # k => calls'[c].work[x] = calls[c].work[x],
           calls'[c].work[k].available < 0 => Fault(c, "debit", k) \in calls'[c].slips,
           \A f \in calls[c].slips : f \in calls'[c].slips,
           \A d \in Slots : d # c => calls'[d] = calls[d]
    PROVE  NInv'
<1>1. ASSUME NEW d \in Slots, NEW x \in DOMAIN calls'[d].work, calls'[d].work[x].available < 0
      PROVE  Fault(d, "debit", x) \in calls'[d].slips
  <2>1. CASE d = c
      BY <1>1, <2>1 DEF NInv
  <2>2. CASE d # c
      BY <1>1, <2>2 DEF NInv
  <2>3. QED
      BY <2>1, <2>2
<1>2. \A x \in Key : balances'[x].available < 0 => Debited(x)'
    BY DEF NInv, tables, Debited
<1>3. QED
    BY <1>1, <1>2 DEF NInv, Fault

\* A step that ends its call, or opens it, and leaves the balances in order.
LEMMA EndKeepsNInv ==
    ASSUME NInv, IInv', NEW c \in Slots,
           \A k \in Key : balances'[k].available < 0 => \E f \in faults' : f.key = k /\ f.kind = "debit",
           DOMAIN calls'[c].work = {},
           \A d \in Slots : d # c => calls'[d] = calls[d]
    PROVE  NInv'
<1>1. ASSUME NEW d \in Slots, NEW x \in DOMAIN calls'[d].work, calls'[d].work[x].available < 0
      PROVE  Fault(d, "debit", x) \in calls'[d].slips
  <2>1. d # c /\ calls'[d] = calls[d]
      BY <1>1
  <2>2. QED
      BY <1>1, <2>1 DEF NInv
<1>2. QED
    BY <1>1 DEF NInv, Fault, Debited

\* Balances that are negative only where they were.
LEMMA BalancesKeepNInv ==
    ASSUME NInv, \A f \in faults : f \in faults',
           \A k \in Key : balances'[k].available < 0 => balances[k].available < 0
    PROVE  \A k \in Key : balances'[k].available < 0 => \E f \in faults' : f.key = k /\ f.kind = "debit"
BY DEF NInv, Debited

LEMMA NoOverdraftNext == NInv /\ [Next]_vars => NInv'
<1> SUFFICES ASSUME NInv, [Next]_vars PROVE NInv'
    OBVIOUS
<1>1. IInv /\ IInv'
    BY NextInv DEF NInv
<1>2. CASE UNCHANGED vars
    BY <1>1, <1>2 DEF vars, NInv, Debited
<1>3. ASSUME Next PROVE NInv'
  <2>1. PICK c \in Slots : \/ Start(c) \/ FindNoRow(c) \/ Upsert(c) \/ UpdateBalance(c) \/ Commit(c)
                           \/ TakeHold(c) \/ ReadHold(c) \/ ReleaseHoldRead(c) \/ ConsumeHoldRead(c)
                           \/ RollBack(c)
      BY <1>3, Steps
  <2>2. \A k \in Key : balances[k] \in Row
      BY <1>1 DEF IInv, Shapes
  <2>0. \A f \in faults : f \in faults'
      BY <2>1, FaultsGrow
  <2>3. CASE Start(c) \/ RollBack(c)
    <3>1. DOMAIN calls'[c].work = {} /\ \A d \in Slots : d # c => calls'[d] = calls[d]
        BY <1>1, <2>3, StartStep, RollBackStep
    <3>2. UNCHANGED balances
        BY <2>3 DEF Start, RollBack, tables
    <3>3. QED
        BY <1>1, <2>0, <3>1, <3>2, BalancesKeepNInv, EndKeepsNInv
  <2>5. CASE FindNoRow(c) \/ ReadHold(c)
    <3>1. /\ calls'[c].work = calls[c].work /\ calls'[c].slips = calls[c].slips
          /\ \A d \in Slots : d # c => calls'[d] = calls[d]
      <4>1. calls[c] \in Call
          BY <1>1, CallFacts DEF IInv
      <4>2. CASE FindNoRow(c)
          BY <1>1, <4>1, <4>2, FindNoRowStep DEF Call
      <4>3. CASE ReadHold(c)
          BY <1>1, <4>1, <4>3, ReadHoldStep DEF Call
      <4>4. QED
          BY <2>5, <4>2, <4>3
    <3>2. UNCHANGED tables
        BY <2>5 DEF FindNoRow, ReadHold
    <3>3. ASSUME NEW d \in Slots PROVE calls'[d].work = calls[d].work /\ calls'[d].slips = calls[d].slips
        BY <3>1
    <3>4. QED
        BY <1>1, <3>2, <3>3 DEF NInv, tables, Debited, Fault
  <2>7. CASE Upsert(c)
    <3>1. InLegs(c)
        BY <2>7 DEF Upsert
    <3>2. NextLeg(c).key \in Key /\ NextLeg(c).delta \in Int
        BY <1>1, <3>1, NextLegFacts
    <3>3. Balance(NextLeg(c).delta, 0).available = NextLeg(c).delta
        BY DEF Balance
    <3>4. NextLeg(c).delta < 0 => Fault(c, "debit", NextLeg(c).key) \in Slips(c, NextLeg(c))
        BY DEF Slips, Fault
    <3>5. /\ calls'[c].work[NextLeg(c).key] = Balance(NextLeg(c).delta, 0)
          /\ calls'[c].slips = calls[c].slips \cup Slips(c, NextLeg(c))
        BY <1>1, <2>7, UpsertStep
    <3>6. QED
        BY <1>1, <2>7, <3>2, <3>3, <3>4, <3>5, UpsertStep, WriteKeepsNInv
  <2>8. CASE UpdateBalance(c)
    <3>1. InLegs(c) /\ Sufficient(Seen(c, NextLeg(c).key), NextLeg(c).delta)
        BY <2>8 DEF UpdateBalance, GetsRow
    <3>2. NextLeg(c).key \in Key /\ NextLeg(c).delta \in Int /\ Seen(c, NextLeg(c).key) \in Row
        BY <1>1, <3>1, NextLegFacts, SeenFacts DEF IInv
    <3>3. ~(Balance(Seen(c, NextLeg(c).key).available + NextLeg(c).delta, Seen(c, NextLeg(c).key).held).available < 0)
        BY <3>1, <3>2 DEF Balance, Sufficient, Row
    <3>4. calls'[c].work[NextLeg(c).key] = Balance(Seen(c, NextLeg(c).key).available + NextLeg(c).delta,
                                                    Seen(c, NextLeg(c).key).held)
        BY <1>1, <2>8, UpdateStep
    <3>5. ~(calls'[c].work[NextLeg(c).key].available < 0)
        BY <3>3, <3>4
    <3>6. QED
        BY <1>1, <2>8, <3>2, <3>5, UpdateStep, WriteKeepsNInv
  <2>9. CASE Commit(c)
    <3>1. ASSUME NEW k \in Key, balances'[k].available < 0
          PROVE  \E f \in faults' : f.key = k /\ f.kind = "debit"
      <4>1. Seen(c, k).available < 0
          BY <1>1, <2>9, <3>1, CommitBalances
      <4>2. CASE k \in DOMAIN calls[c].work
        <5>1. Fault(c, "debit", k) \in calls[c].slips
            BY <4>1, <4>2 DEF NInv, Seen
        <5>2. Fault(c, "debit", k) \in faults'
            BY <2>9, <5>1 DEF Commit
        <5>3. QED
            BY <5>2 DEF Fault
      <4>3. CASE k \notin DOMAIN calls[c].work
        <5>1. Debited(k)
            BY <4>1, <4>3 DEF NInv, Seen
        <5>2. QED
            BY <2>0, <5>1 DEF Debited
      <4>4. QED
          BY <4>2, <4>3
    <3>2. QED
        BY <1>1, <2>9, <3>1, CommitStep, EndKeepsNInv
  <2>10. CASE TakeHold(c)
    <3>1. ASSUME NEW k \in Key, balances'[k].available < 0 PROVE balances[k].available < 0
      <4>1. CASE k # TheKey(c)
        <5>1. balances'[k] = balances[k]
            BY <1>1, <2>10, <4>1, TakeHoldStep
        <5>2. QED
            BY <3>1, <5>1
      <4>2. CASE k = TheKey(c)
        <5>1. /\ balances'[k] = [balances[k] EXCEPT !.available = @ - TheUse(c).amount,
                                                    !.held = @ + TheUse(c).amount]
              /\ TheUse(c).amount \in Nat
            BY <1>1, <2>10, <4>2, TakeHoldStep
        <5>2. balances[k].available >= TheUse(c).amount
            BY <2>10, <4>2 DEF TakeHold
        <5>3. balances'[k].available = balances[k].available - TheUse(c).amount
            BY <2>2, <5>1 DEF Row
        <5>4. balances[k].available \in Int
            BY <2>2 DEF Row
        <5>5. QED
            BY <3>1, <5>1, <5>2, <5>3, <5>4
      <4>3. QED
          BY <4>1, <4>2
    <3>2. QED
        BY <1>1, <2>0, <2>10, <3>1, TakeHoldStep, BalancesKeepNInv, EndKeepsNInv
  <2>11. CASE ReleaseHoldRead(c)
    <3>1. ASSUME NEW k \in Key, balances'[k].available < 0 PROVE balances[k].available < 0
      <4>1. CASE k # TheKey(c)
        <5>1. balances'[k] = balances[k]
            BY <1>1, <2>11, <4>1, ReleaseHoldStep
        <5>2. QED
            BY <3>1, <5>1
      <4>2. CASE k = TheKey(c)
        <5>1. /\ balances'[k] = [balances[k] EXCEPT !.available = @ + calls[c].read,
                                                    !.held = @ - calls[c].read]
              /\ calls[c].read \in Nat
            BY <1>1, <2>11, <4>2, ReleaseHoldStep
        <5>2. balances'[k].available = balances[k].available + calls[c].read
            BY <2>2, <5>1 DEF Row
        <5>3. balances[k].available \in Int
            BY <2>2 DEF Row
        <5>4. QED
            BY <3>1, <5>1, <5>2, <5>3
      <4>3. QED
          BY <4>1, <4>2
    <3>2. QED
        BY <1>1, <2>0, <2>11, <3>1, ReleaseHoldStep, BalancesKeepNInv, EndKeepsNInv
  <2>12. CASE ConsumeHoldRead(c)
    <3>1. ASSUME NEW k \in Key PROVE balances'[k].available = balances[k].available
      <4>1. CASE k # TheKey(c)
          BY <1>1, <2>12, <4>1, ConsumeHoldStep
      <4>2. CASE k = TheKey(c)
        <5>1. balances'[k] = [balances[k] EXCEPT !.held = @ - Taking(c)]
            BY <1>1, <2>12, <4>2, ConsumeHoldStep
        <5>2. QED
            BY <2>2, <5>1 DEF Row
      <4>3. QED
          BY <4>1, <4>2
    <3>2. QED
        BY <1>1, <2>0, <2>12, <3>1, ConsumeHoldStep, BalancesKeepNInv, EndKeepsNInv
  <2>13. QED
      BY <2>1, <2>3, <2>5, <2>7, <2>8, <2>9, <2>10, <2>11, <2>12
<1>4. QED
    BY <1>2, <1>3

\* A balance becomes negative only by a debit that finds no row and commits: every other
\* check of what is available is made under the lock that the write is made under,
\* whatever calls there are and whoever shares a hold.
THEOREM NeverOverdrawnCorrect == Spec => []NeverOverdrawn
<1>1. NInv => NeverOverdrawn
    BY DEF NInv, Debited, NeverOverdrawn, Faulty
<1>2. QED
    BY <1>1, NoOverdraftInit, NoOverdraftNext, PTL DEF Spec
-----------------------------------------------------------------------------
(* The entries explain the balances                                         *)

\* What a call sees of a balance is what is committed plus the legs it has written,
\* unless it has written over the row.
Overwrites(c, k) == Fault(c, "overwrite", k) \in calls[c].slips
View(c) ==
    \A k \in Key :
        \/ Overwrites(c, k)
        \/ /\ Seen(c, k).held = balances[k].held
           /\ Seen(c, k).available = balances[k].available + Partial(calls[c].op, k, calls[c].done)

\* A row that a call has found missing is none of those it has written.
Blind(c) == calls[c].blind => NextLeg(c).key \notin DOMAIN calls[c].work

\* There are no funds where there is no row.
Rows ==
    /\ \A k \in Key : ~balances[k].exists => balances[k].available = 0 /\ balances[k].held = 0
    /\ \A o \in Orders : holds[o] > 0 => balances[HoldKey[o]].exists
    /\ \A c \in Slots : UsesHold(c) /\ calls[c].read > 0 => balances[TheKey(c)].exists

BInv ==
    /\ IInv
    /\ \A c \in Slots : View(c) /\ Blind(c)
    /\ Rows
    /\ EntriesExplainBalances

LEMMA BooksInit == Init => BInv
<1> SUFFICES ASSUME Init PROVE BInv
    OBVIOUS
<1>1. IInv
    BY InitInv
<1>2. ASSUME NEW c \in Slots
      PROVE  calls[c] = Idle
    BY DEF Init
<1>3. ASSUME NEW c \in Slots
      PROVE  View(c) /\ Blind(c) /\ ~UsesHold(c)
  <2>1. ASSUME NEW k \in Key
        PROVE  /\ Seen(c, k).held = balances[k].held
               /\ Seen(c, k).available = balances[k].available + Partial(calls[c].op, k, calls[c].done)
    <3>1. Seen(c, k) = balances[k]
        BY <1>2, IdleFacts DEF Seen
    <3>2. Partial(calls[c].op, k, calls[c].done) = 0
        BY <1>2, IdleFacts, PartialFacts DEF Operations
    <3>3. balances[k].available \in Int
        BY <1>1 DEF IInv, Shapes, Row
    <3>4. QED
        BY <3>1, <3>2, <3>3
  <2>2. Blind(c)
      BY <1>2, IdleFacts DEF Blind
  <2>3. ~UsesHold(c)
      BY <1>2, IdleFacts DEF UsesHold, Running
  <2>4. QED
      BY <2>1, <2>2, <2>3 DEF View, Seen
<1>4. Rows
  <2>1. ASSUME NEW k \in Key, ~balances[k].exists
        PROVE  balances[k].available = 0 /\ balances[k].held = 0
    <3>1. balances[k] = NoRow
        BY <2>1, OpeningAssumption DEF Init
    <3>2. QED
        BY <3>1 DEF NoRow
  <2>2. QED
      BY <1>3, <2>1, KeyAssumption DEF Rows, Init
<1>5. EntriesExplainBalances
  <2>1. ASSUME NEW k \in Key
        PROVE  balances[k].available + balances[k].held =
                  Opening[k].available + Opening[k].held + entries[k] - consumed[k]
    <3>1. Opening[k].available \in Int /\ Opening[k].held \in Int
        BY KeyAssumption DEF Row
    <3>2. QED
        BY <3>1 DEF Init
  <2>2. QED
      BY <2>1 DEF EntriesExplainBalances, Explained
<1>6. QED
    BY <1>1, <1>3, <1>4, <1>5 DEF BInv

\* A call that is untouched, and whose rows are, sees what it saw.
LEMMA OthersSee ==
    ASSUME IInv, Shapes', NEW c \in Slots, View(c), calls'[c] = calls[c],
           \A k \in DOMAIN calls[c].work : /\ balances'[k].available = balances[k].available
                                           /\ balances'[k].held = balances[k].held
    PROVE  View(c)'
<1> SUFFICES ASSUME NEW k \in Key
             PROVE  \/ Overwrites(c, k)
                    \/ /\ Seen(c, k)'.held = balances'[k].held
                       /\ Seen(c, k)'.available =
                             balances'[k].available + Partial(calls'[c].op, k, calls'[c].done)
    BY DEF View, Partial, LegDeltas, Overwrites, Fault
<1>0. SUFFICES ASSUME ~Overwrites(c, k)
               PROVE  /\ Seen(c, k)'.held = balances'[k].held
                      /\ Seen(c, k)'.available =
                            balances'[k].available + Partial(calls'[c].op, k, calls'[c].done)
    OBVIOUS
<1>1. /\ Seen(c, k).held = balances[k].held
      /\ Seen(c, k).available = balances[k].available + Partial(calls[c].op, k, calls[c].done)
    BY <1>0 DEF View
<1>2. CASE k \in DOMAIN calls[c].work
  <2>1. Seen(c, k)' = Seen(c, k)
      BY <1>2 DEF Seen
  <2>2. QED
      BY <1>1, <1>2, <2>1
<1>3. CASE k \notin DOMAIN calls[c].work
  <2>1. Seen(c, k)' = balances'[k] /\ Seen(c, k) = balances[k]
      BY <1>3 DEF Seen
  <2>2. balances[k].available \in Int /\ balances'[k].available \in Int
      BY DEF IInv, Shapes, Row
  <2>3. Partial(calls[c].op, k, calls[c].done) \in Int
      BY PartialIsInt
  <2>4. Partial(calls[c].op, k, calls[c].done) = 0
      BY <1>1, <2>1, <2>2, <2>3
  <2>5. QED
      BY <2>1, <2>2, <2>4
<1>4. QED
    BY <1>2, <1>3

\* A call that has ended, or that has just started, sees what is committed.
LEMMA FreshSees ==
    ASSUME Shapes', NEW c \in Slots, DOMAIN calls'[c].work = {}, calls'[c].done = 0
    PROVE  View(c)'
<1>1. calls'[c].op \in Operations
    BY DEF Shapes, Call
<1>2. ASSUME NEW k \in Key
      PROVE  /\ Seen(c, k)'.held = balances'[k].held
             /\ Seen(c, k)'.available =
                   balances'[k].available + Partial(calls'[c].op, k, calls'[c].done)
  <2>1. Seen(c, k)' = balances'[k]
      BY DEF Seen
  <2>2. Partial(calls'[c].op, k, calls'[c].done) = 0
      BY <1>1, PartialFacts
  <2>3. balances'[k].available \in Int
      BY DEF Shapes, Row
  <2>4. QED
      BY <2>1, <2>2, <2>3
<1>3. QED
    BY <1>2 DEF View, Partial, LegDeltas

\* The calls that are not touched by a step that changes no row they have locked.
LEMMA OthersKeepBooks ==
    ASSUME BInv, IInv', NEW d \in Slots, calls'[d] = calls[d],
           \A k \in DOMAIN calls[d].work : /\ balances'[k].available = balances[k].available
                                           /\ balances'[k].held = balances[k].held
    PROVE  (View(d) /\ Blind(d))'
<1>1. View(d)'
    BY OthersSee DEF BInv, IInv
<1>2. Blind(d)'
    BY DEF BInv, Blind, NextLeg, Op
<1>3. QED
    BY <1>1, <1>2

\* A step that leaves the tables alone, with what has to be seen to about its call.
LEMMA QuietStep ==
    ASSUME BInv, IInv', NEW c \in Slots, UNCHANGED tables,
           \A d \in Slots : d # c => calls'[d] = calls[d],
           View(c)', Blind(c)',
           (UsesHold(c) /\ calls[c].read > 0 => balances[TheKey(c)].exists)'
    PROVE  BInv'
<1>1. /\ balances' = balances /\ holds' = holds /\ entries' = entries /\ consumed' = consumed
      /\ faults' = faults
    BY DEF tables
<1>2. \A d \in Slots : (View(d) /\ Blind(d))'
  <2>1. ASSUME NEW d \in Slots, d # c PROVE (View(d) /\ Blind(d))'
      BY <1>1, <2>1, OthersKeepBooks
  <2>2. QED
      BY <2>1
<1>3. Rows'
  <2>1. ASSUME NEW d \in Slots
        PROVE  (UsesHold(d) /\ calls[d].read > 0 => balances[TheKey(d)].exists)'
    <3>1. CASE d = c
        BY <3>1
    <3>2. CASE d # c
        BY <1>1, <3>2 DEF BInv, Rows, UsesHold, Running, Op, TheKey, TheOrder, TheUse
    <3>3. QED
        BY <3>1, <3>2
  <2>2. QED
      BY <1>1, <2>1 DEF BInv, Rows
<1>4. EntriesExplainBalances'
    BY <1>1 DEF BInv, EntriesExplainBalances, Explained, Faulty
<1>5. QED
    BY <1>2, <1>3, <1>4 DEF BInv

LEMMA StartKeepsBooks ==
    ASSUME BInv, IInv', NEW c \in Slots, Start(c) \/ RollBack(c)
    PROVE  BInv'
<1>1. IInv /\ IInv'
    BY DEF BInv
<1>2. /\ DOMAIN calls'[c].work = {} /\ ~calls'[c].blind /\ calls'[c].read = 0 /\ calls'[c].done = 0
      /\ \A d \in Slots : d # c => calls'[d] = calls[d]
    BY <1>1, StartStep, RollBackStep, IdleFacts
<1>3. UNCHANGED tables
    BY DEF Start, RollBack
<1>4. View(c)'
    BY <1>1, <1>2, FreshSees DEF IInv
<1>5. Blind(c)'
    BY <1>2 DEF Blind
<1>6. (UsesHold(c) /\ calls[c].read > 0 => balances[TheKey(c)].exists)'
    BY <1>2
<1>7. QED
    BY <1>2, <1>3, <1>4, <1>5, <1>6, QuietStep

LEMMA FindNoRowKeepsBooks ==
    ASSUME BInv, IInv', NEW c \in Slots, FindNoRow(c)
    PROVE  BInv'
<1>1. IInv /\ IInv'
    BY DEF BInv
<1>2. /\ calls'[c] = [calls[c] EXCEPT !.blind = TRUE] /\ calls[c] \in Call
      /\ \A d \in Slots : d # c => calls'[d] = calls[d]
    BY <1>1, FindNoRowStep, CallFacts DEF IInv
<1>3. /\ calls'[c].work = calls[c].work /\ calls'[c].op = calls[c].op
      /\ calls'[c].done = calls[c].done /\ calls'[c].read = calls[c].read
      /\ calls'[c].at = calls[c].at /\ NextLeg(c)' = NextLeg(c) /\ calls'[c].slips = calls[c].slips
    BY <1>2 DEF Call, NextLeg, Op
<1>4. UNCHANGED tables /\ UNCHANGED balances /\ InLegs(c) /\ ~Seen(c, NextLeg(c).key).exists
    BY DEF FindNoRow, tables
<1>5. View(c)'
    BY <1>3, <1>4 DEF BInv, View, Seen, Partial, LegDeltas, Overwrites, Fault
<1>6. Blind(c)'
  <2>1. NextLeg(c).key \notin DOMAIN calls[c].work
      BY <1>1, <1>4, IdleFacts DEF Seen, IInv, CallsSound, Progress
  <2>3. QED
      BY <1>3, <2>1 DEF Blind
<1>7. ~UsesHold(c)'
    BY <1>3, <1>4 DEF InLegs, HasLegs, UsesHold, Op
<1>8. QED
    BY <1>2, <1>4, <1>5, <1>6, <1>7, QuietStep

LEMMA ReadHoldKeepsBooks ==
    ASSUME BInv, IInv', NEW c \in Slots, ReadHold(c)
    PROVE  BInv'
<1>1. IInv /\ IInv'
    BY DEF BInv
<1>2. /\ calls'[c] = [calls[c] EXCEPT !.read = holds[TheOrder(c)]] /\ calls[c] \in Call
      /\ \A d \in Slots : d # c => calls'[d] = calls[d]
    BY <1>1, ReadHoldStep, CallFacts DEF IInv
<1>3. /\ calls'[c].work = calls[c].work /\ calls'[c].op = calls[c].op
      /\ calls'[c].done = calls[c].done /\ calls'[c].blind = calls[c].blind
      /\ calls'[c].at = calls[c].at /\ NextLeg(c)' = NextLeg(c) /\ TheKey(c)' = TheKey(c)
      /\ calls'[c].slips = calls[c].slips
    BY <1>2 DEF Call, NextLeg, Op, TheKey, TheOrder, TheUse
<1>4. UNCHANGED tables /\ UNCHANGED balances /\ UsesHold(c) /\ holds[TheOrder(c)] > 0
    BY DEF ReadHold, tables
<1>5. View(c)'
    BY <1>3, <1>4 DEF BInv, View, Seen, Partial, LegDeltas, Overwrites, Fault
<1>6. Blind(c)'
    BY <1>3, <1>4 DEF BInv, Blind
<1>7. balances[TheKey(c)].exists
    BY <1>1, <1>4, UseFacts DEF BInv, Rows, TheKey, UsesHold
<1>8. (UsesHold(c) /\ calls[c].read > 0 => balances[TheKey(c)].exists)'
    BY <1>3, <1>4, <1>7
<1>9. QED
    BY <1>2, <1>4, <1>5, <1>6, <1>8, QuietStep

\* One more leg is written on top of what the call saw.
LEMMA LegKeepsBooks ==
    ASSUME BInv, IInv', NEW c \in Slots, Upsert(c) \/ UpdateBalance(c)
    PROVE  BInv'
<1> DEFINE k == NextLeg(c).key
           op == calls[c].op
           n == calls[c].done
<1>1. IInv /\ IInv' /\ View(c) /\ Blind(c) /\ Rows
    BY DEF BInv
<1>2. InLegs(c)
    BY DEF Upsert, UpdateBalance, GetsRow
<1>3. /\ k \in Key /\ NextLeg(c).delta \in Int /\ n \in Nat /\ n + 1 \in DOMAIN op.legs
      /\ op \in Operations
    BY <1>1, <1>2, NextLegFacts, CallFacts DEF Op, IInv
<1>4. /\ UNCHANGED tables /\ UNCHANGED balances /\ calls'[c].op = op
      /\ calls'[c].done = n + 1 /\ ~calls'[c].blind
      /\ DOMAIN calls'[c].work = {k} \cup DOMAIN calls[c].work
      /\ \A x \in DOMAIN calls[c].work : x # k => calls'[c].work[x] = calls[c].work[x]
      /\ \A f \in calls[c].slips : f \in calls'[c].slips
      /\ \A d \in Slots : d # c => calls'[d] = calls[d]
    BY <1>1, UpsertStep, UpdateStep DEF tables
<1>5. \/ Fault(c, "overwrite", k) \in calls'[c].slips
      \/ /\ calls'[c].work[k].held = Seen(c, k).held
         /\ calls'[c].work[k].available = Seen(c, k).available + NextLeg(c).delta
  <2>0. CASE Upsert(c) /\ balances[k].exists
    <3>1. calls'[c].slips = calls[c].slips \cup Slips(c, NextLeg(c))
        BY <1>1, <2>0, UpsertStep
    <3>2. Fault(c, "overwrite", k) \in Slips(c, NextLeg(c))
        BY <2>0 DEF Slips, Fault
    <3>3. QED
        BY <3>1, <3>2
  <2>1. CASE Upsert(c) /\ ~balances[k].exists
    <3>1. calls'[c].work[k] = Balance(NextLeg(c).delta, 0)
        BY <1>1, <2>1, UpsertStep
    <3>2. k \notin DOMAIN calls[c].work /\ ~balances[k].exists
        BY <1>1, <2>1 DEF Blind, Upsert
    <3>3. Seen(c, k) = balances[k] /\ balances[k].available = 0 /\ balances[k].held = 0
        BY <1>1, <1>3, <3>2 DEF Seen, Rows
    <3>4. QED
        BY <1>3, <3>1, <3>3 DEF Balance
  <2>2. CASE UpdateBalance(c)
    <3>1. calls'[c].work[k] = Balance(Seen(c, k).available + NextLeg(c).delta, Seen(c, k).held)
        BY <1>1, <2>2, UpdateStep
    <3>2. QED
        BY <3>1 DEF Balance
  <2>3. QED
      BY <2>0, <2>1, <2>2
<1>6. ASSUME NEW x \in Key, Fault(c, "overwrite", x) \notin calls'[c].slips
      PROVE  /\ Seen(c, x)'.held = balances'[x].held
             /\ Seen(c, x)'.available = balances'[x].available + Partial(op, x, n + 1)
  <2>1. /\ Seen(c, x).held = balances[x].held
        /\ Seen(c, x).available = balances[x].available + Partial(op, x, n)
      BY <1>1, <1>4, <1>6 DEF View, Overwrites
  <2>2. Partial(op, x, n + 1) = Partial(op, x, n)
                                   + (IF op.legs[n + 1].key = x THEN op.legs[n + 1].delta ELSE 0)
      BY <1>3, PartialFacts
  <2>3. NextLeg(c) = op.legs[n + 1]
      BY DEF NextLeg, Op
  <2>4. Partial(op, x, n) \in Int /\ balances[x].available \in Int
      BY <1>1, PartialIsInt DEF IInv, Shapes, Row
  <2>5. CASE x = k
    <3>1. Seen(c, x)' = calls'[c].work[k]
        BY <1>4, <2>5 DEF Seen
    <3>2. Partial(op, x, n + 1) = Partial(op, x, n) + NextLeg(c).delta
        BY <2>2, <2>3, <2>5
    <3>3. /\ calls'[c].work[k].held = balances[x].held
          /\ calls'[c].work[k].available = Seen(c, x).available + NextLeg(c).delta
        BY <1>5, <1>6, <2>1, <2>5
    <3>4. /\ calls'[c].work[k].available = balances[x].available + Partial(op, x, n + 1)
          /\ balances'[x] = balances[x]
      <4>1. Partial(op, x, n) \in Int /\ balances[x].available \in Int /\ NextLeg(c).delta \in Int
          BY <1>3, <2>4
      <4>2. QED
          BY <1>4, <2>1, <3>2, <3>3, <4>1
    <3>5. QED
        BY <3>1, <3>3, <3>4
  <2>6. CASE x # k
    <3>1. Seen(c, x)' = Seen(c, x)
        BY <1>4, <2>6 DEF Seen
    <3>2. Partial(op, x, n + 1) = Partial(op, x, n)
        BY <2>2, <2>3, <2>4, <2>6
    <3>3. QED
        BY <1>4, <2>1, <3>1, <3>2
  <2>7. QED
      BY <2>5, <2>6
<1>7. View(c)'
    BY <1>4, <1>6 DEF View, Partial, LegDeltas, Overwrites, Fault
<1>8. Blind(c)'
    BY <1>4 DEF Blind
<1>9. ~UsesHold(c)'
    BY <1>2, <1>4 DEF InLegs, HasLegs, UsesHold, Op
<1>10. QED
    BY <1>4, <1>7, <1>8, <1>9, QuietStep

\* What moves within a balance, or is consumed, needs no entry.
LEMMA MovedWithin ==
    ASSUME NEW total \in Int, NEW en \in Int, NEW en2, en2 = en,
           NEW av \in Int, NEW he \in Int, NEW co \in Int,
           NEW av2 \in Int, NEW he2 \in Int, NEW co2 \in Int,
           av + he = total + en - co, av2 + he2 + co2 = av + he + co
    PROVE  av2 + he2 = total + en2 - co2
OBVIOUS

\* A step on a hold: it moves funds of one row, which is there and which nobody else
\* has locked, between available, held and consumed.
LEMMA HoldKeepsBooks ==
    ASSUME BInv, IInv', NEW c \in Slots, calls'[c] = Ended,
           \A d \in Slots : d # c => calls'[d] = calls[d],
           NEW k \in Key, \A d \in Slots : k \notin DOMAIN calls[d].work \/ d = c,
           balances[k].exists, balances'[k].exists,
           \A x \in Key : x # k => balances'[x] = balances[x] /\ consumed'[x] = consumed[x],
           \A o \in Orders : holds'[o] > 0 => holds[o] > 0 \/ HoldKey[o] = k,
           UNCHANGED entries, \A f \in faults : f \in faults',
           balances'[k].available + balances'[k].held + consumed'[k]
              = balances[k].available + balances[k].held + consumed[k]
    PROVE  BInv'
<1>1. IInv /\ IInv'
    BY DEF BInv
<1>2. ASSUME NEW d \in Slots PROVE (View(d) /\ Blind(d))'
  <2>1. CASE d = c
    <3>1. DOMAIN calls'[c].work = {} /\ calls'[c].done = 0 /\ ~calls'[c].blind
        BY IdleFacts
    <3>2. QED
        BY <1>1, <2>1, <3>1, FreshSees DEF Blind, IInv
  <2>2. CASE d # c
    <3>1. \A x \in DOMAIN calls[d].work : /\ balances'[x].available = balances[x].available
                                          /\ balances'[x].held = balances[x].held
      <4>1. DOMAIN calls[d].work \subseteq Key
          BY <1>1, CallFacts DEF IInv
      <4>2. QED
          BY <2>2, <4>1
    <3>2. QED
        BY <1>1, <2>2, <3>1, OthersKeepBooks
  <2>3. QED
      BY <2>1, <2>2
<1>3. Rows'
  <2>1. \A x \in Key : ~balances'[x].exists => balances'[x].available = 0 /\ balances'[x].held = 0
      BY DEF BInv, Rows
  <2>2. \A x \in Key : balances[x].exists => balances'[x].exists
      OBVIOUS
  <2>3. \A o \in Orders : holds'[o] > 0 => balances'[HoldKey[o]].exists
    <3>1. \A o \in Orders : HoldKey[o] \in Key
        BY KeyAssumption
    <3>2. QED
        BY <2>2, <3>1 DEF BInv, Rows
  <2>4. ASSUME NEW d \in Slots
        PROVE  (UsesHold(d) /\ calls[d].read > 0 => balances[TheKey(d)].exists)'
    <3>1. CASE d = c
        BY <3>1, IdleFacts DEF UsesHold, Running
    <3>2. CASE d # c
      <4>1. /\ UsesHold(d)' = UsesHold(d) /\ calls'[d].read = calls[d].read /\ TheKey(d)' = TheKey(d)
          BY <3>2 DEF UsesHold, Running, Op, TheKey, TheOrder, TheUse
      <4>2. UsesHold(d) => TheKey(d) \in Key
          BY <1>1, UseFacts DEF UsesHold
      <4>3. QED
          BY <2>2, <4>1, <4>2 DEF BInv, Rows
    <3>3. QED
        BY <3>1, <3>2
  <2>5. QED
      BY <2>1, <2>3, <2>4 DEF Rows
<1>4. EntriesExplainBalances'
  <2>1. ASSUME NEW x \in Key, \A f \in faults' : ~(f.key = x /\ f.kind = "overwrite")
        PROVE  balances'[x].available + balances'[x].held =
                  Opening[x].available + Opening[x].held + entries'[x] - consumed'[x]
    <3>1. balances[x].available + balances[x].held =
             Opening[x].available + Opening[x].held + entries[x] - consumed[x]
        BY <2>1 DEF BInv, EntriesExplainBalances, Explained, Faulty
    <3>2. /\ balances[x] \in Row /\ balances'[x] \in Row /\ Opening[x] \in Row
          /\ entries[x] \in Int /\ consumed[x] \in Int /\ consumed'[x] \in Int
        BY <1>1, KeyAssumption DEF IInv, Shapes
    <3>3. /\ balances[x].available \in Int /\ balances[x].held \in Int
          /\ balances'[x].available \in Int /\ balances'[x].held \in Int
          /\ Opening[x].available \in Int /\ Opening[x].held \in Int
          /\ Opening[x].available + Opening[x].held \in Int
          /\ entries[x] \in Int /\ consumed[x] \in Int /\ consumed'[x] \in Int
        BY <3>2 DEF Row
    <3>4. CASE x # k
        BY <3>1, <3>4
    <3>5. CASE x = k
      <4>1. balances'[x].available + balances'[x].held + consumed'[x]
               = balances[x].available + balances[x].held + consumed[x]
          BY <3>5
      <4>2. entries'[x] = entries[x]
          OBVIOUS
      <4>3. QED
          BY <3>1, <3>3, <4>1, <4>2, MovedWithin
    <3>6. QED
        BY <3>4, <3>5
  <2>2. QED
      BY <2>1 DEF EntriesExplainBalances, Explained, Faulty
<1>5. QED
    BY <1>2, <1>3, <1>4 DEF BInv

LEMMA TakeHoldKeepsBooks ==
    ASSUME BInv, IInv', NEW c \in Slots, TakeHold(c)
    PROVE  BInv'
<1> DEFINE k == TheKey(c)
           a == TheUse(c).amount
<1>1. IInv
    BY DEF BInv
<1>2. /\ calls'[c] = Ended /\ \A d \in Slots : d # c => calls'[d] = calls[d]
      /\ k \in Key /\ a \in Nat /\ TheOrder(c) \in Orders
      /\ \A d \in Slots : k \notin DOMAIN calls[d].work \/ d = c
      /\ balances'[k] = [balances[k] EXCEPT !.available = @ - a, !.held = @ + a]
      /\ \A x \in Key : x # k => balances'[x] = balances[x]
      /\ \A o \in Orders : o # TheOrder(c) => holds'[o] = holds[o]
    BY <1>1, TakeHoldStep
<1>3. balances[k].exists /\ UNCHANGED entries /\ consumed' = consumed
    BY DEF TakeHold
<1>4. \A o \in Orders : holds'[o] > 0 => holds[o] > 0 \/ HoldKey[o] = k
    BY <1>2 DEF TheKey
<1>9. \A x \in Key : x # k => balances'[x] = balances[x] /\ consumed'[x] = consumed[x]
    BY <1>2, <1>3
<1>5. balances[k] \in Row /\ consumed[k] \in Int
    BY <1>1, <1>2 DEF IInv, Shapes
<1>6. /\ balances'[k].available = balances[k].available - a /\ balances'[k].held = balances[k].held + a
      /\ balances'[k].exists = balances[k].exists
      /\ balances[k].available \in Int /\ balances[k].held \in Int
    BY <1>2, <1>5 DEF Row
<1> HIDE DEF k, a
<1>7. balances'[k].available + balances'[k].held + consumed'[k]
         = balances[k].available + balances[k].held + consumed[k]
    BY <1>2, <1>3, <1>5, <1>6
<1>8. QED
    BY <1>2, <1>3, <1>4, <1>6, <1>7, <1>9, FaultsGrow, HoldKeepsBooks

LEMMA ReleaseHoldKeepsBooks ==
    ASSUME BInv, IInv', NEW c \in Slots, ReleaseHoldRead(c)
    PROVE  BInv'
<1> DEFINE k == TheKey(c)
           a == calls[c].read
<1>1. IInv
    BY DEF BInv
<1>2. /\ calls'[c] = Ended /\ \A d \in Slots : d # c => calls'[d] = calls[d]
      /\ k \in Key /\ a \in Nat /\ TheOrder(c) \in Orders
      /\ \A d \in Slots : k \notin DOMAIN calls[d].work \/ d = c
      /\ balances'[k] = [balances[k] EXCEPT !.available = @ + a, !.held = @ - a]
      /\ \A x \in Key : x # k => balances'[x] = balances[x]
      /\ \A o \in Orders : o # TheOrder(c) => holds'[o] = holds[o]
    BY <1>1, ReleaseHoldStep
<1>3. balances[k].exists /\ UNCHANGED entries /\ consumed' = consumed
    BY DEF ReleaseHoldRead, HasHold, BInv, Rows
<1>4. \A o \in Orders : holds'[o] > 0 => holds[o] > 0 \/ HoldKey[o] = k
    BY <1>2 DEF TheKey
<1>9. \A x \in Key : x # k => balances'[x] = balances[x] /\ consumed'[x] = consumed[x]
    BY <1>2, <1>3
<1>5. balances[k] \in Row /\ consumed[k] \in Int
    BY <1>1, <1>2 DEF IInv, Shapes
<1>6. /\ balances'[k].available = balances[k].available + a /\ balances'[k].held = balances[k].held - a
      /\ balances'[k].exists = balances[k].exists
      /\ balances[k].available \in Int /\ balances[k].held \in Int
    BY <1>2, <1>5 DEF Row
<1> HIDE DEF k, a
<1>7. balances'[k].available + balances'[k].held + consumed'[k]
         = balances[k].available + balances[k].held + consumed[k]
    BY <1>2, <1>3, <1>5, <1>6
<1>8. QED
    BY <1>2, <1>3, <1>4, <1>6, <1>7, <1>9, FaultsGrow, HoldKeepsBooks

LEMMA ConsumeHoldKeepsBooks ==
    ASSUME BInv, IInv', NEW c \in Slots, ConsumeHoldRead(c)
    PROVE  BInv'
<1> DEFINE k == TheKey(c)
           a == Taking(c)
<1>1. IInv
    BY DEF BInv
<1>2. /\ calls'[c] = Ended /\ \A d \in Slots : d # c => calls'[d] = calls[d]
      /\ k \in Key /\ a \in Nat /\ TheOrder(c) \in Orders
      /\ \A d \in Slots : k \notin DOMAIN calls[d].work \/ d = c
      /\ balances'[k] = [balances[k] EXCEPT !.held = @ - a]
      /\ \A x \in Key : x # k => balances'[x] = balances[x] /\ consumed'[x] = consumed[x]
      /\ \A o \in Orders : o # TheOrder(c) => holds'[o] = holds[o]
      /\ consumed'[k] = consumed[k] + a
    BY <1>1, ConsumeHoldStep
<1>3. balances[k].exists /\ UNCHANGED entries
    BY DEF ConsumeHoldRead, HasHold, BInv, Rows
<1>4. \A o \in Orders : holds'[o] > 0 => holds[o] > 0 \/ HoldKey[o] = k
    BY <1>2 DEF TheKey
<1>5. balances[k] \in Row /\ consumed[k] \in Int
    BY <1>1, <1>2 DEF IInv, Shapes
<1>6. /\ balances'[k].available = balances[k].available /\ balances'[k].held = balances[k].held - a
      /\ balances'[k].exists = balances[k].exists
      /\ balances[k].available \in Int /\ balances[k].held \in Int
    BY <1>2, <1>5 DEF Row
<1> HIDE DEF k, a
<1>7. balances'[k].available + balances'[k].held + consumed'[k]
         = balances[k].available + balances[k].held + consumed[k]
    BY <1>2, <1>3, <1>5, <1>6
<1>8. QED
    BY <1>2, <1>3, <1>4, <1>6, <1>7, FaultsGrow, HoldKeepsBooks

LEMMA CommitKeepsBooks ==
    ASSUME BInv, IInv', NEW c \in Slots, Commit(c)
    PROVE  BInv'
<1>1. IInv /\ IInv' /\ View(c) /\ LegsDone(c)
    BY DEF BInv, Commit
<1>2. /\ calls'[c] = Ended /\ DOMAIN calls'[c].work = {} /\ ~calls'[c].blind /\ calls'[c].done = 0
      /\ \A d \in Slots : d # c => calls'[d] = calls[d]
    BY <1>1, CommitStep, IdleFacts
<1>3. Running(c) /\ Progress(c)
    BY <1>1, IdleFacts DEF IInv, CallsSound, LegsDone, HasLegs, Running
<1>4. ASSUME NEW k \in Key
      PROVE  /\ balances'[k].exists <=> balances[k].exists \/ k \in DOMAIN calls[c].work
             /\ k \notin DOMAIN calls[c].work => /\ balances'[k].available = balances[k].available
                                                 /\ balances'[k].held = balances[k].held
  <2>1. /\ balances'[k].exists = Seen(c, k).exists
        /\ balances'[k].available = Seen(c, k).available
        /\ balances'[k].held = Seen(c, k).held - Consumed(c, k)
      BY <1>1, CommitBalances
  <2>2. CASE k \in DOMAIN calls[c].work
      BY <1>3, <2>1, <2>2 DEF Seen, Progress
  <2>3. CASE k \notin DOMAIN calls[c].work
    <3>1. Consumed(c, k) = 0 /\ Seen(c, k) = balances[k]
        BY <1>1, <2>3, ConsumedIs DEF Seen
    <3>2. balances[k].held \in Int
        BY <1>1 DEF IInv, Shapes, Row
    <3>3. QED
        BY <2>1, <2>3, <3>1, <3>2
  <2>4. QED
      BY <2>2, <2>3
<1>5. ASSUME NEW d \in Slots PROVE (View(d) /\ Blind(d))'
  <2>1. CASE d = c
      BY <1>1, <1>2, <2>1, FreshSees DEF Blind, IInv
  <2>2. CASE d # c
    <3>1. \A x \in DOMAIN calls[d].work : /\ balances'[x].available = balances[x].available
                                          /\ balances'[x].held = balances[x].held
      <4>1. DOMAIN calls[d].work \subseteq Key /\ DOMAIN calls[d].work \cap DOMAIN calls[c].work = {}
          BY <1>1, <2>2, CallFacts DEF IInv, Locked
      <4>2. QED
          BY <1>4, <4>1
    <3>2. QED
        BY <1>1, <1>2, <2>2, <3>1, OthersKeepBooks
  <2>3. QED
      BY <2>1, <2>2
<1>6. Rows'
  <2>1. ASSUME NEW k \in Key, ~balances'[k].exists
        PROVE  balances'[k].available = 0 /\ balances'[k].held = 0
    <3>1. ~balances[k].exists /\ k \notin DOMAIN calls[c].work
        BY <1>4, <2>1
    <3>2. balances[k].available = 0 /\ balances[k].held = 0
        BY <3>1 DEF BInv, Rows
    <3>3. QED
        BY <1>4, <3>1, <3>2
  <2>2. ASSUME NEW o \in Orders, holds'[o] > 0
        PROVE  balances'[HoldKey[o]].exists
    <3>1. holds[o] > 0
      <4>1. holds[o] \in Nat
          BY <1>1 DEF IInv, Shapes
      <4>2. CASE \A u \in Op(c).uses : u.order # o
          BY <1>1, <2>2, <4>2, CommitHolds
      <4>3. CASE \E u \in Op(c).uses : u.order = o
        <5>1. PICK u \in Op(c).uses : u.order = o
            BY <4>3
        <5>2. holds'[o] = Remaining(holds[o], u.amount) /\ u.amount \in Nat
            BY <1>1, <5>1, CommitHolds, SettledUses
        <5>3. QED
            BY <2>2, <4>1, <5>2 DEF Remaining
      <4>4. QED
          BY <4>2, <4>3
    <3>2. HoldKey[o] \in Key
        BY KeyAssumption
    <3>3. QED
        BY <1>4, <3>1, <3>2 DEF BInv, Rows
  <2>3. ASSUME NEW d \in Slots
        PROVE  (UsesHold(d) /\ calls[d].read > 0 => balances[TheKey(d)].exists)'
    <3>1. CASE d = c
        BY <1>2, <3>1, IdleFacts DEF UsesHold, Running
    <3>2. CASE d # c
      <4>1. /\ UsesHold(d)' = UsesHold(d) /\ calls'[d].read = calls[d].read /\ TheKey(d)' = TheKey(d)
          BY <1>2, <3>2 DEF UsesHold, Running, Op, TheKey, TheOrder, TheUse
      <4>2. UsesHold(d) => TheKey(d) \in Key
          BY <1>1, UseFacts DEF UsesHold
      <4>3. QED
          BY <1>4, <4>1, <4>2 DEF BInv, Rows
    <3>3. QED
        BY <3>1, <3>2
  <2>4. QED
      BY <2>1, <2>2, <2>3 DEF Rows
<1>7. EntriesExplainBalances'
  <2>1. ASSUME NEW x \in Key, \A f \in faults' : ~(f.key = x /\ f.kind = "overwrite")
        PROVE  balances'[x].available + balances'[x].held =
                  Opening[x].available + Opening[x].held + entries'[x] - consumed'[x]
    <3>1. balances[x].available + balances[x].held =
             Opening[x].available + Opening[x].held + entries[x] - consumed[x]
        BY <2>1, FaultsGrow DEF BInv, EntriesExplainBalances, Explained, Faulty
    <3>2. /\ balances'[x].available = balances[x].available + Posted(Op(c), x)
          /\ balances'[x].held = balances[x].held - Consumed(c, x)
      <4>1. /\ balances'[x].available = Seen(c, x).available
            /\ balances'[x].held = Seen(c, x).held - Consumed(c, x)
          BY <1>1, CommitBalances
      <4>2. /\ Seen(c, x).held = balances[x].held
            /\ Seen(c, x).available = balances[x].available + Partial(calls[c].op, x, calls[c].done)
        <5>1. \A f \in calls[c].slips : f \in faults'
            BY DEF Commit
        <5>2. Fault(c, "overwrite", x).key = x /\ Fault(c, "overwrite", x).kind = "overwrite"
            BY DEF Fault
        <5>3. ~Overwrites(c, x)
            BY <2>1, <5>1, <5>2 DEF Overwrites
        <5>4. QED
            BY <1>1, <5>3 DEF View
      <4>3. Partial(calls[c].op, x, calls[c].done) = Posted(Op(c), x)
        <5>1. calls[c].op \in Operations
            BY <1>1, CallFacts DEF IInv
        <5>2. QED
            BY <1>1, <5>1, PartialFacts DEF LegsDone, Op
      <4>4. QED
          BY <4>1, <4>2, <4>3
    <3>3. entries'[x] = entries[x] + Posted(Op(c), x) /\ consumed'[x] = consumed[x] + Consumed(c, x)
        BY DEF Commit
    <3>4. /\ balances[x] \in Row /\ Opening[x] \in Row
          /\ entries[x] \in Int /\ consumed[x] \in Int
        BY <1>1, KeyAssumption DEF IInv, Shapes
    <3>5. /\ balances[x].available \in Int /\ balances[x].held \in Int
          /\ Opening[x].available \in Int /\ Opening[x].held \in Int
        BY <3>4 DEF Row
    <3>6. Posted(Op(c), x) \in Int /\ Consumed(c, x) \in Nat
        BY <1>1, CallFacts, PostedType, ConsumedIs DEF IInv, Op
    <3>7. QED
        BY <3>1, <3>2, <3>3, <3>4, <3>5, <3>6
  <2>2. QED
      BY <2>1 DEF EntriesExplainBalances, Explained, Faulty
<1>8. QED
    BY <1>5, <1>6, <1>7 DEF BInv

LEMMA BooksNext == BInv /\ [Next]_vars => BInv'
<1> SUFFICES ASSUME BInv, [Next]_vars PROVE BInv'
    OBVIOUS
<1>1. IInv'
    BY NextInv DEF BInv
<1>2. CASE UNCHANGED vars
  <2>1. \A c \in Slots : (View(c) /\ Blind(c))'
      BY <1>2 DEF vars, BInv, View, Blind, Seen, Partial, LegDeltas, NextLeg, Op, Overwrites, Fault
  <2>2. Rows' /\ EntriesExplainBalances'
      BY <1>2 DEF vars, BInv, Rows, UsesHold, Running, Op, TheKey, TheOrder, TheUse, EntriesExplainBalances,
                   Explained, Faulty
  <2>3. QED
      BY <1>1, <2>1, <2>2 DEF BInv
<1>3. CASE Next
  <2>1. PICK c \in Slots : \/ Start(c) \/ FindNoRow(c) \/ Upsert(c) \/ UpdateBalance(c) \/ Commit(c)
                           \/ TakeHold(c) \/ ReadHold(c) \/ ReleaseHoldRead(c) \/ ConsumeHoldRead(c)
                           \/ RollBack(c)
      BY <1>3, Steps
  <2>2. CASE Start(c) \/ RollBack(c)
      BY <1>1, <2>2, StartKeepsBooks
  <2>3. CASE FindNoRow(c)
      BY <1>1, <2>3, FindNoRowKeepsBooks
  <2>4. CASE ReadHold(c)
      BY <1>1, <2>4, ReadHoldKeepsBooks
  <2>5. CASE Upsert(c) \/ UpdateBalance(c)
      BY <1>1, <2>5, LegKeepsBooks
  <2>6. CASE Commit(c)
      BY <1>1, <2>6, CommitKeepsBooks
  <2>7. CASE TakeHold(c)
      BY <1>1, <2>7, TakeHoldKeepsBooks
  <2>8. CASE ReleaseHoldRead(c)
      BY <1>1, <2>8, ReleaseHoldKeepsBooks
  <2>9. CASE ConsumeHoldRead(c)
      BY <1>1, <2>9, ConsumeHoldKeepsBooks
  <2>10. QED
      BY <2>1, <2>2, <2>3, <2>4, <2>5, <2>6, <2>7, <2>8, <2>9
<1>4. QED
    BY <1>2, <1>3

\* The entries explain every balance but those that a call has written over: no other
\* update is lost, half done or done twice, whatever calls there are.
THEOREM EntriesExplain == Spec => []EntriesExplainBalances
<1>1. Init => BInv
    BY BooksInit
<1>2. BInv /\ [Next]_vars => BInv'
    BY BooksNext
<1>3. BInv => EntriesExplainBalances
    BY DEF BInv
<1>4. QED
    BY <1>1, <1>2, <1>3, PTL DEF Spec
-----------------------------------------------------------------------------
(* What is held is what the holds add up to                                 *)

HInv == BInv /\ HeldIsHolds

LEMMA HeldInit == Init => HInv
<1> SUFFICES ASSUME Init PROVE HInv
    OBVIOUS
<1>1. HeldIsHolds
    BY OpeningAssumption DEF Init, HeldIsHolds, HoldsAgree
<1>2. QED
    BY <1>1, BooksInit DEF HInv

\* If one hold changes, what is held under its key has to change as much, or a fault of
\* that key is noted.
LEMMA OneHoldChanges ==
    ASSUME IInv, IInv', HeldIsHolds, NEW t \in Orders,
           \A f \in faults : f \in faults',
           \A o \in Orders : o # t => holds'[o] = holds[o],
           \A k \in Key : k # HoldKey[t] => balances'[k].held = balances[k].held,
           \/ \E f \in faults' : f.key = HoldKey[t] /\ f.kind = "hold"
           \/ balances'[HoldKey[t]].held = balances[HoldKey[t]].held - holds[t] + holds'[t]
    PROVE  HeldIsHolds'
<1>1. ASSUME NEW k \in Key, \A f \in faults' : f.key = k => f.kind \notin {"overwrite", "hold"}
      PROVE  balances'[k].held = SumFunctionOnSet(holds', {o \in Orders : HoldKey[o] = k})
  <2> DEFINE S == {o \in Orders : HoldKey[o] = k}
  <2>1. IsFiniteSet(S)
      BY KeyAssumption, FS_Subset
  <2>2. \A o \in Orders : holds[o] \in Int /\ holds'[o] \in Int
      BY DEF IInv, Shapes
  <2>3. balances[k].held = SumFunctionOnSet(holds, S)
      BY <1>1 DEF HeldIsHolds, HoldsAgree, Faulty
  <2>4. CASE k = HoldKey[t]
    <3>0. balances'[k].held = balances[k].held - holds[t] + holds'[t]
        BY <1>1, <2>4
    <3>1. t \in S
        BY <2>4
    <3>2. \A o \in S \ {t} : holds[o] \in Int /\ holds[o] = holds'[o]
        BY <2>2
    <3>3. SumFunctionOnSet(holds', S) = SumFunctionOnSet(holds, S) - holds[t] + holds'[t]
        BY <2>1, <2>2, <3>1, <3>2, SumChanges
    <3>4. QED
        BY <2>3, <3>0, <3>3
  <2>5. CASE k # HoldKey[t]
    <3>1. \A o \in S : holds[o] \in Int /\ holds[o] = holds'[o]
        BY <2>2, <2>5
    <3>2. SumFunctionOnSet(holds', S) = SumFunctionOnSet(holds, S)
        BY <2>1, <3>1, SumSame
    <3>3. QED
        BY <2>3, <2>5, <3>2
  <2>6. QED
      BY <2>4, <2>5
<1>2. QED
    BY <1>1 DEF HeldIsHolds, HoldsAgree, Faulty

\* What a settlement does to a hold it uses and does not overuse.
LEMMA SettledHold ==
    ASSUME IInv, NEW c \in Slots, Commit(c), NEW u \in Op(c).uses,
           ~(0 < holds[u.order] /\ holds[u.order] < u.amount)
    PROVE  /\ holds'[u.order] = Remaining(holds[u.order], u.amount)
           /\ holds[u.order] = 0 => holds'[u.order] = 0
           /\ holds[u.order] > 0 => holds'[u.order] = holds[u.order] - u.amount
<1>1. LegsDone(c)
    BY DEF Commit
<1>2. u.order \in Orders /\ u.amount \in Nat /\ holds[u.order] \in Nat
    BY <1>1, SettledUses DEF IInv, Shapes
<1>3. holds'[u.order] = Remaining(holds[u.order], u.amount)
    BY <1>1, <1>2, CommitHolds
<1>4. QED
    BY <1>2, <1>3 DEF Remaining

\* The holds of a key that has no fault after a commit are used within what they have.
LEMMA NoOveruse ==
    ASSUME NEW c \in Slots, Commit(c), NEW k,
           \A f \in faults' : f.key = k => f.kind \notin {"overwrite", "hold"}
    PROVE  /\ ~Overwrites(c, k)
           /\ \A u \in Op(c).uses : HoldKey[u.order] = k =>
                 ~(0 < holds[u.order] /\ holds[u.order] < u.amount)
<1>1. (\A f \in calls[c].slips : f \in faults') /\ \A f \in Overuses(c) : f \in faults'
    BY DEF Commit
<1>2. ~Overwrites(c, k)
  <2>1. Fault(c, "overwrite", k).key = k /\ Fault(c, "overwrite", k).kind = "overwrite"
      BY DEF Fault
  <2>2. QED
      BY <1>1, <2>1 DEF Overwrites
<1>3. ASSUME NEW u \in Op(c).uses, HoldKey[u.order] = k, 0 < holds[u.order], holds[u.order] < u.amount
      PROVE  FALSE
  <2>1. Fault(c, "hold", HoldKey[u.order]) \in Overuses(c)
      BY <1>3 DEF Overuses
  <2>2. Fault(c, "hold", HoldKey[u.order]).key = k /\ Fault(c, "hold", HoldKey[u.order]).kind = "hold"
      BY <1>3 DEF Fault
  <2>3. QED
      BY <1>1, <2>1, <2>2
<1>4. QED
    BY <1>2, <1>3

LEMMA CommitKeepsHeld ==
    ASSUME HInv, IInv', NEW c \in Slots, Commit(c)
    PROVE  HeldIsHolds'
<1>1. IInv /\ View(c) /\ HeldIsHolds
    BY DEF HInv, BInv
<1>2. LegsDone(c)
    BY DEF Commit
<1>6. ASSUME NEW k \in Key, \A f \in faults' : f.key = k => f.kind \notin {"overwrite", "hold"}
      PROVE  balances'[k].held = SumFunctionOnSet(holds', {o \in Orders : HoldKey[o] = k})
  <2> DEFINE S == {o \in Orders : HoldKey[o] = k}
  <2>1. IsFiniteSet(S)
      BY KeyAssumption, FS_Subset
  <2>2. \A o \in Orders : holds[o] \in Nat /\ holds'[o] \in Nat
      BY <1>1 DEF IInv, Shapes
  <2>3. balances[k].held = SumFunctionOnSet(holds, S)
    <3>1. \A f \in faults : f \in faults'
        BY FaultsGrow
    <3>2. QED
        BY <1>1, <1>6, <3>1 DEF HeldIsHolds, HoldsAgree, Faulty
  <2>4. balances'[k].held = balances[k].held - Consumed(c, k)
    <3>1. ~Overwrites(c, k)
        BY <1>6, NoOveruse
    <3>2. QED
        BY <1>1, <3>1, CommitBalances DEF View
  <2>5. balances[k].held \in Int
      BY <1>1 DEF IInv, Shapes, Row
  <2>6. CASE \A u \in Op(c).uses : HoldKey[u.order] # k
    <3>1. Consumed(c, k) = 0
        BY <1>1, <1>2, <2>6, ConsumedIs
    <3>2. ASSUME NEW o \in S PROVE holds[o] = holds'[o]
      <4>1. \A u \in Op(c).uses : u.order # o
          BY <2>6
      <4>2. QED
          BY <1>1, <1>2, <4>1, CommitHolds
    <3>3. SumFunctionOnSet(holds', S) = SumFunctionOnSet(holds, S)
      <4>1. \A o \in S : holds[o] \in Int /\ holds[o] = holds'[o]
          BY <2>2, <3>2
      <4>2. QED
          BY <2>1, <4>1, SumSame
    <3>4. QED
        BY <2>3, <2>4, <2>5, <3>1, <3>3
  <2>7. CASE \E u \in Op(c).uses : HoldKey[u.order] = k
    <3>1. PICK u \in Op(c).uses : HoldKey[u.order] = k
        BY <2>7
    <3> DEFINE t == u.order
    <3>2. /\ t \in Orders /\ u.amount \in Nat /\ t \in S
          /\ \A v \in Op(c).uses : HoldKey[u.order] = HoldKey[v.order] => u = v
        BY <1>1, <1>2, <3>1, SettledUses
    <3>3. Consumed(c, k) = IF holds[t] > 0 THEN u.amount ELSE 0
        BY <1>1, <1>2, <3>1, ConsumedIs
    <3>4. /\ holds[t] = 0 => holds'[t] = 0
          /\ holds[t] > 0 => holds'[t] = holds[t] - u.amount
      <4>1. ~(0 < holds[u.order] /\ holds[u.order] < u.amount)
          BY <1>6, <3>1, NoOveruse
      <4>2. QED
          BY <1>1, <4>1, SettledHold
    <3>5. ASSUME NEW o \in S \ {t} PROVE holds[o] = holds'[o]
      <4>1. \A v \in Op(c).uses : v.order # o
          BY <3>1, <3>2
      <4>2. QED
          BY <1>1, <1>2, <4>1, CommitHolds
    <3>6. SumFunctionOnSet(holds', S) = SumFunctionOnSet(holds, S) - holds[t] + holds'[t]
      <4>1. \A o \in S \ {t} : holds[o] \in Int /\ holds[o] = holds'[o]
          BY <2>2, <3>5
      <4>2. holds[t] \in Int /\ holds'[t] \in Int
          BY <2>2, <3>2
      <4>3. QED
          BY <2>1, <3>2, <4>1, <4>2, SumChanges
    <3>7. holds'[t] - holds[t] = -Consumed(c, k)
        BY <2>2, <3>2, <3>3, <3>4
    <3>8. Consumed(c, k) \in Nat /\ holds[t] \in Nat /\ holds'[t] \in Nat
        BY <1>1, <1>2, <2>2, <3>2, ConsumedIs
    <3>9. QED
        BY <2>3, <2>4, <2>5, <3>6, <3>7, <3>8
  <2>8. QED
      BY <2>6, <2>7
<1>7. QED
    BY <1>6 DEF HeldIsHolds, HoldsAgree, Faulty

LEMMA TakeHoldKeepsHeld ==
    ASSUME HInv, IInv', NEW c \in Slots, TakeHold(c)
    PROVE  /\ HeldIsHolds'
           /\ faults' = faults => holds[TheOrder(c)] = 0
<1> DEFINE t == TheOrder(c)
           k == TheKey(c)
<1>1. IInv /\ HeldIsHolds
    BY DEF HInv, BInv
<1>2. /\ t \in Orders /\ k \in Key /\ k = HoldKey[t] /\ TheUse(c).amount \in Nat
      /\ balances'[k] = [balances[k] EXCEPT !.available = @ - TheUse(c).amount,
                                            !.held = @ + TheUse(c).amount]
      /\ \A x \in Key : x # k => balances'[x] = balances[x]
      /\ holds'[t] = TheUse(c).amount
      /\ \A o \in Orders : o # t => holds'[o] = holds[o]
    BY <1>1, TakeHoldStep DEF TheKey
<1>3. balances[k] \in Row /\ holds[t] \in Nat
    BY <1>1, <1>2 DEF IInv, Shapes
<1>4. balances'[k].held = balances[k].held + TheUse(c).amount /\ balances[k].held \in Int
    BY <1>2, <1>3 DEF Row
<1>5. Misuse(c, holds[t] > 0) /\ Running(c) /\ Op(c).kind = "create"
    BY DEF TakeHold
<1>6. /\ holds[t] > 0 => faults' # faults /\ \E f \in faults' : f.key = k /\ f.kind = "hold"
      /\ \A f \in faults : f \in faults'
  <2>1. (holds[t] > 0) \in BOOLEAN
      BY <1>3
  <2>2. QED
      BY <1>1, <1>5, <2>1, MisuseFacts
<1>7. \/ \E f \in faults' : f.key = k /\ f.kind = "hold"
      \/ balances'[k].held = balances[k].held - holds[t] + holds'[t]
  <2>1. CASE holds[t] > 0
      BY <1>6, <2>1
  <2>2. CASE ~(holds[t] > 0)
    <3>1. holds[t] = 0
        BY <1>3, <2>2
    <3>2. QED
        BY <1>2, <1>4, <3>1
  <2>3. QED
      BY <2>1, <2>2
<1>8. /\ t \in Orders /\ k = HoldKey[t]
      /\ \A x \in Key : x # k => balances'[x].held = balances[x].held
      /\ \A o \in Orders : o # t => holds'[o] = holds[o]
      /\ \A f \in faults : f \in faults'
    BY <1>2, <1>6
<1>9. HeldIsHolds'
  <2> HIDE DEF t, k
  <2>1. QED
      BY <1>1, <1>7, <1>8, OneHoldChanges
<1>10. QED
    BY <1>3, <1>6, <1>9

LEMMA ReleaseHoldKeepsHeld ==
    ASSUME HInv, IInv', NEW c \in Slots, ReleaseHoldRead(c)
    PROVE  /\ HeldIsHolds'
           /\ faults' = faults => holds[TheOrder(c)] = calls[c].read
<1> DEFINE t == TheOrder(c)
           k == TheKey(c)
<1>1. IInv /\ HeldIsHolds
    BY DEF HInv, BInv
<1>2. /\ t \in Orders /\ k \in Key /\ k = HoldKey[t] /\ calls[c].read \in Nat
      /\ balances'[k] = [balances[k] EXCEPT !.available = @ + calls[c].read,
                                            !.held = @ - calls[c].read]
      /\ \A x \in Key : x # k => balances'[x] = balances[x]
      /\ holds'[t] = 0
      /\ \A o \in Orders : o # t => holds'[o] = holds[o]
    BY <1>1, ReleaseHoldStep DEF TheKey
<1>3. balances[k] \in Row
    BY <1>1, <1>2 DEF IInv, Shapes
<1>4. balances'[k].held = balances[k].held - calls[c].read /\ balances[k].held \in Int
    BY <1>2, <1>3 DEF Row
<1>5. Misuse(c, holds[t] # calls[c].read) /\ Running(c) /\ Op(c).kind = "release"
    BY DEF ReleaseHoldRead, HasHold, UsesHold
<1>6. /\ holds[t] # calls[c].read => faults' # faults /\ \E f \in faults' : f.key = k /\ f.kind = "hold"
      /\ \A f \in faults : f \in faults'
    BY <1>1, <1>5, MisuseFacts
<1>7. \/ \E f \in faults' : f.key = k /\ f.kind = "hold"
      \/ balances'[k].held = balances[k].held - holds[t] + holds'[t]
    BY <1>2, <1>4, <1>6
<1>8. /\ t \in Orders /\ k = HoldKey[t]
      /\ \A x \in Key : x # k => balances'[x].held = balances[x].held
      /\ \A o \in Orders : o # t => holds'[o] = holds[o]
      /\ \A f \in faults : f \in faults'
    BY <1>2, <1>6
<1>9. HeldIsHolds'
  <2> HIDE DEF t, k
  <2>1. QED
      BY <1>1, <1>7, <1>8, OneHoldChanges
<1>10. QED
    BY <1>6, <1>9

\* A consumption of a hold that is what it read, and large enough.
LEMMA ConsumedHold ==
    ASSUME IInv, NEW c \in Slots, ConsumeHoldRead(c)
    PROVE  LET h == holds[TheOrder(c)]
               good == /\ h \in Nat /\ calls[c].read = h /\ h > 0 /\ Taking(c) <= h
                       /\ holds'[TheOrder(c)] = h - Taking(c)
                       /\ holds'[TheOrder(c)] = IF TheUse(c).amount = 0 THEN 0 ELSE Remaining(h, TheUse(c).amount)
           IN  /\ good \/ (faults' # faults /\ \E f \in faults' : f.key = TheKey(c) /\ f.kind = "hold")
               /\ \A f \in faults : f \in faults'
<1> DEFINE t == TheOrder(c)
           h == holds[t]
           wrong == h # calls[c].read \/ calls[c].read < Taking(c)
<1>1. calls[c].read > 0 /\ Op(c).kind = "consume" /\ Running(c) /\ Misuse(c, wrong)
    BY DEF ConsumeHoldRead, HasHold, UsesHold, Taking
<1>2. /\ t \in Orders /\ calls[c].read \in Nat /\ TheUse(c).amount \in Nat /\ Taking(c) \in Nat
      /\ holds'[t] = IF h = 0 THEN 0 ELSE Remaining(calls[c].read, Taking(c))
    BY ConsumeHoldStep
<1>3. h \in Nat
    BY <1>2 DEF IInv, Shapes
<1>4. wrong \in BOOLEAN
    OBVIOUS
<1> HIDE DEF wrong
<1>5. /\ wrong => faults' # faults /\ \E f \in faults' : f.key = TheKey(c) /\ f.kind = "hold"
      /\ \A f \in faults : f \in faults'
    BY <1>1, <1>4, MisuseFacts
<1>6. CASE ~wrong
  <2>1. h = calls[c].read /\ Taking(c) <= h /\ h > 0
      BY <1>1, <1>2, <1>3, <1>6 DEF wrong
  <2>2. holds'[t] = Remaining(h, Taking(c))
      BY <1>2, <2>1
  <2>3. holds'[t] = h - Taking(c)
      BY <1>2, <1>3, <2>1, <2>2 DEF Remaining
  <2>4. holds'[t] = IF TheUse(c).amount = 0 THEN 0 ELSE Remaining(h, TheUse(c).amount)
      BY <1>2, <1>3, <2>1, <2>2 DEF Taking, Remaining
  <2>5. QED
      BY <1>3, <1>5, <2>1, <2>3, <2>4
<1>7. QED
    BY <1>4, <1>5, <1>6

LEMMA ConsumeHoldKeepsHeld ==
    ASSUME HInv, IInv', NEW c \in Slots, ConsumeHoldRead(c)
    PROVE  HeldIsHolds'
<1> DEFINE t == TheOrder(c)
           k == TheKey(c)
<1>1. IInv /\ HeldIsHolds
    BY DEF HInv, BInv
<1>2. /\ t \in Orders /\ k \in Key /\ k = HoldKey[t] /\ Taking(c) \in Nat
      /\ balances'[k] = [balances[k] EXCEPT !.held = @ - Taking(c)]
      /\ \A x \in Key : x # k => balances'[x] = balances[x]
      /\ \A o \in Orders : o # t => holds'[o] = holds[o]
    BY <1>1, ConsumeHoldStep DEF TheKey
<1>3. /\ \/ \E f \in faults' : f.key = k /\ f.kind = "hold"
         \/ holds[t] \in Nat /\ holds'[t] = holds[t] - Taking(c)
      /\ \A f \in faults : f \in faults'
    BY <1>1, ConsumedHold
<1>4. balances[k] \in Row
    BY <1>1, <1>2 DEF IInv, Shapes
<1>5. balances'[k].held = balances[k].held - Taking(c) /\ balances[k].held \in Int
    BY <1>2, <1>4 DEF Row
<1>6. \/ \E f \in faults' : f.key = k /\ f.kind = "hold"
      \/ balances'[k].held = balances[k].held - holds[t] + holds'[t]
    BY <1>2, <1>3, <1>5
<1>7. /\ t \in Orders /\ k = HoldKey[t]
      /\ \A x \in Key : x # k => balances'[x].held = balances[x].held
      /\ \A o \in Orders : o # t => holds'[o] = holds[o]
      /\ \A f \in faults : f \in faults'
    BY <1>2, <1>3
<1>8. QED
  <2> HIDE DEF t, k
  <2>1. QED
      BY <1>1, <1>6, <1>7, OneHoldChanges

LEMMA HeldNext == HInv /\ [Next]_vars => HInv'
<1> SUFFICES ASSUME HInv, [Next]_vars PROVE HInv'
    OBVIOUS
<1>1. BInv' /\ IInv'
    BY BooksNext DEF HInv, BInv
<1>2. CASE UNCHANGED <<balances, holds, faults>>
    BY <1>1, <1>2 DEF HInv, HeldIsHolds, HoldsAgree, Faulty
<1>3. CASE Next
  <2>1. PICK c \in Slots : \/ Start(c) \/ FindNoRow(c) \/ Upsert(c) \/ UpdateBalance(c) \/ Commit(c)
                           \/ TakeHold(c) \/ ReadHold(c) \/ ReleaseHoldRead(c) \/ ConsumeHoldRead(c)
                           \/ RollBack(c)
      BY <1>3, Steps
  <2>2. CASE Start(c) \/ FindNoRow(c) \/ Upsert(c) \/ UpdateBalance(c) \/ ReadHold(c) \/ RollBack(c)
      BY <1>2, <2>2 DEF Start, FindNoRow, Upsert, UpdateBalance, ReadHold, RollBack, tables
  <2>3. CASE Commit(c)
      BY <1>1, <2>3, CommitKeepsHeld DEF HInv
  <2>4. CASE TakeHold(c)
      BY <1>1, <2>4, TakeHoldKeepsHeld DEF HInv
  <2>5. CASE ReleaseHoldRead(c)
      BY <1>1, <2>5, ReleaseHoldKeepsHeld DEF HInv
  <2>6. CASE ConsumeHoldRead(c)
      BY <1>1, <2>6, ConsumeHoldKeepsHeld DEF HInv
  <2>7. QED
      BY <2>1, <2>2, <2>3, <2>4, <2>5, <2>6
<1>4. QED
    BY <1>2, <1>3 DEF vars

\* The held part of a balance is what the holds on it add up to, in every state of every
\* run, until a call that wrote over the row, or that used a hold which was not what it
\* took it for, commits: partial consumptions, settlements that share a hold and calls
\* that fail do not part the two tables.
THEOREM HeldIsHeld == Spec => []HeldIsHolds
<1>1. HInv => HeldIsHolds
    BY DEF HInv
<1>2. QED
    BY <1>1, HeldInit, HeldNext, PTL DEF Spec

-----------------------------------------------------------------------------
(* To those who read the tables, operations are atomic                      *)

\* The sums of the abstract specification are the same sums.
LEMMA SameSum == ASSUME NEW f PROVE Atomic!SumFunction(f) = SumFunction(f)
BY DEF SumFunction, SumFunctionOnSet, FoldFunctionOnSet, MapThenFoldSet,
       Atomic!SumFunction, Atomic!SumFunctionOnSet, Atomic!FoldFunctionOnSet, Atomic!MapThenFoldSet

\* What a commit takes from a hold is what the operation takes in one piece.
LEMMA TakenIsConsumed ==
    ASSUME IInv, NEW c \in Slots, Commit(c), Overuses(c) = {}, NEW k \in Key
    PROVE  Atomic!Taken(Op(c), k) = Consumed(c, k)
<1> DEFINE T == {x \in Op(c).uses : HoldKey[x.order] = k}
           f == [u \in T |-> holds[u.order] - Remaining(holds[u.order], u.amount)]
<1>1. LegsDone(c)
    BY DEF Commit
<1>2. Atomic!Taken(Op(c), k) = SumFunctionOnSet(f, T)
    BY SameSum DEF Atomic!Taken, Atomic!Remaining, Remaining, SumFunction
<1>3. CASE T = {}
  <2>1. Consumed(c, k) = 0
      BY <1>1, <1>3, ConsumedIs
  <2>2. QED
      BY <1>2, <1>3, <2>1, SumEmpty
<1>4. CASE T # {}
  <2>1. PICK u \in T : TRUE
      BY <1>4
  <2>2. /\ u.order \in Orders /\ u.amount \in Nat /\ holds[u.order] \in Nat
        /\ \A v \in Op(c).uses : HoldKey[u.order] = HoldKey[v.order] => u = v
      BY <1>1, <2>1, SettledUses DEF IInv, Shapes
  <2>3. T = {u}
      BY <2>1, <2>2
  <2>4. Consumed(c, k) = IF holds[u.order] > 0 THEN u.amount ELSE 0
      BY <1>1, <2>1, ConsumedIs
  <2>5. /\ holds[u.order] = 0 => Remaining(holds[u.order], u.amount) = 0
        /\ holds[u.order] > 0 => Remaining(holds[u.order], u.amount) = holds[u.order] - u.amount
    <3>1. ~(0 < holds[u.order] /\ holds[u.order] < u.amount)
        BY <2>1 DEF Overuses
    <3>2. QED
        BY <2>1, <2>2, <3>1, SettledHold DEF Remaining
  <2>6. f[u] = Consumed(c, k) /\ f[u] \in Int
      BY <2>1, <2>2, <2>4, <2>5
  <2>7. QED
      BY <1>2, <2>3, <2>6, SumSingle
<1>5. QED
    BY <1>3, <1>4

\* A commit that is no fault posts its operation.
LEMMA CommitPosts ==
    ASSUME NInv, HInv, IInv', NEW c \in Slots, Commit(c), faults' = faults
    PROVE  Op(c) \in Menu[c] /\ Atomic!Post(Op(c))
<1>1. IInv /\ View(c) /\ Rows
    BY DEF HInv, BInv
<1>0. calls[c].slips = {} /\ Overuses(c) = {}
    BY <1>1, CommitFaults
<1>2. LegsDone(c) /\ Running(c) /\ Op(c).kind \in {"change", "settle"} /\ calls[c].done = Len(Op(c).legs)
    BY DEF Commit, LegsDone, HasLegs
<1>3. Progress(c)
    BY <1>1, <1>2, IdleFacts DEF IInv, CallsSound, Running
<1>4. Op(c) \in Menu[c] /\ Op(c) \in Operations
    BY <1>3 DEF Progress, Op, Operations
<1>5. DOMAIN calls[c].work = Atomic!Touched(Op(c))
  <2>1. Op(c).legs \in Seq([key : Key, delta : Int])
      BY <1>4, MenuFacts
  <2>2. DOMAIN Op(c).legs = 1..calls[c].done
      BY <1>2, <2>1
  <2>3. QED
      BY <1>3, <2>2 DEF Progress, Atomic!Touched, Op
<1>6. ASSUME NEW k \in Key
      PROVE  balances'[k] = IF k \in Atomic!Touched(Op(c))
                            THEN Atomic!After(balances[k], Atomic!Posted(Op(c), k), Atomic!Taken(Op(c), k))
                            ELSE balances[k]
  <2>1. /\ balances'[k] \in Row /\ balances[k] \in Row
        /\ balances'[k].exists = Seen(c, k).exists
        /\ balances'[k].available = Seen(c, k).available
        /\ balances'[k].held = Seen(c, k).held - Consumed(c, k)
      BY <1>1, CommitBalances DEF IInv, Shapes
  <2>2. CASE k \in DOMAIN calls[c].work
    <3>1. Seen(c, k).exists
        BY <1>3, <2>2 DEF Seen, Progress
    <3>2. Partial(calls[c].op, k, calls[c].done) = Atomic!Posted(Op(c), k)
      <4>1. Partial(calls[c].op, k, calls[c].done) = Posted(Op(c), k)
          BY <1>2, <1>4, PartialFacts DEF Op
      <4>2. Atomic!Posted(Op(c), k) = Posted(Op(c), k)
          BY SameSum DEF Posted, Atomic!Posted
      <4>3. QED
          BY <4>1, <4>2
    <3>3. /\ balances'[k].exists = TRUE
          /\ balances'[k].available = balances[k].available + Atomic!Posted(Op(c), k)
          /\ balances'[k].held = balances[k].held - Atomic!Taken(Op(c), k)
      <4>1. /\ Seen(c, k).held = balances[k].held
            /\ Seen(c, k).available = balances[k].available + Partial(calls[c].op, k, calls[c].done)
          BY <1>0, <1>1 DEF View, Overwrites
      <4>2. Atomic!Taken(Op(c), k) = Consumed(c, k)
          BY <1>0, <1>1, TakenIsConsumed
      <4>3. QED
          BY <2>1, <3>1, <3>2, <4>1, <4>2
    <3>4. balances'[k] = [exists |-> TRUE,
                          available |-> balances[k].available + Atomic!Posted(Op(c), k),
                          held |-> balances[k].held - Atomic!Taken(Op(c), k)]
        BY <2>1, <3>3 DEF Row
    <3>5. QED
        BY <1>5, <2>2, <3>4 DEF Atomic!After, Atomic!Balance
  <2>3. CASE k \notin DOMAIN calls[c].work
    <3>1. Consumed(c, k) = 0 /\ Seen(c, k) = balances[k]
        BY <1>1, <1>2, <2>3, ConsumedIs DEF Seen
    <3>2. balances'[k].held = balances[k].held
        BY <2>1, <3>1 DEF Row
    <3>3. balances'[k] = balances[k]
        BY <2>1, <3>1, <3>2 DEF Row
    <3>4. QED
        BY <1>5, <2>3, <3>3
  <2>4. QED
      BY <2>2, <2>3
<1>7. balances' = [k \in Key |-> IF k \in Atomic!Touched(Op(c))
                                 THEN Atomic!After(balances[k], Atomic!Posted(Op(c), k), Atomic!Taken(Op(c), k))
                                 ELSE balances[k]]
    BY <1>1, <1>6 DEF IInv, Shapes
<1>8. \A k \in Atomic!Touched(Op(c)) : balances'[k].available >= 0
  <2>1. ASSUME NEW k \in DOMAIN calls[c].work PROVE balances'[k].available >= 0
    <3>1. k \in Key /\ calls[c].work[k] \in Row
        BY <1>1, CallFacts DEF IInv
    <3>2. balances'[k].available = calls[c].work[k].available
        BY <1>1, <2>1, <3>1, CommitBalances DEF Seen
    <3>3. ~(calls[c].work[k].available < 0)
        BY <1>0, <2>1 DEF NInv
    <3>4. QED
        BY <3>1, <3>2, <3>3 DEF Row
  <2>2. QED
      BY <1>5, <2>1
<1>9. holds' = [o \in Orders |-> IF \E u \in Op(c).uses : u.order = o
                                 THEN Atomic!Remaining(holds[o], (CHOOSE u \in Op(c).uses : u.order = o).amount)
                                 ELSE holds[o]]
    BY DEF Commit, Remaining, Atomic!Remaining
<1>10. QED
    BY <1>2, <1>4, <1>7, <1>8, <1>9 DEF Atomic!Post, Atomic!Key, Atomic!Assets, Key, Assets

LEMMA TakeHoldReserves ==
    ASSUME HInv, IInv', NEW c \in Slots, TakeHold(c), faults' = faults
    PROVE  Op(c) \in Menu[c] /\ Atomic!Reserve(Op(c))
<1>1. IInv
    BY DEF HInv, BInv
<1>2. Op(c) \in Menu[c] /\ Op(c).uses = {TheUse(c)} /\ holds[TheOrder(c)] = 0
    BY <1>1, TakeHoldStep, TakeHoldKeepsHeld
<1>3. /\ Op(c).kind = "create"
      /\ balances[HoldKey[TheUse(c).order]].available >= TheUse(c).amount
      /\ balances' = [balances EXCEPT ![HoldKey[TheUse(c).order]].available = @ - TheUse(c).amount,
                                      ![HoldKey[TheUse(c).order]].held = @ + TheUse(c).amount]
      /\ holds' = [holds EXCEPT ![TheUse(c).order] = TheUse(c).amount]
    BY DEF TakeHold, TheKey, TheOrder
<1>4. QED
    BY <1>2, <1>3 DEF Atomic!Reserve, TheOrder

LEMMA ReleaseHoldReleases ==
    ASSUME HInv, IInv', NEW c \in Slots, ReleaseHoldRead(c), faults' = faults
    PROVE  Op(c) \in Menu[c] /\ Atomic!Release(Op(c))
<1>1. IInv
    BY DEF HInv, BInv
<1>2. Op(c) \in Menu[c] /\ Op(c).uses = {TheUse(c)} /\ calls[c].read = holds[TheUse(c).order]
    BY <1>1, ReleaseHoldStep, ReleaseHoldKeepsHeld DEF TheOrder
<1>3. /\ Op(c).kind = "release"
      /\ balances' = [balances EXCEPT ![HoldKey[TheUse(c).order]].available = @ + holds[TheUse(c).order],
                                      ![HoldKey[TheUse(c).order]].held = @ - holds[TheUse(c).order]]
      /\ holds' = [holds EXCEPT ![TheUse(c).order] = 0]
    BY <1>2 DEF ReleaseHoldRead, HasHold, TheKey, TheOrder
<1>4. QED
    BY <1>2, <1>3 DEF Atomic!Release

LEMMA ConsumeHoldConsumes ==
    ASSUME HInv, IInv', NEW c \in Slots, ConsumeHoldRead(c), faults' = faults
    PROVE  Op(c) \in Menu[c] /\ Atomic!Consume(Op(c))
<1> DEFINE u == TheUse(c)
           h == holds[u.order]
           rest == IF u.amount = 0 THEN 0 ELSE Atomic!Remaining(h, u.amount)
<1>1. IInv
    BY DEF HInv, BInv
<1>2. /\ Op(c) \in Menu[c] /\ Op(c).uses = {u} /\ u.order \in Orders /\ Taking(c) \in Nat
    BY <1>1, ConsumeHoldStep DEF TheOrder
<1>3. /\ h \in Nat /\ Taking(c) <= h /\ holds'[u.order] = h - Taking(c) /\ holds'[u.order] = rest
    BY <1>1, ConsumedHold DEF TheOrder, Remaining, Atomic!Remaining
<1>4. Taking(c) = h - rest
    BY <1>2, <1>3
<1>5. balances' = [balances EXCEPT ![HoldKey[u.order]].held = @ - Taking(c)]
    BY DEF ConsumeHoldRead, Taking, TheKey, TheOrder
<1>6. holds' = [holds EXCEPT ![u.order] = rest]
  <2>1. \A o \in Orders : o # u.order => holds'[o] = holds[o]
      BY <1>1, ConsumeHoldStep DEF TheOrder
  <2>2. holds \in [Orders -> Nat] /\ holds' \in [Orders -> Nat]
      BY <1>1 DEF IInv, Shapes
  <2>3. QED
      BY <1>2, <1>3, <2>1, <2>2
<1>7. Op(c).kind = "consume"
    BY DEF ConsumeHoldRead, HasHold
<1>8. balances' = [balances EXCEPT ![HoldKey[u.order]].held = @ - (h - rest)]
    BY <1>4, <1>5
<1>9. QED
    BY <1>2, <1>6, <1>7, <1>8 DEF Atomic!Consume

LEMMA NextIsAtomic ==
    NInv /\ HInv /\ IInv' /\ [Next]_vars =>
        [Atomic!Next \/ faults' # faults]_<<balances, holds>>
<1> SUFFICES ASSUME NInv, HInv, IInv', [Next]_vars, faults' = faults
             PROVE  [Atomic!Next]_<<balances, holds>>
    OBVIOUS
<1>1. CASE UNCHANGED vars
    BY <1>1 DEF vars
<1>2. CASE Next
  <2>1. PICK c \in Slots : \/ Start(c) \/ FindNoRow(c) \/ Upsert(c) \/ UpdateBalance(c) \/ Commit(c)
                           \/ TakeHold(c) \/ ReadHold(c) \/ ReleaseHoldRead(c) \/ ConsumeHoldRead(c)
                           \/ RollBack(c)
      BY <1>2, Steps
  <2>2. CASE \/ Start(c) \/ RollBack(c) \/ FindNoRow(c) \/ ReadHold(c) \/ Upsert(c) \/ UpdateBalance(c)
      BY <2>2 DEF Start, RollBack, FindNoRow, ReadHold, Upsert, UpdateBalance, tables
  <2>3. Slots = Atomic!Slots
      BY DEF Slots, Atomic!Slots
  <2>4. CASE Commit(c)
      BY <2>3, <2>4, CommitPosts DEF Atomic!Next
  <2>5. CASE TakeHold(c)
      BY <2>3, <2>5, TakeHoldReserves DEF Atomic!Next
  <2>6. CASE ReleaseHoldRead(c)
      BY <2>3, <2>6, ReleaseHoldReleases DEF Atomic!Next
  <2>7. CASE ConsumeHoldRead(c)
      BY <2>3, <2>7, ConsumeHoldConsumes DEF Atomic!Next
  <2>8. QED
      BY <2>1, <2>2, <2>4, <2>5, <2>6, <2>7
<1>3. QED
    BY <1>1, <1>2

\* Calls run statement by statement, wait for each other, fail half way and are rolled
\* back: those who read the tables see operations that happen one at a time, each in full
\* or not at all, and never spend what is not there.  The steps that are left out are
\* faults, and each of them notes one.
THEOREM LedgerIsAtomic == Spec => ImplementsAtomic
<1>1. NInv /\ [Next]_vars => NInv' /\ IInv'
    BY NoOverdraftNext DEF NInv
<1>2. Init => Atomic!Init
    BY DEF Init, Atomic!Init
<1>3. NInv /\ NInv' /\ HInv /\ [Next]_vars => [Atomic!Next \/ faults' # faults]_<<balances, holds>>
    BY NextIsAtomic, <1>1
<1>4. QED
    BY <1>1, <1>2, <1>3, NoOverdraftInit, HeldInit, HeldNext, PTL DEF Spec, ImplementsAtomic
=============================================================================
