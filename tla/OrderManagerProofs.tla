------------------------- MODULE OrderManagerProofs -------------------------
(***************************************************************************)
(* Theorems about OrderManager, for every value of its constants.          *)
(***************************************************************************)
EXTENDS OrderManager, SequenceTheorems, SumProofs

-----------------------------------------------------------------------------
(* What every proof needs to know of a state                                *)

\* Nothing has happened to an order that did not arrive.
Fresh ==
    /\ \A o \in Ids \ DOMAIN orders :
          filled[o] = 0 /\ outcome[o] = NoOutcome /\ rows[o] = NoRow
    /\ \A o \in Ids : o \in accepted \/ placing[o] # "no" => o \in DOMAIN orders

\* No count of fills goes beyond its order.
FillsFit ==
    \A o \in DOMAIN orders : /\ filled[o] <= orders[o].quantity
                             /\ outcome[o].filled <= orders[o].quantity
                             /\ rows[o].filled <= orders[o].quantity

\* A process that is down has no memory.
Memory ==
    mode = "down" =>
        /\ restarts < MaxRestarts
        /\ resting = {} /\ stops = {} /\ firings = {} /\ pending = <<>> /\ flights = {}
        /\ \A o \in Ids : placing[o] = "no" /\ cancelling[o] = "no" /\ outcome[o] = NoOutcome

IInv == TypeOK /\ Fresh /\ FillsFit /\ Memory

-----------------------------------------------------------------------------
(* Buffers and sequences                                                    *)

LEMMA LeastNumber ==
    ASSUME NEW F \in SUBSET Nat, F # {}
    PROVE  \E n \in F : \A k \in F : n <= k
<1>1. PICK n \in F : \A k \in F : <<k, n>> \notin OpToRel(<, Nat)
    BY NatLessThanWellFounded, WFMin
<1>2. \A k \in F : ~(k < n)
    BY <1>1 DEF OpToRel
<1> QED
    BY <1>2

\* What waits to be published, and where.
Buffer(p, fl) == [pending |-> p, flights |-> fl]

\* g holds the buffer after each of the first n trades.
Buffers(n, g) ==
    g = [i \in 0..n |-> IF i = 0 THEN Buffer(pending, flights) ELSE PushTrade(g[i - 1], Len(trades) + i)]

LEMMA BuffersExist == \A n \in Nat : \E g : Buffers(n, g)
<1> DEFINE Bad == {n \in Nat : ~\E g : Buffers(n, g)}
<1>1. SUFFICES ASSUME Bad # {} PROVE FALSE
    OBVIOUS
<1>2. PICK n \in Bad : \A k \in Bad : n <= k
    <2>1. Bad \in SUBSET Nat
        OBVIOUS
    <2> QED
        BY <1>1, <2>1, LeastNumber
<1>3. CASE n = 0
    <2>1. 0..n = {0}
        BY <1>3
    <2>2. Buffers(n, [i \in 0..n |-> Buffer(pending, flights)])
        BY <2>1 DEF Buffers
    <2> QED
        BY <1>2, <2>2
<1>4. CASE n # 0
    <2>1. n \in Nat /\ n - 1 \in Nat /\ n - 1 \notin Bad
        BY <1>2, <1>4
    <2>2. PICK g : Buffers(n - 1, g)
        BY <2>1
    <2> DEFINE h == [i \in 0..n |-> IF i = n THEN PushTrade(g[n - 1], Len(trades) + n) ELSE g[i]]
    <2>3. ASSUME NEW i \in 0..n
          PROVE  h[i] = IF i = 0 THEN Buffer(pending, flights) ELSE PushTrade(h[i - 1], Len(trades) + i)
        <3>1. CASE i = n
            <4>1. h[i] = PushTrade(g[n - 1], Len(trades) + n) /\ h[n - 1] = g[n - 1]
                BY <1>4, <2>1, <3>1
            <4> QED
                BY <1>4, <3>1, <4>1
        <3>2. CASE i # n /\ i = 0
            BY <2>1, <2>2, <3>2 DEF Buffers
        <3>3. CASE i # n /\ i # 0
            <4>1. i \in 0..(n - 1) /\ i - 1 \in 0..n /\ i - 1 # n
                BY <2>1, <3>3
            <4>2. h[i] = g[i] /\ h[i - 1] = g[i - 1]
                BY <3>3, <4>1
            <4>3. g[i] = PushTrade(g[i - 1], Len(trades) + i)
                BY <2>2, <3>3, <4>1 DEF Buffers
            <4> QED
                BY <3>3, <4>2, <4>3
        <3> QED
            BY <3>1, <3>2, <3>3
    <2>4. h = [i \in 0..n |-> h[i]]
        OBVIOUS
    <2> HIDE DEF h
    <2>5. Buffers(n, h)
        BY <2>3, <2>4 DEF Buffers
    <2> QED
        BY <1>2, <2>5
<1> QED
    BY <1>3, <1>4

\* The steps in which processOrder fills the buffer.
LEMMA BufferedSteps ==
    ASSUME NEW n \in Nat
    PROVE  \E g : /\ g[0] = Buffer(pending, flights)
                  /\ \A i \in 1..n : g[i] = PushTrade(g[i - 1], Len(trades) + i)
                  /\ Buffered(n) = g[n]
<1> DEFINE g == CHOOSE g : Buffers(n, g)
<1>1. Buffered(n) = g[n]
    BY DEF Buffered, Buffers, Buffer
<1>2. Buffers(n, g)
    BY BuffersExist
<1> HIDE DEF g
<1>3. g[0] = Buffer(pending, flights)
    BY <1>2 DEF Buffers
<1>4. \A i \in 1..n : g[i] = PushTrade(g[i - 1], Len(trades) + i)
    BY <1>2 DEF Buffers
<1> QED
    BY <1>1, <1>3, <1>4

\* A finite set as a sequence.
LEMMA EnumerationFacts ==
    ASSUME NEW S, IsFiniteSet(S)
    PROVE  /\ Cardinality(S) \in Nat
           /\ SetToSeq(S) \in [1..Cardinality(S) -> S]
           /\ SetToSeq(S) \in Seq(S)
           /\ Len(SetToSeq(S)) = Cardinality(S)
           /\ IsInjective(SetToSeq(S))
           /\ \A x \in S : \E i \in 1..Cardinality(S) : SetToSeq(S)[i] = x
<1> DEFINE n == Cardinality(S)
<1>1. n \in Nat /\ ExistsBijection(1..n, S)
    BY FS_CardinalityType
<1>2. \E f \in [1..n -> S] : IsInjective(f)
    BY <1>1 DEF ExistsBijection, Bijection, Injection
<1> DEFINE s == SetToSeq(S)
<1>3. s \in [1..n -> S] /\ IsInjective(s)
    BY <1>2 DEF SetToSeq
<1> HIDE DEF s
<1>4. IsFiniteSet(1..n) /\ Cardinality(1..n) = n
    BY <1>1, FS_Interval
<1>5. s \in Injection(1..n, S)
    BY <1>3 DEF Injection
<1>6. s \in Surjection(1..n, S)
    BY <1>4, <1>5, FS_Injection
<1>7. \A x \in S : \E i \in 1..n : s[i] = x
    BY <1>6 DEF Surjection
<1>8. s \in Seq(S) /\ Len(s) = n
    BY <1>1, <1>3
<1> QED
    BY <1>1, <1>3, <1>7, <1>8 DEF s

-----------------------------------------------------------------------------
(* One call of processOrder                                                 *)

Makers(order) == {m \in resting : orders[m].side # order.side}

Hit(order, take) == {m \in Makers(order) : take[m] > 0}

Made(o, order, take) ==
    SetToSeq({[maker |-> m, taker |-> o, quantity |-> take[m], run |-> restarts] : m \in Hit(order, take)})

\* The order rests after it took so much.
Stays(order, kind, carried, got) == kind = "limit" /\ carried + got < order.quantity

LEMMA ProcessIs ==
    ASSUME NEW o, NEW order, NEW kind, NEW carried, Process(o, order, kind, carried)
    PROVE  \E take \in Takes(order.side, order.quantity - carried, Makers(order)) :
             LET got == SumFunction(take)
                 made == Made(o, order, take)
             IN  /\ trades' = trades \o made
                 /\ pending' = Buffered(Len(made)).pending /\ flights' = Buffered(Len(made)).flights
                 /\ resting' = (resting \ {m \in Hit(order, take) : take[m] = Left(m)})
                                  \cup (IF Stays(order, kind, carried, got) THEN {o} ELSE {})
                 /\ filled' = [m \in Ids |-> IF m \in Hit(order, take) THEN filled[m] + take[m]
                                             ELSE IF m # o THEN filled[m]
                                             ELSE IF Stays(order, kind, carried, got) THEN got ELSE carried + got]
                 /\ outcome' = [outcome EXCEPT ![o] =
                                   [status |-> FinalStatus(kind, order.quantity, got), filled |-> got]]
BY DEF Process, Makers, Hit, Made, Stays

LEMMA OrderFacts ==
    ASSUME IInv
    PROVE  /\ Len(orders) \in Nat /\ DOMAIN orders = 1..Len(orders) /\ DOMAIN orders \subseteq Ids
           /\ \A o \in DOMAIN orders : /\ orders[o] \in Order /\ orders[o].quantity \in 1..MaxQuantity
                                       /\ Left(o) \in Nat
           /\ MaxOrders \in Nat /\ MaxQuantity \in Nat /\ Ids \subseteq Nat
           /\ IsFiniteSet(resting)
<1>1. MaxOrders \in Nat /\ MaxQuantity \in Nat
    BY BoundsAssumption
<1>2. orders \in Seq(Order) /\ Len(orders) <= MaxOrders
    BY DEF IInv, TypeOK
<1>3. Len(orders) \in Nat /\ DOMAIN orders = 1..Len(orders)
    BY <1>2, LenProperties
<1>4. DOMAIN orders \subseteq Ids /\ Ids \subseteq Nat
    BY <1>1, <1>2, <1>3 DEF Ids
<1>5. \A o \in DOMAIN orders : orders[o] \in Order
    BY <1>2, <1>3, ElementOfSeq
<1>6. \A o \in DOMAIN orders : orders[o].quantity \in 1..MaxQuantity
    BY <1>5 DEF Order
<1>7. ASSUME NEW o \in DOMAIN orders
      PROVE  Left(o) \in Nat
    <2>1. filled[o] \in Nat /\ filled[o] <= orders[o].quantity
        BY <1>1, <1>4 DEF IInv, TypeOK, FillsFit
    <2>2. orders[o].quantity \in Nat
        BY <1>1, <1>6
    <2> QED
        BY <2>1, <2>2 DEF Left
<1>8. IsFiniteSet(resting)
    <2>1. IsFiniteSet(1..Len(orders))
        BY <1>3, FS_Interval
    <2>2. resting \in SUBSET (1..Len(orders))
        BY <1>3 DEF IInv, TypeOK
    <2> QED
        BY <2>1, <2>2, FS_Subset
<1> QED
    BY <1>1, <1>3, <1>4, <1>5, <1>6, <1>7, <1>8

\* What is taken from the makers fits them and the taker.
LEMMA TakeFacts ==
    ASSUME IInv, NEW order \in Order, NEW room, NEW take \in Takes(order.side, room, Makers(order))
    PROVE  /\ IsFiniteSet(Makers(order)) /\ IsFiniteSet(Hit(order, take))
           /\ Makers(order) \subseteq resting
           /\ DOMAIN take = Makers(order)
           /\ \A m \in Makers(order) : take[m] \in 0..MaxQuantity /\ take[m] <= Left(m)
           /\ SumFunction(take) = SumFunctionOnSet(take, Makers(order))
           /\ SumFunction(take) \in Nat /\ SumFunction(take) <= room
<1>1. Makers(order) \in SUBSET resting /\ Hit(order, take) \in SUBSET resting
    BY DEF Makers, Hit
<1>2. IsFiniteSet(Makers(order)) /\ IsFiniteSet(Hit(order, take))
    BY <1>1, OrderFacts, FS_Subset
<1>3. /\ take \in [Makers(order) -> 0..MaxQuantity]
      /\ SumFunction(take) <= room
      /\ \A m \in Makers(order) : take[m] <= Left(m)
    BY DEF Takes
<1>4. \A m \in Makers(order) : take[m] \in 0..MaxQuantity /\ take[m] \in Nat
    BY <1>3, OrderFacts
<1>5. SumFunction(take) = SumFunctionOnSet(take, Makers(order))
    BY <1>3 DEF SumFunction
<1>6. SumFunctionOnSet(take, Makers(order)) \in Nat
    BY <1>2, <1>4, SumNat
<1> QED
    BY <1>1, <1>2, <1>3, <1>4, <1>5, <1>6

\* The trades of one call: one with each maker that is hit.
OnePerMaker(made, o, H, take) ==
    /\ made \in Seq(Trade) /\ Len(made) \in Nat /\ DOMAIN made = 1..Len(made)
    /\ \A i \in 1..Len(made) : /\ made[i].maker \in H /\ made[i].taker = o
                                /\ made[i].run = restarts /\ made[i].quantity = take[made[i].maker]
    /\ \A i, j \in 1..Len(made) : made[i].maker = made[j].maker => i = j
    /\ \A m \in H : \E i \in 1..Len(made) : made[i].maker = m

LEMMA MadeFacts ==
    ASSUME IInv, NEW o \in Ids, NEW order \in Order, NEW room,
           NEW take \in Takes(order.side, room, Makers(order))
    PROVE  OnePerMaker(Made(o, order, take), o, Hit(order, take), take)
<1> DEFINE H == Hit(order, take)
           S == {[maker |-> m, taker |-> o, quantity |-> take[m], run |-> restarts] : m \in H}
           f == [m \in H |-> [maker |-> m, taker |-> o, quantity |-> take[m], run |-> restarts]]
<1>1. IsFiniteSet(H) /\ \A m \in H : m \in resting /\ take[m] \in 1..MaxQuantity
    <2>1. /\ IsFiniteSet(H) /\ Makers(order) \subseteq resting
          /\ \A m \in Makers(order) : take[m] \in 0..MaxQuantity
        BY TakeFacts
    <2>2. \A m \in H : m \in Makers(order) /\ take[m] > 0
        BY DEF Hit
    <2>3. MaxQuantity \in Nat
        BY OrderFacts
    <2> QED
        BY <2>1, <2>2, <2>3
<1>2. f \in Bijection(H, S)
    BY DEF Bijection, Injection, Surjection, IsInjective
<1>3. IsFiniteSet(S)
    BY <1>1, <1>2, FS_Bijection DEF ExistsBijection
<1>4. S \subseteq Trade
    <2>1. \A m \in H : m \in Ids
        BY <1>1, OrderFacts DEF IInv, TypeOK
    <2>2. restarts \in Nat
        BY BoundsAssumption DEF IInv, TypeOK
    <2> QED
        BY <1>1, <2>1, <2>2 DEF Trade
<1>5. PICK made : made = SetToSeq(S) /\ made = Made(o, order, take)
    BY DEF Made
<1>6. \A x \in S : /\ x.maker \in H /\ x.taker = o /\ x.run = restarts /\ x.quantity = take[x.maker]
                   /\ \A y \in S : x.maker = y.maker => x = y
    OBVIOUS
<1>7. ASSUME NEW m \in H PROVE \E x \in S : x.maker = m
    <2>1. f[m] \in S /\ f[m].maker = m
        OBVIOUS
    <2> QED
        BY <2>1
<1> HIDE DEF H, S, f
<1>8. /\ made \in Seq(S) /\ Len(made) \in Nat /\ made \in [1..Len(made) -> S]
      /\ IsInjective(made)
      /\ \A x \in S : \E i \in 1..Len(made) : made[i] = x
    BY <1>3, <1>5, EnumerationFacts
<1>9. made \in Seq(Trade)
    BY <1>4, <1>8, SeqMonotonic
<1>10. DOMAIN made = 1..Len(made) /\ \A i \in 1..Len(made) : made[i] \in S
    BY <1>8
<1>11. \A i, j \in 1..Len(made) : made[i].maker = made[j].maker => i = j
    BY <1>6, <1>8, <1>10 DEF IsInjective
<1>12. \A m \in H : \E i \in 1..Len(made) : made[i].maker = m
    BY <1>7, <1>8
<1> QED
    <2>1. \A i \in 1..Len(made) : /\ made[i].maker \in H /\ made[i].taker = o
                                  /\ made[i].run = restarts /\ made[i].quantity = take[made[i].maker]
        BY <1>6, <1>10
    <2>2. OnePerMaker(made, o, H, take)
        BY <1>8, <1>9, <1>10, <1>11, <1>12, <2>1 DEF OnePerMaker
    <2> QED
        BY <1>5, <2>2 DEF H

-----------------------------------------------------------------------------
(* What goes into the buffer                                                *)

BuffersOf(numbers) == [pending : Seq(numbers), flights : SUBSET FlightsOf(numbers)]

LEMMA FlightsGrow ==
    ASSUME NEW D, NEW E, D \subseteq E
    PROVE  FlightsOf(D) \subseteq FlightsOf(E) /\ BuffersOf(D) \subseteq BuffersOf(E)
<1>1. Seq(D) \subseteq Seq(E)
    BY SeqMonotonic
<1> QED
    BY <1>1 DEF FlightsOf, BuffersOf

LEMMA FlightIs ==
    ASSUME NEW D, NEW p \in Seq(D), p # <<>>
    PROVE  /\ Flight(p) \in FlightsOf(D)
           /\ Flight(p).batch = p /\ ~Flight(p).committed /\ Flight(p).sent = 0
<1>1. Len(p) > 0
    BY EmptySeq, LenProperties
<1> QED
    BY <1>1 DEF Flight, FlightsOf

\* A trade that is pushed is in the buffer or in a new flush.
LEMMA PushIs ==
    ASSUME NEW D, NEW b \in BuffersOf(D), NEW t \in D
    PROVE  \E p \in Seq(D) :
             /\ p = Append(b.pending, t) /\ p # <<>>
             /\ PushTrade(b, t) \in BuffersOf(D)
             /\ \/ PushTrade(b, t) = Buffer(p, b.flights)
                \/ PushTrade(b, t) = Buffer(<<>>, b.flights \cup {Flight(p)})
<1>0. PICK p : p = Append(b.pending, t)
    OBVIOUS
<1>1. p \in Seq(D) /\ p # <<>>
    BY <1>0, AppendProperties DEF BuffersOf
<1>2. CASE Len(p) >= BatchSize
    <2>1. PushTrade(b, t) = Buffer(<<>>, b.flights \cup {Flight(p)})
        BY <1>0, <1>2 DEF PushTrade, Buffer
    <2>2. Flight(p) \in FlightsOf(D)
        BY <1>1, FlightIs
    <2>3. PushTrade(b, t) \in BuffersOf(D)
        BY <2>1, <2>2, EmptySeq DEF BuffersOf, Buffer
    <2> QED
        BY <1>0, <1>1, <2>1, <2>3
<1>3. CASE ~(Len(p) >= BatchSize)
    <2>1. PushTrade(b, t) = Buffer(p, b.flights)
        BY <1>0, <1>3 DEF PushTrade, BuffersOf, Buffer
    <2>2. PushTrade(b, t) \in BuffersOf(D)
        BY <1>1, <2>1 DEF BuffersOf, Buffer
    <2> QED
        BY <1>0, <1>1, <2>1, <2>2
<1> QED
    BY <1>2, <1>3

\* The numbers of the trades that are waiting in a buffer or in a flush.
Waiting(b) == ToSet(b.pending) \cup UNION {ToSet(f.batch) : f \in b.flights}

\* No trade waits twice.
Apart(b) ==
    /\ IsInjective(b.pending)
    /\ \A f \in b.flights : IsInjective(f.batch) /\ ToSet(f.batch) \cap ToSet(b.pending) = {}
    /\ \A f, g \in b.flights : f # g => ToSet(f.batch) \cap ToSet(g.batch) = {}

LEMMA SetOfAppend ==
    ASSUME NEW D, NEW s \in Seq(D), NEW t \in D
    PROVE  /\ ToSet(Append(s, t)) = ToSet(s) \cup {t}
           /\ IsInjective(s) /\ t \notin ToSet(s) => IsInjective(Append(s, t))
<1> DEFINE p == Append(s, t)
<1>1. /\ Len(s) \in Nat /\ DOMAIN s = 1..Len(s) /\ DOMAIN p = 1..(Len(s) + 1)
      /\ \A i \in 1..Len(s) : p[i] = s[i]
      /\ p[Len(s) + 1] = t
    BY AppendProperties, LenProperties
<1> HIDE DEF p
<1>2. ToSet(p) = ToSet(s) \cup {t}
    BY <1>1 DEF ToSet
<1>3. ASSUME IsInjective(s), t \notin ToSet(s), NEW i \in DOMAIN p, NEW j \in DOMAIN p, p[i] = p[j]
      PROVE  i = j
    <2>1. \A k \in 1..Len(s) : s[k] # t
        BY <1>1, <1>3 DEF ToSet
    <2>2. CASE i = Len(s) + 1 \/ j = Len(s) + 1
        BY <1>1, <1>3, <2>1, <2>2
    <2>3. CASE i # Len(s) + 1 /\ j # Len(s) + 1
        BY <1>1, <1>3, <2>3 DEF IsInjective
    <2> QED
        BY <2>2, <2>3
<1> QED
    BY <1>2, <1>3 DEF p, IsInjective

LEMMA EmptySet == ToSet(<<>>) = {} /\ IsInjective(<<>>)
BY DEF ToSet, IsInjective

LEMMA PushApart ==
    ASSUME NEW D, NEW b \in BuffersOf(D), NEW t \in D, t \notin Waiting(b), Apart(b)
    PROVE  Apart(PushTrade(b, t)) /\ Waiting(PushTrade(b, t)) = Waiting(b) \cup {t}
<1>0. PICK p \in Seq(D) :
         /\ p = Append(b.pending, t) /\ p # <<>>
         /\ PushTrade(b, t) \in BuffersOf(D)
         /\ \/ PushTrade(b, t) = Buffer(p, b.flights)
            \/ PushTrade(b, t) = Buffer(<<>>, b.flights \cup {Flight(p)})
    BY PushIs
<1>2. ToSet(p) = ToSet(b.pending) \cup {t} /\ IsInjective(p)
    <2>1. b.pending \in Seq(D) /\ IsInjective(b.pending) /\ t \notin ToSet(b.pending)
        BY DEF BuffersOf, Apart, Waiting
    <2> QED
        BY <1>0, <2>1, SetOfAppend
<1>3. \A f \in b.flights : ToSet(f.batch) \cap ToSet(p) = {}
    BY <1>2 DEF Apart, Waiting
<1>4. CASE PushTrade(b, t) = Buffer(p, b.flights)
    <2>1. Buffer(p, b.flights).pending = p /\ Buffer(p, b.flights).flights = b.flights
        BY DEF Buffer
    <2>2. Apart(Buffer(p, b.flights))
        BY <1>2, <1>3, <2>1 DEF Apart
    <2>3. Waiting(Buffer(p, b.flights)) = Waiting(b) \cup {t}
        BY <1>2, <2>1 DEF Waiting
    <2> QED
        BY <1>4, <2>2, <2>3
<1>5. CASE PushTrade(b, t) = Buffer(<<>>, b.flights \cup {Flight(p)})
    <2>1. Flight(p).batch = p
        BY DEF Flight
    <2> DEFINE fl == b.flights \cup {Flight(p)}
    <2>2. \A f \in fl : IsInjective(f.batch) /\ (f \in b.flights \/ (f = Flight(p) /\ f.batch = p))
        BY <1>2, <2>1 DEF Apart
    <2>3. \A f, g \in fl : f # g => ToSet(f.batch) \cap ToSet(g.batch) = {}
        BY <1>3, <2>2 DEF Apart
    <2>4. UNION {ToSet(f.batch) : f \in fl} = ToSet(p) \cup UNION {ToSet(f.batch) : f \in b.flights}
        BY <2>1
    <2> HIDE DEF fl
    <2>5. Apart(Buffer(<<>>, fl))
        BY <2>2, <2>3, EmptySet DEF Apart, Buffer
    <2>6. Waiting(Buffer(<<>>, fl)) = Waiting(b) \cup {t}
        BY <1>2, <2>4, EmptySet DEF Waiting, Buffer
    <2> QED
        BY <1>5, <2>5, <2>6 DEF fl
<1> QED
    BY <1>0, <1>4, <1>5

\* What the next n trades do to the buffer.
LEMMA BufferedTypes ==
    ASSUME IInv, NEW n \in Nat
    PROVE  /\ Buffered(n) \in BuffersOf(1..(Len(trades) + n))
           /\ \A f \in Buffered(n).flights : f \in flights \/ (~f.committed /\ f.sent = 0)
<1>1. PICK g : /\ g[0] = Buffer(pending, flights)
               /\ \A i \in 1..n : g[i] = PushTrade(g[i - 1], Len(trades) + i)
               /\ Buffered(n) = g[n]
    BY BufferedSteps
<1> DEFINE D(i) == 1..(Len(trades) + i)
           New(i) == \A f \in g[i].flights : f \in flights \/ (~f.committed /\ f.sent = 0)
           Bad == {i \in 0..n : ~(g[i] \in BuffersOf(D(i)) /\ New(i))}
<1>2. Len(trades) \in Nat /\ DOMAIN trades = 1..Len(trades)
    BY LenProperties DEF IInv, TypeOK
<1>3. SUFFICES ASSUME Bad # {} PROVE FALSE
    BY <1>1
<1>4. PICK i \in Bad : \A k \in Bad : i <= k
    <2>1. Bad \in SUBSET Nat
        OBVIOUS
    <2> QED
        BY <1>3, <2>1, LeastNumber
<1>5. i # 0
    <2>1. D(0) = DOMAIN trades
        BY <1>2
    <2>2. g[0] \in BuffersOf(D(0))
        BY <1>1, <2>1 DEF Buffer, BuffersOf, IInv, TypeOK
    <2>3. New(0)
        BY <1>1 DEF Buffer
    <2> QED
        BY <1>4, <2>2, <2>3
<1>6. i \in 1..n /\ i - 1 \in 0..n /\ i - 1 \notin Bad
    <2> HIDE DEF New
    <2> QED
        BY <1>4, <1>5
<1>7. g[i - 1] \in BuffersOf(D(i - 1)) /\ New(i - 1)
    BY <1>6
<1> HIDE DEF New
<1>8. D(i - 1) \subseteq D(i) /\ Len(trades) + i \in D(i)
    BY <1>2, <1>6
<1>9. g[i] = PushTrade(g[i - 1], Len(trades) + i)
    BY <1>1, <1>6
<1> HIDE DEF D
<1>10. g[i - 1] \in BuffersOf(D(i))
    <2>1. BuffersOf(D(i - 1)) \subseteq BuffersOf(D(i))
        BY <1>8, FlightsGrow
    <2> QED
        BY <1>7, <2>1
<1>11. PICK b, t, d : b = g[i - 1] /\ t = Len(trades) + i /\ d = D(i)
    OBVIOUS
<1>12. PICK q \in Seq(d) :
          /\ q = Append(b.pending, t) /\ q # <<>>
          /\ PushTrade(b, t) \in BuffersOf(d)
          /\ \/ PushTrade(b, t) = Buffer(q, b.flights)
             \/ PushTrade(b, t) = Buffer(<<>>, b.flights \cup {Flight(q)})
    <2>1. b \in BuffersOf(d) /\ t \in d
        BY <1>8, <1>10, <1>11
    <2> QED
        BY <2>1, PushIs
<1>13. g[i] = PushTrade(b, t)
    BY <1>9, <1>11
<1>14. \A f \in g[i].flights : f \in g[i - 1].flights \/ f = Flight(q)
    BY <1>11, <1>12, <1>13 DEF Buffer
<1>15. ~Flight(q).committed /\ Flight(q).sent = 0
    BY DEF Flight
<1>16. New(i)
    BY <1>7, <1>14, <1>15 DEF New
<1> QED
    BY <1>4, <1>11, <1>12, <1>13, <1>16

LEMMA BufferedApart ==
    ASSUME IInv, Apart(Buffer(pending, flights)), NEW n \in Nat
    PROVE  Apart(Buffered(n)) /\ Waiting(Buffered(n)) = Waiting(Buffer(pending, flights)) \cup ((Len(trades) + 1)..(Len(trades) + n))
<1>1. PICK g : /\ g[0] = Buffer(pending, flights)
               /\ \A i \in 1..n : g[i] = PushTrade(g[i - 1], Len(trades) + i)
               /\ Buffered(n) = g[n]
    BY BufferedSteps
<1> DEFINE D(i) == 1..(Len(trades) + i)
           Since(i) == Waiting(Buffer(pending, flights)) \cup ((Len(trades) + 1)..(Len(trades) + i))
           Good(i) == g[i] \in BuffersOf(D(i)) /\ Apart(g[i]) /\ Waiting(g[i]) = Since(i)
           Bad == {i \in 0..n : ~Good(i)}
<1>2. Len(trades) \in Nat /\ DOMAIN trades = 1..Len(trades)
    BY LenProperties DEF IInv, TypeOK
<1>3. SUFFICES ASSUME Bad # {} PROVE FALSE
    <2>1. n \in 0..n
        OBVIOUS
    <2>2. Bad = {} => Good(n)
        BY <2>1
    <2>3. Good(n) => Apart(Buffered(n)) /\ Waiting(Buffered(n)) = Since(n)
        BY <1>1
    <2> QED
        BY <2>2, <2>3
<1>4. PICK i \in Bad : \A k \in Bad : i <= k
    <2>1. Bad \in SUBSET Nat
        OBVIOUS
    <2> QED
        BY <1>3, <2>1, LeastNumber
<1>5. Buffer(pending, flights) \in BuffersOf(D(0)) /\ Waiting(Buffer(pending, flights)) \subseteq D(0)
    <2>1. D(0) = DOMAIN trades
        BY <1>2
    <2>2. Buffer(pending, flights) \in BuffersOf(DOMAIN trades)
        BY DEF Buffer, BuffersOf, IInv, TypeOK
    <2>3. \A s \in Seq(DOMAIN trades) : ToSet(s) \subseteq DOMAIN trades
        BY DEF ToSet
    <2>4. /\ Buffer(pending, flights).pending \in Seq(DOMAIN trades)
          /\ \A f \in Buffer(pending, flights).flights : f.batch \in Seq(DOMAIN trades)
        BY <2>2 DEF BuffersOf, FlightsOf
    <2>5. Waiting(Buffer(pending, flights)) \subseteq DOMAIN trades
        BY <2>3, <2>4 DEF Waiting
    <2> QED
        BY <2>1, <2>2, <2>5
<1>6. i # 0
    <2>1. Since(0) = Waiting(Buffer(pending, flights))
        BY <1>2
    <2>2. Good(0)
        BY <1>1, <1>5, <2>1
    <2> QED
        BY <1>4, <2>2
<1>7. i \in 1..n /\ i - 1 \in 0..n /\ i - 1 \notin Bad
    BY <1>4, <1>6
<1>8. Good(i - 1)
    BY <1>7
<1>9. /\ D(i - 1) \subseteq D(i) /\ Len(trades) + i \in D(i)
      /\ Len(trades) + i \notin Since(i - 1)
      /\ Since(i) = Since(i - 1) \cup {Len(trades) + i}
    BY <1>2, <1>5, <1>7
<1>10. g[i] = PushTrade(g[i - 1], Len(trades) + i)
    BY <1>1, <1>7
<1> HIDE DEF D, Since
<1>11. g[i - 1] \in BuffersOf(D(i))
    <2>1. BuffersOf(D(i - 1)) \subseteq BuffersOf(D(i))
        BY <1>9, FlightsGrow
    <2> QED
        BY <1>8, <2>1
<1>12. g[i] \in BuffersOf(D(i))
    BY <1>9, <1>10, <1>11, PushIs
<1>13. Len(trades) + i \notin Waiting(g[i - 1]) /\ Apart(g[i - 1])
    BY <1>8, <1>9
<1>14. Apart(g[i]) /\ Waiting(g[i]) = Waiting(g[i - 1]) \cup {Len(trades) + i}
    BY <1>9, <1>10, <1>11, <1>13, PushApart
<1>15. Good(i)
    BY <1>8, <1>9, <1>12, <1>14
<1> QED
    BY <1>4, <1>15

-----------------------------------------------------------------------------
(* What processOrder does to the rest of the state                          *)

\* The order that is processed is one that has just arrived or that was armed.
Suits(o, order, kind, carried) ==
    /\ o \in Ids /\ order \in Order /\ kind \in AllKinds
    /\ carried \in Nat /\ carried <= order.quantity
    /\ o \in DOMAIN orders => order = orders[o]

LEMMA ProcessTrades ==
    ASSUME IInv, NEW o, NEW order, NEW kind, NEW carried, Suits(o, order, kind, carried),
           Process(o, order, kind, carried)
    PROVE  \E n \in Nat :
             /\ trades' \in Seq(Trade) /\ Len(trades') = Len(trades) + n /\ DOMAIN trades' = 1..Len(trades')
             /\ DOMAIN trades = 1..Len(trades) /\ Len(trades) \in Nat /\ DOMAIN trades \subseteq DOMAIN trades'
             /\ SubSeq(trades', 1, Len(trades)) = trades
             /\ \A t \in DOMAIN trades : trades'[t] = trades[t]
             /\ \A t \in DOMAIN trades' \ DOMAIN trades :
                  trades'[t].run = restarts /\ trades'[t].taker = o /\ trades'[t].maker \in resting
             /\ pending' = Buffered(n).pending /\ flights' = Buffered(n).flights
<1>1. PICK take \in Takes(order.side, order.quantity - carried, Makers(order)) :
         /\ trades' = trades \o Made(o, order, take)
         /\ pending' = Buffered(Len(Made(o, order, take))).pending
         /\ flights' = Buffered(Len(Made(o, order, take))).flights
    BY ProcessIs
<1>2. PICK made :
         /\ made = Made(o, order, take)
         /\ made \in Seq(Trade) /\ Len(made) \in Nat
         /\ \A i \in 1..Len(made) : /\ made[i].maker \in Hit(order, take) /\ made[i].taker = o
                                    /\ made[i].run = restarts /\ made[i].quantity = take[made[i].maker]
    <2>1. o \in Ids /\ order \in Order
        BY DEF Suits
    <2>2. OnePerMaker(Made(o, order, take), o, Hit(order, take), take)
        BY <2>1, MadeFacts
    <2> QED
        BY <2>2 DEF OnePerMaker
<1>3. /\ made \in Seq(Trade) /\ Len(made) \in Nat
      /\ \A i \in 1..Len(made) : made[i].maker \in Hit(order, take) /\ made[i].taker = o /\ made[i].run = restarts
    BY <1>2
<1>4. Hit(order, take) \subseteq resting
    BY DEF Hit, Makers
<1>5. trades \in Seq(Trade) /\ Len(trades) \in Nat /\ DOMAIN trades = 1..Len(trades)
    BY LenProperties DEF IInv, TypeOK
<1>6. /\ trades' \in Seq(Trade) /\ Len(trades') = Len(trades) + Len(made)
      /\ \A i \in 1..(Len(trades) + Len(made)) :
            trades'[i] = IF i <= Len(trades) THEN trades[i] ELSE made[i - Len(trades)]
    BY <1>1, <1>2, <1>3, <1>5, ConcatProperties
<1>7. DOMAIN trades' = 1..Len(trades') /\ DOMAIN trades \subseteq DOMAIN trades'
    BY <1>3, <1>5, <1>6, LenProperties
<1>8. \A t \in DOMAIN trades : trades'[t] = trades[t]
    BY <1>3, <1>5, <1>6
<1>9. ASSUME NEW t \in DOMAIN trades' \ DOMAIN trades
      PROVE  trades'[t].run = restarts /\ trades'[t].taker = o /\ trades'[t].maker \in resting
    <2>1. t - Len(trades) \in 1..Len(made) /\ trades'[t] = made[t - Len(trades)]
        BY <1>3, <1>5, <1>6, <1>7
    <2> QED
        BY <1>3, <1>4, <2>1
<1>10. SubSeq(trades', 1, Len(trades)) = trades
    <2>1. \A i \in 1..Len(trades) : trades'[i] \in Trade
        BY <1>5, <1>7, <1>8, ElementOfSeq
    <2>2. /\ SubSeq(trades', 1, Len(trades)) \in Seq(Trade)
          /\ Len(SubSeq(trades', 1, Len(trades))) = Len(trades)
          /\ \A i \in 1..Len(trades) : SubSeq(trades', 1, Len(trades))[i] = trades'[i]
        BY <1>5, <2>1, SubSeqProperties
    <2> QED
        BY <1>5, <1>8, <2>2, SeqEqual
<1> QED
    BY <1>1, <1>2, <1>3, <1>5, <1>6, <1>7, <1>8, <1>9, <1>10

\* Whoever was in the book loses what it trades, the order itself what it took.
LEMMA ProcessFills ==
    ASSUME IInv, NEW o, NEW order, NEW kind, NEW carried, Suits(o, order, kind, carried),
           Process(o, order, kind, carried)
    PROVE  /\ resting' \subseteq resting \cup {o}
           /\ filled' \in [Ids -> 0..MaxQuantity]
           /\ \A m \in DOMAIN orders \ {o} : filled'[m] <= orders[m].quantity
           /\ \A m \in Ids \ (DOMAIN orders \cup {o}) : filled'[m] = filled[m]
           /\ filled'[o] <= order.quantity
           /\ outcome'[o] \in Outcome /\ outcome'[o].filled <= order.quantity
           /\ outcome' = [outcome EXCEPT ![o] = outcome'[o]]
           /\ o \in resting' /\ o \notin resting => outcome'[o].status \in Cancellable
<1>1. PICK take \in Takes(order.side, order.quantity - carried, Makers(order)) :
         LET got == SumFunction(take)
         IN  /\ resting' = (resting \ {m \in Hit(order, take) : take[m] = Left(m)})
                                  \cup (IF Stays(order, kind, carried, got) THEN {o} ELSE {})
             /\ filled' = [m \in Ids |-> IF m \in Hit(order, take) THEN filled[m] + take[m]
                                         ELSE IF m # o THEN filled[m]
                                         ELSE IF Stays(order, kind, carried, got) THEN got ELSE carried + got]
             /\ outcome' = [outcome EXCEPT ![o] =
                               [status |-> FinalStatus(kind, order.quantity, got), filled |-> got]]
    BY ProcessIs
<1>2. PICK got : got = SumFunction(take)
    OBVIOUS
<1>3. got \in Nat /\ got <= order.quantity - carried
    BY <1>2, TakeFacts DEF Suits
<1>4. order.quantity \in Nat /\ order.quantity <= MaxQuantity /\ MaxQuantity \in Nat
    BY OrderFacts DEF Suits, Order
<1>5. carried \in Nat /\ carried + got <= order.quantity /\ got <= order.quantity
    BY <1>3, <1>4 DEF Suits
<1>6. ASSUME NEW m \in Hit(order, take)
      PROVE  /\ m \in DOMAIN orders /\ m # o
             /\ filled[m] + take[m] \in 0..MaxQuantity /\ filled[m] + take[m] <= orders[m].quantity
    <2>1. m \in resting /\ take[m] \in 0..MaxQuantity /\ take[m] <= Left(m) /\ orders[m].side # order.side
        BY TakeFacts DEF Hit, Makers, Suits
    <2>2. m \in DOMAIN orders /\ m # o
        BY <2>1 DEF IInv, TypeOK, Suits
    <2>3. filled[m] \in 0..MaxQuantity /\ orders[m].quantity \in 1..MaxQuantity
        BY <2>2, OrderFacts DEF IInv, TypeOK
    <2>4. take[m] <= orders[m].quantity - filled[m]
        BY <2>1 DEF Left
    <2> QED
        BY <1>4, <2>1, <2>2, <2>3, <2>4
<1>7. \A m \in Ids : filled'[m] = IF m \in Hit(order, take) THEN filled[m] + take[m]
                                  ELSE IF m # o THEN filled[m]
                                  ELSE IF Stays(order, kind, carried, got) THEN got ELSE carried + got
    BY <1>1, <1>2
<1>8. \A m \in Ids : filled[m] \in 0..MaxQuantity
    BY DEF IInv, TypeOK
<1>9. o \in Ids /\ filled'[o] \in 0..MaxQuantity /\ filled'[o] <= order.quantity
    <2>1. o \in Ids /\ o \notin Hit(order, take)
        BY <1>6 DEF Suits
    <2>2. filled'[o] = got \/ filled'[o] = carried + got
        BY <1>7, <2>1
    <2> QED
        BY <1>3, <1>4, <1>5, <2>1, <2>2
<1>10. \A m \in Ids : filled'[m] \in 0..MaxQuantity
    BY <1>6, <1>7, <1>8, <1>9
<1>11. filled' \in [Ids -> 0..MaxQuantity]
    <2>1. DOMAIN filled' = Ids /\ filled' = [m \in Ids |-> filled'[m]]
        BY <1>1
    <2> QED
        BY <1>10, <2>1
<1>12. ASSUME NEW m \in DOMAIN orders \ {o} PROVE filled'[m] <= orders[m].quantity
    <2>1. m \in Ids
        BY OrderFacts
    <2>2. filled[m] <= orders[m].quantity
        BY DEF IInv, FillsFit
    <2> QED
        BY <1>6, <1>7, <2>1, <2>2
<1>13. \A m \in Ids \ (DOMAIN orders \cup {o}) : filled'[m] = filled[m]
    BY <1>6, <1>7
<1>14. FinalStatus(kind, order.quantity, got) \in Status
    BY DEF FinalStatus, Status
<1>15. /\ outcome'[o] = [status |-> FinalStatus(kind, order.quantity, got), filled |-> got]
       /\ outcome' = [outcome EXCEPT ![o] = outcome'[o]]
    BY <1>1, <1>2, <1>9 DEF IInv, TypeOK
<1>16. outcome'[o] \in Outcome /\ outcome'[o].filled <= order.quantity
    BY <1>3, <1>5, <1>14, <1>15 DEF Outcome
<1>17. ASSUME o \in resting', o \notin resting PROVE outcome'[o].status \in Cancellable
    <2>1. kind = "limit" /\ carried + got < order.quantity
        BY <1>1, <1>2, <1>17 DEF Stays
    <2>2. ~(got >= order.quantity)
        BY <1>3, <1>4, <1>5, <2>1
    <2>3. FinalStatus(kind, order.quantity, got) \in Cancellable
        BY <2>1, <2>2 DEF FinalStatus, Cancellable
    <2> QED
        BY <1>15, <2>3
<1>18. resting' \subseteq resting \cup {o}
    BY <1>1
<1> QED
    BY <1>9, <1>11, <1>12, <1>13, <1>15, <1>16, <1>17, <1>18

-----------------------------------------------------------------------------
(* Types                                                                    *)

LEMMA InitInv == Init => IInv
<1> SUFFICES ASSUME Init PROVE IInv
    OBVIOUS
<1>1. MaxOrders \in Nat /\ MaxQuantity \in Nat /\ MaxRestarts \in Nat /\ MaxFailures \in Nat
    BY BoundsAssumption
<1>2. orders \in Seq(Order) /\ Len(orders) = 0 /\ DOMAIN orders = {}
    BY EmptySeq DEF Init
<1>3. trades \in Seq(Trade) /\ pending \in Seq(DOMAIN trades)
    BY EmptySeq DEF Init
<1>4. 0 \in 0..MaxQuantity /\ NoOutcome \in Outcome /\ NoRow \in Outcome \cup {NoRow}
    BY <1>1 DEF NoOutcome, Outcome, Status
<1>5. TypeOK
    BY <1>1, <1>2, <1>3, <1>4 DEF Init, TypeOK
<1>6. Fresh
    BY <1>2 DEF Init, Fresh
<1>7. FillsFit /\ Memory
    BY <1>2 DEF Init, FillsFit, Memory
<1> QED
    BY <1>5, <1>6, <1>7 DEF IInv

\* A write of one row.
LEMMA RowInv ==
    ASSUME IInv, NEW o \in DOMAIN orders, NEW row \in Outcome, row.filled <= orders[o].quantity,
           rows' = [rows EXCEPT ![o] = row],
           UNCHANGED <<orders, engine>>
    PROVE  /\ rows' \in [Ids -> Outcome \cup {NoRow}]
           /\ \A m \in Ids \ DOMAIN orders : rows'[m] = NoRow
           /\ FillsFit'
<1>1. o \in Ids
    BY OrderFacts
<1>2. rows \in [Ids -> Outcome \cup {NoRow}]
    BY DEF IInv, TypeOK
<1>3. rows' \in [Ids -> Outcome \cup {NoRow}] /\ \A m \in Ids : rows'[m] = IF m = o THEN row ELSE rows[m]
    BY <1>1, <1>2
<1>4. \A m \in Ids \ DOMAIN orders : rows'[m] = NoRow
    BY <1>3 DEF IInv, Fresh
<1>5. FillsFit'
    <2> SUFFICES ASSUME NEW m \in DOMAIN orders
                 PROVE  /\ filled[m] <= orders[m].quantity
                        /\ outcome[m].filled <= orders[m].quantity
                        /\ rows'[m].filled <= orders[m].quantity
        BY DEF FillsFit, engine
    <2> QED
        BY <1>3, OrderFacts DEF IInv, FillsFit
<1> QED
    BY <1>3, <1>4, <1>5

LEMMA OutcomeFacts ==
    ASSUME IInv, NEW o \in DOMAIN orders
    PROVE  /\ o \in Ids /\ outcome[o] \in Outcome
           /\ outcome[o].status \in Status /\ outcome[o].filled \in Nat
           /\ outcome[o].filled <= orders[o].quantity
BY OrderFacts DEF IInv, TypeOK, FillsFit, Outcome

LEMMA SaveOrderInv ==
    ASSUME IInv, NEW o \in Ids, SaveOrder(o)
    PROVE  IInv'
<1>1. o \in DOMAIN orders
    BY DEF SaveOrder, IInv, Fresh
<1>2. PICK row : row = [status |-> "open", filled |-> IF IsStop(o) THEN 0 ELSE outcome[o].filled]
    OBVIOUS
<1>3. row \in Outcome /\ row.filled <= orders[o].quantity
    <2>1. 0 <= orders[o].quantity
        BY <1>1, OrderFacts
    <2>2. outcome[o].filled \in Nat /\ outcome[o].filled <= orders[o].quantity
        BY <1>1, OutcomeFacts
    <2> QED
        BY <1>2, <2>1, <2>2 DEF Outcome, Status
<1>4. /\ rows' \in [Ids -> Outcome \cup {NoRow}]
      /\ \A m \in Ids \ DOMAIN orders : rows'[m] = NoRow
      /\ FillsFit'
    <2>1. rows' = [rows EXCEPT ![o] = row]
        BY <1>2 DEF SaveOrder
    <2> QED
        BY <1>1, <1>3, <2>1, RowInv DEF SaveOrder
<1>5. /\ placing' \in [Ids -> {"no", "save", "update", "event"}]
      /\ \A m \in Ids : placing'[m] # "no" => placing[m] # "no"
    BY DEF SaveOrder, IInv, TypeOK
<1>6. accepted' \subseteq accepted \cup {o}
    BY DEF SaveOrder
<1>7. TypeOK'
    BY <1>4, <1>5, <1>6 DEF SaveOrder, IInv, TypeOK, engine
<1>8. Fresh'
    BY <1>1, <1>4, <1>5, <1>6 DEF SaveOrder, IInv, Fresh, engine
<1>9. Memory'
    BY DEF SaveOrder, IInv, Memory, engine
<1> QED
    BY <1>4, <1>7, <1>8, <1>9 DEF IInv

LEMMA UpdateOrderInv ==
    ASSUME IInv, NEW o \in Ids, UpdateOrder(o)
    PROVE  IInv'
<1>1. o \in DOMAIN orders
    BY DEF UpdateOrder, IInv, Fresh
<1>2. /\ rows' \in [Ids -> Outcome \cup {NoRow}]
      /\ \A m \in Ids \ DOMAIN orders : rows'[m] = NoRow
      /\ FillsFit'
    <2>1. CASE rows' = rows
        BY <2>1 DEF UpdateOrder, IInv, TypeOK, Fresh, FillsFit, engine
    <2>2. CASE rows' = [rows EXCEPT ![o] = outcome[o]]
        BY <1>1, <2>2, OutcomeFacts, RowInv DEF UpdateOrder
    <2> QED
        BY <2>1, <2>2 DEF UpdateOrder, WithOutcome
<1>3. /\ placing' \in [Ids -> {"no", "save", "update", "event"}]
      /\ \A m \in Ids : placing'[m] # "no" => placing[m] # "no"
    BY DEF UpdateOrder, IInv, TypeOK
<1>4. TypeOK'
    BY <1>2, <1>3 DEF UpdateOrder, IInv, TypeOK, engine
<1>5. Fresh'
    BY <1>2, <1>3 DEF UpdateOrder, IInv, Fresh, engine
<1>6. Memory'
    BY DEF UpdateOrder, IInv, Memory, engine
<1> QED
    BY <1>2, <1>4, <1>5, <1>6 DEF IInv

LEMMA AnswerOrderInv ==
    ASSUME IInv, NEW o \in Ids, AnswerOrder(o)
    PROVE  IInv'
<1>1. o \in DOMAIN orders
    BY DEF AnswerOrder, IInv, Fresh
<1>2. /\ placing' \in [Ids -> {"no", "save", "update", "event"}]
      /\ \A m \in Ids : placing'[m] # "no" => placing[m] # "no"
    BY DEF AnswerOrder, IInv, TypeOK
<1>3. TypeOK'
    BY <1>2 DEF AnswerOrder, IInv, TypeOK, engine
<1>4. Fresh'
    BY <1>1, <1>2 DEF AnswerOrder, IInv, Fresh, engine
<1>5. FillsFit'
    BY DEF AnswerOrder, IInv, FillsFit, engine
<1>6. Memory'
    BY DEF AnswerOrder, IInv, Memory, engine
<1> QED
    BY <1>3, <1>4, <1>5, <1>6 DEF IInv

LEMMA RejectsFacts ==
    ASSUME IInv, NEW call, Rejects(call)
    PROVE  failures' \in 0..MaxFailures
<1>1. failures \in 0..MaxFailures /\ MaxFailures \in Nat
    BY BoundsAssumption DEF IInv, TypeOK
<1> QED
    BY <1>1 DEF Rejects

LEMMA PlaceFailsInv ==
    ASSUME IInv, NEW o \in Ids, PlaceFails(o)
    PROVE  IInv'
<1>1. failures' \in 0..MaxFailures
    BY RejectsFacts DEF PlaceFails
<1>2. /\ placing' \in [Ids -> {"no", "save", "update", "event"}]
      /\ \A m \in Ids : placing'[m] # "no" => placing[m] # "no"
    BY DEF PlaceFails, IInv, TypeOK
<1>3. TypeOK'
    BY <1>1, <1>2 DEF PlaceFails, IInv, TypeOK, engine
<1>4. Fresh'
    BY <1>2 DEF PlaceFails, IInv, Fresh, engine
<1>5. FillsFit'
    BY DEF PlaceFails, IInv, FillsFit, engine
<1>6. Memory'
    BY DEF PlaceFails, IInv, Memory, engine
<1> QED
    BY <1>3, <1>4, <1>5, <1>6 DEF IInv

\* The handler of cancelOrder.
Cancelling == {"no", "read", "row", "event"}

LEMMA ReadForCancelInv ==
    ASSUME IInv, NEW o \in Ids, ReadForCancel(o)
    PROVE  IInv'
<1>1. cancelling' \in [Ids -> Cancelling] /\ mode = "up"
    BY DEF ReadForCancel, IInv, TypeOK, Cancelling
<1>2. TypeOK'
    BY <1>1 DEF ReadForCancel, IInv, TypeOK, engine, Cancelling
<1>3. Fresh' /\ FillsFit'
    BY DEF ReadForCancel, IInv, Fresh, FillsFit, engine
<1>4. Memory'
    BY <1>1 DEF ReadForCancel, Memory
<1> QED
    BY <1>2, <1>3, <1>4 DEF IInv

LEMMA CancelInEngineInv ==
    ASSUME IInv, NEW o \in Ids, CancelInEngine(o)
    PROVE  IInv'
<1>1. cancelling' \in [Ids -> Cancelling] /\ mode # "down"
    BY DEF CancelInEngine, IInv, TypeOK, Cancelling, Memory
<1>2. TypeOK'
    BY <1>1 DEF CancelInEngine, IInv, TypeOK, Cancelling
<1>3. Fresh' /\ FillsFit'
    BY DEF CancelInEngine, IInv, Fresh, FillsFit
<1>4. Memory'
    BY <1>1 DEF CancelInEngine, Memory
<1> QED
    BY <1>2, <1>3, <1>4 DEF IInv

LEMMA CancelRowInv ==
    ASSUME IInv, NEW o \in Ids, CancelRow(o)
    PROVE  IInv'
<1>1. cancelling' \in [Ids -> Cancelling] /\ mode # "down"
    BY DEF CancelRow, IInv, TypeOK, Cancelling, Memory
<1>2. /\ rows' \in [Ids -> Outcome \cup {NoRow}]
      /\ \A m \in Ids \ DOMAIN orders : rows'[m] = NoRow
      /\ FillsFit'
    <2>1. CASE rows' = rows
        BY <2>1 DEF CancelRow, IInv, TypeOK, Fresh, FillsFit, engine
    <2>2. CASE rows[o].status \in Cancellable /\ rows' = [rows EXCEPT ![o].status = "cancelled"]
        <3>1. rows[o] # NoRow /\ rows[o] \in Outcome \cup {NoRow}
            BY <2>2 DEF NoRow, Cancellable, IInv, TypeOK
        <3>2. o \in DOMAIN orders /\ rows[o] \in Outcome
            BY <3>1 DEF IInv, Fresh
        <3>3. PICK row : row = [rows[o] EXCEPT !.status = "cancelled"]
            OBVIOUS
        <3>4. row \in Outcome
            BY <3>2, <3>3 DEF Outcome, Status
        <3>5. row.filled <= orders[o].quantity
            BY <3>2, <3>3 DEF Outcome, IInv, FillsFit
        <3>6. rows' = [rows EXCEPT ![o] = row]
            BY <2>2, <3>3
        <3> QED
            BY <3>2, <3>4, <3>5, <3>6, RowInv DEF CancelRow
    <2> QED
        BY <2>1, <2>2 DEF CancelRow
<1>3. TypeOK'
    BY <1>1, <1>2 DEF CancelRow, IInv, TypeOK, Cancelling, engine
<1>4. Fresh'
    BY <1>2 DEF CancelRow, IInv, Fresh, engine
<1>5. Memory'
    BY <1>1 DEF CancelRow, Memory
<1> QED
    BY <1>2, <1>3, <1>4, <1>5 DEF IInv

LEMMA AnswerCancelInv ==
    ASSUME IInv, NEW o \in Ids, AnswerCancel(o)
    PROVE  IInv'
<1>1. cancelling' \in [Ids -> Cancelling] /\ mode # "down"
    BY DEF AnswerCancel, IInv, TypeOK, Cancelling, Memory
<1>2. TypeOK'
    BY <1>1 DEF AnswerCancel, IInv, TypeOK, Cancelling, engine
<1>3. Fresh' /\ FillsFit'
    BY DEF AnswerCancel, IInv, Fresh, FillsFit, engine
<1>4. Memory'
    BY <1>1 DEF AnswerCancel, Memory
<1> QED
    BY <1>2, <1>3, <1>4 DEF IInv

LEMMA CancelFailsInv ==
    ASSUME IInv, NEW o \in Ids, CancelFails(o)
    PROVE  IInv'
<1>1. cancelling' \in [Ids -> Cancelling] /\ mode # "down"
    BY DEF CancelFails, IInv, TypeOK, Cancelling, Memory
<1>2. failures' \in 0..MaxFailures
    BY RejectsFacts DEF CancelFails
<1>3. TypeOK'
    BY <1>1, <1>2 DEF CancelFails, IInv, TypeOK, Cancelling, engine
<1>4. Fresh' /\ FillsFit'
    BY DEF CancelFails, IInv, Fresh, FillsFit, engine
<1>5. Memory'
    BY <1>1 DEF CancelFails, Memory
<1> QED
    BY <1>3, <1>4, <1>5 DEF IInv

\* The loops of updateMarketPrice.
FiringsOf(numbers) == [todo : Seq(numbers) \ {<<>>}, at : {"row", "event"}]

LEMMA FiringFacts ==
    ASSUME IInv, NEW f \in firings
    PROVE  /\ f.todo \in Seq(DOMAIN orders) /\ f.todo # <<>> /\ f.at \in {"row", "event"}
           /\ Len(f.todo) \in Nat /\ Len(f.todo) > 0 /\ DOMAIN f.todo = 1..Len(f.todo)
           /\ \A i \in 1..Len(f.todo) : f.todo[i] \in DOMAIN orders /\ f.todo[i] \in Ids
           /\ Head(f.todo) = f.todo[1]
           /\ f = [todo |-> f.todo, at |-> f.at]
<1>1. f \in FiringsOf(DOMAIN orders)
    BY DEF IInv, TypeOK, FiringsOf
<1>2. f.todo \in Seq(DOMAIN orders) /\ f.todo # <<>> /\ f.at \in {"row", "event"} /\ f = [todo |-> f.todo, at |-> f.at]
    BY <1>1 DEF FiringsOf
<1>3. Len(f.todo) \in Nat /\ Len(f.todo) > 0 /\ DOMAIN f.todo = 1..Len(f.todo)
    BY <1>2, EmptySeq, LenProperties
<1>4. \A i \in 1..Len(f.todo) : f.todo[i] \in DOMAIN orders /\ f.todo[i] \in Ids
    BY <1>2, ElementOfSeq, OrderFacts
<1>5. Head(f.todo) = f.todo[1]
    BY <1>2
<1> QED
    BY <1>2, <1>3, <1>4, <1>5

LEMMA UpdateTriggeredInv ==
    ASSUME IInv, NEW f \in firings, UpdateTriggered(f)
    PROVE  IInv'
<1>1. PICK o : o = Head(f.todo)
    OBVIOUS
<1>2. o \in DOMAIN orders
    BY <1>1, FiringFacts
<1>3. /\ rows' \in [Ids -> Outcome \cup {NoRow}]
      /\ \A m \in Ids \ DOMAIN orders : rows'[m] = NoRow
      /\ FillsFit'
    <2>1. CASE rows' = rows
        BY <2>1 DEF UpdateTriggered, IInv, TypeOK, Fresh, FillsFit, engine
    <2>2. CASE rows' = [rows EXCEPT ![o] = outcome[o]]
        BY <1>2, <2>2, OutcomeFacts, RowInv DEF UpdateTriggered
    <2> QED
        BY <1>1, <2>1, <2>2 DEF UpdateTriggered, WithOutcome
<1>4. firings' \subseteq [todo : Seq(DOMAIN orders) \ {<<>>}, at : {"row", "event"}]
    BY DEF UpdateTriggered, IInv, TypeOK
<1>5. TypeOK'
    BY <1>3, <1>4 DEF UpdateTriggered, IInv, TypeOK, engine
<1>6. Fresh'
    BY <1>3 DEF UpdateTriggered, IInv, Fresh, engine
<1>7. Memory'
    BY DEF UpdateTriggered, IInv, Memory, engine
<1> QED
    BY <1>3, <1>5, <1>6, <1>7 DEF IInv

LEMMA LastTriggeredInv ==
    ASSUME IInv, NEW f \in firings, LastTriggered(f)
    PROVE  IInv'
<1>1. TypeOK'
    BY DEF LastTriggered, IInv, TypeOK, engine
<1>2. Fresh' /\ FillsFit'
    BY DEF LastTriggered, IInv, Fresh, FillsFit, engine
<1>3. Memory'
    BY DEF LastTriggered, IInv, Memory, engine
<1> QED
    BY <1>1, <1>2, <1>3 DEF IInv

LEMMA TriggerFailsInv ==
    ASSUME IInv, NEW f \in firings, TriggerFails(f)
    PROVE  IInv'
<1>1. failures' \in 0..MaxFailures
    BY RejectsFacts DEF TriggerFails
<1>2. TypeOK'
    BY <1>1 DEF TriggerFails, IInv, TypeOK, engine
<1>3. Fresh' /\ FillsFit'
    BY DEF TriggerFails, IInv, Fresh, FillsFit, engine
<1>4. Memory'
    BY DEF TriggerFails, IInv, Memory, engine
<1> QED
    BY <1>2, <1>3, <1>4 DEF IInv

\* The running flushes.
LEMMA FlightFacts ==
    ASSUME IInv, NEW f \in flights
    PROVE  /\ f.batch \in Seq(DOMAIN trades) /\ f.batch # <<>> /\ f.committed \in BOOLEAN
           /\ f.sent \in Nat /\ f.sent < Len(f.batch) /\ Len(f.batch) \in Nat
           /\ DOMAIN f.batch = 1..Len(f.batch) /\ f.sent + 1 \in 1..Len(f.batch)
           /\ \A i \in 1..Len(f.batch) : f.batch[i] \in DOMAIN trades
           /\ ToSet(f.batch) \subseteq DOMAIN trades
           /\ f = [batch |-> f.batch, committed |-> f.committed, sent |-> f.sent]
<1>1. f \in FlightsOf(DOMAIN trades)
    BY DEF IInv, TypeOK
<1>2. /\ f.batch \in Seq(DOMAIN trades) /\ f.batch # <<>> /\ f.committed \in BOOLEAN
      /\ f.sent \in Nat /\ f.sent < Len(f.batch)
      /\ f = [batch |-> f.batch, committed |-> f.committed, sent |-> f.sent]
    BY <1>1 DEF FlightsOf
<1>3. Len(f.batch) \in Nat /\ DOMAIN f.batch = 1..Len(f.batch)
    BY <1>2, LenProperties
<1>4. \A i \in 1..Len(f.batch) : f.batch[i] \in DOMAIN trades
    BY <1>2, ElementOfSeq
<1>5. ToSet(f.batch) \subseteq DOMAIN trades
    BY <1>3, <1>4 DEF ToSet
<1> QED
    BY <1>2, <1>3, <1>4, <1>5

\* The flush goes on as g.
LEMMA FlushInv ==
    ASSUME IInv, NEW f \in flights, flights' \in SUBSET FlightsOf(DOMAIN trades),
           pending' \in Seq(DOMAIN trades), saved' \subseteq DOMAIN trades, sent' \subseteq DOMAIN trades,
           failures' \in 0..MaxFailures,
           UNCHANGED <<orders, accepted, cancelled, mode, resting, filled, outcome, stops, placing,
                       cancelling, firings, rows, trades, restarts>>
    PROVE  IInv'
<1>1. mode # "down"
    BY DEF IInv, Memory
<1>2. TypeOK'
    BY DEF IInv, TypeOK
<1>3. Fresh' /\ FillsFit'
    BY DEF IInv, Fresh, FillsFit
<1>4. Memory'
    BY <1>1 DEF Memory
<1> QED
    BY <1>2, <1>3, <1>4 DEF IInv

LEMMA SaveTradesInv ==
    ASSUME IInv, NEW f \in flights, SaveTrades(f)
    PROVE  IInv'
<1>1. [f EXCEPT !.committed = TRUE] \in FlightsOf(DOMAIN trades)
    BY DEF FlightsOf, IInv, TypeOK
<1>2. flights' \in SUBSET FlightsOf(DOMAIN trades)
    BY <1>1 DEF SaveTrades, IInv, TypeOK
<1>3. saved' \subseteq DOMAIN trades
    BY FlightFacts DEF SaveTrades, IInv, TypeOK
<1> QED
    BY <1>2, <1>3, FlushInv DEF SaveTrades, IInv, TypeOK

LEMMA PublishTradeInv ==
    ASSUME IInv, NEW f \in flights, PublishTrade(f)
    PROVE  IInv'
<1>1. f.sent + 1 # Len(f.batch) => [f EXCEPT !.sent = @ + 1] \in FlightsOf(DOMAIN trades)
    <2>1. PICK n : n = f.sent + 1
        OBVIOUS
    <2>2. n \in Nat /\ (n # Len(f.batch) => n < Len(f.batch))
        BY <2>1, FlightFacts
    <2>3. f \in FlightsOf(DOMAIN trades)
        BY DEF IInv, TypeOK
    <2>4. n # Len(f.batch) => [f EXCEPT !.sent = n] \in FlightsOf(DOMAIN trades)
        BY <2>2, <2>3 DEF FlightsOf
    <2> QED
        BY <2>1, <2>4
<1>2. flights' \in SUBSET FlightsOf(DOMAIN trades)
    BY <1>1 DEF PublishTrade, IInv, TypeOK
<1>3. sent' \subseteq DOMAIN trades
    BY FlightFacts DEF PublishTrade, IInv, TypeOK
<1> QED
    BY <1>2, <1>3, FlushInv DEF PublishTrade, IInv, TypeOK

LEMMA FlushFailsInv ==
    ASSUME IInv, NEW f \in flights, FlushFails(f)
    PROVE  IInv'
<1>1. failures' \in 0..MaxFailures
    BY RejectsFacts DEF FlushFails, FlushRejects, IInv, TypeOK
<1>2. pending' \in Seq(DOMAIN trades)
    BY FlightFacts, ConcatProperties DEF FlushFails, IInv, TypeOK
<1>3. flights' \in SUBSET FlightsOf(DOMAIN trades)
    BY DEF FlushFails, IInv, TypeOK
<1> QED
    BY <1>1, <1>2, <1>3, FlushInv DEF FlushFails, IInv, TypeOK

LEMMA TimerFlushInv ==
    ASSUME IInv, TimerFlush
    PROVE  IInv'
<1>1. pending \in Seq(DOMAIN trades) /\ pending # <<>>
    BY DEF TimerFlush, IInv, TypeOK
<1>2. Flight(pending) \in FlightsOf(DOMAIN trades)
    BY <1>1, FlightIs
<1>3. TypeOK'
    BY <1>2, EmptySeq DEF TimerFlush, IInv, TypeOK
<1>4. Fresh' /\ FillsFit'
    BY DEF TimerFlush, IInv, Fresh, FillsFit
<1>5. Memory'
    BY DEF TimerFlush, Memory
<1> QED
    BY <1>3, <1>4, <1>5 DEF IInv

LEMMA ShutdownInv ==
    ASSUME IInv, Shutdown
    PROVE  IInv'
<1>1. pending \in Seq(DOMAIN trades)
    BY DEF IInv, TypeOK
<1>2. pending # <<>> => Flight(pending) \in FlightsOf(DOMAIN trades)
    BY <1>1, FlightIs
<1>3. flights' \subseteq FlightsOf(DOMAIN trades)
    BY <1>2 DEF Shutdown, IInv, TypeOK
<1>4. TypeOK'
    BY <1>3, EmptySeq DEF Shutdown, IInv, TypeOK
<1>5. Fresh' /\ FillsFit'
    BY DEF Shutdown, IInv, Fresh, FillsFit
<1>6. Memory'
    BY DEF Shutdown, Memory
<1> QED
    BY <1>4, <1>5, <1>6 DEF IInv

LEMMA ExitInv ==
    ASSUME IInv, Exit
    PROVE  IInv'
<1>1. 0 \in 0..MaxQuantity /\ NoOutcome \in Outcome
    BY OrderFacts DEF NoOutcome, Outcome, Status
<1>2. TypeOK'
    BY <1>1, EmptySeq DEF Exit, IInv, TypeOK
<1>3. Fresh'
    BY DEF Exit, IInv, Fresh
<1>4. FillsFit'
    <2>1. \A o \in DOMAIN orders : 0 <= orders[o].quantity /\ o \in Ids
        BY OrderFacts
    <2> QED
        BY <2>1 DEF Exit, IInv, FillsFit, NoOutcome
<1>5. Memory'
    BY DEF Exit, Memory
<1> QED
    BY <1>2, <1>3, <1>4, <1>5 DEF IInv

LEMMA RecoverInv ==
    ASSUME IInv, Recover
    PROVE  IInv'
<1>1. \A o \in Recoverable : o \in DOMAIN orders /\ o \in Ids /\ rows[o] \in Outcome /\ rows[o].filled \in 0..MaxQuantity
    <2> SUFFICES ASSUME NEW o \in Recoverable
                 PROVE  o \in DOMAIN orders /\ o \in Ids /\ rows[o] \in Outcome /\ rows[o].filled \in 0..MaxQuantity
        OBVIOUS
    <2>1. o \in DOMAIN orders /\ o \in Ids /\ rows[o] # NoRow
        BY OrderFacts DEF Recoverable, Cancellable, NoRow
    <2>2. rows[o] \in Outcome
        BY <2>1 DEF IInv, TypeOK
    <2>3. rows[o].filled \in Nat /\ rows[o].filled <= orders[o].quantity
        BY <2>1, <2>2 DEF Outcome, IInv, FillsFit
    <2>4. orders[o].quantity \in 1..MaxQuantity /\ MaxQuantity \in Nat
        BY <2>1, OrderFacts
    <2> QED
        BY <2>1, <2>2, <2>3, <2>4
<1>2. filled' \in [Ids -> 0..MaxQuantity]
    BY <1>1, OrderFacts DEF Recover
<1>3. restarts' \in 0..MaxRestarts
    BY BoundsAssumption DEF Recover, IInv, TypeOK, Memory
<1>4. resting' \subseteq DOMAIN orders /\ stops' \subseteq DOMAIN orders
    BY <1>1 DEF Recover
<1>5. TypeOK'
    BY <1>2, <1>3, <1>4 DEF Recover, IInv, TypeOK
<1>6. Fresh'
    BY <1>1 DEF Recover, IInv, Fresh
<1>7. FillsFit'
    <2>1. \A o \in DOMAIN orders : 0 <= orders[o].quantity /\ o \in Ids
        BY OrderFacts
    <2> QED
        BY <2>1 DEF Recover, IInv, FillsFit
<1>8. Memory'
    BY DEF Recover, Memory
<1> QED
    BY <1>5, <1>6, <1>7, <1>8 DEF IInv

\* A call of processOrder keeps the types of the engine and of the buffer.
LEMMA ProcessTypes ==
    ASSUME IInv, NEW o, NEW order, NEW kind, NEW carried, Suits(o, order, kind, carried),
           Process(o, order, kind, carried)
    PROVE  /\ trades' \in Seq(Trade) /\ DOMAIN trades \subseteq DOMAIN trades'
           /\ pending' \in Seq(DOMAIN trades')
           /\ flights' \subseteq FlightsOf(DOMAIN trades')
           /\ filled' \in [Ids -> 0..MaxQuantity] /\ outcome' \in [Ids -> Outcome]
           /\ resting' \subseteq DOMAIN orders \cup {o}
           /\ \A m \in Ids \ (DOMAIN orders \cup {o}) : filled'[m] = filled[m] /\ outcome'[m] = outcome[m]
           /\ \A m \in DOMAIN orders \ {o} :
                filled'[m] <= orders[m].quantity /\ outcome'[m].filled <= orders[m].quantity
           /\ filled'[o] <= order.quantity /\ outcome'[o].filled <= order.quantity
<1>1. PICK n \in Nat :
         /\ trades' \in Seq(Trade) /\ Len(trades') = Len(trades) + n /\ DOMAIN trades' = 1..Len(trades')
         /\ DOMAIN trades \subseteq DOMAIN trades'
         /\ pending' = Buffered(n).pending /\ flights' = Buffered(n).flights
    BY ProcessTrades
<1>2. PICK d : d = DOMAIN trades'
    OBVIOUS
<1>3. Buffered(n) \in BuffersOf(d)
    BY <1>1, <1>2, BufferedTypes
<1>4. pending' \in Seq(d) /\ flights' \subseteq FlightsOf(d)
    BY <1>1, <1>3 DEF BuffersOf
<1>5. /\ resting' \subseteq resting \cup {o}
      /\ filled' \in [Ids -> 0..MaxQuantity]
      /\ \A m \in DOMAIN orders \ {o} : filled'[m] <= orders[m].quantity
      /\ \A m \in Ids \ (DOMAIN orders \cup {o}) : filled'[m] = filled[m]
      /\ filled'[o] <= order.quantity
      /\ outcome'[o] \in Outcome /\ outcome'[o].filled <= order.quantity
      /\ outcome' = [outcome EXCEPT ![o] = outcome'[o]]
    BY ProcessFills
<1>6. outcome' \in [Ids -> Outcome] /\ \A m \in Ids \ {o} : outcome'[m] = outcome[m]
    BY <1>5 DEF IInv, TypeOK
<1>7. \A m \in DOMAIN orders \ {o} : outcome'[m].filled <= orders[m].quantity
    BY <1>6, OrderFacts DEF IInv, FillsFit
<1>8. resting' \subseteq DOMAIN orders \cup {o}
    BY <1>5 DEF IInv, TypeOK
<1> QED
    BY <1>1, <1>2, <1>4, <1>5, <1>6, <1>7, <1>8

LEMMA PlaceFacts ==
    ASSUME IInv, Len(orders) < MaxOrders, NEW order \in Menu[Len(orders) + 1], Arrives(order)
    PROVE  /\ order \in Order /\ order.quantity \in 1..MaxQuantity
           /\ Len(orders) + 1 \in Ids /\ Len(orders) + 1 \notin DOMAIN orders
           /\ orders' \in Seq(Order) /\ Len(orders') <= MaxOrders
           /\ DOMAIN orders' = DOMAIN orders \cup {Len(orders) + 1}
           /\ \A o \in DOMAIN orders : orders'[o] = orders[o]
           /\ orders'[Len(orders) + 1] = order
           /\ placing' \in [Ids -> {"no", "save", "update", "event"}]
           /\ placing' = [placing EXCEPT ![Len(orders) + 1] = "save"]
           /\ mode = "up"
<1>1. Len(orders) \in Nat /\ MaxOrders \in Nat /\ DOMAIN orders = 1..Len(orders) /\ orders \in Seq(Order)
    BY OrderFacts DEF IInv, TypeOK
<1>2. Len(orders) + 1 \in Ids /\ Len(orders) + 1 \notin DOMAIN orders
    BY <1>1 DEF Ids
<1>3. order \in Order
    BY <1>2, MenuAssumption
<1>4. order.quantity \in 1..MaxQuantity
    BY <1>3 DEF Order
<1>5. /\ orders' = Append(orders, order) /\ mode = "up"
      /\ placing' = [placing EXCEPT ![Len(orders) + 1] = "save"]
    BY DEF Arrives
<1>6. /\ orders' \in Seq(Order) /\ Len(orders') = Len(orders) + 1
      /\ \A o \in 1..Len(orders) : orders'[o] = orders[o]
      /\ orders'[Len(orders) + 1] = order
    BY <1>1, <1>3, <1>5, AppendProperties
<1>7. DOMAIN orders' = 1..Len(orders')
    BY <1>6, LenProperties
<1>8. DOMAIN orders' = DOMAIN orders \cup {Len(orders) + 1}
    BY <1>1, <1>6, <1>7
<1>9. placing' \in [Ids -> {"no", "save", "update", "event"}]
    BY <1>2, <1>5 DEF IInv, TypeOK
<1> QED
    BY <1>1, <1>2, <1>3, <1>4, <1>5, <1>6, <1>8, <1>9

LEMMA SeqsGrow == \A D, E : D \subseteq E => Seq(D) \subseteq Seq(E)
BY SeqMonotonic

LEMMA PlaceOrderInv ==
    ASSUME IInv, Len(orders) < MaxOrders, NEW order \in Menu[Len(orders) + 1], PlaceOrder(order)
    PROVE  IInv'
<1>1. PICK o : o = Len(orders) + 1
    OBVIOUS
<1>2. /\ order \in Order /\ order.quantity \in 1..MaxQuantity
      /\ o \in Ids /\ o \notin DOMAIN orders
      /\ orders' \in Seq(Order) /\ Len(orders') <= MaxOrders
      /\ DOMAIN orders' = DOMAIN orders \cup {o}
      /\ \A m \in DOMAIN orders : orders'[m] = orders[m]
      /\ orders'[o] = order
      /\ placing' \in [Ids -> {"no", "save", "update", "event"}]
      /\ placing' = [placing EXCEPT ![o] = "save"]
      /\ mode = "up"
    BY <1>1, PlaceFacts DEF PlaceOrder
<1>3. Suits(o, order, order.kind, 0)
    BY <1>2, OrderFacts DEF Suits, Order
<1>4. Process(o, order, order.kind, 0)
    BY <1>1 DEF PlaceOrder
<1>5. /\ trades' \in Seq(Trade) /\ DOMAIN trades \subseteq DOMAIN trades'
      /\ pending' \in Seq(DOMAIN trades')
      /\ flights' \subseteq FlightsOf(DOMAIN trades')
      /\ filled' \in [Ids -> 0..MaxQuantity] /\ outcome' \in [Ids -> Outcome]
      /\ resting' \subseteq DOMAIN orders \cup {o}
      /\ \A m \in Ids \ (DOMAIN orders \cup {o}) : filled'[m] = filled[m] /\ outcome'[m] = outcome[m]
      /\ \A m \in DOMAIN orders \ {o} :
           filled'[m] <= orders[m].quantity /\ outcome'[m].filled <= orders[m].quantity
      /\ filled'[o] <= order.quantity /\ outcome'[o].filled <= order.quantity
    BY <1>3, <1>4, ProcessTypes
<1>6. firings \subseteq [todo : Seq(DOMAIN orders') \ {<<>>}, at : {"row", "event"}]
    <2>1. Seq(DOMAIN orders) \subseteq Seq(DOMAIN orders')
        BY <1>2, SeqsGrow
    <2> QED
        BY <2>1 DEF IInv, TypeOK
<1>7. TypeOK'
    BY <1>2, <1>5, <1>6 DEF PlaceOrder, IInv, TypeOK
<1>8. Fresh'
    <2>1. \A m \in Ids \ DOMAIN orders' : filled'[m] = 0 /\ outcome'[m] = NoOutcome /\ rows'[m] = NoRow
        BY <1>2, <1>5 DEF PlaceOrder, IInv, Fresh
    <2>2. \A m \in Ids : m \in accepted' \/ placing'[m] # "no" => m \in DOMAIN orders'
        BY <1>2 DEF PlaceOrder, IInv, Fresh, TypeOK
    <2> QED
        BY <2>1, <2>2 DEF Fresh
<1>9. FillsFit'
    <2> SUFFICES ASSUME NEW m \in DOMAIN orders'
                 PROVE  /\ filled'[m] <= orders'[m].quantity
                        /\ outcome'[m].filled <= orders'[m].quantity
                        /\ rows'[m].filled <= orders'[m].quantity
        BY DEF FillsFit
    <2>1. CASE m = o
        <3>1. rows'[m] = NoRow /\ 0 <= order.quantity
            BY <1>2, <2>1 DEF PlaceOrder, IInv, Fresh
        <3> QED
            BY <1>2, <1>5, <2>1, <3>1 DEF NoRow
    <2>2. CASE m \in DOMAIN orders /\ m # o
        BY <1>2, <1>5, <2>2 DEF PlaceOrder, IInv, FillsFit
    <2> QED
        BY <1>2, <2>1, <2>2
<1>10. Memory'
    BY <1>2 DEF PlaceOrder, Memory
<1> QED
    BY <1>7, <1>8, <1>9, <1>10 DEF IInv

LEMMA PlaceStopOrderInv ==
    ASSUME IInv, Len(orders) < MaxOrders, NEW order \in Menu[Len(orders) + 1], PlaceStopOrder(order)
    PROVE  IInv'
<1>1. PICK o : o = Len(orders) + 1
    OBVIOUS
<1>2. /\ order \in Order /\ order.quantity \in 1..MaxQuantity
      /\ o \in Ids /\ o \notin DOMAIN orders
      /\ orders' \in Seq(Order) /\ Len(orders') <= MaxOrders
      /\ DOMAIN orders' = DOMAIN orders \cup {o}
      /\ \A m \in DOMAIN orders : orders'[m] = orders[m]
      /\ orders'[o] = order
      /\ placing' \in [Ids -> {"no", "save", "update", "event"}]
      /\ placing' = [placing EXCEPT ![o] = "save"]
      /\ mode = "up"
    BY <1>1, PlaceFacts DEF PlaceStopOrder
<1>3. firings \subseteq [todo : Seq(DOMAIN orders') \ {<<>>}, at : {"row", "event"}]
    <2>1. Seq(DOMAIN orders) \subseteq Seq(DOMAIN orders')
        BY <1>2, SeqsGrow
    <2> QED
        BY <2>1 DEF IInv, TypeOK
<1>4. TypeOK'
    BY <1>1, <1>2, <1>3 DEF PlaceStopOrder, IInv, TypeOK, engine
<1>5. Fresh'
    <2>1. \A m \in Ids \ DOMAIN orders' : filled'[m] = 0 /\ outcome'[m] = NoOutcome /\ rows'[m] = NoRow
        BY <1>2 DEF PlaceStopOrder, IInv, Fresh, engine
    <2>2. \A m \in Ids : m \in accepted' \/ placing'[m] # "no" => m \in DOMAIN orders'
        BY <1>2 DEF PlaceStopOrder, IInv, Fresh, TypeOK
    <2> QED
        BY <2>1, <2>2 DEF Fresh
<1>6. FillsFit'
    <2> SUFFICES ASSUME NEW m \in DOMAIN orders'
                 PROVE  /\ filled'[m] <= orders'[m].quantity
                        /\ outcome'[m].filled <= orders'[m].quantity
                        /\ rows'[m].filled <= orders'[m].quantity
        BY DEF FillsFit
    <2>1. CASE m = o
        <3>1. rows'[m] = NoRow /\ filled'[m] = 0 /\ outcome'[m] = NoOutcome /\ 0 <= order.quantity
            BY <1>2, <2>1 DEF PlaceStopOrder, IInv, Fresh, engine
        <3> QED
            BY <1>2, <2>1, <3>1 DEF NoRow, NoOutcome
    <2>2. CASE m \in DOMAIN orders /\ m # o
        BY <1>2, <2>2 DEF PlaceStopOrder, IInv, FillsFit, engine
    <2> QED
        BY <1>2, <2>1, <2>2
<1>7. Memory'
    BY <1>2 DEF PlaceStopOrder, Memory
<1> QED
    BY <1>4, <1>5, <1>6, <1>7 DEF IInv

\* Execute converts a stop order that was armed.
LEMMA ExecuteFacts ==
    ASSUME IInv, NEW o \in DOMAIN orders, Execute(o)
    PROVE  \E kind : Suits(o, orders[o], kind, filled[o]) /\ Process(o, orders[o], kind, filled[o])
<1>1. PICK kind : kind = IF orders[o].kind = "stop" THEN "market" ELSE "limit"
    OBVIOUS
<1>2. kind \in AllKinds
    BY <1>1 DEF AllKinds
<1>3. o \in Ids /\ orders[o] \in Order /\ filled[o] \in Nat /\ filled[o] <= orders[o].quantity
    BY OrderFacts DEF IInv, TypeOK, FillsFit
<1>4. Suits(o, orders[o], kind, filled[o])
    BY <1>2, <1>3 DEF Suits
<1>5. Process(o, orders[o], kind, filled[o])
    BY <1>1 DEF Execute
<1> QED
    BY <1>4, <1>5

LEMMA ExecuteInv ==
    ASSUME IInv, NEW o \in DOMAIN orders, Execute(o), mode # "down",
           stops' \subseteq DOMAIN orders,
           firings' \subseteq [todo : Seq(DOMAIN orders) \ {<<>>}, at : {"row", "event"}],
           UNCHANGED <<orders, accepted, cancelled, mode, placing, cancelling, rows, saved, sent,
                       restarts, failures>>
    PROVE  IInv'
<1>1. PICK kind : Suits(o, orders[o], kind, filled[o]) /\ Process(o, orders[o], kind, filled[o])
    BY ExecuteFacts
<1>2. o \in Ids
    BY OrderFacts
<1>3. /\ trades' \in Seq(Trade) /\ DOMAIN trades \subseteq DOMAIN trades'
      /\ pending' \in Seq(DOMAIN trades')
      /\ flights' \subseteq FlightsOf(DOMAIN trades')
      /\ filled' \in [Ids -> 0..MaxQuantity] /\ outcome' \in [Ids -> Outcome]
      /\ resting' \subseteq DOMAIN orders \cup {o}
      /\ \A m \in Ids \ (DOMAIN orders \cup {o}) : filled'[m] = filled[m] /\ outcome'[m] = outcome[m]
      /\ \A m \in DOMAIN orders \ {o} :
           filled'[m] <= orders[m].quantity /\ outcome'[m].filled <= orders[m].quantity
      /\ filled'[o] <= orders[o].quantity /\ outcome'[o].filled <= orders[o].quantity
    BY <1>1, ProcessTypes
<1>4. TypeOK'
    BY <1>3 DEF IInv, TypeOK
<1>5. Fresh'
    BY <1>3 DEF IInv, Fresh
<1>6. FillsFit'
    BY <1>3 DEF IInv, FillsFit
<1>7. Memory'
    BY DEF Memory
<1> QED
    BY <1>4, <1>5, <1>6, <1>7 DEF IInv

\* The list of triggered orders.
LEMMA TriggerFacts ==
    ASSUME IInv, NEW which \in SUBSET stops, Trigger(which)
    PROVE  \E todo \in Seq(DOMAIN orders) \ {<<>>} :
             /\ IsInjective(todo) /\ ToSet(todo) \subseteq which
             /\ todo[1] \in DOMAIN orders /\ todo[1] \in which /\ Execute(todo[1])
             /\ firings' = firings \cup {Firing(todo)}
             /\ stops' = stops \ which
<1>1. PICK todo \in [1..Cardinality(which) -> which] :
         /\ \A i, j \in DOMAIN todo : i < j => todo[i] < todo[j]
         /\ Execute(Head(todo))
         /\ firings' = firings \cup {Firing(todo)}
    BY DEF Trigger
<1>2. which \subseteq DOMAIN orders /\ which # {} /\ stops' = stops \ which
    BY DEF Trigger, IInv, TypeOK
<1>3. IsFiniteSet(which)
    <2>1. IsFiniteSet(1..Len(orders)) /\ which \in SUBSET (1..Len(orders))
        BY <1>2, OrderFacts, FS_Interval
    <2> QED
        BY <2>1, FS_Subset
<1>4. PICK n : n = Cardinality(which)
    OBVIOUS
<1>5. n \in Nat /\ n # 0
    BY <1>2, <1>3, <1>4, FS_CardinalityType, FS_EmptySet
<1>6. todo \in [1..n -> which] /\ DOMAIN todo = 1..n
    BY <1>1, <1>4
<1>7. todo \in Seq(DOMAIN orders) /\ Len(todo) = n
    BY <1>2, <1>5, <1>6
<1>8. todo # <<>>
    BY <1>5, <1>7, EmptySeq
<1>9. Head(todo) = todo[1] /\ todo[1] \in which
    <2>1. Head(todo) = todo[1]
        BY <1>7, <1>8
    <2>2. 1 \in 1..n
        BY <1>5
    <2> QED
        BY <1>6, <2>1, <2>2
<1>10. \A i \in 1..n : todo[i] \in Nat
    <2>1. which \subseteq Nat
        BY <1>2, OrderFacts
    <2> QED
        BY <1>6, <2>1
<1>11. IsInjective(todo)
    BY <1>1, <1>5, <1>6, <1>10 DEF IsInjective
<1>12. ToSet(todo) \subseteq which
    BY <1>6 DEF ToSet
<1> QED
    BY <1>1, <1>2, <1>7, <1>8, <1>9, <1>11, <1>12

LEMMA TriggerInv ==
    ASSUME IInv, NEW which \in SUBSET stops, Trigger(which)
    PROVE  IInv'
<1>1. PICK todo \in Seq(DOMAIN orders) \ {<<>>} :
         /\ todo[1] \in DOMAIN orders /\ Execute(todo[1])
         /\ firings' = firings \cup {Firing(todo)}
         /\ stops' = stops \ which
    BY TriggerFacts
<1>2. firings' \subseteq [todo : Seq(DOMAIN orders) \ {<<>>}, at : {"row", "event"}]
    BY <1>1 DEF Firing, IInv, TypeOK
<1>3. mode # "down" /\ stops' \subseteq DOMAIN orders
    BY <1>1 DEF Trigger, Running, IInv, TypeOK
<1> QED
    BY <1>1, <1>2, <1>3, ExecuteInv DEF Trigger

LEMMA NextTriggeredInv ==
    ASSUME IInv, NEW f \in firings, NextTriggered(f)
    PROVE  IInv'
<1>1. f.todo \in Seq(DOMAIN orders) /\ f.todo # <<>> /\ Len(f.todo) > 1 /\ Len(f.todo) \in Nat
    BY FiringFacts DEF NextTriggered
<1>2. f.todo[2] \in DOMAIN orders
    BY <1>1, FiringFacts
<1>3. PICK rest : rest = Tail(f.todo)
    OBVIOUS
<1>4. firings' \subseteq [todo : Seq(DOMAIN orders) \ {<<>>}, at : {"row", "event"}]
    <2>1. rest \in Seq(DOMAIN orders) /\ Len(rest) = Len(f.todo) - 1
        BY <1>1, <1>3, HeadTailProperties
    <2>2. rest # <<>>
        BY <1>1, <2>1
    <2>3. Firing(rest) \in [todo : Seq(DOMAIN orders) \ {<<>>}, at : {"row", "event"}]
        BY <2>1, <2>2 DEF Firing
    <2> QED
        BY <1>3, <2>3 DEF NextTriggered, IInv, TypeOK
<1>5. mode # "down" /\ stops' \subseteq DOMAIN orders
    BY DEF NextTriggered, IInv, TypeOK, Memory
<1> QED
    BY <1>2, <1>4, <1>5, ExecuteInv DEF NextTriggered

LEMMA NextInv == IInv /\ [Next]_vars => IInv'
<1> SUFFICES ASSUME IInv, [Next]_vars PROVE IInv'
    OBVIOUS
<1>1. CASE Place
    BY <1>1, PlaceOrderInv, PlaceStopOrderInv DEF Place
<1>2. CASE Placing
    BY <1>2, SaveOrderInv, UpdateOrderInv, AnswerOrderInv, PlaceFailsInv DEF Placing
<1>3. CASE Cancel
    BY <1>3, ReadForCancelInv, CancelInEngineInv, CancelRowInv, AnswerCancelInv, CancelFailsInv DEF Cancel
<1>4. CASE Tick
    BY <1>4, TriggerInv DEF Tick
<1>5. CASE Firings
    BY <1>5, UpdateTriggeredInv, NextTriggeredInv, LastTriggeredInv, TriggerFailsInv DEF Firings
<1>6. CASE TimerFlush
    BY <1>6, TimerFlushInv
<1>7. CASE Flush
    BY <1>7, SaveTradesInv, PublishTradeInv, FlushFailsInv DEF Flush
<1>8. CASE Shutdown
    BY <1>8, ShutdownInv
<1>9. CASE Exit
    BY <1>9, ExitInv
<1>10. CASE Recover
    BY <1>10, RecoverInv
<1>11. CASE UNCHANGED vars
    <2>1. TypeOK'
        BY <1>11 DEF vars, memory, IInv, TypeOK
    <2>2. Fresh' /\ FillsFit' /\ Memory'
        BY <1>11 DEF vars, memory, IInv, Fresh, FillsFit, Memory
    <2> QED
        BY <2>1, <2>2 DEF IInv
<1> QED
    BY <1>1, <1>2, <1>3, <1>4, <1>5, <1>6, <1>7, <1>8, <1>9, <1>10, <1>11 DEF Next

THEOREM ManagerInductive == Spec => []IInv
BY InitInv, NextInv, PTL DEF Spec

\* The state keeps its types, and what a process that is down remembers is nothing.
THEOREM ManagerTypeCorrect == Spec => []TypeOK
<1>1. IInv => TypeOK
    BY DEF IInv
<1> QED
    BY <1>1, ManagerInductive, PTL

-----------------------------------------------------------------------------
(* Every trade is accounted for                                             *)

\* Buffers hold trades of this run; what a flush has committed and published is in the tables.
Accounted ==
    /\ Apart(Buffer(pending, flights))
    /\ \A t \in Waiting(Buffer(pending, flights)) : trades[t].run = restarts
    /\ \A t \in DOMAIN trades : trades[t].run <= restarts
    /\ Running => \A t \in DOMAIN trades :
          trades[t].run = restarts => t \in Waiting(Buffer(pending, flights)) \cup (saved \cap sent)
    /\ sent \subseteq saved
    /\ \A f \in flights : /\ f.committed => ToSet(f.batch) \subseteq saved
                          /\ \A i \in 1..f.sent : f.batch[i] \in sent

TInv == IInv /\ Accounted

LEMMA BufferFields == \A p, fl : Buffer(p, fl).pending = p /\ Buffer(p, fl).flights = fl
BY DEF Buffer

LEMMA ApartIs ==
    ASSUME NEW p, NEW fl
    PROVE  Apart(Buffer(p, fl)) <=>
             /\ IsInjective(p)
             /\ \A f \in fl : IsInjective(f.batch) /\ ToSet(f.batch) \cap ToSet(p) = {}
             /\ \A f, g \in fl : f # g => ToSet(f.batch) \cap ToSet(g.batch) = {}
<1>1. PICK b : b = Buffer(p, fl)
    OBVIOUS
<1>2. b.pending = p /\ b.flights = fl
    BY <1>1, BufferFields
<1> QED
    BY <1>1, <1>2 DEF Apart

\* A flush goes on with the same batch.
LEMMA SameBatch ==
    ASSUME NEW p, NEW fl, NEW f \in fl, NEW g, g.batch = f.batch, Apart(Buffer(p, fl))
    PROVE  /\ Apart(Buffer(p, (fl \ {f}) \cup {g}))
           /\ Waiting(Buffer(p, (fl \ {f}) \cup {g})) = Waiting(Buffer(p, fl))
<1>1. PICK fg : fg = (fl \ {f}) \cup {g}
    OBVIOUS
<1>2. \A x \in fg : \E y \in fl : y.batch = x.batch /\ (x = g => y = f) /\ (x # g => y = x /\ y # f)
    BY <1>1
<1>3. \A y \in fl : \E x \in fg : y.batch = x.batch
    BY <1>1
<1>4. UNION {ToSet(x.batch) : x \in fg} = UNION {ToSet(y.batch) : y \in fl}
    BY <1>2, <1>3
<1>5. \A x \in fg : IsInjective(x.batch) /\ ToSet(x.batch) \cap ToSet(p) = {}
    BY <1>2, BufferFields DEF Apart
<1>6. ASSUME NEW x \in fg, NEW y \in fg, x # y
      PROVE  ToSet(x.batch) \cap ToSet(y.batch) = {}
    <2>1. PICK u \in fl : u.batch = x.batch /\ (x = g => u = f) /\ (x # g => u = x /\ u # f)
        BY <1>2
    <2>2. PICK v \in fl : v.batch = y.batch /\ (y = g => v = f) /\ (y # g => v = y /\ v # f)
        BY <1>2
    <2>3. u # v
        BY <1>6, <2>1, <2>2
    <2>4. ToSet(u.batch) \cap ToSet(v.batch) = {}
        BY <2>3, BufferFields DEF Apart
    <2> QED
        BY <2>1, <2>2, <2>4
<1>7. Apart(Buffer(p, fg))
    BY <1>5, <1>6, BufferFields DEF Apart
<1>8. Waiting(Buffer(p, fg)) = Waiting(Buffer(p, fl))
    BY <1>4, BufferFields DEF Waiting
<1> QED
    BY <1>1, <1>7, <1>8

\* The whole buffer goes to a new flush.
LEMMA FlushTakes ==
    ASSUME NEW p, NEW fl, Apart(Buffer(p, fl))
    PROVE  /\ Apart(Buffer(<<>>, fl \cup {Flight(p)}))
           /\ Waiting(Buffer(<<>>, fl \cup {Flight(p)})) = Waiting(Buffer(p, fl))
<1>1. PICK fg : fg = fl \cup {Flight(p)}
    OBVIOUS
<1>2. Flight(p).batch = p
    BY DEF Flight
<1>3. /\ IsInjective(p)
      /\ \A f \in fl : IsInjective(f.batch) /\ ToSet(f.batch) \cap ToSet(p) = {}
      /\ \A f, g \in fl : f # g => ToSet(f.batch) \cap ToSet(g.batch) = {}
    BY BufferFields DEF Apart
<1>4. \A x \in fg : x \in fl \/ (x = Flight(p) /\ x.batch = p)
    BY <1>1, <1>2
<1>5. UNION {ToSet(x.batch) : x \in fg} = ToSet(p) \cup UNION {ToSet(y.batch) : y \in fl}
    BY <1>1, <1>2
<1>6. \A x \in fg : IsInjective(x.batch) /\ ToSet(x.batch) \cap ToSet(<<>>) = {}
    BY <1>3, <1>4, EmptySet
<1>7. \A x, y \in fg : x # y => ToSet(x.batch) \cap ToSet(y.batch) = {}
    BY <1>3, <1>4
<1>8. Apart(Buffer(<<>>, fg))
    <2>1. PICK b : b = Buffer(<<>>, fg)
        OBVIOUS
    <2>2. b.pending = <<>> /\ b.flights = fg
        BY <2>1, BufferFields
    <2>3. IsInjective(b.pending)
        BY <2>2, EmptySet
    <2>4. \A f \in b.flights : IsInjective(f.batch) /\ ToSet(f.batch) \cap ToSet(b.pending) = {}
        BY <1>6, <2>2
    <2>5. Apart(b)
        BY <1>7, <2>2, <2>3, <2>4 DEF Apart
    <2> QED
        BY <2>1, <2>5
<1>9. Waiting(Buffer(<<>>, fg)) = Waiting(Buffer(p, fl))
    BY <1>5, EmptySet, BufferFields DEF Waiting
<1> QED
    BY <1>1, <1>8, <1>9

LEMMA SetOfConcat ==
    ASSUME NEW D, NEW s \in Seq(D), NEW t \in Seq(D)
    PROVE  /\ ToSet(s \o t) = ToSet(s) \cup ToSet(t)
           /\ IsInjective(s) /\ IsInjective(t) /\ ToSet(s) \cap ToSet(t) = {} => IsInjective(s \o t)
<1>1. PICK p : p = s \o t
    OBVIOUS
<1>2. /\ Len(s) \in Nat /\ Len(t) \in Nat /\ DOMAIN s = 1..Len(s) /\ DOMAIN t = 1..Len(t)
      /\ DOMAIN p = 1..(Len(s) + Len(t))
      /\ \A i \in 1..(Len(s) + Len(t)) : p[i] = IF i <= Len(s) THEN s[i] ELSE t[i - Len(s)]
    BY <1>1, ConcatProperties, LenProperties
<1>3. ASSUME NEW i \in DOMAIN p
      PROVE  \/ i \in DOMAIN s /\ p[i] = s[i]
             \/ i - Len(s) \in DOMAIN t /\ p[i] = t[i - Len(s)] /\ i > Len(s)
    BY <1>2
<1>4. ToSet(p) \subseteq ToSet(s) \cup ToSet(t)
    BY <1>3 DEF ToSet
<1>5. ToSet(s) \subseteq ToSet(p)
    <2>1. \A i \in DOMAIN s : i \in DOMAIN p /\ p[i] = s[i]
        BY <1>2
    <2> QED
        BY <2>1 DEF ToSet
<1>6. ToSet(t) \subseteq ToSet(p)
    <2>1. \A i \in DOMAIN t : i + Len(s) \in DOMAIN p /\ p[i + Len(s)] = t[i]
        BY <1>2
    <2> QED
        BY <2>1 DEF ToSet
<1>7. ASSUME IsInjective(s), IsInjective(t), ToSet(s) \cap ToSet(t) = {},
             NEW i \in DOMAIN p, NEW j \in DOMAIN p, p[i] = p[j]
      PROVE  i = j
    <2>1. \A k \in DOMAIN s, l \in DOMAIN t : s[k] # t[l]
        BY <1>7 DEF ToSet
    <2>2. CASE i \in DOMAIN s /\ p[i] = s[i] /\ j \in DOMAIN s /\ p[j] = s[j]
        BY <1>7, <2>2 DEF IsInjective
    <2>3. CASE i - Len(s) \in DOMAIN t /\ p[i] = t[i - Len(s)] /\ j - Len(s) \in DOMAIN t /\ p[j] = t[j - Len(s)]
        <3>1. i - Len(s) = j - Len(s)
            BY <1>7, <2>3 DEF IsInjective
        <3> QED
            BY <1>2, <3>1
    <2> QED
        BY <1>3, <1>7, <2>1, <2>2, <2>3
<1> QED
    BY <1>1, <1>4, <1>5, <1>6, <1>7 DEF IsInjective

\* A flush that fails puts its batch back.
LEMMA FlushReturns ==
    ASSUME NEW D, NEW p \in Seq(D), NEW fl, NEW f \in fl, f.batch \in Seq(D), Apart(Buffer(p, fl))
    PROVE  /\ Apart(Buffer(f.batch \o p, fl \ {f}))
           /\ Waiting(Buffer(f.batch \o p, fl \ {f})) = Waiting(Buffer(p, fl))
<1>1. PICK q : q = f.batch \o p
    OBVIOUS
<1>2. PICK fg : fg = fl \ {f}
    OBVIOUS
<1>3. /\ IsInjective(p)
      /\ \A g \in fl : IsInjective(g.batch) /\ ToSet(g.batch) \cap ToSet(p) = {}
      /\ \A g, h \in fl : g # h => ToSet(g.batch) \cap ToSet(h.batch) = {}
    BY ApartIs
<1>4. ToSet(q) = ToSet(f.batch) \cup ToSet(p) /\ IsInjective(q)
    BY <1>1, <1>3, SetOfConcat
<1>5. \A g \in fg : IsInjective(g.batch) /\ ToSet(g.batch) \cap ToSet(q) = {}
    BY <1>2, <1>3, <1>4
<1>6. \A g, h \in fg : g # h => ToSet(g.batch) \cap ToSet(h.batch) = {}
    BY <1>2, <1>3
<1>7. UNION {ToSet(g.batch) : g \in fl} = ToSet(f.batch) \cup UNION {ToSet(g.batch) : g \in fg}
    BY <1>2
<1>8. Apart(Buffer(q, fg))
    BY <1>4, <1>5, <1>6, ApartIs
<1>9. Waiting(Buffer(q, fg)) = Waiting(Buffer(p, fl))
    BY <1>4, <1>7, BufferFields DEF Waiting
<1> QED
    BY <1>1, <1>2, <1>8, <1>9

\* A flush is done.
LEMMA FlushEnds ==
    ASSUME NEW p, NEW fl, NEW f \in fl, Apart(Buffer(p, fl))
    PROVE  /\ Apart(Buffer(p, fl \ {f}))
           /\ Waiting(Buffer(p, fl)) = Waiting(Buffer(p, fl \ {f})) \cup ToSet(f.batch)
<1>1. PICK fg : fg = fl \ {f}
    OBVIOUS
<1>2. Apart(Buffer(p, fg))
    BY <1>1, ApartIs
<1>3. UNION {ToSet(g.batch) : g \in fl} = ToSet(f.batch) \cup UNION {ToSet(g.batch) : g \in fg}
    BY <1>1
<1>4. Waiting(Buffer(p, fl)) = Waiting(Buffer(p, fg)) \cup ToSet(f.batch)
    BY <1>3, BufferFields DEF Waiting
<1> QED
    BY <1>1, <1>2, <1>4

\* What waits are trades.
LEMMA WaitingAreTrades ==
    ASSUME IInv
    PROVE  Waiting(Buffer(pending, flights)) \subseteq DOMAIN trades
<1>1. ToSet(pending) \subseteq DOMAIN trades
    <2>1. pending \in Seq(DOMAIN trades)
        BY DEF IInv, TypeOK
    <2> QED
        BY <2>1, LenProperties, ElementOfSeq DEF ToSet
<1>2. \A f \in flights : ToSet(f.batch) \subseteq DOMAIN trades
    BY FlightFacts
<1> QED
    BY <1>1, <1>2, BufferFields DEF Waiting

LEMMA ProcessAccounted ==
    ASSUME TInv, NEW o, NEW order, NEW kind, NEW carried, Suits(o, order, kind, carried),
           Process(o, order, kind, carried), UNCHANGED <<mode, saved, sent, restarts>>
    PROVE  Accounted'
<1>1. PICK n \in Nat :
         /\ Len(trades') = Len(trades) + n /\ DOMAIN trades' = 1..Len(trades')
         /\ DOMAIN trades = 1..Len(trades) /\ Len(trades) \in Nat
         /\ \A t \in DOMAIN trades : trades'[t] = trades[t]
         /\ \A t \in DOMAIN trades' \ DOMAIN trades : trades'[t].run = restarts
         /\ pending' = Buffered(n).pending /\ flights' = Buffered(n).flights
    BY ProcessTrades DEF TInv
<1>2. /\ Apart(Buffered(n))
      /\ Waiting(Buffered(n)) = Waiting(Buffer(pending, flights)) \cup ((Len(trades) + 1)..(Len(trades) + n))
    BY BufferedApart DEF TInv, Accounted
<1>3. /\ Buffered(n) \in BuffersOf(1..(Len(trades) + n))
      /\ \A f \in Buffered(n).flights : f \in flights \/ (~f.committed /\ f.sent = 0)
    BY BufferedTypes DEF TInv
<1>4. Buffered(n) = Buffer(pending', flights')
    BY <1>1, <1>3 DEF BuffersOf, Buffer
<1>5. DOMAIN trades' \ DOMAIN trades = (Len(trades) + 1)..(Len(trades) + n)
    BY <1>1
<1>6. PICK before : before = Waiting(Buffer(pending, flights))
    OBVIOUS
<1>7. PICK after : after = Waiting(Buffer(pending', flights'))
    OBVIOUS
<1>8. before \subseteq DOMAIN trades /\ after = before \cup (DOMAIN trades' \ DOMAIN trades)
    BY <1>2, <1>4, <1>5, <1>6, <1>7, WaitingAreTrades DEF TInv
<1>9. Apart(Buffer(pending', flights'))
    BY <1>2, <1>4
<1>10. \A t \in after : trades'[t].run = restarts'
    BY <1>1, <1>6, <1>8 DEF TInv, Accounted
<1>11. restarts \in Nat
    BY BoundsAssumption DEF TInv, IInv, TypeOK
<1>12. \A t \in DOMAIN trades' : trades'[t].run <= restarts'
    BY <1>1, <1>11 DEF TInv, Accounted
<1>13. Running' => \A t \in DOMAIN trades' : trades'[t].run = restarts' => t \in after \cup (saved' \cap sent')
    BY <1>1, <1>6, <1>8 DEF TInv, Accounted, Running
<1>14. \A f \in flights' : /\ f.committed => ToSet(f.batch) \subseteq saved'
                           /\ \A i \in 1..f.sent : f.batch[i] \in sent'
    BY <1>1, <1>3 DEF TInv, Accounted
<1>15. sent' \subseteq saved'
    BY DEF TInv, Accounted
<1> QED
    BY <1>7, <1>9, <1>10, <1>12, <1>13, <1>14, <1>15 DEF Accounted

\* Most handlers leave the trades alone.
LEMMA OthersAccounted ==
    ASSUME TInv, UNCHANGED <<pending, flights, trades, saved, sent, restarts, mode>>
    PROVE  Accounted'
BY DEF TInv, Accounted, Running

\* The buffer goes to a flush.
LEMMA TakenAccounted ==
    ASSUME TInv, flights' = flights \cup {Flight(pending)}, pending' = <<>>,
           UNCHANGED <<trades, saved, sent, restarts>>, Running' => Running
    PROVE  Accounted'
<1>1. /\ Apart(Buffer(pending', flights'))
      /\ Waiting(Buffer(pending', flights')) = Waiting(Buffer(pending, flights))
    BY FlushTakes DEF TInv, Accounted
<1>2. ~Flight(pending).committed /\ Flight(pending).sent = 0
    BY DEF Flight
<1>3. \A f \in flights' : /\ f.committed => ToSet(f.batch) \subseteq saved'
                          /\ \A i \in 1..f.sent : f.batch[i] \in sent'
    BY <1>2 DEF TInv, Accounted
<1> QED
    BY <1>1, <1>3 DEF TInv, Accounted

LEMMA SaveAccounted ==
    ASSUME TInv, NEW f \in flights, SaveTrades(f)
    PROVE  Accounted'
<1>1. PICK g : g = [f EXCEPT !.committed = TRUE]
    OBVIOUS
<1>2. g.batch = f.batch /\ g.sent = f.sent
    <2>1. f = [batch |-> f.batch, committed |-> f.committed, sent |-> f.sent]
        BY FlightFacts DEF TInv
    <2> QED
        BY <1>1, <2>1
<1>3. flights' = (flights \ {f}) \cup {g} /\ pending' = pending /\ saved' = saved \cup ToSet(f.batch)
    BY <1>1 DEF SaveTrades
<1>4. /\ Apart(Buffer(pending', flights'))
      /\ Waiting(Buffer(pending', flights')) = Waiting(Buffer(pending, flights))
    BY <1>2, <1>3, SameBatch DEF TInv, Accounted
<1>5. \A h \in flights' : /\ h.committed => ToSet(h.batch) \subseteq saved'
                          /\ \A i \in 1..h.sent : h.batch[i] \in sent'
    BY <1>2, <1>3 DEF TInv, Accounted, SaveTrades
<1> QED
    BY <1>3, <1>4, <1>5 DEF TInv, Accounted, Running, SaveTrades

LEMMA PublishAccounted ==
    ASSUME TInv, NEW f \in flights, PublishTrade(f)
    PROVE  Accounted'
<1>1. /\ f.batch \in Seq(DOMAIN trades) /\ DOMAIN f.batch = 1..Len(f.batch) /\ Len(f.batch) \in Nat
      /\ f.sent \in Nat /\ f.sent < Len(f.batch)
      /\ f = [batch |-> f.batch, committed |-> f.committed, sent |-> f.sent]
    BY FlightFacts DEF TInv
<1>2. /\ sent' = sent \cup {f.batch[f.sent + 1]} /\ pending' = pending /\ saved' = saved
      /\ ToSet(f.batch) \subseteq saved /\ \A i \in 1..f.sent : f.batch[i] \in sent
    BY DEF PublishTrade, TInv, Accounted
<1>3. f.batch[f.sent + 1] \in saved
    BY <1>1, <1>2 DEF ToSet
<1>4. sent' \subseteq saved'
    BY <1>2, <1>3 DEF TInv, Accounted
<1>5. \A i \in 1..(f.sent + 1) : f.batch[i] \in sent'
    BY <1>1, <1>2
<1>6. \A h \in flights \ {f} : /\ h.committed => ToSet(h.batch) \subseteq saved'
                               /\ \A i \in 1..h.sent : h.batch[i] \in sent'
    BY <1>2 DEF TInv, Accounted
<1>7. CASE f.sent + 1 = Len(f.batch)
    <2>1. flights' = flights \ {f}
        BY <1>7 DEF PublishTrade
    <2>2. ToSet(f.batch) \subseteq saved' \cap sent'
        <3>1. \A i \in DOMAIN f.batch : f.batch[i] \in sent'
            BY <1>1, <1>5, <1>7
        <3> QED
            BY <1>2, <3>1 DEF ToSet
    <2>3. /\ Apart(Buffer(pending', flights'))
          /\ Waiting(Buffer(pending, flights)) = Waiting(Buffer(pending', flights')) \cup ToSet(f.batch)
        BY <1>2, <2>1, FlushEnds DEF TInv, Accounted
    <2> QED
        BY <1>2, <1>4, <1>6, <2>1, <2>2, <2>3 DEF TInv, Accounted, Running, PublishTrade
<1>8. CASE f.sent + 1 # Len(f.batch)
    <2>1. PICK g : g = [f EXCEPT !.sent = f.sent + 1]
        OBVIOUS
    <2>2. g.batch = f.batch /\ g.committed = f.committed /\ g.sent = f.sent + 1
        BY <1>1, <2>1
    <2>3. flights' = (flights \ {f}) \cup {g}
        BY <1>8, <2>1 DEF PublishTrade
    <2>4. /\ Apart(Buffer(pending', flights'))
          /\ Waiting(Buffer(pending', flights')) = Waiting(Buffer(pending, flights))
        BY <1>2, <2>2, <2>3, SameBatch DEF TInv, Accounted
    <2>5. \A h \in flights' : /\ h.committed => ToSet(h.batch) \subseteq saved'
                              /\ \A i \in 1..h.sent : h.batch[i] \in sent'
        BY <1>2, <1>5, <1>6, <2>2, <2>3
    <2> QED
        BY <1>2, <1>4, <2>4, <2>5 DEF TInv, Accounted, Running, PublishTrade
<1> QED
    BY <1>7, <1>8

LEMMA FailsAccounted ==
    ASSUME TInv, NEW f \in flights, FlushFails(f)
    PROVE  Accounted'
<1>1. f.batch \in Seq(DOMAIN trades) /\ pending \in Seq(DOMAIN trades)
    BY FlightFacts DEF TInv, IInv, TypeOK
<1>2. /\ Apart(Buffer(pending', flights'))
      /\ Waiting(Buffer(pending', flights')) = Waiting(Buffer(pending, flights))
    <2>1. pending' = f.batch \o pending /\ flights' = flights \ {f}
        BY DEF FlushFails
    <2>2. Apart(Buffer(pending, flights))
        BY DEF TInv, Accounted
    <2>3. /\ Apart(Buffer(f.batch \o pending, flights \ {f}))
          /\ Waiting(Buffer(f.batch \o pending, flights \ {f})) = Waiting(Buffer(pending, flights))
        BY <1>1, <2>2, FlushReturns
    <2> QED
        BY <2>1, <2>3
<1>3. \A h \in flights' : /\ h.committed => ToSet(h.batch) \subseteq saved'
                          /\ \A i \in 1..h.sent : h.batch[i] \in sent'
    BY DEF TInv, Accounted, FlushFails
<1> QED
    BY <1>2, <1>3 DEF TInv, Accounted, Running, FlushFails

\* A process that starts has no trades yet.
LEMMA NothingWaits == Apart(Buffer(<<>>, {})) /\ Waiting(Buffer(<<>>, {})) = {}
<1>1. Apart(Buffer(<<>>, {}))
    BY EmptySet, ApartIs
<1>2. Waiting(Buffer(<<>>, {})) = {}
    BY EmptySet, BufferFields DEF Waiting
<1> QED
    BY <1>1, <1>2

LEMMA ExitAccounted ==
    ASSUME TInv, Exit
    PROVE  Accounted'
BY NothingWaits DEF TInv, Accounted, Running, Exit

LEMMA RecoverAccounted ==
    ASSUME TInv, Recover
    PROVE  Accounted'
<1>1. pending' = <<>> /\ flights' = {} /\ UNCHANGED <<trades, saved, sent>> /\ restarts' = restarts + 1
    BY DEF TInv, IInv, Memory, Recover
<1>2. restarts \in Nat /\ \A t \in DOMAIN trades : trades[t].run \in Nat
    <2>1. \A t \in DOMAIN trades : trades[t] \in Trade
        BY LenProperties, ElementOfSeq DEF TInv, IInv, TypeOK
    <2> QED
        BY <2>1, BoundsAssumption DEF TInv, IInv, TypeOK, Trade
<1>3. \A t \in DOMAIN trades : trades[t].run <= restarts' /\ trades[t].run # restarts'
    BY <1>1, <1>2 DEF TInv, Accounted
<1> QED
    BY <1>1, <1>3, NothingWaits DEF TInv, Accounted

LEMMA InitAccounted == Init => Accounted
BY NothingWaits DEF Init, Accounted

\* Orders that a running loop has still to execute.
Ahead(f) == {f.todo[i] : i \in 2..Len(f.todo)}

\* The actions that process an order.
LEMMA PlaceProcesses ==
    ASSUME IInv, Len(orders) < MaxOrders, NEW order \in Menu[Len(orders) + 1], PlaceOrder(order)
    PROVE  \E o : /\ o = Len(orders) + 1 /\ o \in Ids /\ o \notin DOMAIN orders
                  /\ Suits(o, order, order.kind, 0) /\ Process(o, order, order.kind, 0)
<1>1. PICK o : o = Len(orders) + 1
    OBVIOUS
<1>2. order \in Order /\ order.quantity \in 1..MaxQuantity /\ o \in Ids /\ o \notin DOMAIN orders
    BY <1>1, PlaceFacts DEF PlaceOrder
<1>3. Suits(o, order, order.kind, 0)
    BY <1>2, OrderFacts DEF Suits, Order
<1>4. Process(o, order, order.kind, 0)
    BY <1>1 DEF PlaceOrder
<1> QED
    BY <1>1, <1>2, <1>3, <1>4

\* An order that was armed is processed from a tick or in a loop.
LEMMA TickProcesses ==
    ASSUME IInv, NEW which \in SUBSET stops, Trigger(which)
    PROVE  \E o, kind :
             /\ o \in which
             /\ Suits(o, orders[o], kind, filled[o]) /\ Process(o, orders[o], kind, filled[o])
<1>1. PICK todo \in Seq(DOMAIN orders) \ {<<>>} :
         todo[1] \in DOMAIN orders /\ todo[1] \in which /\ Execute(todo[1])
    BY TriggerFacts
<1>2. PICK o : o = todo[1]
    OBVIOUS
<1>3. o \in DOMAIN orders /\ o \in which /\ Execute(o)
    BY <1>1, <1>2
<1>4. \E kind : Suits(o, orders[o], kind, filled[o]) /\ Process(o, orders[o], kind, filled[o])
    BY <1>3, ExecuteFacts
<1> QED
    BY <1>3, <1>4

LEMMA LoopProcesses ==
    ASSUME IInv, NEW f \in firings, NextTriggered(f)
    PROVE  \E o, kind :
             /\ o \in Ahead(f)
             /\ o = f.todo[2] /\ o \in DOMAIN orders
             /\ Suits(o, orders[o], kind, filled[o]) /\ Process(o, orders[o], kind, filled[o])
<1>1. PICK o : o = f.todo[2]
    OBVIOUS
<1>2. Len(f.todo) > 1 /\ Len(f.todo) \in Nat /\ Execute(o)
    BY <1>1, FiringFacts DEF NextTriggered
<1>3. o \in DOMAIN orders /\ o \in Ahead(f)
    BY <1>1, <1>2, FiringFacts DEF Ahead
<1>4. \E kind : Suits(o, orders[o], kind, filled[o]) /\ Process(o, orders[o], kind, filled[o])
    BY <1>2, <1>3, ExecuteFacts
<1> QED
    BY <1>1, <1>3, <1>4

LEMMA ProcessingAccounted ==
    ASSUME TInv
    PROVE  /\ Place => Accounted'
           /\ Tick => Accounted'
           /\ \A f \in firings : NextTriggered(f) => Accounted'
<1>1. IInv
    BY DEF TInv
<1>2. ASSUME Place PROVE Accounted'
    <2>1. PICK order \in Menu[Len(orders) + 1] : PlaceOrder(order) \/ PlaceStopOrder(order)
        BY <1>2 DEF Place
    <2>2. CASE PlaceOrder(order)
        <3>1. PICK o : Suits(o, order, order.kind, 0) /\ Process(o, order, order.kind, 0)
            BY <1>1, <1>2, <2>2, PlaceProcesses DEF Place
        <3>2. UNCHANGED <<mode, saved, sent, restarts>>
            BY <2>2 DEF PlaceOrder
        <3> QED
            BY <3>1, <3>2, ProcessAccounted
    <2>3. CASE PlaceStopOrder(order)
        BY <2>3, OthersAccounted DEF PlaceStopOrder, engine
    <2> QED
        BY <2>1, <2>2, <2>3
<1>3. ASSUME Tick PROVE Accounted'
    <2>1. PICK which \in SUBSET stops : Trigger(which)
        BY <1>3 DEF Tick
    <2>2. PICK o, kind : Suits(o, orders[o], kind, filled[o]) /\ Process(o, orders[o], kind, filled[o])
        BY <1>1, <2>1, TickProcesses
    <2>3. UNCHANGED <<mode, saved, sent, restarts>>
        BY <2>1 DEF Trigger
    <2> QED
        BY <2>2, <2>3, ProcessAccounted
<1>4. ASSUME NEW f \in firings, NextTriggered(f) PROVE Accounted'
    <2>1. PICK o, kind : Suits(o, orders[o], kind, filled[o]) /\ Process(o, orders[o], kind, filled[o])
        BY <1>1, <1>4, LoopProcesses
    <2>2. UNCHANGED <<mode, saved, sent, restarts>>
        BY <1>4 DEF NextTriggered
    <2> QED
        BY <2>1, <2>2, ProcessAccounted
<1> QED
    BY <1>2, <1>3, <1>4

LEMMA NextAccounted == TInv /\ [Next]_vars => Accounted'
<1> SUFFICES ASSUME TInv, [Next]_vars PROVE Accounted'
    OBVIOUS
<1>1. CASE Place
    BY <1>1, ProcessingAccounted
<1>2. CASE Placing
    BY <1>2, OthersAccounted DEF Placing, SaveOrder, UpdateOrder, AnswerOrder, PlaceFails, engine
<1>3. CASE Cancel
    BY <1>3, OthersAccounted DEF Cancel, ReadForCancel, CancelInEngine, CancelRow, AnswerCancel, CancelFails, engine
<1>4. CASE Tick
    BY <1>4, ProcessingAccounted
<1>5. CASE Firings
    <2>1. PICK f \in firings : UpdateTriggered(f) \/ NextTriggered(f) \/ LastTriggered(f) \/ TriggerFails(f)
        BY <1>5 DEF Firings
    <2> QED
        BY <2>1, ProcessingAccounted, OthersAccounted DEF UpdateTriggered, LastTriggered, TriggerFails, engine
<1>6. CASE TimerFlush
    BY <1>6, TakenAccounted DEF TimerFlush, Running
<1>7. CASE Flush
    BY <1>7, SaveAccounted, PublishAccounted, FailsAccounted DEF Flush
<1>8. CASE Shutdown
    <2>1. CASE pending = <<>>
        BY <1>8, <2>1 DEF Shutdown, TInv, Accounted, Running
    <2>2. CASE pending # <<>>
        BY <1>8, <2>2, TakenAccounted DEF Shutdown, Running
    <2> QED
        BY <2>1, <2>2
<1>9. CASE Exit
    BY <1>9, ExitAccounted
<1>10. CASE Recover
    BY <1>10, RecoverAccounted
<1>11. CASE UNCHANGED vars
    BY <1>11, OthersAccounted DEF vars, memory
<1> QED
    BY <1>1, <1>2, <1>3, <1>4, <1>5, <1>6, <1>7, <1>8, <1>9, <1>10, <1>11 DEF Next

LEMMA TradesInductive == Spec => []TInv
<1>1. Init => TInv
    BY InitInv, InitAccounted DEF TInv
<1>2. TInv /\ [Next]_vars => TInv'
    BY NextInv, NextAccounted DEF TInv
<1> QED
    BY <1>1, <1>2, PTL DEF Spec

\* While the process runs, each of its trades is in one place: buffered once,
\* in one running flush, or committed and published.
THEOREM TradesAccounted == Spec => []TradesAccountedFor
<1>1. TInv => TradesAccountedFor
    <2> SUFFICES ASSUME TInv, Running PROVE TradesAccountedFor
        BY DEF TradesAccountedFor
    <2>1. Waiting(Buffer(pending, flights)) = ToSet(pending) \cup InFlight
        BY BufferFields DEF Waiting, InFlight
    <2>2. Apart(Buffer(pending, flights))
        BY DEF TInv, Accounted
    <2>3. /\ IsInjective(pending)
          /\ \A f \in flights : IsInjective(f.batch) /\ ToSet(f.batch) \cap ToSet(pending) = {}
          /\ \A f, g \in flights : f # g => ToSet(f.batch) \cap ToSet(g.batch) = {}
        BY <2>2, ApartIs
    <2> QED
        BY <2>1, <2>3 DEF TInv, Accounted, TradesAccountedFor
<1> QED
    BY <1>1, TradesInductive, PTL

-----------------------------------------------------------------------------
(* Trades go through the stages of TradeOutbox                              *)

\* The state of TradeOutbox.
Where == [t \in DOMAIN trades |-> Stage(t)]

\* A step that TradeOutbox allows.
Allowed == Outbox!Next \/ Where' = Where

LEMMA WhereIs ==
    ASSUME IInv
    PROVE  /\ Len(trades) \in Nat /\ DOMAIN trades = 1..Len(trades)
           /\ Where \in Seq(Outbox!Stages) /\ Len(Where) = Len(trades) /\ DOMAIN Where = DOMAIN trades
           /\ \A t \in DOMAIN trades : Where[t] = Stage(t)
<1>1. Len(trades) \in Nat /\ DOMAIN trades = 1..Len(trades)
    BY LenProperties DEF IInv, TypeOK
<1>2. \A t \in DOMAIN trades : Stage(t) \in Outbox!Stages
    BY DEF Stage, Outbox!Stages
<1>3. Where \in [1..Len(trades) -> Outbox!Stages]
    BY <1>1, <1>2 DEF Where
<1>4. Where \in Seq(Outbox!Stages) /\ Len(Where) = Len(trades)
    BY <1>1, <1>3
<1> QED
    BY <1>1, <1>3, <1>4 DEF Where

LEMMA RunningOrDown == IInv => (Running <=> mode # "down")
BY DEF IInv, TypeOK, Running

LEMMA OthersAllowed ==
    ASSUME UNCHANGED <<trades, saved, sent, restarts>>, Running' = Running
    PROVE  Allowed
BY DEF Allowed, Where, Stage

LEMMA ProcessAllowed ==
    ASSUME IInv, IInv', NEW o, NEW order, NEW kind, NEW carried, Suits(o, order, kind, carried),
           Process(o, order, kind, carried), UNCHANGED <<mode, saved, sent, restarts>>, Running
    PROVE  Allowed
<1>1. PICK n \in Nat :
         /\ trades' \in Seq(Trade) /\ Len(trades') = Len(trades) + n /\ DOMAIN trades' = 1..Len(trades')
         /\ DOMAIN trades = 1..Len(trades) /\ Len(trades) \in Nat /\ DOMAIN trades \subseteq DOMAIN trades'
         /\ SubSeq(trades', 1, Len(trades)) = trades
         /\ \A t \in DOMAIN trades : trades'[t] = trades[t]
         /\ \A t \in DOMAIN trades' \ DOMAIN trades : trades'[t].run = restarts
    BY ProcessTrades
<1>2. PICK before : before = Where
    OBVIOUS
<1>3. PICK after : after = Where'
    OBVIOUS
<1>4. /\ before \in Seq(Outbox!Stages) /\ Len(before) = Len(trades) /\ DOMAIN before = DOMAIN trades
      /\ \A t \in DOMAIN trades : before[t] = Stage(t)
    BY <1>2, WhereIs
<1>5. /\ after \in Seq(Outbox!Stages) /\ Len(after) = Len(trades') /\ DOMAIN after = DOMAIN trades'
      /\ \A t \in DOMAIN trades' : after[t] = Stage(t)'
    <2>1. /\ Where' \in Seq(Outbox!Stages) /\ Len(Where') = Len(trades') /\ DOMAIN Where' = DOMAIN trades'
          /\ \A t \in DOMAIN trades' : Where'[t] = Stage(t)'
        <3>1. Len(trades') \in Nat
            BY <1>1
        <3>2. \A t \in DOMAIN trades' : Stage(t)' \in Outbox!Stages
            BY DEF Stage, Outbox!Stages
        <3>3. Where' \in [1..Len(trades') -> Outbox!Stages]
            BY <1>1, <3>2 DEF Where
        <3>4. Where' \in Seq(Outbox!Stages) /\ Len(Where') = Len(trades')
            BY <3>1, <3>3
        <3> QED
            BY <1>1, <3>3, <3>4 DEF Where
    <2> QED
        BY <1>3, <2>1
<1>6. \A t \in DOMAIN trades : after[t] = before[t]
    <2>1. \A t \in DOMAIN trades : Stage(t)' = Stage(t)
        BY <1>1 DEF Stage, Running
    <2> QED
        BY <1>1, <1>4, <1>5, <2>1
<1>7. CASE n = 0
    <2>1. Len(after) = Len(before)
        BY <1>1, <1>4, <1>5, <1>7
    <2>2. after = before
        BY <1>1, <1>4, <1>5, <1>6, <2>1, SeqEqual
    <2> QED
        BY <1>2, <1>3, <2>2 DEF Allowed
<1>8. CASE n # 0
    <2>1. Len(after) > Len(before)
        BY <1>1, <1>4, <1>5, <1>8
    <2>2. SubSeq(after, 1, Len(before)) = before
        <3>1. \A i \in 1..Len(before) : after[i] \in Outbox!Stages
            BY <1>1, <1>4, <1>5, ElementOfSeq
        <3>2. /\ SubSeq(after, 1, Len(before)) \in Seq(Outbox!Stages)
              /\ Len(SubSeq(after, 1, Len(before))) = Len(before)
              /\ \A i \in 1..Len(before) : SubSeq(after, 1, Len(before))[i] = after[i]
            BY <1>1, <1>4, <3>1, SubSeqProperties
        <3> QED
            BY <1>1, <1>4, <1>6, <3>2, SeqEqual
    <2>3. ASSUME NEW t \in (Len(before) + 1)..Len(after) PROVE after[t] = "made"
        <3>1. t \in DOMAIN trades' /\ t \notin DOMAIN trades
            BY <1>1, <1>4, <1>5
        <3>2. t \notin saved' /\ t \notin sent' /\ trades'[t].run = restarts' /\ Running'
            BY <1>1, <3>1 DEF IInv, TypeOK, Running
        <3> QED
            BY <1>5, <3>1, <3>2 DEF Stage
    <2>4. Outbox!Make
        BY <1>2, <1>3, <2>1, <2>2, <2>3 DEF Outbox!Make, Where
    <2> QED
        BY <2>4 DEF Allowed, Outbox!Next
<1> QED
    BY <1>7, <1>8

\* Trades change stage together.
LEMMA MoveIs ==
    ASSUME IInv, NEW which, which \subseteq DOMAIN trades, which # {}, NEW from, NEW to,
           UNCHANGED trades,
           \A t \in which : Stage(t) = from /\ Stage(t)' = to,
           \A t \in DOMAIN trades \ which : Stage(t)' = Stage(t)
    PROVE  Outbox!Move(which, from, to)
<1>1. DOMAIN Where = DOMAIN trades /\ \A t \in DOMAIN trades : Where[t] = Stage(t)
    BY WhereIs
<1>2. Where' = [t \in DOMAIN trades |-> Stage(t)']
    BY DEF Where
<1>3. Where' = [t \in DOMAIN Where |-> IF t \in which THEN to ELSE Where[t]]
    BY <1>1, <1>2
<1>4. \A t \in which : Where[t] = from
    BY <1>1
<1> QED
    BY <1>3, <1>4 DEF Outbox!Move, Where

LEMMA SaveAllowed ==
    ASSUME TInv, NEW f \in flights, SaveTrades(f)
    PROVE  Allowed
<1>1. PICK which : which = ToSet(f.batch)
    OBVIOUS
<1>2. which \subseteq DOMAIN trades /\ which # {}
    <2>1. ToSet(f.batch) \subseteq DOMAIN trades /\ f.sent + 1 \in DOMAIN f.batch
        BY FlightFacts DEF TInv
    <2> QED
        BY <1>1, <2>1 DEF ToSet
<1>3. /\ which \cap saved = {} /\ saved' = saved \cup which
      /\ UNCHANGED <<trades, sent, mode, restarts>>
    BY <1>1 DEF SaveTrades
<1>4. Running /\ Running' /\ sent \subseteq saved
    <2>1. mode # "down"
        BY DEF TInv, IInv, Memory
    <2> QED
        BY <1>3, <2>1, RunningOrDown DEF TInv, Accounted, Running
<1>5. \A t \in which : trades[t].run = restarts
    BY <1>1, BufferFields DEF TInv, Accounted, Waiting
<1>6. \A t \in which : Stage(t) = "made" /\ Stage(t)' = "saved"
    BY <1>3, <1>4, <1>5 DEF Stage
<1>7. \A t \in DOMAIN trades \ which : Stage(t)' = Stage(t)
    BY <1>3, <1>4 DEF Stage
<1>8. IInv /\ trades' = trades
    BY <1>3 DEF TInv
<1>9. Outbox!Move(which, "made", "saved")
    BY <1>2, <1>6, <1>7, <1>8, MoveIs
<1>10. which \in SUBSET DOMAIN Where
    BY <1>2, <1>8, WhereIs
<1> QED
    BY <1>9, <1>10 DEF Allowed, Outbox!Next, Outbox!Commit, Where

LEMMA PublishAllowed ==
    ASSUME TInv, NEW f \in flights, PublishTrade(f)
    PROVE  Allowed
<1>1. PICK u : u = f.batch[f.sent + 1]
    OBVIOUS
<1>2. u \in DOMAIN trades /\ u \in ToSet(f.batch)
    <2>1. f.sent + 1 \in 1..Len(f.batch) /\ DOMAIN f.batch = 1..Len(f.batch) /\ ToSet(f.batch) \subseteq DOMAIN trades
        BY FlightFacts DEF TInv
    <2> QED
        BY <1>1, <2>1 DEF ToSet
<1>3. sent' = sent \cup {u} /\ UNCHANGED <<trades, saved, mode, restarts>> /\ u \in saved
    BY <1>1, <1>2 DEF PublishTrade, TInv, Accounted
<1>4. IInv /\ trades' = trades /\ Running' = Running
    BY <1>3 DEF TInv, Running
<1>5. \A t \in DOMAIN trades \ {u} : Stage(t)' = Stage(t)
    BY <1>3, <1>4 DEF Stage
<1>6. CASE u \in sent
    <2>1. sent' = sent
        BY <1>3, <1>6
    <2> QED
        BY <1>3, <1>4, <2>1, OthersAllowed
<1>7. CASE u \notin sent
    <2>1. Stage(u) = "saved" /\ Stage(u)' = "sent"
        BY <1>3, <1>7 DEF Stage
    <2>2. \A t \in {u} : Stage(t) = "saved" /\ Stage(t)' = "sent"
        BY <2>1
    <2>3. Outbox!Move({u}, "saved", "sent")
        <3>1. {u} \subseteq DOMAIN trades /\ {u} # {}
            BY <1>2
        <3> QED
            BY <1>4, <1>5, <2>2, <3>1, MoveIs
    <2>4. u \in DOMAIN Where
        BY <1>2, <1>4, WhereIs
    <2> QED
        BY <2>3, <2>4 DEF Allowed, Outbox!Next, Outbox!Send, Where
<1> QED
    BY <1>6, <1>7

LEMMA ExitAllowed ==
    ASSUME TInv, Exit
    PROVE  Allowed
<1>1. PICK which : which = {t \in DOMAIN trades : Stage(t) = "made"}
    OBVIOUS
<1>2. IInv /\ UNCHANGED <<trades, saved, sent, restarts>> /\ ~Running' /\ Running
    BY DEF TInv, Exit, Running
<1>3. \A t \in which : Stage(t) = "made" /\ Stage(t)' = "lost"
    BY <1>1, <1>2 DEF Stage
<1>4. \A t \in DOMAIN trades \ which : Stage(t)' = Stage(t)
    BY <1>1, <1>2 DEF Stage
<1>5. CASE which = {}
    <2>1. Where' = Where
        BY <1>2, <1>4, <1>5 DEF Where
    <2> QED
        BY <2>1 DEF Allowed
<1>6. CASE which # {}
    <2>1. which \subseteq DOMAIN trades
        BY <1>1
    <2>2. Outbox!Move(which, "made", "lost")
        BY <1>2, <1>3, <1>4, <1>6, <2>1, MoveIs
    <2>3. which = {t \in DOMAIN Where : Where[t] = "made"}
        BY <1>1, <1>2, WhereIs
    <2>4. Outbox!Lose
        BY <2>2, <2>3 DEF Outbox!Lose, Where
    <2> QED
        BY <2>4 DEF Allowed, Outbox!Next
<1> QED
    BY <1>5, <1>6

LEMMA RecoverAllowed ==
    ASSUME TInv, Recover
    PROVE  Allowed
<1>1. UNCHANGED <<trades, saved, sent>> /\ restarts' = restarts + 1 /\ ~Running
    BY DEF Recover, Running
<1>2. restarts \in Nat /\ \A t \in DOMAIN trades : trades[t].run \in Nat
    <2>1. \A t \in DOMAIN trades : trades[t] \in Trade
        BY LenProperties, ElementOfSeq DEF TInv, IInv, TypeOK
    <2> QED
        BY <2>1, BoundsAssumption DEF TInv, IInv, TypeOK, Trade
<1>3. \A t \in DOMAIN trades : trades[t].run # restarts'
    BY <1>1, <1>2 DEF TInv, Accounted
<1>4. \A t \in DOMAIN trades : Stage(t)' = Stage(t)
    BY <1>1, <1>3 DEF Stage
<1> QED
    BY <1>1, <1>4 DEF Allowed, Where

LEMMA NextAllowed == TInv /\ TInv' /\ [Next]_vars => Allowed
<1> SUFFICES ASSUME TInv, TInv', [Next]_vars PROVE Allowed
    OBVIOUS
<1>0. IInv /\ IInv'
    BY DEF TInv
<1>1. CASE Place
    <2>1. PICK order \in Menu[Len(orders) + 1] : PlaceOrder(order) \/ PlaceStopOrder(order)
        BY <1>1 DEF Place
    <2>2. CASE PlaceOrder(order)
        <3>1. PICK o : Suits(o, order, order.kind, 0) /\ Process(o, order, order.kind, 0)
            BY <1>0, <1>1, <2>2, PlaceProcesses DEF Place
        <3>2. UNCHANGED <<mode, saved, sent, restarts>> /\ Running
            BY <2>2 DEF PlaceOrder, Arrives, Running
        <3> QED
            BY <1>0, <3>1, <3>2, ProcessAllowed
    <2>3. CASE PlaceStopOrder(order)
        BY <2>3, OthersAllowed DEF PlaceStopOrder, engine, Running
    <2> QED
        BY <2>1, <2>2, <2>3
<1>2. CASE Placing
    BY <1>2, OthersAllowed DEF Placing, SaveOrder, UpdateOrder, AnswerOrder, PlaceFails, engine, Running
<1>3. CASE Cancel
    BY <1>3, OthersAllowed DEF Cancel, ReadForCancel, CancelInEngine, CancelRow, AnswerCancel, CancelFails,
                               engine, Running
<1>4. CASE Tick
    <2>1. PICK which \in SUBSET stops : Trigger(which)
        BY <1>4 DEF Tick
    <2>2. PICK o, kind : Suits(o, orders[o], kind, filled[o]) /\ Process(o, orders[o], kind, filled[o])
        BY <1>0, <2>1, TickProcesses
    <2>3. UNCHANGED <<mode, saved, sent, restarts>> /\ Running
        BY <2>1 DEF Trigger
    <2> QED
        BY <1>0, <2>2, <2>3, ProcessAllowed
<1>5. CASE Firings
    <2>1. PICK f \in firings : UpdateTriggered(f) \/ NextTriggered(f) \/ LastTriggered(f) \/ TriggerFails(f)
        BY <1>5 DEF Firings
    <2>2. CASE NextTriggered(f)
        <3>1. PICK o, kind : Suits(o, orders[o], kind, filled[o]) /\ Process(o, orders[o], kind, filled[o])
            BY <1>0, <2>2, LoopProcesses
        <3>2. UNCHANGED <<mode, saved, sent, restarts>>
            BY <2>2 DEF NextTriggered
        <3>3. Running
            <4>1. mode # "down"
                BY <1>0 DEF IInv, Memory
            <4> QED
                BY <1>0, <4>1, RunningOrDown
        <3> QED
            BY <1>0, <3>1, <3>2, <3>3, ProcessAllowed
    <2>3. CASE UpdateTriggered(f) \/ LastTriggered(f) \/ TriggerFails(f)
        BY <2>3, OthersAllowed DEF UpdateTriggered, LastTriggered, TriggerFails, engine, Running
    <2> QED
        BY <2>1, <2>2, <2>3
<1>6. CASE TimerFlush
    BY <1>6, OthersAllowed DEF TimerFlush, Running
<1>7. CASE Flush
    <2>1. PICK f \in flights : SaveTrades(f) \/ PublishTrade(f) \/ FlushFails(f)
        BY <1>7 DEF Flush
    <2>2. CASE FlushFails(f)
        BY <2>2, OthersAllowed DEF FlushFails, Running
    <2> QED
        BY <2>1, <2>2, SaveAllowed, PublishAllowed
<1>8. CASE Shutdown
    BY <1>8, OthersAllowed DEF Shutdown, Running
<1>9. CASE Exit
    BY <1>9, ExitAllowed
<1>10. CASE Recover
    BY <1>10, RecoverAllowed
<1>11. CASE UNCHANGED vars
    BY <1>11, OthersAllowed DEF vars, memory, Running
<1> QED
    BY <1>1, <1>2, <1>3, <1>4, <1>5, <1>6, <1>7, <1>8, <1>9, <1>10, <1>11 DEF Next

\* What batches, timers, retries and restarts do to the trades is what
\* TradeOutbox allows: committed before it is published, lost only with the process.
THEOREM ManagerIsOutbox == Spec => ImplementsOutbox
<1>1. Init => Outbox!Init
    BY DEF Init, Outbox!Init
<1>2. TInv /\ TInv' /\ [Next]_vars => [Outbox!Next]_([t \in DOMAIN trades |-> Stage(t)])
    BY NextAllowed DEF Allowed, Where
<1> QED
    BY <1>1, <1>2, TradesInductive, PTL DEF Spec, ImplementsOutbox, Outbox!Spec

-----------------------------------------------------------------------------
(* A cancelled order stays out                                              *)

\* An order that was armed is executed at most once.
Waits(o) == o \in stops \/ \E f \in firings : o \in Ahead(f)

\* An order on its way out by cancelOrder.
Out(o) == o \in cancelled \/ cancelling[o] \in {"row", "event"}

LoopsApart ==
    /\ \A f \in firings : IsInjective(f.todo) /\ ToSet(f.todo) \cap stops = {}
    /\ \A f, g \in firings : f # g => ToSet(f.todo) \cap ToSet(g.todo) = {}

WInv ==
    /\ IInv
    /\ LoopsApart
    /\ \A o \in resting : ~Waits(o)
    /\ \A o \in Ids : Out(o) => o \in DOMAIN orders /\ o \notin resting /\ ~Waits(o)

LEMMA AheadFacts ==
    ASSUME IInv, NEW f \in firings
    PROVE  /\ Ahead(f) \subseteq ToSet(f.todo) /\ ToSet(f.todo) \subseteq DOMAIN orders
           /\ f.todo[1] \in ToSet(f.todo)
           /\ IsInjective(f.todo) => f.todo[1] \notin Ahead(f)
<1>1. /\ Len(f.todo) \in Nat /\ Len(f.todo) > 0 /\ DOMAIN f.todo = 1..Len(f.todo)
      /\ \A i \in 1..Len(f.todo) : f.todo[i] \in DOMAIN orders
    BY FiringFacts
<1>2. ToSet(f.todo) = {f.todo[i] : i \in 1..Len(f.todo)}
    BY <1>1 DEF ToSet
<1>3. \A i \in 2..Len(f.todo) : i \in 1..Len(f.todo) /\ i # 1
    BY <1>1
<1>4. 1 \in 1..Len(f.todo)
    BY <1>1
<1> QED
    BY <1>1, <1>2, <1>3, <1>4 DEF Ahead, IsInjective

\* Orders that wait have arrived.
LEMMA WaitsFacts ==
    ASSUME IInv, NEW o, Waits(o)
    PROVE  o \in DOMAIN orders /\ o \in Ids
<1>1. o \in DOMAIN orders
    BY AheadFacts DEF Waits, IInv, TypeOK
<1> QED
    BY <1>1, OrderFacts

\* Most handlers leave the loops alone.
LEMMA OthersOut ==
    ASSUME WInv, IInv', UNCHANGED firings, stops' \subseteq stops, resting' \subseteq resting,
           DOMAIN orders \subseteq DOMAIN orders',
           \A o \in Ids : Out(o)' => Out(o) \/ (o \in DOMAIN orders /\ o \notin resting' /\ ~Waits(o))
    PROVE  WInv'
<1>1. \A o : Waits(o)' => Waits(o)
    BY DEF Waits
<1>2. LoopsApart'
    BY DEF WInv, LoopsApart
<1>3. \A o \in resting' : ~Waits(o)'
    BY <1>1 DEF WInv
<1>4. \A o \in Ids : Out(o)' => o \in DOMAIN orders' /\ o \notin resting' /\ ~Waits(o)'
    BY <1>1 DEF WInv
<1> QED
    BY <1>2, <1>3, <1>4 DEF WInv

\* A loop goes on as g with the orders it has, or ends.
LEMMA LoopOut ==
    ASSUME WInv, IInv', NEW f \in firings, NEW g, g.todo = f.todo,
           firings' \subseteq (firings \ {f}) \cup {g},
           UNCHANGED <<orders, stops, resting, cancelled, cancelling>>
    PROVE  WInv'
<1>1. \A x \in firings' : \E y \in firings : y.todo = x.todo /\ (x = g => y = f) /\ (x # g => y = x /\ y # f)
    OBVIOUS
<1>2. \A o : Waits(o)' => Waits(o)
    <2>1. \A x \in firings' : \E y \in firings : Ahead(x) = Ahead(y)
        BY <1>1 DEF Ahead
    <2> QED
        BY <2>1 DEF Waits
<1>3. \A x \in firings' : IsInjective(x.todo) /\ ToSet(x.todo) \cap stops' = {}
    BY <1>1 DEF WInv, LoopsApart
<1>4. ASSUME NEW x \in firings', NEW y \in firings', x # y
      PROVE  ToSet(x.todo) \cap ToSet(y.todo) = {}
    <2>1. PICK u \in firings : u.todo = x.todo /\ (x = g => u = f) /\ (x # g => u = x /\ u # f)
        BY <1>1
    <2>2. PICK v \in firings : v.todo = y.todo /\ (y = g => v = f) /\ (y # g => v = y /\ v # f)
        BY <1>1
    <2>3. u # v
        BY <1>4, <2>1, <2>2
    <2>4. ToSet(u.todo) \cap ToSet(v.todo) = {}
        BY <2>3 DEF WInv, LoopsApart
    <2> QED
        BY <2>1, <2>2, <2>4
<1>5. LoopsApart'
    BY <1>3, <1>4 DEF LoopsApart
<1>6. \A o \in resting' : ~Waits(o)'
    BY <1>2 DEF WInv
<1>7. \A o \in Ids : Out(o)' => o \in DOMAIN orders' /\ o \notin resting' /\ ~Waits(o)'
    BY <1>2 DEF WInv, Out
<1> QED
    BY <1>5, <1>6, <1>7 DEF WInv

\* An order that waited is executed.
LEMMA ExecuteOut ==
    ASSUME WInv, IInv', NEW o, Waits(o), ~Waits(o)', resting' \subseteq resting \cup {o},
           \A m : Waits(m)' => Waits(m),
           LoopsApart', UNCHANGED <<orders, cancelled, cancelling>>
    PROVE  WInv'
<1>1. \A m \in resting' : ~Waits(m)'
    BY DEF WInv
<1>2. o \in Ids
    BY WaitsFacts DEF WInv
<1>3. \A m \in Ids : Out(m)' => m \in DOMAIN orders' /\ m \notin resting' /\ ~Waits(m)'
    BY <1>2 DEF WInv, Out
<1> QED
    BY <1>1, <1>3 DEF WInv

\* The tick that triggers stop orders executes the first of them.
LEMMA TriggerOut ==
    ASSUME WInv, NEW which \in SUBSET stops, Trigger(which)
    PROVE  \E o, kind :
             /\ o \in DOMAIN orders
             /\ Suits(o, orders[o], kind, filled[o]) /\ Process(o, orders[o], kind, filled[o])
             /\ Waits(o) /\ ~Waits(o)' /\ LoopsApart' /\ \A m : Waits(m)' => Waits(m)
<1>0. IInv
    BY DEF WInv
<1>1. PICK todo \in Seq(DOMAIN orders) \ {<<>>} :
         /\ IsInjective(todo) /\ ToSet(todo) \subseteq which
         /\ todo[1] \in DOMAIN orders /\ todo[1] \in which /\ Execute(todo[1])
         /\ firings' = firings \cup {Firing(todo)}
         /\ stops' = stops \ which
    BY <1>0, TriggerFacts
<1>2. PICK o : o = todo[1]
    OBVIOUS
<1>3. PICK kind : Suits(o, orders[o], kind, filled[o]) /\ Process(o, orders[o], kind, filled[o])
    BY <1>0, <1>1, <1>2, ExecuteFacts
<1>4. PICK g : g = Firing(todo)
    OBVIOUS
<1>5. g.todo = todo
    BY <1>4 DEF Firing
<1>6. Ahead(g) \subseteq ToSet(todo) /\ o \notin Ahead(g)
    <2>1. Len(todo) \in Nat /\ DOMAIN todo = 1..Len(todo) /\ Len(todo) > 0
        BY <1>1, EmptySeq, LenProperties
    <2>2. \A i \in 2..Len(todo) : i \in DOMAIN todo /\ i # 1
        BY <2>1
    <2>3. 1 \in DOMAIN todo
        BY <2>1
    <2> QED
        BY <1>1, <1>2, <1>5, <2>2, <2>3 DEF Ahead, ToSet, IsInjective
<1>7. \A f \in firings : ToSet(f.todo) \cap stops = {} /\ Ahead(f) \subseteq ToSet(f.todo)
    BY <1>0, AheadFacts DEF WInv, LoopsApart
<1>8. Waits(o) /\ o \in DOMAIN orders
    BY <1>1, <1>2 DEF Waits
<1>9. ~Waits(o)'
    BY <1>1, <1>2, <1>4, <1>6, <1>7 DEF Waits
<1>10. \A m : Waits(m)' => Waits(m)
    BY <1>1, <1>4, <1>6 DEF Waits
<1>11. LoopsApart'
    <2>1. \A f \in firings' : f \in firings \/ (f = g /\ f.todo = todo)
        BY <1>1, <1>4, <1>5
    <2>2. \A f \in firings' : IsInjective(f.todo) /\ ToSet(f.todo) \cap stops' = {}
        BY <1>1, <2>1 DEF WInv, LoopsApart
    <2>3. \A f \in firings : ToSet(f.todo) \cap ToSet(todo) = {}
        BY <1>1, <1>7
    <2>4. \A f, h \in firings' : f # h => ToSet(f.todo) \cap ToSet(h.todo) = {}
        BY <2>1, <2>3 DEF WInv, LoopsApart
    <2> QED
        BY <2>2, <2>4 DEF LoopsApart
<1> QED
    BY <1>3, <1>8, <1>9, <1>10, <1>11

\* The loop goes on to its next order.
LEMMA NextTriggeredOut ==
    ASSUME WInv, NEW f \in firings, NextTriggered(f)
    PROVE  \E o, kind :
             /\ o \in DOMAIN orders
             /\ Suits(o, orders[o], kind, filled[o]) /\ Process(o, orders[o], kind, filled[o])
             /\ Waits(o) /\ ~Waits(o)' /\ LoopsApart' /\ \A m : Waits(m)' => Waits(m)
<1>0. IInv
    BY DEF WInv
<1>1. PICK o, kind :
         /\ o \in Ahead(f)
         /\ o = f.todo[2] /\ o \in DOMAIN orders
         /\ Suits(o, orders[o], kind, filled[o]) /\ Process(o, orders[o], kind, filled[o])
    BY <1>0, LoopProcesses
<1>2. PICK rest : rest = Tail(f.todo)
    OBVIOUS
<1>3. PICK g : g = Firing(rest)
    OBVIOUS
<1>4. g.todo = rest /\ firings' = (firings \ {f}) \cup {g} /\ stops' = stops /\ Len(f.todo) > 1
    BY <1>2, <1>3 DEF Firing, NextTriggered
<1>5. /\ Len(f.todo) \in Nat /\ DOMAIN f.todo = 1..Len(f.todo)
      /\ Len(rest) = Len(f.todo) - 1 /\ DOMAIN rest = 1..Len(rest)
      /\ \A i \in 1..Len(rest) : rest[i] = f.todo[i + 1]
    <2>1. f.todo \in Seq(DOMAIN orders) /\ f.todo # <<>>
        BY <1>0, FiringFacts
    <2>2. rest \in Seq(DOMAIN orders) /\ Len(rest) = Len(f.todo) - 1 /\ \A i \in 1..Len(rest) : rest[i] = f.todo[i + 1]
        BY <1>2, <2>1, HeadTailProperties
    <2> QED
        BY <2>1, <2>2, LenProperties
<1>6. IsInjective(f.todo) /\ ToSet(f.todo) \cap stops = {}
    BY DEF WInv, LoopsApart
<1>7. IsInjective(rest) /\ ToSet(rest) \subseteq ToSet(f.todo)
    <2>1. \A i \in DOMAIN rest : i + 1 \in DOMAIN f.todo /\ rest[i] = f.todo[i + 1] /\ i \in Nat
        BY <1>4, <1>5
    <2>2. ASSUME NEW i \in DOMAIN rest, NEW j \in DOMAIN rest, rest[i] = rest[j] PROVE i = j
        <3>1. i + 1 = j + 1
            BY <1>6, <2>1, <2>2 DEF IsInjective
        <3> QED
            BY <2>1, <3>1
    <2> QED
        BY <2>1, <2>2 DEF IsInjective, ToSet
<1>8. Ahead(g) \subseteq Ahead(f) /\ o \notin Ahead(g)
    <2>1. \A i \in 2..Len(rest) : i + 1 \in 2..Len(f.todo) /\ i + 1 # 2 /\ rest[i] = f.todo[i + 1]
        BY <1>4, <1>5
    <2>2. 2 \in DOMAIN f.todo /\ \A i \in 2..Len(f.todo) : i \in DOMAIN f.todo
        BY <1>4, <1>5
    <2>3. \A i \in 2..Len(rest) : rest[i] # o
        BY <1>1, <1>6, <2>1, <2>2 DEF IsInjective
    <2> QED
        BY <1>4, <2>1, <2>3 DEF Ahead
<1>9. o \in ToSet(f.todo) /\ \A h \in firings : Ahead(h) \subseteq ToSet(h.todo)
    BY <1>0, <1>1, AheadFacts
<1>10. \A h \in firings : h # f => ToSet(h.todo) \cap ToSet(f.todo) = {}
    BY DEF WInv, LoopsApart
<1>11. Waits(o)
    BY <1>1 DEF Waits
<1>12. ~Waits(o)'
    BY <1>4, <1>6, <1>8, <1>9, <1>10 DEF Waits
<1>13. \A m : Waits(m)' => Waits(m)
    BY <1>4, <1>8 DEF Waits
<1>14. LoopsApart'
    <2>1. \A h \in firings' : (h \in firings /\ h # f) \/ (h = g /\ h.todo = rest)
        BY <1>4
    <2>2. \A h \in firings' : IsInjective(h.todo) /\ ToSet(h.todo) \cap stops' = {}
        BY <1>4, <1>6, <1>7, <2>1 DEF WInv, LoopsApart
    <2>3. \A h \in firings : h # f => ToSet(h.todo) \cap ToSet(rest) = {}
        BY <1>7, <1>10
    <2>4. \A x, y \in firings' : x # y => ToSet(x.todo) \cap ToSet(y.todo) = {}
        BY <2>1, <2>3 DEF WInv, LoopsApart
    <2> QED
        BY <2>2, <2>4 DEF LoopsApart
<1> QED
    BY <1>1, <1>11, <1>12, <1>13, <1>14

\* An order that arrives rests or waits.
LEMMA PlaceOut ==
    ASSUME WInv, IInv', NEW o, o \notin DOMAIN orders, o \in DOMAIN orders',
           DOMAIN orders \subseteq DOMAIN orders',
           \/ resting' \subseteq resting \cup {o} /\ stops' = stops
           \/ resting' = resting /\ stops' = stops \cup {o},
           UNCHANGED <<firings, cancelled, cancelling>>
    PROVE  WInv'
<1>0. IInv
    BY DEF WInv
<1>1. ~Waits(o) /\ o \notin resting
    BY <1>0, WaitsFacts DEF IInv, TypeOK
<1>2. \A m : Waits(m)' => Waits(m) \/ m = o
    BY DEF Waits
<1>3. \A f \in firings : o \notin ToSet(f.todo) /\ Ahead(f) \subseteq ToSet(f.todo)
    BY <1>0, AheadFacts
<1>4. LoopsApart'
    BY <1>3 DEF WInv, LoopsApart
<1>5. \A m \in resting' : ~Waits(m)'
    <2>1. CASE resting' \subseteq resting \cup {o} /\ stops' = stops
        <3>1. \A m : Waits(m)' => Waits(m)
            BY <2>1 DEF Waits
        <3> QED
            BY <1>1, <2>1, <3>1 DEF WInv
    <2>2. CASE resting' = resting /\ stops' = stops \cup {o}
        BY <1>1, <1>2, <2>2 DEF WInv
    <2> QED
        BY <2>1, <2>2
<1>6. \A m \in Ids : Out(m)' => m \in DOMAIN orders' /\ m \notin resting' /\ ~Waits(m)'
    BY <1>2 DEF WInv, Out
<1> QED
    BY <1>4, <1>5, <1>6 DEF WInv

LEMMA PlaceStep ==
    ASSUME WInv, IInv', Place
    PROVE  WInv'
<1>0. IInv
    BY DEF WInv
<1>1. PICK order \in Menu[Len(orders) + 1] : PlaceOrder(order) \/ PlaceStopOrder(order)
    BY DEF Place
<1>2. PICK o : o = Len(orders) + 1
    OBVIOUS
<1>3. o \notin DOMAIN orders /\ DOMAIN orders' = DOMAIN orders \cup {o}
    BY <1>0, <1>1, <1>2, PlaceFacts DEF Place, PlaceOrder, PlaceStopOrder
<1>4. CASE PlaceOrder(order)
    <2>1. Suits(o, order, order.kind, 0) /\ Process(o, order, order.kind, 0)
        BY <1>0, <1>2, <1>4, PlaceProcesses DEF Place
    <2>2. resting' \subseteq resting \cup {o}
        BY <1>0, <2>1, ProcessFills
    <2>3. stops' = stops /\ UNCHANGED <<firings, cancelled, cancelling>>
        BY <1>4 DEF PlaceOrder
    <2> QED
        BY <1>3, <2>2, <2>3, PlaceOut
<1>5. CASE PlaceStopOrder(order)
    <2>1. resting' = resting /\ stops' = stops \cup {o} /\ UNCHANGED <<firings, cancelled, cancelling>>
        BY <1>2, <1>5 DEF PlaceStopOrder, engine
    <2> QED
        BY <1>3, <2>1, PlaceOut
<1> QED
    BY <1>1, <1>4, <1>5

LEMMA CancelStep ==
    ASSUME WInv, IInv', Cancel
    PROVE  WInv'
<1>1. PICK o \in Ids : \/ ReadForCancel(o) \/ CancelInEngine(o) \/ CancelRow(o)
                       \/ AnswerCancel(o) \/ CancelFails(o)
    BY DEF Cancel
<1>2. cancelling \in [Ids -> Cancelling]
    BY DEF WInv, IInv, TypeOK, Cancelling
<1>3. CASE ReadForCancel(o)
    <2>1. \A m \in Ids : Out(m)' => Out(m)
        BY <1>2, <1>3 DEF ReadForCancel, Out
    <2> QED
        BY <1>3, <2>1, OthersOut DEF ReadForCancel, engine
<1>4. CASE CancelInEngine(o)
    <2>1. \A m \in Ids : Out(m)' => Out(m) \/ (m \in DOMAIN orders /\ m \notin resting' /\ ~Waits(m))
        <3>1. \A m \in Ids : Out(m)' => Out(m) \/ (m = o /\ o \in resting)
            BY <1>2, <1>4 DEF CancelInEngine, Out
        <3>2. o \in resting => o \in DOMAIN orders /\ o \notin resting' /\ ~Waits(o)
            BY <1>4 DEF CancelInEngine, WInv, IInv, TypeOK
        <3> QED
            BY <3>1, <3>2
    <2>2. UNCHANGED <<orders, firings>> /\ stops' \subseteq stops /\ resting' \subseteq resting
        BY <1>4 DEF CancelInEngine
    <2> QED
        BY <2>1, <2>2, OthersOut
<1>5. CASE CancelRow(o)
    <2>1. \A m \in Ids : Out(m)' => Out(m)
        BY <1>2, <1>5 DEF CancelRow, Out
    <2> QED
        BY <1>5, <2>1, OthersOut DEF CancelRow, engine
<1>6. CASE AnswerCancel(o)
    <2>1. \A m \in Ids : Out(m)' => Out(m)
        BY <1>2, <1>6 DEF AnswerCancel, Out
    <2> QED
        BY <1>6, <2>1, OthersOut DEF AnswerCancel, engine
<1>7. CASE CancelFails(o)
    <2>1. \A m \in Ids : Out(m)' => Out(m)
        BY <1>2, <1>7 DEF CancelFails, Out
    <2> QED
        BY <1>7, <2>1, OthersOut DEF CancelFails, engine
<1> QED
    BY <1>1, <1>3, <1>4, <1>5, <1>6, <1>7

LEMMA FiringsStep ==
    ASSUME WInv, IInv', Firings
    PROVE  WInv'
<1>0. IInv
    BY DEF WInv
<1>1. PICK f \in firings : UpdateTriggered(f) \/ NextTriggered(f) \/ LastTriggered(f) \/ TriggerFails(f)
    BY DEF Firings
<1>2. CASE UpdateTriggered(f)
    <2>1. PICK g : g = [f EXCEPT !.at = "event"]
        OBVIOUS
    <2>2. g.todo = f.todo
        <3>1. f = [todo |-> f.todo, at |-> f.at]
            BY <1>0, FiringFacts
        <3> QED
            BY <2>1, <3>1
    <2>3. firings' \subseteq (firings \ {f}) \cup {g}
        BY <1>2, <2>1 DEF UpdateTriggered
    <2>4. UNCHANGED <<orders, stops, resting, cancelled, cancelling>>
        BY <1>2 DEF UpdateTriggered, engine
    <2> QED
        BY <2>2, <2>3, <2>4, LoopOut
<1>3. CASE NextTriggered(f)
    <2>1. PICK o, kind :
             /\ o \in DOMAIN orders
             /\ Suits(o, orders[o], kind, filled[o]) /\ Process(o, orders[o], kind, filled[o])
             /\ Waits(o) /\ ~Waits(o)' /\ LoopsApart' /\ \A m : Waits(m)' => Waits(m)
        BY <1>3, NextTriggeredOut
    <2>2. resting' \subseteq resting \cup {o}
        BY <1>0, <2>1, ProcessFills
    <2>3. UNCHANGED <<orders, cancelled, cancelling>>
        BY <1>3 DEF NextTriggered
    <2> QED
        BY <2>1, <2>2, <2>3, ExecuteOut
<1>4. CASE LastTriggered(f) \/ TriggerFails(f)
    <2>1. firings' \subseteq (firings \ {f}) \cup {f}
        BY <1>4 DEF LastTriggered, TriggerFails
    <2>2. UNCHANGED <<orders, stops, resting, cancelled, cancelling>>
        BY <1>4 DEF LastTriggered, TriggerFails, engine
    <2> QED
        BY <2>1, <2>2, LoopOut
<1> QED
    BY <1>1, <1>2, <1>3, <1>4

LEMMA TickStep ==
    ASSUME WInv, IInv', Tick
    PROVE  WInv'
<1>0. IInv
    BY DEF WInv
<1>1. PICK which \in SUBSET stops : Trigger(which)
    BY DEF Tick
<1>2. PICK o, kind :
         /\ o \in DOMAIN orders
         /\ Suits(o, orders[o], kind, filled[o]) /\ Process(o, orders[o], kind, filled[o])
         /\ Waits(o) /\ ~Waits(o)' /\ LoopsApart' /\ \A m : Waits(m)' => Waits(m)
    BY <1>1, TriggerOut
<1>3. resting' \subseteq resting \cup {o}
    BY <1>0, <1>2, ProcessFills
<1>4. UNCHANGED <<orders, cancelled, cancelling>>
    BY <1>1 DEF Trigger
<1> QED
    BY <1>2, <1>3, <1>4, ExecuteOut

LEMMA NextOut == WInv /\ IInv' /\ [Next]_vars => WInv'
<1> SUFFICES ASSUME WInv, IInv', [Next]_vars PROVE WInv'
    OBVIOUS
<1>1. CASE Place
    BY <1>1, PlaceStep
<1>2. CASE Placing
    BY <1>2, OthersOut DEF Placing, SaveOrder, UpdateOrder, AnswerOrder, PlaceFails, engine, Out
<1>3. CASE Cancel
    BY <1>3, CancelStep
<1>4. CASE Tick
    BY <1>4, TickStep
<1>5. CASE Firings
    BY <1>5, FiringsStep
<1>6. CASE TimerFlush
    BY <1>6, OthersOut DEF TimerFlush, Out
<1>7. CASE Flush
    BY <1>7, OthersOut DEF Flush, SaveTrades, PublishTrade, FlushFails, Out
<1>8. CASE Shutdown
    BY <1>8, OthersOut DEF Shutdown, Out
<1>9. CASE Exit
    <2>1. /\ resting' = {} /\ stops' = {} /\ firings' = {} /\ orders' = orders /\ cancelled' = cancelled
          /\ \A o \in Ids : cancelling'[o] = "no"
        BY <1>9 DEF Exit
    <2>2. \A o : ~Waits(o)'
        BY <2>1 DEF Waits
    <2>3. \A o \in Ids : Out(o)' => o \in DOMAIN orders
        BY <2>1 DEF Out, WInv
    <2> QED
        BY <2>1, <2>2, <2>3 DEF WInv, LoopsApart
<1>10. CASE Recover
    <2>1. firings' = {} /\ cancelled' = {} /\ \A o \in Ids : cancelling'[o] = "no"
        BY <1>10 DEF Recover, WInv, IInv, Memory
    <2>2. \A o : Waits(o)' => o \in stops'
        BY <2>1 DEF Waits
    <2>3. \A o \in Ids : ~Out(o)'
        BY <2>1 DEF Out
    <2>4. \A o \in resting' : o \notin stops'
        BY <1>10 DEF Recover
    <2> QED
        BY <2>1, <2>2, <2>3, <2>4 DEF WInv, LoopsApart
<1>11. CASE UNCHANGED vars
    BY <1>11, OthersOut DEF vars, memory, Out
<1> QED
    BY <1>1, <1>2, <1>3, <1>4, <1>5, <1>6, <1>7, <1>8, <1>9, <1>10, <1>11 DEF Next

LEMMA InitOut == Init => WInv
<1> SUFFICES ASSUME Init PROVE WInv
    OBVIOUS
<1>1. \A o : ~Waits(o)
    BY DEF Init, Waits
<1>2. \A o \in Ids : ~Out(o)
    BY DEF Init, Out
<1> QED
    BY <1>1, <1>2, InitInv DEF Init, WInv, LoopsApart

LEMMA OutInductive == Spec => []WInv
<1>1. WInv /\ [Next]_vars => WInv'
    BY NextInv, NextOut DEF WInv
<1> QED
    BY <1>1, InitOut, PTL DEF Spec

\* Who trades in a step: an order of the book with one that arrives or that waited.
LEMMA NewTrades ==
    ASSUME WInv, [Next]_vars
    PROVE  \A t \in (DOMAIN trades') \ DOMAIN trades :
             /\ trades'[t].maker \in resting
             /\ trades'[t].taker \notin DOMAIN orders \/ Waits(trades'[t].taker)
<1>0. IInv
    BY DEF WInv
<1>1. CASE Place
    <2>1. PICK order \in Menu[Len(orders) + 1] : PlaceOrder(order) \/ PlaceStopOrder(order)
        BY <1>1 DEF Place
    <2>2. CASE PlaceOrder(order)
        <3>1. PICK o : o \notin DOMAIN orders /\ Suits(o, order, order.kind, 0) /\ Process(o, order, order.kind, 0)
            BY <1>0, <1>1, <2>2, PlaceProcesses DEF Place
        <3>2. \A t \in DOMAIN trades' \ DOMAIN trades : trades'[t].taker = o /\ trades'[t].maker \in resting
            BY <1>0, <3>1, ProcessTrades
        <3> QED
            BY <3>1, <3>2
    <2>3. CASE PlaceStopOrder(order)
        BY <2>3 DEF PlaceStopOrder, engine
    <2> QED
        BY <2>1, <2>2, <2>3
<1>2. CASE Tick
    <2>1. PICK which \in SUBSET stops : Trigger(which)
        BY <1>2 DEF Tick
    <2>2. PICK o, kind :
             /\ o \in DOMAIN orders
             /\ Suits(o, orders[o], kind, filled[o]) /\ Process(o, orders[o], kind, filled[o])
             /\ Waits(o)
        BY <2>1, TriggerOut
    <2>3. \A t \in DOMAIN trades' \ DOMAIN trades : trades'[t].taker = o /\ trades'[t].maker \in resting
        BY <1>0, <2>2, ProcessTrades
    <2> QED
        BY <2>2, <2>3
<1>3. CASE Firings
    <2>1. PICK f \in firings : UpdateTriggered(f) \/ NextTriggered(f) \/ LastTriggered(f) \/ TriggerFails(f)
        BY <1>3 DEF Firings
    <2>2. CASE NextTriggered(f)
        <3>1. PICK o, kind :
                 /\ o \in DOMAIN orders
                 /\ Suits(o, orders[o], kind, filled[o]) /\ Process(o, orders[o], kind, filled[o])
                 /\ Waits(o)
            BY <2>2, NextTriggeredOut
        <3>2. \A t \in DOMAIN trades' \ DOMAIN trades : trades'[t].taker = o /\ trades'[t].maker \in resting
            BY <1>0, <3>1, ProcessTrades
        <3> QED
            BY <3>1, <3>2
    <2>3. CASE UpdateTriggered(f) \/ LastTriggered(f) \/ TriggerFails(f)
        BY <2>3 DEF UpdateTriggered, LastTriggered, TriggerFails, engine
    <2> QED
        BY <2>1, <2>2, <2>3
<1>4. CASE ~(Place \/ Tick \/ Firings)
    <2>1. trades' = trades
        BY <1>4 DEF Next, Placing, SaveOrder, UpdateOrder, AnswerOrder, PlaceFails, Cancel, ReadForCancel,
                    CancelInEngine, CancelRow, AnswerCancel, CancelFails, TimerFlush, Flush, SaveTrades,
                    PublishTrade, FlushFails, Shutdown, Exit, Recover, engine, vars
    <2> QED
        BY <2>1
<1> QED
    BY <1>1, <1>2, <1>3, <1>4

\* What was answered as cancelled is forgotten by a restart only.
LEMMA CancelledGrows ==
    ASSUME IInv, [Next]_vars, restarts' = restarts
    PROVE  cancelled \subseteq cancelled'
<1>1. restarts \in Nat
    BY BoundsAssumption DEF IInv, TypeOK
<1>2. ~Recover
    BY <1>1 DEF Recover
<1> QED
    BY <1>2 DEF Next, Place, PlaceOrder, PlaceStopOrder, Placing, SaveOrder, UpdateOrder, AnswerOrder, PlaceFails,
                Cancel, ReadForCancel, CancelInEngine, CancelRow, AnswerCancel, CancelFails, Tick, Trigger,
                Firings, UpdateTriggered, NextTriggered, LastTriggered, TriggerFails, TimerFlush, Flush,
                SaveTrades, PublishTrade, FlushFails, Shutdown, Exit, vars

\* Once cancelOrder answered success for an order, it neither trades nor rests
\* again before the service restarts, whatever the other handlers were in the middle of.
THEOREM CancelledStaysCancelled == Spec => CancelledStaysOut
<1> DEFINE StepOut == restarts' = restarts =>
                         \A o \in cancelled :
                           /\ o \notin resting'
                           /\ \A t \in (DOMAIN trades') \ DOMAIN trades :
                                o \notin {trades'[t].maker, trades'[t].taker}
<1>1. ASSUME WInv, WInv', [Next]_vars PROVE StepOut
    <2> SUFFICES ASSUME restarts' = restarts, NEW o \in cancelled
                 PROVE  /\ o \notin resting'
                        /\ \A t \in (DOMAIN trades') \ DOMAIN trades :
                             o \notin {trades'[t].maker, trades'[t].taker}
        OBVIOUS
    <2>1. o \in Ids /\ o \in cancelled'
        BY <1>1, CancelledGrows DEF WInv, IInv, TypeOK
    <2>2. o \notin resting'
        BY <1>1, <2>1 DEF WInv, Out
    <2>3. o \in DOMAIN orders /\ o \notin resting /\ ~Waits(o)
        BY <1>1, <2>1 DEF WInv, Out
    <2>4. \A t \in (DOMAIN trades') \ DOMAIN trades :
             /\ trades'[t].maker \in resting
             /\ trades'[t].taker \notin DOMAIN orders \/ Waits(trades'[t].taker)
        BY <1>1, NewTrades
    <2> QED
        BY <2>2, <2>3, <2>4
<1>2. WInv /\ WInv' /\ [Next]_vars => [StepOut]_vars
    BY <1>1
<1>3. Spec => [][StepOut]_vars
    BY <1>2, OutInductive, PTL DEF Spec
<1> QED
    BY <1>3 DEF CancelledStaysOut

-----------------------------------------------------------------------------
(* An accepted order is found again after a crash                           *)

\* The order may still trade.
Alive(o) == o \in resting \/ Waits(o)

\* The handler that placed the order wrote its row.
Known(o) == o \in accepted \/ placing[o] \in {"update", "event"}

\* What is alive was not written off by processOrder, nor in the row its client knows of.
RInv ==
    /\ WInv
    /\ \A o \in Ids : Alive(o) => /\ outcome[o].status \in Cancellable
                                  /\ Known(o) => rows[o].status \in Cancellable

\* Most handlers leave rows and outcomes alone.
LEMMA OthersKnown ==
    ASSUME RInv, WInv', UNCHANGED <<rows, outcome>>,
           \A o \in Ids : Alive(o)' => Alive(o) /\ (Known(o)' => Known(o))
    PROVE  RInv'
BY DEF RInv

LEMMA SameAlive == UNCHANGED <<resting, stops, firings>> => \A o : Alive(o)' = Alive(o)
BY DEF Alive, Waits

\* The row of one order is written.
LEMMA WriteKnown ==
    ASSUME RInv, WInv', NEW o \in Ids, UNCHANGED outcome,
           \A m \in Ids : Alive(m)' => Alive(m),
           \A m \in Ids \ {o} : rows'[m] = rows[m] /\ (Known(m)' => Known(m)),
           Alive(o)' => rows'[o].status \in Cancellable
    PROVE  RInv'
BY DEF RInv

LEMMA PlacingKnown ==
    ASSUME RInv, WInv', Placing
    PROVE  RInv'
<1>0. IInv
    BY DEF RInv, WInv
<1>1. PICK o \in Ids : SaveOrder(o) \/ UpdateOrder(o) \/ AnswerOrder(o) \/ PlaceFails(o)
    BY DEF Placing
<1>2. /\ placing \in [Ids -> {"no", "save", "update", "event"}]
      /\ rows \in [Ids -> Outcome \cup {NoRow}]
    BY <1>0 DEF IInv, TypeOK
<1>3. UNCHANGED <<resting, stops, firings, outcome>>
    BY <1>1 DEF SaveOrder, UpdateOrder, AnswerOrder, PlaceFails, engine
<1>4. \A m : Alive(m)' = Alive(m)
    BY <1>3, SameAlive
<1>5. CASE SaveOrder(o)
    <2>1. rows'[o].status = "open" /\ \A m \in Ids \ {o} : rows'[m] = rows[m]
        BY <1>2, <1>5 DEF SaveOrder
    <2>2. \A m \in Ids \ {o} : Known(m)' => Known(m)
        BY <1>2, <1>5 DEF SaveOrder, Known
    <2> QED
        BY <1>3, <1>4, <2>1, <2>2, WriteKnown DEF Cancellable
<1>6. CASE UpdateOrder(o)
    <2>1. placing[o] = "update" /\ UNCHANGED accepted
        BY <1>6 DEF UpdateOrder
    <2>2. \A m \in Ids : Known(m)' => Known(m)
        BY <1>2, <1>6 DEF UpdateOrder, Known
    <2>3. \A m \in Ids \ {o} : rows'[m] = rows[m]
        BY <1>2, <1>6 DEF UpdateOrder, WithOutcome
    <2>4. rows'[o] = rows[o] \/ rows'[o] = outcome[o]
        BY <1>2, <1>6 DEF UpdateOrder, WithOutcome
    <2>5. Alive(o) => rows'[o].status \in Cancellable
        BY <2>1, <2>4 DEF RInv, Known
    <2> QED
        BY <1>3, <1>4, <2>2, <2>3, <2>5, WriteKnown
<1>7. CASE AnswerOrder(o) \/ PlaceFails(o)
    <2>1. \A m \in Ids : Known(m)' => Known(m)
        BY <1>2, <1>7 DEF AnswerOrder, PlaceFails, Known
    <2>2. rows' = rows
        BY <1>7 DEF AnswerOrder, PlaceFails
    <2> QED
        BY <1>3, <1>4, <2>1, <2>2, OthersKnown
<1> QED
    BY <1>1, <1>5, <1>6, <1>7

LEMMA CancelKnown ==
    ASSUME RInv, WInv', Cancel
    PROVE  RInv'
<1>1. PICK o \in Ids : \/ ReadForCancel(o) \/ CancelInEngine(o) \/ CancelRow(o)
                       \/ AnswerCancel(o) \/ CancelFails(o)
    BY DEF Cancel
<1>2. UNCHANGED <<accepted, placing, outcome, firings>> /\ resting' \subseteq resting /\ stops' \subseteq stops
    BY <1>1 DEF ReadForCancel, CancelInEngine, CancelRow, AnswerCancel, CancelFails, engine
<1>3. \A m : Alive(m)' => Alive(m)
    BY <1>2 DEF Alive, Waits
<1>4. \A m : Known(m)' = Known(m)
    BY <1>2 DEF Known
<1>5. CASE CancelRow(o)
    <2>1. ~Alive(o)
        BY <1>5 DEF CancelRow, RInv, WInv, Out, Alive
    <2>2. \A m \in Ids \ {o} : rows'[m] = rows[m]
        BY <1>5 DEF CancelRow, RInv, WInv, IInv, TypeOK
    <2> QED
        BY <1>2, <1>3, <1>4, <2>1, <2>2, WriteKnown
<1>6. CASE ~CancelRow(o)
    <2>1. rows' = rows
        BY <1>1, <1>6 DEF ReadForCancel, CancelInEngine, AnswerCancel, CancelFails
    <2> QED
        BY <1>2, <1>3, <1>4, <2>1, OthersKnown
<1> QED
    BY <1>5, <1>6

\* processOrder is called for an order that arrives or that waited.
LEMMA ProcessKnown ==
    ASSUME RInv, WInv', NEW o, NEW order, NEW kind, NEW carried, Suits(o, order, kind, carried),
           Process(o, order, kind, carried), UNCHANGED <<rows, accepted>>,
           ~Waits(o)', o \notin resting,
           \A m : Waits(m)' => Waits(m),
           \A m \in Ids \ {o} : placing'[m] = placing[m],
           Known(o)' => rows[o].status \in Cancellable
    PROVE  RInv'
<1>0. IInv
    BY DEF RInv, WInv
<1>1. /\ resting' \subseteq resting \cup {o}
      /\ outcome' = [outcome EXCEPT ![o] = outcome'[o]]
      /\ o \in resting' /\ o \notin resting => outcome'[o].status \in Cancellable
    BY <1>0, ProcessFills
<1>2. \A m \in Ids \ {o} : outcome'[m] = outcome[m]
    <2>1. outcome \in [Ids -> Outcome]
        BY <1>0 DEF IInv, TypeOK
    <2>2. PICK new : new = outcome'[o]
        OBVIOUS
    <2>3. outcome' = [outcome EXCEPT ![o] = new]
        BY <1>1, <2>2
    <2> QED
        BY <2>1, <2>3
<1>3. \A m \in Ids \ {o} : (Alive(m)' => Alive(m)) /\ (Known(m)' => Known(m))
    BY <1>1 DEF Alive, Known
<1>4. Alive(o)' => o \in resting'
    BY DEF Alive
<1>5. Alive(o)' => /\ outcome'[o].status \in Cancellable
                   /\ Known(o)' => rows'[o].status \in Cancellable
    BY <1>1, <1>4
<1>6. \A m \in Ids \ {o} : Alive(m)' => /\ outcome'[m].status \in Cancellable
                                        /\ Known(m)' => rows'[m].status \in Cancellable
    BY <1>2, <1>3 DEF RInv
<1>7. \A m \in Ids : Alive(m)' => /\ outcome'[m].status \in Cancellable
                                  /\ Known(m)' => rows'[m].status \in Cancellable
    BY <1>5, <1>6
<1> QED
    BY <1>7 DEF RInv

LEMMA PlaceKnown ==
    ASSUME RInv, WInv', Place
    PROVE  RInv'
<1>0. IInv /\ WInv
    BY DEF RInv, WInv
<1>1. PICK order \in Menu[Len(orders) + 1] : PlaceOrder(order) \/ PlaceStopOrder(order)
    BY DEF Place
<1>2. PICK o : o = Len(orders) + 1
    OBVIOUS
<1>3. /\ o \in Ids /\ o \notin DOMAIN orders
      /\ placing' = [placing EXCEPT ![o] = "save"]
      /\ placing' \in [Ids -> {"no", "save", "update", "event"}]
    BY <1>0, <1>1, <1>2, PlaceFacts DEF Place, PlaceOrder, PlaceStopOrder
<1>4. placing'[o] = "save" /\ \A m \in Ids \ {o} : placing'[m] = placing[m]
    BY <1>0, <1>3 DEF IInv, TypeOK
<1>5. ~Waits(o) /\ o \notin resting /\ o \notin accepted
    BY <1>0, <1>3, WaitsFacts DEF IInv, TypeOK, Fresh
<1>6. accepted' = accepted /\ rows' = rows /\ firings' = firings
    BY <1>1 DEF PlaceOrder, PlaceStopOrder
<1>7. ~Known(o)'
    BY <1>4, <1>5, <1>6 DEF Known
<1>8. CASE PlaceOrder(order)
    <2>1. Suits(o, order, order.kind, 0) /\ Process(o, order, order.kind, 0)
        BY <1>0, <1>2, <1>8, PlaceProcesses DEF Place
    <2>2. \A m : Waits(m)' = Waits(m)
        BY <1>6, <1>8 DEF PlaceOrder, Waits
    <2>3. UNCHANGED <<rows, accepted>>
        BY <1>6
    <2> QED
        BY <1>4, <1>5, <1>7, <2>1, <2>2, <2>3, ProcessKnown
<1>9. CASE PlaceStopOrder(order)
    <2>1. outcome' = outcome /\ resting' = resting /\ stops' = stops \cup {o}
        BY <1>2, <1>9 DEF PlaceStopOrder, engine
    <2>2. \A m \in Ids \ {o} : (Alive(m)' => Alive(m)) /\ (Known(m)' => Known(m))
        BY <1>4, <1>6, <2>1 DEF Alive, Waits, Known
    <2>3. outcome[o].status \in Cancellable
        BY <1>0, <1>3 DEF IInv, Fresh, NoOutcome, Cancellable
    <2>4. \A m \in Ids \ {o} : Alive(m)' => /\ outcome'[m].status \in Cancellable
                                            /\ Known(m)' => rows'[m].status \in Cancellable
        BY <1>6, <2>1, <2>2 DEF RInv
    <2>5. \A m \in Ids : Alive(m)' => /\ outcome'[m].status \in Cancellable
                                      /\ Known(m)' => rows'[m].status \in Cancellable
        BY <1>7, <2>1, <2>3, <2>4
    <2> QED
        BY <2>5 DEF RInv
<1> QED
    BY <1>1, <1>8, <1>9

LEMMA ExecuteKnown ==
    ASSUME RInv, WInv', NEW o \in DOMAIN orders, NEW kind,
           Suits(o, orders[o], kind, filled[o]), Process(o, orders[o], kind, filled[o]),
           Waits(o), ~Waits(o)', \A m : Waits(m)' => Waits(m),
           UNCHANGED <<rows, accepted, placing>>
    PROVE  RInv'
<1>1. o \in Ids /\ Alive(o) /\ o \notin resting
    BY OrderFacts DEF Alive, RInv, WInv
<1>2. Known(o) => rows[o].status \in Cancellable
    BY <1>1 DEF RInv
<1>3. \A m : Known(m)' = Known(m)
    BY DEF Known
<1>4. Known(o)' => rows[o].status \in Cancellable
    BY <1>2, <1>3
<1>5. UNCHANGED <<rows, accepted>> /\ \A m \in Ids \ {o} : placing'[m] = placing[m]
    OBVIOUS
<1> QED
    BY <1>1, <1>4, <1>5, ProcessKnown

LEMMA FiringsKnown ==
    ASSUME RInv, WInv', Firings
    PROVE  RInv'
<1>0. IInv /\ WInv
    BY DEF RInv, WInv
<1>1. PICK f \in firings : UpdateTriggered(f) \/ NextTriggered(f) \/ LastTriggered(f) \/ TriggerFails(f)
    BY DEF Firings
<1>2. CASE UpdateTriggered(f)
    <2>1. PICK o : o = Head(f.todo)
        OBVIOUS
    <2>2. o \in Ids
        BY <1>0, <2>1, FiringFacts
    <2>3. UNCHANGED <<accepted, placing, outcome, resting, stops>> /\ rows' = WithOutcome(o)
          /\ firings' = (firings \ {f}) \cup {[f EXCEPT !.at = "event"]}
        BY <1>2, <2>1 DEF UpdateTriggered, engine
    <2>4. [f EXCEPT !.at = "event"].todo = f.todo
        <3>1. f = [todo |-> f.todo, at |-> f.at]
            BY <1>0, FiringFacts
        <3> QED
            BY <3>1
    <2>5. \A m : Alive(m)' => Alive(m)
        <3>1. PICK g : g = [f EXCEPT !.at = "event"]
            OBVIOUS
        <3>2. g.todo = f.todo /\ firings' = (firings \ {f}) \cup {g}
            BY <2>3, <2>4, <3>1
        <3>3. Ahead(g) = Ahead(f)
            BY <3>2 DEF Ahead
        <3> QED
            BY <2>3, <3>2, <3>3 DEF Alive, Waits
    <2>6. \A m : Known(m)' = Known(m)
        BY <2>3 DEF Known
    <2>7. \A m \in Ids \ {o} : rows'[m] = rows[m]
        BY <1>0, <2>2, <2>3 DEF WithOutcome, IInv, TypeOK
    <2>8. rows' = rows \/ rows'[o] = outcome[o]
        BY <1>0, <2>2, <2>3 DEF WithOutcome, IInv, TypeOK
    <2>9. CASE rows' = rows
        BY <2>3, <2>5, <2>6, <2>9, OthersKnown
    <2>10. CASE rows'[o] = outcome[o]
        <3>1. Alive(o)' => rows'[o].status \in Cancellable
            BY <2>2, <2>5, <2>10 DEF RInv
        <3> QED
            BY <2>2, <2>3, <2>5, <2>6, <2>7, <3>1, WriteKnown
    <2> QED
        BY <2>8, <2>9, <2>10
<1>3. CASE NextTriggered(f)
    <2>1. PICK o, kind :
             /\ o \in DOMAIN orders
             /\ Suits(o, orders[o], kind, filled[o]) /\ Process(o, orders[o], kind, filled[o])
             /\ Waits(o) /\ ~Waits(o)' /\ \A m : Waits(m)' => Waits(m)
        BY <1>0, <1>3, NextTriggeredOut
    <2>2. UNCHANGED <<rows, accepted, placing>>
        BY <1>3 DEF NextTriggered
    <2> QED
        BY <2>1, <2>2, ExecuteKnown
<1>4. CASE LastTriggered(f) \/ TriggerFails(f)
    <2>1. UNCHANGED <<rows, accepted, placing, outcome, resting, stops>> /\ firings' \subseteq firings
        BY <1>4 DEF LastTriggered, TriggerFails, engine
    <2>2. \A m : (Alive(m)' => Alive(m)) /\ Known(m)' = Known(m)
        BY <2>1 DEF Alive, Waits, Known
    <2> QED
        BY <2>1, <2>2, OthersKnown
<1> QED
    BY <1>1, <1>2, <1>3, <1>4

LEMMA TickKnown ==
    ASSUME RInv, WInv', Tick
    PROVE  RInv'
<1>1. PICK which \in SUBSET stops : Trigger(which)
    BY DEF Tick
<1>2. PICK o, kind :
         /\ o \in DOMAIN orders
         /\ Suits(o, orders[o], kind, filled[o]) /\ Process(o, orders[o], kind, filled[o])
         /\ Waits(o) /\ ~Waits(o)' /\ \A m : Waits(m)' => Waits(m)
    BY <1>1, TriggerOut DEF RInv
<1>3. UNCHANGED <<rows, accepted, placing>>
    BY <1>1 DEF Trigger
<1> QED
    BY <1>2, <1>3, ExecuteKnown

LEMMA NextKnown == RInv /\ WInv' /\ [Next]_vars => RInv'
<1> SUFFICES ASSUME RInv, WInv', [Next]_vars PROVE RInv'
    OBVIOUS
<1>1. CASE Place
    BY <1>1, PlaceKnown
<1>2. CASE Placing
    BY <1>2, PlacingKnown
<1>3. CASE Cancel
    BY <1>3, CancelKnown
<1>4. CASE Tick
    BY <1>4, TickKnown
<1>5. CASE Firings
    BY <1>5, FiringsKnown
<1>6. CASE TimerFlush \/ Flush \/ Shutdown \/ UNCHANGED vars
    <2>1. UNCHANGED <<rows, outcome, resting, stops, firings, accepted, placing>>
        BY <1>6 DEF TimerFlush, Flush, SaveTrades, PublishTrade, FlushFails, Shutdown, vars, memory
    <2>2. \A o : Alive(o)' = Alive(o) /\ Known(o)' = Known(o)
        BY <2>1 DEF Alive, Waits, Known
    <2> QED
        BY <2>1, <2>2, OthersKnown
<1>7. CASE Exit
    <2>1. resting' = {} /\ stops' = {} /\ firings' = {}
        BY <1>7 DEF Exit
    <2>2. \A o : ~Alive(o)'
        BY <2>1 DEF Alive, Waits
    <2> QED
        BY <2>2 DEF RInv
<1>8. CASE Recover
    <2>1. firings' = {} /\ UNCHANGED <<outcome, rows>> /\ \A o \in Ids : outcome[o] = NoOutcome
        BY <1>8 DEF Recover, RInv, WInv, IInv, Memory
    <2>2. \A o : Alive(o)' => o \in Recoverable
        BY <1>8, <2>1 DEF Recover, Alive, Waits
    <2>3. \A o \in Ids : outcome'[o].status \in Cancellable
        BY <2>1 DEF NoOutcome, Cancellable
    <2>4. \A o \in Recoverable : rows'[o].status \in Cancellable
        BY <2>1 DEF Recoverable
    <2> QED
        BY <2>2, <2>3, <2>4 DEF RInv
<1> QED
    BY <1>1, <1>2, <1>3, <1>4, <1>5, <1>6, <1>7, <1>8 DEF Next

LEMMA InitKnown == Init => RInv
<1> SUFFICES ASSUME Init PROVE RInv
    OBVIOUS
<1>1. \A o : ~Alive(o)
    BY DEF Init, Alive, Waits
<1> QED
    BY <1>1, InitOut DEF RInv

LEMMA KnownInductive == Spec => []RInv
<1>1. RInv /\ [Next]_vars => RInv'
    BY NextInv, NextOut, NextKnown DEF RInv, WInv
<1> QED
    BY <1>1, InitKnown, PTL DEF Spec

\* An order that was accepted, and that still rests or is still armed, has a
\* row that recovery will find: a crash at any moment does not forget it.
THEOREM AcceptedIsFound == Spec => []AcceptedIsRecoverable
<1>1. RInv => AcceptedIsRecoverable
    <2> SUFFICES ASSUME RInv, NEW o \in accepted, o \in resting \/ o \in stops
                 PROVE  o \in Recoverable
        BY DEF AcceptedIsRecoverable
    <2>1. o \in Ids /\ o \in DOMAIN orders
        BY DEF RInv, WInv, IInv, TypeOK
    <2>2. Alive(o) /\ Known(o)
        BY DEF Alive, Waits, Known
    <2> QED
        BY <2>1, <2>2 DEF RInv, Recoverable
<1> QED
    BY <1>1, KnownInductive, PTL

-----------------------------------------------------------------------------
(* Rows never run ahead of the trades                                       *)

\* What an order traded in these trades.
QuantitiesOf(s) == [t \in DOMAIN s |-> s[t].quantity]
NumbersOf(s, o) == {t \in DOMAIN s : o \in {s[t].maker, s[t].taker}}
TradedIn(s, o) == SumFunctionOnSet(QuantitiesOf(s), NumbersOf(s, o))

SInv ==
    /\ IInv
    /\ \A o \in Ids : outcome[o].filled <= Traded(o) /\ rows[o].filled <= Traded(o)

LEMMA TradedIs == \A o : Traded(o) = TradedIn(trades, o) /\ Traded(o)' = TradedIn(trades', o)
BY DEF Traded, TradedIn, QuantitiesOf, NumbersOf

LEMMA TradedFacts ==
    ASSUME NEW s \in Seq(Trade), NEW o
    PROVE  /\ \A t \in DOMAIN s : QuantitiesOf(s)[t] \in Nat
           /\ NumbersOf(s, o) \in SUBSET DOMAIN s /\ IsFiniteSet(NumbersOf(s, o)) /\ TradedIn(s, o) \in Nat
<1>1. Len(s) \in Nat /\ DOMAIN s = 1..Len(s)
    BY LenProperties
<1>2. IsFiniteSet(DOMAIN s)
    BY <1>1, FS_Interval
<1>3. \A t \in DOMAIN s : s[t].quantity \in Nat
    <2>1. \A t \in DOMAIN s : s[t] \in Trade
        BY <1>1, ElementOfSeq
    <2> QED
        BY <2>1, BoundsAssumption DEF Trade
<1>4. \A t \in DOMAIN s : QuantitiesOf(s)[t] \in Nat
    BY <1>3 DEF QuantitiesOf
<1>5. NumbersOf(s, o) \in SUBSET DOMAIN s
    BY DEF NumbersOf
<1>6. IsFiniteSet(NumbersOf(s, o))
    BY <1>2, <1>5, FS_Subset
<1>7. \A t \in NumbersOf(s, o) : QuantitiesOf(s)[t] \in Nat
    BY <1>4, <1>5
<1>8. TradedIn(s, o) \in Nat
    BY <1>6, <1>7, SumNat DEF TradedIn
<1> QED
    BY <1>4, <1>5, <1>6, <1>8

\* New trades add to what an order traded.
LEMMA TradedGrows ==
    ASSUME NEW s \in Seq(Trade), NEW r \in Seq(Trade), DOMAIN s \subseteq DOMAIN r, \A t \in DOMAIN s : r[t] = s[t],
           NEW o
    PROVE  TradedIn(s, o) <= TradedIn(r, o)
<1>1. PICK p, q : p = QuantitiesOf(s) /\ q = QuantitiesOf(r)
    OBVIOUS
<1>2. PICK S, T : S = NumbersOf(s, o) /\ T = NumbersOf(r, o)
    OBVIOUS
<1>3. /\ IsFiniteSet(S) /\ S \subseteq DOMAIN s /\ \A t \in DOMAIN s : p[t] \in Nat
      /\ IsFiniteSet(T) /\ T \subseteq DOMAIN r /\ \A t \in DOMAIN r : q[t] \in Nat
    BY <1>1, <1>2, TradedFacts
<1>4. \A t \in DOMAIN s : q[t] = p[t]
    BY <1>1 DEF QuantitiesOf
<1>5. S \in SUBSET T
    BY <1>2 DEF NumbersOf
<1>6. SumFunctionOnSet(p, S) = SumFunctionOnSet(q, S)
    <2>1. \A t \in S : p[t] \in Int /\ p[t] = q[t]
        BY <1>3, <1>4
    <2> QED
        BY <1>3, <2>1, SumSame
<1>7. SumFunctionOnSet(q, S) <= SumFunctionOnSet(q, T)
    <2>1. \A t \in T : q[t] \in Nat
        BY <1>3
    <2> QED
        BY <1>3, <1>5, <2>1, SumSubset
<1> QED
    BY <1>1, <1>2, <1>6, <1>7 DEF TradedIn

\* What a call of processOrder reports as filled is the sum of the trades it made.
LEMMA ProcessTraded ==
    ASSUME IInv, NEW o, NEW order, NEW kind, NEW carried, Suits(o, order, kind, carried),
           Process(o, order, kind, carried)
    PROVE  outcome'[o].filled <= Traded(o)'
<1>1. PICK take \in Takes(order.side, order.quantity - carried, Makers(order)) :
         /\ trades' = trades \o Made(o, order, take)
         /\ outcome' = [outcome EXCEPT ![o] =
               [status |-> FinalStatus(kind, order.quantity, SumFunction(take)), filled |-> SumFunction(take)]]
    BY ProcessIs
<1>2. PICK made : made = Made(o, order, take)
    OBVIOUS
<1>3. PICK H : H = Hit(order, take)
    OBVIOUS
<1>4. /\ made \in Seq(Trade) /\ Len(made) \in Nat
      /\ \A i \in 1..Len(made) : made[i].maker \in H /\ made[i].taker = o /\ made[i].quantity = take[made[i].maker]
      /\ \A i, j \in 1..Len(made) : made[i].maker = made[j].maker => i = j
      /\ \A m \in H : \E i \in 1..Len(made) : made[i].maker = m
    <2>1. o \in Ids /\ order \in Order
        BY DEF Suits
    <2>2. OnePerMaker(Made(o, order, take), o, Hit(order, take), take)
        BY <2>1, MadeFacts
    <2>3. OnePerMaker(made, o, H, take)
        BY <1>2, <1>3, <2>2
    <2> QED
        BY <2>3 DEF OnePerMaker
<1>5. trades \in Seq(Trade) /\ Len(trades) \in Nat
    BY LenProperties DEF IInv, TypeOK
<1>6. /\ trades' \in Seq(Trade) /\ Len(trades') = Len(trades) + Len(made)
      /\ \A i \in 1..(Len(trades) + Len(made)) :
            trades'[i] = IF i <= Len(trades) THEN trades[i] ELSE made[i - Len(trades)]
    BY <1>1, <1>2, <1>4, <1>5, ConcatProperties
<1>7. PICK N : N = (Len(trades) + 1)..(Len(trades) + Len(made))
    OBVIOUS
<1>8. PICK b : b = trades'
    OBVIOUS
<1>9. \A t \in N : t \in DOMAIN b /\ t - Len(trades) \in 1..Len(made) /\ b[t] = made[t - Len(trades)] /\ t \in Int
    <2>1. DOMAIN b = 1..(Len(trades) + Len(made))
        BY <1>6, <1>8, LenProperties
    <2>2. \A t \in N : /\ t \in Int /\ t \in 1..(Len(trades) + Len(made)) /\ ~(t <= Len(trades))
                       /\ t - Len(trades) \in 1..Len(made)
        BY <1>4, <1>5, <1>7
    <2>3. \A t \in N : b[t] = made[t - Len(trades)]
        BY <1>6, <1>8, <2>2
    <2> QED
        BY <2>1, <2>2, <2>3
<1>10. PICK m : m = [t \in N |-> b[t].maker]
    OBVIOUS
<1>11. \A t \in N : m[t] \in H /\ b[t].taker = o /\ b[t].quantity = take[m[t]]
    BY <1>4, <1>9, <1>10
<1>12. ASSUME NEW t \in N, NEW u \in N, m[t] = m[u] PROVE t = u
    <2>1. made[t - Len(trades)].maker = made[u - Len(trades)].maker
        BY <1>9, <1>10, <1>12
    <2>2. t - Len(trades) = u - Len(trades)
        BY <1>4, <1>9, <2>1
    <2> QED
        BY <1>5, <1>9, <2>2
<1>13. {m[t] : t \in N} = H
    <2>1. ASSUME NEW x \in H PROVE \E t \in N : m[t] = x
        <3>1. PICK i \in 1..Len(made) : made[i].maker = x
            BY <1>4, <2>1
        <3>2. Len(trades) + i \in N /\ (Len(trades) + i) - Len(trades) = i
            BY <1>4, <1>5, <1>7, <3>1
        <3>3. b[Len(trades) + i] = made[i]
            BY <1>9, <3>2
        <3> QED
            BY <1>10, <3>1, <3>2, <3>3
    <2> QED
        BY <1>11, <2>1
<1>14. PICK q : q = QuantitiesOf(b)
    OBVIOUS
<1>15. \A t \in N : q[t] = b[t].quantity
    BY <1>9, <1>14 DEF QuantitiesOf
<1>16. /\ IsFiniteSet(Makers(order)) /\ IsFiniteSet(H) /\ H \subseteq Makers(order)
       /\ SumFunction(take) = SumFunctionOnSet(take, Makers(order))
       /\ \A x \in Makers(order) : take[x] \in Nat /\ (x \notin H => take[x] = 0)
    <2>1. /\ IsFiniteSet(Makers(order)) /\ IsFiniteSet(H)
          /\ SumFunction(take) = SumFunctionOnSet(take, Makers(order))
          /\ \A x \in Makers(order) : take[x] \in 0..MaxQuantity
        BY <1>3, TakeFacts DEF Suits
    <2>2. \A x \in Makers(order) : take[x] \in Nat
        BY <2>1, OrderFacts
    <2> QED
        BY <1>3, <2>1, <2>2 DEF Hit
<1>17. SumFunction(take) = SumFunctionOnSet(take, H)
    <2>1. PICK Z : Z = Makers(order) \ H
        OBVIOUS
    <2>2. IsFiniteSet(Z) /\ H \cap Z = {} /\ H \cup Z = Makers(order) /\ \A x \in Z : take[x] = 0
        BY <1>16, <2>1, FS_Difference
    <2>3. SumFunctionOnSet(take, Z) = 0
        BY <2>2, SumZero
    <2>4. \A x \in H \cup Z : take[x] \in Int
        BY <1>16, <2>2
    <2>5. SumFunctionOnSet(take, H \cup Z) = SumFunctionOnSet(take, H) + SumFunctionOnSet(take, Z)
        BY <1>16, <2>2, <2>4, SumSplits
    <2>6. SumFunctionOnSet(take, H) \in Int
        BY <1>16, SumInt
    <2>7. SumFunctionOnSet(take, H \cup Z) = SumFunctionOnSet(take, Makers(order))
        BY <2>2
    <2> QED
        BY <1>16, <2>3, <2>5, <2>6, <2>7
<1>18. SumFunctionOnSet(q, N) = SumFunctionOnSet(take, H)
    <2>1. IsFiniteSet(N)
        BY <1>4, <1>5, <1>7, FS_Interval
    <2>2. \A t \in N : q[t] \in Int /\ q[t] = take[m[t]]
        BY <1>11, <1>15, <1>16
    <2>3. SumFunctionOnSet(q, N) = SumFunctionOnSet(take, {m[t] : t \in N})
        BY <1>12, <2>1, <2>2, SumRenamed
    <2> QED
        BY <1>13, <2>3
<1>19. PICK T : T = NumbersOf(b, o)
    OBVIOUS
<1>20. IsFiniteSet(T) /\ \A t \in T : q[t] \in Nat
    BY <1>6, <1>8, <1>14, <1>19, TradedFacts
<1>21. N \in SUBSET T
    BY <1>9, <1>11, <1>19 DEF NumbersOf
<1>22. SumFunctionOnSet(q, N) <= SumFunctionOnSet(q, T)
    BY <1>20, <1>21, SumSubset
<1>23. outcome'[o].filled = SumFunction(take)
    BY <1>1 DEF IInv, TypeOK, Suits
<1> QED
    BY <1>8, <1>14, <1>17, <1>18, <1>19, <1>22, <1>23, TradedIs DEF TradedIn

\* Rows are written from what processOrder reported.
LEMMA OthersLag ==
    ASSUME SInv, IInv', UNCHANGED trades,
           \A o \in Ids : /\ outcome'[o].filled \in {outcome[o].filled, 0}
                          /\ rows'[o].filled \in {rows[o].filled, outcome[o].filled, 0}
    PROVE  SInv'
<1>1. \A o : Traded(o)' = Traded(o)
    BY TradedIs
<1>2. \A o : Traded(o) \in Nat
    BY TradedIs, TradedFacts DEF SInv, IInv, TypeOK
<1>3. \A o \in Ids : 0 <= Traded(o)
    BY <1>2
<1> QED
    BY <1>1, <1>3 DEF SInv

\* Orders are processed before their rows are written.
LEMMA ProcessLag ==
    ASSUME SInv, IInv', UNCHANGED rows, NEW o, NEW order, NEW kind, NEW carried, Suits(o, order, kind, carried),
           Process(o, order, kind, carried)
    PROVE  SInv'
<1>0. IInv
    BY DEF SInv
<1>1. /\ trades \in Seq(Trade) /\ trades' \in Seq(Trade) /\ DOMAIN trades \subseteq DOMAIN trades'
      /\ \A t \in DOMAIN trades : trades'[t] = trades[t]
    BY <1>0, ProcessTrades DEF IInv, TypeOK
<1>2. \A m \in Ids : Traded(m) <= Traded(m)' /\ Traded(m) \in Nat /\ Traded(m)' \in Nat
    BY <1>1, TradedGrows, TradedFacts, TradedIs
<1>3. outcome'[o].filled <= Traded(o)'
    BY <1>0, ProcessTraded
<1>4. \A m \in Ids \ {o} : outcome'[m] = outcome[m]
    <2>1. PICK new : new = outcome'[o]
        OBVIOUS
    <2>2. outcome' = [outcome EXCEPT ![o] = new]
        BY <1>0, <2>1, ProcessFills
    <2> QED
        BY <1>0, <2>2 DEF IInv, TypeOK
<1>5. \A m \in Ids : outcome[m].filled \in Nat /\ rows[m].filled \in Nat
    <2>1. \A m \in Ids : rows[m] \in Outcome \cup {NoRow} /\ outcome[m] \in Outcome
        BY <1>0 DEF IInv, TypeOK
    <2> QED
        BY <2>1 DEF Outcome, NoRow
<1>6. ASSUME NEW m \in Ids
      PROVE  outcome'[m].filled <= Traded(m)' /\ rows'[m].filled <= Traded(m)'
    <2>1. outcome[m].filled <= Traded(m)' /\ rows[m].filled <= Traded(m)'
        BY <1>2, <1>5 DEF SInv
    <2> QED
        BY <1>3, <1>4, <2>1
<1> QED
    BY <1>6 DEF SInv

LEMMA NextLag == SInv /\ IInv' /\ [Next]_vars => SInv'
<1> SUFFICES ASSUME SInv, IInv', [Next]_vars PROVE SInv'
    OBVIOUS
<1>0. /\ IInv
      /\ rows \in [Ids -> Outcome \cup {NoRow}] /\ outcome \in [Ids -> Outcome]
    BY DEF SInv, IInv, TypeOK
<1>1. CASE Place
    <2>1. PICK order \in Menu[Len(orders) + 1] : PlaceOrder(order) \/ PlaceStopOrder(order)
        BY <1>1 DEF Place
    <2>2. CASE PlaceOrder(order)
        <3>1. PICK o : Suits(o, order, order.kind, 0) /\ Process(o, order, order.kind, 0)
            BY <1>0, <1>1, <2>2, PlaceProcesses DEF Place
        <3>2. UNCHANGED rows
            BY <2>2 DEF PlaceOrder
        <3> QED
            BY <3>1, <3>2, ProcessLag
    <2>3. CASE PlaceStopOrder(order)
        BY <2>3, OthersLag DEF PlaceStopOrder, engine
    <2> QED
        BY <2>1, <2>2, <2>3
<1>2. CASE Placing
    <2>1. PICK o \in Ids : SaveOrder(o) \/ UpdateOrder(o) \/ AnswerOrder(o) \/ PlaceFails(o)
        BY <1>2 DEF Placing
    <2>2. UNCHANGED <<trades, outcome>>
        BY <2>1 DEF SaveOrder, UpdateOrder, AnswerOrder, PlaceFails, engine
    <2>3. \A m \in Ids : rows'[m].filled \in {rows[m].filled, outcome[m].filled, 0}
        BY <1>0, <2>1 DEF SaveOrder, UpdateOrder, AnswerOrder, PlaceFails, WithOutcome
    <2> QED
        BY <2>2, <2>3, OthersLag
<1>3. CASE Cancel
    <2>1. PICK o \in Ids : \/ ReadForCancel(o) \/ CancelInEngine(o) \/ CancelRow(o)
                           \/ AnswerCancel(o) \/ CancelFails(o)
        BY <1>3 DEF Cancel
    <2>2. UNCHANGED <<trades, outcome>>
        BY <2>1 DEF ReadForCancel, CancelInEngine, CancelRow, AnswerCancel, CancelFails, engine
    <2>3. rows' = rows \/ rows' = [rows EXCEPT ![o].status = "cancelled"]
        BY <2>1 DEF ReadForCancel, CancelInEngine, CancelRow, AnswerCancel, CancelFails
    <2>4. \A m \in Ids : rows'[m].filled = rows[m].filled
        BY <1>0, <2>3 DEF Outcome, NoRow
    <2> QED
        BY <2>2, <2>4, OthersLag
<1>4. CASE Tick
    <2>1. PICK which \in SUBSET stops : Trigger(which)
        BY <1>4 DEF Tick
    <2>2. PICK o, kind : Suits(o, orders[o], kind, filled[o]) /\ Process(o, orders[o], kind, filled[o])
        BY <1>0, <2>1, TickProcesses
    <2>3. UNCHANGED rows
        BY <2>1 DEF Trigger
    <2> QED
        BY <2>2, <2>3, ProcessLag
<1>5. CASE Firings
    <2>1. PICK f \in firings : UpdateTriggered(f) \/ NextTriggered(f) \/ LastTriggered(f) \/ TriggerFails(f)
        BY <1>5 DEF Firings
    <2>2. CASE NextTriggered(f)
        <3>1. PICK o, kind : Suits(o, orders[o], kind, filled[o]) /\ Process(o, orders[o], kind, filled[o])
            BY <1>0, <2>2, LoopProcesses
        <3>2. UNCHANGED rows
            BY <2>2 DEF NextTriggered
        <3> QED
            BY <3>1, <3>2, ProcessLag
    <2>3. CASE UpdateTriggered(f)
        <3>1. PICK o : o = Head(f.todo)
            OBVIOUS
        <3>2. o \in Ids
            BY <1>0, <3>1, FiringFacts
        <3>3. rows' = WithOutcome(o) /\ UNCHANGED <<trades, outcome>>
            BY <2>3, <3>1 DEF UpdateTriggered, engine
        <3>4. \A m \in Ids : rows'[m].filled \in {rows[m].filled, outcome[m].filled, 0}
            BY <1>0, <3>2, <3>3 DEF WithOutcome
        <3> QED
            BY <3>3, <3>4, OthersLag
    <2>4. CASE LastTriggered(f) \/ TriggerFails(f)
        BY <2>4, OthersLag DEF LastTriggered, TriggerFails, engine
    <2> QED
        BY <2>1, <2>2, <2>3, <2>4
<1>6. CASE TimerFlush \/ Flush \/ Shutdown \/ UNCHANGED vars
    BY <1>6, OthersLag DEF TimerFlush, Flush, SaveTrades, PublishTrade, FlushFails, Shutdown, vars, memory
<1>7. CASE Exit
    BY <1>7, OthersLag DEF Exit, NoOutcome
<1>8. CASE Recover
    BY <1>8, OthersLag DEF Recover
<1> QED
    BY <1>1, <1>2, <1>3, <1>4, <1>5, <1>6, <1>7, <1>8 DEF Next

LEMMA InitLag == Init => SInv
<1> SUFFICES ASSUME Init PROVE SInv
    OBVIOUS
<1>1. IInv
    BY InitInv
<1>2. \A o : Traded(o) \in Nat
    BY <1>1, TradedIs, TradedFacts DEF IInv, TypeOK
<1>3. \A o \in Ids : 0 <= Traded(o) /\ outcome[o].filled = 0 /\ rows[o].filled = 0
    BY <1>2 DEF Init, NoOutcome, NoRow
<1> QED
    BY <1>1, <1>3 DEF SInv

\* A row never shows more fills than the order traded, whichever of
\* placeOrder, updateMarketPrice and cancelOrder wrote it last.
THEOREM RowsNeverRunAhead == Spec => []RowsLagBehindTrades
<1>1. SInv /\ IInv' /\ [Next]_vars => SInv'
    BY NextLag
<1>2. SInv => RowsLagBehindTrades
    BY OrderFacts DEF SInv, RowsLagBehindTrades
<1> QED
    BY <1>1, <1>2, InitLag, ManagerInductive, PTL DEF Spec
=============================================================================
