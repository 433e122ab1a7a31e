------------------------ MODULE MatchingEngineProofs ------------------------
(***************************************************************************)
(* What holds of the matching engine for any number of orders, prices and  *)
(* quantities. The first part states, of the operators of OrderBook and    *)
(* for every book, what the two splices leave, what reindexing restores,   *)
(* and that adding and removing an order keeps a side sound (levels sorted *)
(* and not empty, orderIndex pointing at every order). The inductive       *)
(* invariant of the engine (types, the agreement of both sides with        *)
(* orderIndex, the order of the levels, what is known of the orders that   *)
(* rest) is what the other theorems rest on: the feed follows the book,    *)
(* trades honour limits and add up to the fills, a taker walks away from   *)
(* the best price, the orders of a level stand in the order of their       *)
(* arrival, and the engine implements OrderLifecycle.                      *)
(***************************************************************************)
EXTENDS MatchingEngine, SequenceTheorems, SumProofs

-----------------------------------------------------------------------------
(* The two splices                                                          *)

\* What splice(i, 1) leaves: the elements after slot i move one to the left.
LEMMA RemoveAtElements ==
    ASSUME NEW S, NEW s \in Seq(S), NEW i \in 1..Len(s)
    PROVE  /\ RemoveAt(s, i) \in Seq(S)
           /\ Len(RemoveAt(s, i)) = Len(s) - 1
           /\ \A j \in 1..(Len(s) - 1) :
                RemoveAt(s, i)[j] = IF j < i THEN s[j] ELSE s[j + 1]
<1> DEFINE a == SubSeq(s, 1, i - 1)
           b == SubSeq(s, i + 1, Len(s))
<1>1. /\ a \in Seq(S) /\ Len(a) = i - 1
      /\ \A j \in 1..(i - 1) : a[j] = s[j]
    BY SubSeqProperties
<1>2. /\ b \in Seq(S) /\ Len(b) = Len(s) - i
      /\ \A j \in 1..(Len(s) - i) : b[j] = s[i + j]
    BY SubSeqProperties
<1>3. RemoveAt(s, i) = a \o b
    BY DEF RemoveAt
<1> HIDE DEF a, b
<1>4. /\ a \o b \in Seq(S)
      /\ Len(a \o b) = Len(s) - 1
      /\ \A j \in 1..(Len(s) - 1) : (a \o b)[j] = IF j <= i - 1 THEN a[j] ELSE b[j - (i - 1)]
  <2>1. /\ a \o b \in Seq(S)
        /\ Len(a \o b) = Len(a) + Len(b)
        /\ \A j \in 1..(Len(a) + Len(b)) :
             (a \o b)[j] = IF j <= Len(a) THEN a[j] ELSE b[j - Len(a)]
      BY <1>1, <1>2, ConcatProperties
  <2>2. Len(a) + Len(b) = Len(s) - 1
      BY <1>1, <1>2, LenProperties
  <2>3. QED
      BY <1>1, <2>1, <2>2
<1>5. QED
    BY <1>1, <1>2, <1>3, <1>4

\* What splice(i, 0, e) leaves: the elements from slot i on move one to the right.
LEMMA InsertAtElements ==
    ASSUME NEW S, NEW s \in Seq(S), NEW i \in 1..(Len(s) + 1), NEW e \in S
    PROVE  /\ InsertAt(s, i, e) \in Seq(S)
           /\ Len(InsertAt(s, i, e)) = Len(s) + 1
           /\ \A j \in 1..(Len(s) + 1) :
                InsertAt(s, i, e)[j] = IF j < i THEN s[j] ELSE IF j = i THEN e ELSE s[j - 1]
<1> DEFINE a == SubSeq(s, 1, i - 1)
           b == SubSeq(s, i, Len(s))
           c == a \o <<e>>
<1>1. /\ a \in Seq(S) /\ Len(a) = i - 1
      /\ \A j \in 1..(i - 1) : a[j] = s[j]
    BY SubSeqProperties
<1>2. /\ b \in Seq(S) /\ Len(b) = Len(s) + 1 - i
      /\ \A j \in 1..(Len(s) + 1 - i) : b[j] = s[i + j - 1]
    BY SubSeqProperties
<1>3. InsertAt(s, i, e) = c \o b
    BY DEF InsertAt
<1> HIDE DEF a, b
<1>4. /\ c \in Seq(S) /\ Len(c) = i
      /\ \A j \in 1..i : c[j] = IF j <= i - 1 THEN a[j] ELSE e
  <2>1. <<e>> \in Seq(S) /\ Len(<<e>>) = 1 /\ <<e>>[1] = e
      OBVIOUS
  <2>2. QED
      BY <1>1, <2>1, ConcatProperties
<1> HIDE DEF c
<1>5. /\ c \o b \in Seq(S)
      /\ Len(c \o b) = Len(s) + 1
      /\ \A j \in 1..(Len(s) + 1) : (c \o b)[j] = IF j <= i THEN c[j] ELSE b[j - i]
    BY <1>2, <1>4, ConcatProperties
<1>6. QED
    BY <1>1, <1>2, <1>3, <1>4, <1>5

-----------------------------------------------------------------------------
(* Reindexing                                                               *)

\* What each level of a side is made of.
LEMMA LevelParts ==
    ASSUME NEW lv \in Seq(Level), NEW i \in 1..Len(lv)
    PROVE  /\ lv[i] \in Level
           /\ lv[i].price \in Nat /\ lv[i].total \in Int
           /\ lv[i].orders \in Seq(Nat) /\ Len(lv[i].orders) \in Nat
           /\ DOMAIN lv[i].orders = 1..Len(lv[i].orders)
<1>1. lv[i] \in Level
    BY ElementOfSeq
<1>2. lv[i].price \in Nat /\ lv[i].total \in Int /\ lv[i].orders \in Seq(Nat)
    BY <1>1 DEF Level
<1>3. QED
    BY <1>1, <1>2, LenProperties

\* An id stands at slot j of level i.
Stands(lv, o, i, j) ==
    /\ i \in 1..Len(lv) /\ j \in 1..Len(lv[i].orders)
    /\ lv[i].orders[j] = o

\* No id stands at two slots.
Unique(lv) ==
    \A i, k \in 1..Len(lv) : \A j \in 1..Len(lv[i].orders), m \in 1..Len(lv[k].orders) :
        lv[i].orders[j] = lv[k].orders[m] => i = k /\ j = m

\* Entry o of "to" is what reindexing the named levels makes of entry o of idx.
Reindexed(to, idx, side, lv, which, o) ==
    /\ \A i \in which, j \in Nat : Stands(lv, o, i, j) => to[o] = At(side, i, j)
    /\ (\A i \in which, j \in Nat : ~Stands(lv, o, i, j)) => to[o] = idx[o]

\* reindexLevels gives every order of the named levels its slot and leaves
\* the other entries alone.
LEMMA ReindexEntries ==
    ASSUME NEW D, NEW idx, DOMAIN idx = D, NEW side, NEW lv \in Seq(Level), Unique(lv),
           NEW which \in SUBSET (1..Len(lv)), NEW o \in D
    PROVE  /\ DOMAIN Reindex(idx, side, lv, which) = D
           /\ Reindexed(Reindex(idx, side, lv, which), idx, side, lv, which, o)
<1> DEFINE here == UNION {{At(side, i, j) : j \in {k \in DOMAIN lv[i].orders : lv[i].orders[k] = o}} : i \in which}
<1>1. Reindex(idx, side, lv, which)[o] = IF here = {} THEN idx[o] ELSE CHOOSE loc \in here : TRUE
    BY DEF Reindex
<1>2. DOMAIN Reindex(idx, side, lv, which) = D
    BY DEF Reindex
<1>3. \A i \in which : i \in 1..Len(lv) /\ DOMAIN lv[i].orders = 1..Len(lv[i].orders)
    BY LevelParts
<1>4. \A loc \in here : \E i \in which, j \in Nat : Stands(lv, o, i, j) /\ loc = At(side, i, j)
    BY <1>3 DEF Stands
<1>5. \A i \in which, j \in Nat : Stands(lv, o, i, j) => At(side, i, j) \in here
    BY <1>3 DEF Stands
<1>6. ASSUME NEW i \in which, NEW j \in Nat, Stands(lv, o, i, j)
      PROVE  Reindex(idx, side, lv, which)[o] = At(side, i, j)
  <2>1. \A loc \in here : loc = At(side, i, j)
    <3>1. TAKE loc \in here
    <3>2. PICK k \in which, m \in Nat : Stands(lv, o, k, m) /\ loc = At(side, k, m)
        BY <1>4
    <3>3. k = i /\ m = j
        BY <1>6, <3>2 DEF Unique, Stands
    <3>4. QED
        BY <3>2, <3>3
  <2> HIDE DEF here
  <2>2. here # {} /\ (CHOOSE loc \in here : TRUE) \in here
      BY <1>5, <1>6
  <2>3. QED
      BY <1>1, <2>1, <2>2
<1>7. ASSUME \A i \in which, j \in Nat : ~Stands(lv, o, i, j)
      PROVE  Reindex(idx, side, lv, which)[o] = idx[o]
    BY <1>1, <1>4, <1>7
<1>8. QED
    BY <1>2, <1>6, <1>7 DEF Reindexed

-----------------------------------------------------------------------------
(* A sound side of the book                                                 *)

\* Levels are not empty, every order is indexed where it stands, and every
\* id indexed on this side stands there.
Sound(lv, idx, side, D) ==
    /\ lv \in Seq(Level)
    /\ \A i \in 1..Len(lv) : lv[i].orders # <<>>
    /\ \A i \in 1..Len(lv) : \A j \in 1..Len(lv[i].orders) :
         /\ lv[i].orders[j] \in D
         /\ idx[lv[i].orders[j]] = At(side, i, j)
    /\ \A o \in D : (idx[o] # Nowhere /\ idx[o].side = side)
                       => Stands(lv, o, idx[o].level, idx[o].pos)

Sorted(lv, side) ==
    \A i, k \in 1..Len(lv) : i < k => Better(side, lv[i].price, lv[k].price)

\* The index changed only for ids of this side.
ChangedOn(side, idx, new, D) ==
    \A x \in D : \/ new[x] = idx[x]
                 \/ /\ idx[x] = Nowhere \/ idx[x].side = side
                    /\ new[x] = Nowhere \/ new[x].side = side

\* Locations are equal exactly when their parts are.
LEMMA AtParts ==
    /\ \A side, i, j : At(side, i, j).side = side /\ At(side, i, j).level = i /\ At(side, i, j).pos = j
    /\ \A side, j : \A i \in Nat \ {0} : At(side, i, j) # Nowhere
BY DEF At, Nowhere

LEMMA SoundIsUnique ==
    ASSUME NEW lv, NEW idx, NEW side, NEW D, Sound(lv, idx, side, D)
    PROVE  Unique(lv)
<1>1. SUFFICES ASSUME NEW i \in 1..Len(lv), NEW k \in 1..Len(lv),
                      NEW j \in 1..Len(lv[i].orders), NEW m \in 1..Len(lv[k].orders),
                      lv[i].orders[j] = lv[k].orders[m]
               PROVE  i = k /\ j = m
    BY DEF Unique
<1>2. idx[lv[i].orders[j]] = At(side, i, j) /\ idx[lv[k].orders[m]] = At(side, k, m)
    BY DEF Sound
<1>3. At(side, i, j) = At(side, k, m)
    BY <1>1, <1>2
<1>4. QED
    BY <1>3, AtParts

\* The other side of the book is not disturbed.
LEMMA OtherSideSound ==
    ASSUME NEW lv, NEW idx, NEW new, NEW side, NEW other, other # side, NEW D,
           Sound(lv, idx, other, D), ChangedOn(side, idx, new, D)
    PROVE  Sound(lv, new, other, D)
<1>1. ASSUME NEW i \in 1..Len(lv), NEW j \in 1..Len(lv[i].orders)
      PROVE  lv[i].orders[j] \in D /\ new[lv[i].orders[j]] = At(other, i, j)
  <2>1. lv[i].orders[j] \in D /\ idx[lv[i].orders[j]] = At(other, i, j)
      BY <1>1 DEF Sound
  <2>2. i \in Nat \ {0}
      BY <1>1, LenProperties DEF Sound
  <2>3. idx[lv[i].orders[j]] # Nowhere /\ idx[lv[i].orders[j]].side = other
      BY <2>1, <2>2, AtParts
  <2>4. QED
      BY <2>1, <2>3 DEF ChangedOn
<1>2. ASSUME NEW o \in D, new[o] # Nowhere, new[o].side = other
      PROVE  Stands(lv, o, new[o].level, new[o].pos)
  <2>1. new[o] = idx[o]
      BY <1>2 DEF ChangedOn
  <2>2. QED
      BY <1>2, <2>1 DEF Sound
<1>3. QED
    BY <1>1, <1>2 DEF Sound

NoEmptyLevel(lv) == \A i \in 1..Len(lv) : lv[i].orders # <<>>

\* Every order of the book is indexed on its side, those outside the named
\* levels where they stand, and what is indexed on the side is in the book.
OnSide(new, from, side, which, D) ==
    /\ \A i \in 1..Len(new) : \A j \in 1..Len(new[i].orders) :
         /\ new[i].orders[j] \in D
         /\ from[new[i].orders[j]] # Nowhere /\ from[new[i].orders[j]].side = side
         /\ i \in which \/ from[new[i].orders[j]] = At(side, i, j)
    /\ \A x \in D : (from[x] # Nowhere /\ from[x].side = side)
                       => \E i \in 1..Len(new) : \E j \in 1..Len(new[i].orders) : new[i].orders[j] = x

\* What reindexing makes of an index.
Restored(new, from, to, side, D) ==
    /\ Sound(new, to, side, D)
    /\ to \in [D -> Location] /\ ChangedOn(side, from, to, D)
    /\ \A x \in D : (to[x] = Nowhere) <=> (from[x] = Nowhere)

\* Reindexing the levels that moved makes the index agree with the book.
LEMMA ReindexRestores ==
    ASSUME NEW D \in SUBSET Nat, NEW from \in [D -> Location], NEW side \in Side,
           NEW new \in Seq(Level), Unique(new),
           NoEmptyLevel(new), NEW which \in SUBSET (1..Len(new)),
           OnSide(new, from, side, which, D)
    PROVE  Restored(new, from, Reindex(from, side, new, which), side, D)
<1> DEFINE to == Reindex(from, side, new, which)
<1>a. DOMAIN from = D
    OBVIOUS
<1>b. ASSUME NEW x \in D
      PROVE  /\ \A i \in which, j \in Nat : Stands(new, x, i, j) => to[x] = At(side, i, j)
             /\ (\A i \in which, j \in Nat : ~Stands(new, x, i, j)) => to[x] = from[x]
  <2>1. Reindexed(to, from, side, new, which, x)
      BY <1>a, ReindexEntries
  <2>2. QED
      BY <2>1 DEF Reindexed
<1>3. DOMAIN to = D
    BY <1>a DEF Reindex
<1> HIDE DEF to
<1>1. ASSUME NEW i \in 1..Len(new), NEW j \in 1..Len(new[i].orders)
      PROVE  to[new[i].orders[j]] = At(side, i, j)
  <2>1. new[i].orders[j] \in D /\ j \in Nat /\ Stands(new, new[i].orders[j], i, j)
      BY <1>1 DEF Stands, OnSide
  <2>2. CASE i \in which
      BY <2>1, <2>2, <1>b
  <2>3. CASE i \notin which
    <3>1. \A k \in which, m \in Nat : ~Stands(new, new[i].orders[j], k, m)
        BY <1>1, <2>3 DEF Stands, Unique
    <3>2. to[new[i].orders[j]] = from[new[i].orders[j]]
        BY <2>1, <3>1, <1>b
    <3>3. QED
        BY <1>1, <2>3, <3>2 DEF OnSide
  <2>4. QED
      BY <2>2, <2>3
<1>2. ASSUME NEW x \in D, \A i \in 1..Len(new) : \A j \in 1..Len(new[i].orders) : new[i].orders[j] # x
      PROVE  to[x] = from[x]
  <2>1. \A k \in which, m \in Nat : ~Stands(new, x, k, m)
      BY <1>2 DEF Stands
  <2>2. QED
      BY <2>1, <1>b
<1>4. \A i \in 1..Len(new) : \A j \in 1..Len(new[i].orders) :
        /\ i \in Nat \ {0} /\ j \in Nat
        /\ At(side, i, j) \in Location /\ At(side, i, j) # Nowhere /\ At(side, i, j).side = side
  <2>1. SUFFICES ASSUME NEW i \in 1..Len(new), NEW j \in 1..Len(new[i].orders)
                 PROVE  /\ i \in Nat \ {0} /\ j \in Nat
                        /\ At(side, i, j) \in Location /\ At(side, i, j) # Nowhere /\ At(side, i, j).side = side
      OBVIOUS
  <2>2. i \in Nat \ {0} /\ j \in Nat
      BY LevelParts, LenProperties
  <2>3. At(side, i, j) \in Location
      BY <2>2 DEF At, Location
  <2>4. QED
      BY <2>2, <2>3, AtParts
<1>5. ASSUME NEW x \in D
      PROVE  /\ to[x] \in Location
             /\ \/ to[x] = from[x] /\ (from[x] = Nowhere \/ from[x].side # side)
                \/ /\ to[x] # Nowhere /\ to[x].side = side /\ from[x] # Nowhere /\ from[x].side = side
                   /\ Stands(new, x, to[x].level, to[x].pos)
  <2>1. CASE \E i \in 1..Len(new) : \E j \in 1..Len(new[i].orders) : new[i].orders[j] = x
    <3>0. PICK i \in 1..Len(new) : \E j \in 1..Len(new[i].orders) : new[i].orders[j] = x
        BY <2>1
    <3>1. PICK j \in 1..Len(new[i].orders) : new[i].orders[j] = x
        BY <3>0
    <3>2. to[x] = At(side, i, j)
        BY <1>1, <3>1
    <3>3. to[x].level = i /\ to[x].pos = j
        BY <3>2, AtParts
    <3>4. Stands(new, x, to[x].level, to[x].pos)
        BY <3>1, <3>3 DEF Stands
    <3>5. QED
        BY <1>4, <3>1, <3>2, <3>4 DEF OnSide
  <2>2. CASE ~\E i \in 1..Len(new) : \E j \in 1..Len(new[i].orders) : new[i].orders[j] = x
      BY <1>2, <2>2 DEF OnSide
  <2>3. QED
      BY <2>1, <2>2
<1>6. Sound(new, to, side, D)
    BY <1>1, <1>5 DEF Sound, OnSide, NoEmptyLevel
<1>7. to \in [D -> Location]
  <2>1. to = [x \in D |-> to[x]]
      BY <1>3 DEF to, Reindex
  <2>2. QED
      BY <1>5, <2>1
<1>8. ChangedOn(side, from, to, D) /\ \A x \in D : (to[x] = Nowhere) <=> (from[x] = Nowhere)
    BY <1>5 DEF ChangedOn
<1>9. QED
    BY <1>6, <1>7, <1>8 DEF to, Restored

-----------------------------------------------------------------------------
(* Adding an order                                                          *)

\* Where the orders of the new side come from: the added one, or a level of
\* the old side with the same price.
From(lv, new, o, price) ==
    \A i \in 1..Len(new) : \A j \in 1..Len(new[i].orders) :
        \/ new[i].orders[j] = o /\ new[i].price = price
        \/ \E k \in 1..Len(lv) : \E m \in 1..Len(lv[k].orders) :
             lv[k].orders[m] = new[i].orders[j] /\ lv[k].price = new[i].price

\* What adding o does to a side and to the index.
Added(lv, new, idx, to, side, D, o, price) ==
    /\ Sound(new, to, side, D) /\ Sorted(new, side)
    /\ to \in [D -> Location] /\ ChangedOn(side, idx, to, D)
    /\ to[o] # Nowhere /\ (\A x \in D \ {o} : (to[x] = Nowhere) <=> (idx[x] = Nowhere))
    /\ From(lv, new, o, price)

\* Joining a level keeps the side sound and sorted.
LEMMA JoinKeepsSound ==
    ASSUME NEW D \in SUBSET Nat, NEW idx \in [D -> Location], NEW side \in Side,
           NEW lv, Sound(lv, idx, side, D), Sorted(lv, side),
           NEW o \in D, idx[o] = Nowhere, NEW price \in Nat, NEW remaining \in Int,
           NEW l \in 1..Len(lv), JoinsLevel(lv, price, l)
    PROVE  LET new == AddAt(lv, l, price, o, remaining)
               to == IndexAfterAdd(idx, side, lv, new, l, o)
           IN  Added(lv, new, idx, to, side, D, o, price)
<1> DEFINE new == AddAt(lv, l, price, o, remaining)
           to == IndexAfterAdd(idx, side, lv, new, l, o)
           joined == [lv[l] EXCEPT !.orders = Append(lv[l].orders, o), !.total = lv[l].total + remaining]
<1>1. lv \in Seq(Level) /\ Len(lv) \in Nat /\ o \in Nat
    BY LenProperties DEF Sound
<1>2. new = [lv EXCEPT ![l] = joined]
    BY DEF AddAt
<1>3. /\ joined \in Level
      /\ joined.price = lv[l].price /\ joined.orders = Append(lv[l].orders, o)
  <2>1. lv[l] \in Level /\ lv[l].orders \in Seq(Nat) /\ lv[l].total \in Int
      BY <1>1, LevelParts
  <2>2. Append(lv[l].orders, o) \in Seq(Nat) /\ lv[l].total + remaining \in Int
      BY <1>1, <2>1, AppendProperties
  <2>3. QED
      BY <2>1, <2>2 DEF Level
<1> HIDE DEF joined
<1>4. /\ new \in Seq(Level) /\ Len(new) = Len(lv)
      /\ \A i \in 1..Len(lv) : new[i] = IF i = l THEN joined ELSE lv[i]
    BY <1>1, <1>2, <1>3, ExceptSeq
<1>5. /\ \A i \in 1..Len(lv) : new[i].price = lv[i].price
      /\ \A i \in 1..Len(lv) \ {l} : new[i].orders = lv[i].orders
      /\ new[l].orders = Append(lv[l].orders, o)
    BY <1>3, <1>4
<1>6. /\ Len(lv[l].orders) \in Nat
      /\ Len(new[l].orders) = Len(lv[l].orders) + 1
      /\ new[l].orders # <<>>
      /\ \A j \in 1..Len(lv[l].orders) : new[l].orders[j] = lv[l].orders[j]
      /\ new[l].orders[Len(new[l].orders)] = o
  <2>1. lv[l].orders \in Seq(Nat) /\ Len(lv[l].orders) \in Nat
      BY <1>1, LevelParts
  <2>2. /\ Len(Append(lv[l].orders, o)) = Len(lv[l].orders) + 1
        /\ \A j \in 1..Len(lv[l].orders) : Append(lv[l].orders, o)[j] = lv[l].orders[j]
        /\ Append(lv[l].orders, o)[Len(lv[l].orders) + 1] = o
    <3> DEFINE s == lv[l].orders
    <3>1. s \in Seq(Nat) /\ o \in Nat
        BY <1>1, <2>1
    <3> HIDE DEF s
    <3>2. /\ Append(s, o) \in Seq(Nat) /\ Len(Append(s, o)) = Len(s) + 1
          /\ \A j \in 1..Len(s) + 1 : Append(s, o)[j] = IF j <= Len(s) THEN s[j] ELSE o
          /\ Len(s) \in Nat
        BY <3>1, AppendProperties, LenProperties
    <3>3. /\ \A j \in 1..Len(s) : Append(s, o)[j] = s[j]
          /\ Append(s, o)[Len(s) + 1] = o
        BY <3>2
    <3>4. QED
        BY <3>2, <3>3 DEF s
  <2>3. Len(new[l].orders) = Len(lv[l].orders) + 1
      BY <1>5, <2>2
  <2>4. new[l].orders # <<>>
      BY <2>1, <2>3
  <2>5. QED
      BY <1>5, <2>1, <2>2, <2>3, <2>4
<1>7. to = [idx EXCEPT ![o] = At(side, l, Len(new[l].orders))]
    BY <1>4 DEF IndexAfterAdd
<1> HIDE DEF new, to
<1>8. to \in [D -> Location] /\ to[o] = At(side, l, Len(new[l].orders)) /\ to[o] # Nowhere
  <2>1. At(side, l, Len(new[l].orders)) \in Location
      BY <1>6 DEF At, Location
  <2>2. At(side, l, Len(new[l].orders)) # Nowhere
      BY <1>1, AtParts
  <2>3. QED
      BY <1>7, <2>1, <2>2
<1>9. \A x \in D \ {o} : to[x] = idx[x]
    BY <1>7
<1>10. \A i \in 1..Len(lv) : \A j \in 1..Len(lv[i].orders) : lv[i].orders[j] \in D \ {o}
  <2>1. SUFFICES ASSUME NEW i \in 1..Len(lv), NEW j \in 1..Len(lv[i].orders)
                 PROVE  lv[i].orders[j] # o
      BY DEF Sound
  <2>2. idx[lv[i].orders[j]] = At(side, i, j) /\ i \in Nat \ {0}
      BY <1>1 DEF Sound
  <2>3. QED
      BY <2>2, AtParts
<1>11. ASSUME NEW i \in 1..Len(new), NEW j \in 1..Len(new[i].orders)
       PROVE  /\ new[i].orders[j] \in D
              /\ to[new[i].orders[j]] = At(side, i, j)
              /\ \/ new[i].orders[j] = o /\ new[i].price = price
                 \/ j \in 1..Len(lv[i].orders) /\ lv[i].orders[j] = new[i].orders[j]
  <2>1. CASE i = l /\ j = Len(new[l].orders)
      BY <2>1, <1>6, <1>8, <1>5 DEF JoinsLevel
  <2>2. CASE ~(i = l /\ j = Len(new[l].orders))
    <3>1. i \in 1..Len(lv)
        BY <1>4, <1>11
    <3>2. j \in 1..Len(lv[i].orders) /\ new[i].orders[j] = lv[i].orders[j]
      <4>1. CASE i = l
        <5>1. j \in 1..(Len(lv[l].orders) + 1) /\ j # Len(lv[l].orders) + 1
            BY <1>6, <1>11, <2>2, <4>1
        <5>2. j \in 1..Len(lv[l].orders)
            BY <1>6, <5>1
        <5>3. QED
            BY <1>6, <4>1, <5>2
      <4>2. CASE i # l
          BY <1>5, <1>11, <3>1, <4>2
      <4>3. QED
          BY <4>1, <4>2
    <3>3. lv[i].orders[j] \in D \ {o} /\ idx[lv[i].orders[j]] = At(side, i, j)
        BY <3>1, <3>2, <1>10 DEF Sound
    <3>4. QED
        BY <3>2, <3>3, <1>9
  <2>3. QED
      BY <2>1, <2>2
<1>12. ASSUME NEW x \in D, to[x] # Nowhere, to[x].side = side
       PROVE  Stands(new, x, to[x].level, to[x].pos)
  <2>1. CASE x = o
    <3>1. to[x].level = l /\ to[x].pos = Len(new[l].orders)
        BY <2>1, <1>8, AtParts
    <3>2. Stands(new, o, l, Len(new[l].orders))
        BY <1>1, <1>4, <1>6 DEF Stands
    <3>3. QED
        BY <2>1, <3>1, <3>2
  <2>2. CASE x # o
    <3>1. to[x] = idx[x]
        BY <2>2, <1>9
    <3>2. Stands(lv, x, to[x].level, to[x].pos)
        BY <3>1, <1>12 DEF Sound
    <3>3. CASE to[x].level = l
      <4>1. to[x].pos \in 1..Len(lv[l].orders) /\ lv[l].orders[to[x].pos] = x
          BY <3>2, <3>3 DEF Stands
      <4>2. to[x].pos \in 1..Len(new[l].orders) /\ new[l].orders[to[x].pos] = x
        <5>1. PICK j \in 1..Len(lv[l].orders) : to[x].pos = j /\ lv[l].orders[j] = x
            BY <4>1
        <5>2. j \in 1..Len(new[l].orders)
            BY <1>6, <5>1
        <5>3. new[l].orders[j] = x
            BY <1>6, <5>1
        <5>4. QED
            BY <5>1, <5>2, <5>3
      <4>3. QED
          BY <1>4, <3>3, <4>2 DEF Stands
    <3>4. CASE to[x].level # l
        BY <1>4, <1>5, <3>2, <3>4 DEF Stands
    <3>5. QED
        BY <3>3, <3>4
  <2>3. QED
      BY <2>1, <2>2
<1>13. Sound(new, to, side, D)
    BY <1>4, <1>5, <1>6, <1>11, <1>12 DEF Sound
<1>14. Sorted(new, side)
    BY <1>4, <1>5 DEF Sorted
<1>15. ChangedOn(side, idx, to, D)
    BY <1>8, <1>9, AtParts DEF ChangedOn
<1>16. From(lv, new, o, price)
    BY <1>4, <1>5, <1>11 DEF From
<1>17. QED
    BY <1>8, <1>9, <1>13, <1>14, <1>15, <1>16 DEF Added, new, to

\* Opening a level at its insertion point keeps the side sound and sorted.
LEMMA OpenKeepsSound ==
    ASSUME NEW D \in SUBSET Nat, NEW idx \in [D -> Location], NEW side \in Side,
           NEW lv, Sound(lv, idx, side, D), Sorted(lv, side),
           NEW o \in D, idx[o] = Nowhere, NEW price \in Nat, NEW remaining \in Int,
           NEW l \in 1..(Len(lv) + 1), IsInsertionPoint(lv, side, price, l), ~JoinsLevel(lv, price, l)
    PROVE  LET new == AddAt(lv, l, price, o, remaining)
               to == IndexAfterAdd(idx, side, lv, new, l, o)
           IN  Added(lv, new, idx, to, side, D, o, price)
<1> DEFINE new == AddAt(lv, l, price, o, remaining)
           to == IndexAfterAdd(idx, side, lv, new, l, o)
           opened == [price |-> price, orders |-> <<o>>, total |-> remaining]
           placed == [idx EXCEPT ![o] = At(side, l, Len(new[l].orders))]
<1>1. lv \in Seq(Level) /\ Len(lv) \in Nat /\ o \in Nat
    BY LenProperties DEF Sound
<1>2. opened \in Level /\ opened.price = price /\ opened.orders = <<o>>
    BY <1>1 DEF Level
<1>3. new = InsertAt(lv, l, opened)
    BY DEF AddAt
<1> HIDE DEF opened
<1>4. /\ new \in Seq(Level) /\ Len(new) = Len(lv) + 1
      /\ \A i \in 1..Len(new) : new[i] = IF i < l THEN lv[i] ELSE IF i = l THEN opened ELSE lv[i - 1]
  <2>1. /\ InsertAt(lv, l, opened) \in Seq(Level) /\ Len(InsertAt(lv, l, opened)) = Len(lv) + 1
        /\ \A i \in 1..(Len(lv) + 1) :
             InsertAt(lv, l, opened)[i] = IF i < l THEN lv[i] ELSE IF i = l THEN opened ELSE lv[i - 1]
    <3>1. PICK S, s, e : S = Level /\ s = lv /\ e = opened
        OBVIOUS
    <3>2. s \in Seq(S) /\ e \in S /\ l \in 1..(Len(s) + 1)
        BY <1>1, <1>2, <3>1
    <3>3. /\ InsertAt(s, l, e) \in Seq(S) /\ Len(InsertAt(s, l, e)) = Len(s) + 1
          /\ \A i \in 1..(Len(s) + 1) : InsertAt(s, l, e)[i] = IF i < l THEN s[i] ELSE IF i = l THEN e ELSE s[i - 1]
        BY <3>2, InsertAtElements
    <3> QED
        BY <3>1, <3>3
  <2> HIDE DEF new
  <2>2. QED
      BY <1>3, <2>1
<1>5. to = Reindex(placed, side, new, (l + 1)..Len(new))
    BY <1>1, <1>4 DEF IndexAfterAdd
<1> HIDE DEF new, to
<1>6. new[l] = opened /\ l \in 1..Len(new) /\ new[l].orders = <<o>> /\ Len(new[l].orders) = 1
  <2>1. l \in 1..Len(new)
      BY <1>1, <1>4
  <2>2. new[l] = opened
      BY <1>1, <1>4, <2>1
  <2>3. Len(<<o>>) = 1
      OBVIOUS
  <2>4. QED
      BY <1>2, <2>1, <2>2, <2>3
<1>7. \A i \in 1..Len(new) :
        /\ i < l => i \in 1..Len(lv) /\ new[i] = lv[i]
        /\ i > l => i - 1 \in 1..Len(lv) /\ new[i] = lv[i - 1]
  <2>1. TAKE i \in 1..Len(new)
  <2>2. CASE i < l
      BY <1>1, <1>4, <2>2
  <2>3. CASE i > l
      BY <1>1, <1>4, <2>3
  <2>4. QED
      BY <2>2, <2>3
<1>8. \A i \in 1..Len(lv) : \A j \in 1..Len(lv[i].orders) :
        lv[i].orders[j] \in D \ {o} /\ idx[lv[i].orders[j]] = At(side, i, j)
  <2>1. SUFFICES ASSUME NEW i \in 1..Len(lv), NEW j \in 1..Len(lv[i].orders)
                 PROVE  lv[i].orders[j] # o
      BY DEF Sound
  <2>2. idx[lv[i].orders[j]] = At(side, i, j) /\ i \in Nat \ {0}
      BY <1>1 DEF Sound
  <2>3. QED
      BY <2>2, AtParts
<1>9. /\ placed \in [D -> Location] /\ placed[o] = At(side, l, 1) /\ placed[o] # Nowhere
      /\ \A x \in D \ {o} : placed[x] = idx[x]
  <2>1. At(side, l, 1) \in Location /\ At(side, l, 1) # Nowhere
      BY <1>1, AtParts DEF At, Location
  <2>2. QED
      BY <1>6, <2>1
<1> HIDE DEF placed
<1>10. \A i \in 1..Len(new) : \A j \in 1..Len(new[i].orders) :
         \/ i = l /\ j = 1 /\ new[i].orders[j] = o
         \/ /\ i < l /\ new[i].orders[j] \in D \ {o} /\ i \in 1..Len(lv) /\ j \in 1..Len(lv[i].orders)
            /\ lv[i].orders[j] = new[i].orders[j] /\ idx[new[i].orders[j]] = At(side, i, j)
         \/ /\ i > l /\ new[i].orders[j] \in D \ {o} /\ i - 1 \in 1..Len(lv) /\ j \in 1..Len(lv[i - 1].orders)
            /\ lv[i - 1].orders[j] = new[i].orders[j] /\ idx[new[i].orders[j]] = At(side, i - 1, j)
  <2>1. TAKE i \in 1..Len(new)
  <2>2. TAKE j \in 1..Len(new[i].orders)
  <2>3. CASE i = l
      BY <1>6, <2>3
  <2>4. CASE i < l
      BY <1>7, <1>8, <2>4
  <2>5. CASE i > l
    <3>1. PICK k \in 1..Len(lv) : k = i - 1 /\ new[i] = lv[k]
        BY <1>7, <2>5
    <3>2. j \in 1..Len(lv[k].orders)
        BY <3>1
    <3>3. lv[k].orders[j] \in D \ {o} /\ idx[lv[k].orders[j]] = At(side, k, j)
        BY <1>8, <3>2
    <3>4. QED
        BY <2>5, <3>1, <3>2, <3>3
  <2>6. QED
      BY <1>4, <2>3, <2>4, <2>5
<1>11. Unique(new)
  <2>1. \A i \in 1..Len(new) : \A j \in 1..Len(new[i].orders) :
          new[i].orders[j] = o => i = l /\ j = 1
      BY <1>10
  <2>2. \A i \in 1..Len(new) : \A j \in 1..Len(new[i].orders) :
          new[i].orders[j] # o =>
            /\ i # l
            /\ i < l => idx[new[i].orders[j]] = At(side, i, j)
            /\ i > l => idx[new[i].orders[j]] = At(side, i - 1, j)
    <3>1. TAKE i \in 1..Len(new)
    <3>2. TAKE j \in 1..Len(new[i].orders)
    <3>3. HAVE new[i].orders[j] # o
    <3>4. QED
        BY <1>1, <1>4, <1>10, <3>3
  <2>3. SUFFICES ASSUME NEW i \in 1..Len(new), NEW k \in 1..Len(new),
                        NEW j \in 1..Len(new[i].orders), NEW m \in 1..Len(new[k].orders),
                        new[i].orders[j] = new[k].orders[m]
                 PROVE  i = k /\ j = m
      BY DEF Unique
  <2>4. CASE new[i].orders[j] = o
    <3>1. i = l /\ j = 1
        BY <2>1, <2>4
    <3>2. new[k].orders[m] = o
        BY <2>3, <2>4
    <3>3. k = l /\ m = 1
        BY <2>1, <3>2
    <3>4. QED
        BY <3>1, <3>3
  <2>5. CASE new[i].orders[j] # o
    <3>1. new[k].orders[m] # o /\ idx[new[i].orders[j]] = idx[new[k].orders[m]]
        BY <2>3, <2>5
    <3> DEFINE was(n) == IF n < l THEN n ELSE n - 1
    <3>2. i # l /\ k # l /\ i \in Nat /\ k \in Nat
        BY <1>1, <1>4, <2>2, <2>5, <3>1
    <3>a. /\ \A n \in Nat : n < l => was(n) = n
          /\ \A n \in Nat : n > l => was(n) = n - 1
        BY <1>1
    <3>b. (i < l \/ i > l) /\ (k < l \/ k > l)
        BY <1>1, <3>2
    <3> HIDE DEF was
    <3>3. idx[new[i].orders[j]] = At(side, was(i), j)
      <4>1. /\ i < l => idx[new[i].orders[j]] = At(side, i, j)
            /\ i > l => idx[new[i].orders[j]] = At(side, i - 1, j)
          BY <2>2, <2>5
      <4>2. CASE i < l
          BY <4>1, <4>2, <3>2, <3>a
      <4>3. CASE i > l
          BY <4>1, <4>3, <3>2, <3>a
      <4>4. QED
          BY <3>b, <4>2, <4>3
    <3>4. idx[new[k].orders[m]] = At(side, was(k), m)
      <4>1. /\ k < l => idx[new[k].orders[m]] = At(side, k, m)
            /\ k > l => idx[new[k].orders[m]] = At(side, k - 1, m)
          BY <2>2, <3>1
      <4>2. CASE k < l
          BY <4>1, <4>2, <3>2, <3>a
      <4>3. CASE k > l
          BY <4>1, <4>3, <3>2, <3>a
      <4>4. QED
          BY <3>b, <4>2, <4>3
    <3>5. At(side, was(i), j) = At(side, was(k), m)
        BY <3>1, <3>3, <3>4
    <3>6. was(i) = was(k) /\ j = m
        BY <3>5, AtParts
    <3>7. QED
        BY <1>1, <3>2, <3>6 DEF was
  <2>6. QED
      BY <2>4, <2>5
<1>12. NoEmptyLevel(new)
  <2>1. SUFFICES ASSUME NEW i \in 1..Len(new) PROVE new[i].orders # <<>>
      BY DEF NoEmptyLevel
  <2>2. CASE i = l
    <3>1. Len(new[i].orders) = 1
        BY <1>6, <2>2
    <3>2. Len(<<>>) = 0 /\ 0 # 1
        OBVIOUS
    <3>3. QED
        BY <3>1, <3>2, Zenon
  <2>3. CASE i # l
    <3>1. \E k \in 1..Len(lv) : new[i] = lv[k]
        BY <1>1, <1>4, <1>7, <2>3
    <3>2. QED
        BY <3>1 DEF Sound
  <2>4. QED
      BY <2>2, <2>3
<1>13. (l + 1)..Len(new) \in SUBSET (1..Len(new))
    BY <1>1, <1>4
<1>14. \A i \in 1..Len(new) : \A j \in 1..Len(new[i].orders) :
         /\ new[i].orders[j] \in D
         /\ placed[new[i].orders[j]] # Nowhere /\ placed[new[i].orders[j]].side = side
         /\ i \in (l + 1)..Len(new) \/ placed[new[i].orders[j]] = At(side, i, j)
  <2>1. TAKE i \in 1..Len(new)
  <2>2. TAKE j \in 1..Len(new[i].orders)
  <2>3. CASE i = l
      BY <1>4, <1>9, <1>10, <2>3, AtParts
  <2>4. CASE i # l
    <3>1. /\ new[i].orders[j] \in D \ {o}
          /\ \E k \in 1..Len(lv) : idx[new[i].orders[j]] = At(side, k, j)
          /\ i < l => idx[new[i].orders[j]] = At(side, i, j)
        BY <1>10, <2>4
    <3>2. placed[new[i].orders[j]] = idx[new[i].orders[j]]
        BY <1>9, <3>1
    <3>3. idx[new[i].orders[j]] # Nowhere /\ idx[new[i].orders[j]].side = side
        BY <1>1, <3>1, AtParts
    <3>4. i < l \/ i \in (l + 1)..Len(new)
        BY <1>1, <1>4, <2>4
    <3>5. QED
        BY <3>1, <3>2, <3>3, <3>4
  <2>5. QED
      BY <2>3, <2>4
<1>15. \A x \in D : (placed[x] # Nowhere /\ placed[x].side = side)
                      => \E i \in 1..Len(new) : \E j \in 1..Len(new[i].orders) : new[i].orders[j] = x
  <2>1. SUFFICES ASSUME NEW x \in D, placed[x] # Nowhere, placed[x].side = side
                 PROVE  \E i \in 1..Len(new) : \E j \in 1..Len(new[i].orders) : new[i].orders[j] = x
      OBVIOUS
  <2>2. CASE x = o
    <3>1. 1 \in 1..Len(new[l].orders) /\ new[l].orders[1] = x
        BY <1>6, <2>2
    <3>2. QED
        BY <1>6, <3>1
  <2>3. CASE x # o
    <3>1. Stands(lv, x, idx[x].level, idx[x].pos)
        BY <1>9, <2>1, <2>3 DEF Sound
    <3>2. PICK k \in 1..Len(lv) : \E j \in 1..Len(lv[k].orders) : lv[k].orders[j] = x
        BY <3>1 DEF Stands
    <3>3. CASE k < l
      <4>1. k \in 1..Len(new) /\ new[k] = lv[k]
          BY <1>1, <1>4, <3>3
      <4>2. QED
          BY <3>2, <4>1
    <3>4. CASE k >= l
      <4>1. k + 1 \in 1..Len(new) /\ new[k + 1] = lv[k]
          BY <1>1, <1>4, <3>4
      <4>2. QED
          BY <3>2, <4>1
    <3>5. QED
        BY <1>1, <3>3, <3>4
  <2>4. QED
      BY <2>2, <2>3
<1>16. /\ Sound(new, to, side, D) /\ to \in [D -> Location] /\ ChangedOn(side, placed, to, D)
       /\ \A x \in D : (to[x] = Nowhere) <=> (placed[x] = Nowhere)
  <2>0. new \in Seq(Level) /\ placed \in [D -> Location]
      BY <1>4, <1>9
  <2>1. OnSide(new, placed, side, (l + 1)..Len(new), D)
      BY <1>14, <1>15 DEF OnSide
  <2>2. Restored(new, placed, to, side, D)
      BY <1>5, <1>11, <1>12, <1>13, <2>0, <2>1, ReindexRestores
  <2>3. QED
      BY <2>2 DEF Restored
<1>17. Sorted(new, side)
  <2>1. \A i \in 1..Len(lv) : lv[i].price \in Nat
      BY <1>1, LevelParts
  <2>2. \A i \in 1..Len(new) : new[i].price \in Nat
                               /\ (i < l => Better(side, new[i].price, price))
                               /\ (i = l => new[i].price = price)
                               /\ (i > l => Better(side, price, new[i].price))
    <3>1. TAKE i \in 1..Len(new)
    <3>2. CASE i < l
        BY <1>1, <1>7, <2>1, <3>2 DEF IsInsertionPoint
    <3>3. CASE i = l
        BY <1>2, <1>6, <3>3
    <3>4. CASE i > l
      <4>1. l \in 1..Len(lv) /\ i - 1 \in 1..Len(lv) /\ new[i] = lv[i - 1]
          BY <1>1, <1>4, <1>7, <3>4
      <4>2. Better(side, price, lv[l].price)
          BY <2>1, <4>1 DEF IsInsertionPoint, JoinsLevel, Better
      <4>3. i - 1 = l \/ Better(side, lv[l].price, lv[i - 1].price)
          BY <3>4, <4>1 DEF Sorted
      <4>4. QED
          BY <2>1, <3>4, <4>1, <4>2, <4>3 DEF Better
    <3>5. QED
        BY <1>4, <3>2, <3>3, <3>4
  <2>3. SUFFICES ASSUME NEW i \in 1..Len(new), NEW k \in 1..Len(new), i < k
                 PROVE  Better(side, new[i].price, new[k].price)
      BY DEF Sorted
  <2>4. CASE i < l /\ k < l
      BY <1>7, <2>3, <2>4 DEF Sorted
  <2>5. CASE i > l /\ k > l
    <3>1. i - 1 \in 1..Len(lv) /\ k - 1 \in 1..Len(lv) /\ i - 1 < k - 1
        BY <1>7, <2>3, <2>5
    <3>2. QED
        BY <1>7, <2>5, <3>1 DEF Sorted
  <2>6. CASE i <= l /\ l <= k
      BY <1>4, <2>2, <2>3, <2>6 DEF Better
  <2>7. QED
      BY <1>4, <2>3, <2>4, <2>5, <2>6
<1>18. ChangedOn(side, idx, to, D)
  <2>1. SUFFICES ASSUME NEW x \in D
                 PROVE  \/ to[x] = idx[x]
                        \/ /\ idx[x] = Nowhere \/ idx[x].side = side
                           /\ to[x] = Nowhere \/ to[x].side = side
      BY DEF ChangedOn
  <2>2. \/ to[x] = placed[x]
        \/ /\ placed[x] = Nowhere \/ placed[x].side = side
           /\ to[x] = Nowhere \/ to[x].side = side
      BY <1>16 DEF ChangedOn
  <2>3. CASE x = o
      BY <1>9, <2>2, <2>3, AtParts
  <2>4. CASE x # o
      BY <1>9, <2>2, <2>4
  <2>5. QED
      BY <2>3, <2>4
<1>19. to[o] # Nowhere /\ \A x \in D \ {o} : (to[x] = Nowhere) <=> (idx[x] = Nowhere)
    BY <1>9, <1>16
<1>20. From(lv, new, o, price)
  <2>1. SUFFICES ASSUME NEW i \in 1..Len(new), NEW j \in 1..Len(new[i].orders)
                 PROVE  \/ new[i].orders[j] = o /\ new[i].price = price
                        \/ \E k \in 1..Len(lv) : \E m \in 1..Len(lv[k].orders) :
                             lv[k].orders[m] = new[i].orders[j] /\ lv[k].price = new[i].price
      BY DEF From
  <2>2. CASE i = l
      BY <1>2, <1>6, <1>10, <2>2
  <2>3. CASE i # l
      BY <1>7, <1>10, <2>3
  <2>4. QED
      BY <2>2, <2>3
<1>21. QED
    BY <1>16, <1>17, <1>18, <1>19, <1>20 DEF Added, new, to

\* addToBids and addToAsks keep the side sound and sorted.
LEMMA AddKeepsSound ==
    ASSUME NEW D \in SUBSET Nat, NEW idx \in [D -> Location], NEW side \in Side,
           NEW lv, Sound(lv, idx, side, D), Sorted(lv, side),
           NEW o \in D, idx[o] = Nowhere, NEW price \in Nat, NEW remaining \in Int,
           NEW l \in 1..(Len(lv) + 1), IsInsertionPoint(lv, side, price, l)
    PROVE  LET new == AddAt(lv, l, price, o, remaining)
               to == IndexAfterAdd(idx, side, lv, new, l, o)
           IN  Added(lv, new, idx, to, side, D, o, price)
<1>1. CASE JoinsLevel(lv, price, l)
  <2>1. l \in 1..Len(lv)
      BY <1>1, LenProperties DEF JoinsLevel, Sound
  <2>2. QED
      BY <1>1, <2>1, JoinKeepsSound
<1>2. CASE ~JoinsLevel(lv, price, l)
    BY <1>2, OpenKeepsSound
<1>3. QED
    BY <1>1, <1>2

-----------------------------------------------------------------------------
(* Removing an order                                                        *)

\* The orders of the new side are those of the old side but o, in levels of
\* the same price; outside the named levels they stand where they stood.
ComesFrom(lv, new, o, which, i, j, k, m) ==
    /\ lv[k].orders[m] = new[i].orders[j] /\ new[i].orders[j] # o
    /\ lv[k].price = new[i].price
    /\ i \in which \/ (k = i /\ m = j)

KeptFrom(lv, new, o, which) ==
    \A i \in 1..Len(new) : \A j \in 1..Len(new[i].orders) :
        \E k \in 1..Len(lv) : \E m \in 1..Len(lv[k].orders) : ComesFrom(lv, new, o, which, i, j, k, m)

\* Every other order of the old side is in the new one.
KeepsOthers(lv, new, o) ==
    \A k \in 1..Len(lv) : \A m \in 1..Len(lv[k].orders) :
        lv[k].orders[m] # o
            => \E i \in 1..Len(new) : \E j \in 1..Len(new[i].orders) : new[i].orders[j] = lv[k].orders[m]

\* What removing o does to a side and to the index.
Removed(lv, new, idx, to, side, D, o) ==
    /\ Sound(new, to, side, D)
    /\ to \in [D -> Location] /\ ChangedOn(side, idx, to, D)
    /\ to[o] = Nowhere /\ (\A x \in D \ {o} : (to[x] = Nowhere) <=> (idx[x] = Nowhere))
    /\ KeptFrom(lv, new, o, 1..Len(new))

\* Deleting o from the index and reindexing the levels that moved.
LEMMA ReindexAfterRemoval ==
    ASSUME NEW D \in SUBSET Nat, NEW idx \in [D -> Location], NEW side \in Side,
           NEW lv, Sound(lv, idx, side, D),
           NEW o \in D, idx[o] # Nowhere, idx[o].side = side,
           NEW new \in Seq(Level), Unique(new), NoEmptyLevel(new),
           NEW which \in SUBSET (1..Len(new)),
           KeptFrom(lv, new, o, which), KeepsOthers(lv, new, o)
    PROVE  Removed(lv, new, idx, Reindex([idx EXCEPT ![o] = Nowhere], side, new, which), side, D, o)
<1> DEFINE deleted == [idx EXCEPT ![o] = Nowhere]
           to == Reindex(deleted, side, new, which)
<1>1. lv \in Seq(Level) /\ Len(lv) \in Nat
    BY LenProperties DEF Sound
<1>2. /\ deleted \in [D -> Location] /\ deleted[o] = Nowhere
      /\ \A x \in D \ {o} : deleted[x] = idx[x]
  <2>1. Nowhere \in Location
      BY DEF Nowhere, At, Location, Side
  <2>2. QED
      BY <2>1
<1> HIDE DEF deleted
<1>3. OnSide(new, deleted, side, which, D)
  <2>1. ASSUME NEW i \in 1..Len(new), NEW j \in 1..Len(new[i].orders)
        PROVE  /\ new[i].orders[j] \in D
               /\ deleted[new[i].orders[j]] # Nowhere /\ deleted[new[i].orders[j]].side = side
               /\ i \in which \/ deleted[new[i].orders[j]] = At(side, i, j)
    <3>1. PICK k \in 1..Len(lv) : \E m \in 1..Len(lv[k].orders) : ComesFrom(lv, new, o, which, i, j, k, m)
        BY <2>1 DEF KeptFrom
    <3>2. PICK m \in 1..Len(lv[k].orders) :
                 /\ lv[k].orders[m] = new[i].orders[j] /\ new[i].orders[j] # o
                 /\ i \in which \/ (k = i /\ m = j)
        BY <3>1 DEF ComesFrom
    <3>3. new[i].orders[j] \in D \ {o} /\ idx[new[i].orders[j]] = At(side, k, m)
        BY <3>2 DEF Sound
    <3>4. deleted[new[i].orders[j]] = At(side, k, m)
        BY <1>2, <3>3
    <3>5. At(side, k, m) # Nowhere /\ At(side, k, m).side = side
        BY <1>1, AtParts
    <3>6. QED
        BY <3>2, <3>3, <3>4, <3>5
  <2>2. ASSUME NEW x \in D, deleted[x] # Nowhere, deleted[x].side = side
        PROVE  \E i \in 1..Len(new) : \E j \in 1..Len(new[i].orders) : new[i].orders[j] = x
    <3>1. x # o /\ Stands(lv, x, idx[x].level, idx[x].pos)
        BY <1>2, <2>2 DEF Sound
    <3>2. QED
      <4>1. PICK k \in 1..Len(lv) : \E m \in 1..Len(lv[k].orders) : lv[k].orders[m] = x
          BY <3>1 DEF Stands
      <4>2. PICK m \in 1..Len(lv[k].orders) : lv[k].orders[m] = x
          BY <4>1
      <4>3. lv[k].orders[m] # o
          BY <3>1, <4>2
      <4>4. \E i \in 1..Len(new) : \E j \in 1..Len(new[i].orders) : new[i].orders[j] = lv[k].orders[m]
          BY <4>3 DEF KeepsOthers
      <4>5. QED
          BY <4>2, <4>4
  <2>3. QED
      BY <2>1, <2>2 DEF OnSide
<1>4. Restored(new, deleted, to, side, D)
    BY <1>2, <1>3, ReindexRestores
<1> HIDE DEF to
<1>5. /\ Sound(new, to, side, D) /\ to \in [D -> Location] /\ ChangedOn(side, deleted, to, D)
      /\ \A x \in D : (to[x] = Nowhere) <=> (deleted[x] = Nowhere)
    BY <1>4 DEF Restored
<1>6. to[o] = Nowhere /\ \A x \in D \ {o} : (to[x] = Nowhere) <=> (idx[x] = Nowhere)
    BY <1>2, <1>5
<1>7. ChangedOn(side, idx, to, D)
    BY <1>2, <1>5 DEF ChangedOn
<1>8. KeptFrom(lv, new, o, 1..Len(new))
  <2>1. SUFFICES ASSUME NEW i \in 1..Len(new), NEW j \in 1..Len(new[i].orders)
                 PROVE  \E k \in 1..Len(lv) : \E m \in 1..Len(lv[k].orders) :
                          ComesFrom(lv, new, o, 1..Len(new), i, j, k, m)
      BY DEF KeptFrom
  <2>2. PICK k \in 1..Len(lv) : \E m \in 1..Len(lv[k].orders) : ComesFrom(lv, new, o, which, i, j, k, m)
      BY DEF KeptFrom
  <2>3. PICK m \in 1..Len(lv[k].orders) : ComesFrom(lv, new, o, which, i, j, k, m)
      BY <2>2
  <2>4. ComesFrom(lv, new, o, 1..Len(new), i, j, k, m)
      BY <2>3 DEF ComesFrom
  <2>5. QED
      BY <2>4
<1>9. QED
    BY <1>5, <1>6, <1>7, <1>8 DEF Removed, to, deleted

\* o stands at this slot of the side and at no other.
StandsAlone(lv, o, i, p) ==
    /\ i \in 1..Len(lv) /\ p \in 1..Len(lv[i].orders)
    /\ \A k \in 1..Len(lv) : \A m \in 1..Len(lv[k].orders) : lv[k].orders[m] = o <=> k = i /\ m = p

\* Where an indexed order stands.
LEMMA RemovedOrderStands ==
    ASSUME NEW D \in SUBSET Nat, NEW idx \in [D -> Location], NEW side \in Side,
           NEW lv, Sound(lv, idx, side, D),
           NEW o \in D, idx[o] # Nowhere, idx[o].side = side
    PROVE  /\ lv \in Seq(Level) /\ Unique(lv)
           /\ StandsAlone(lv, o, idx[o].level, PositionIn(lv[idx[o].level], o))
<1> DEFINE i == idx[o].level
           p == PositionIn(lv[i], o)
<1>1. lv \in Seq(Level) /\ Unique(lv)
  <2>1. lv \in Seq(Level)
      BY DEF Sound
  <2>2. Unique(lv)
      BY SoundIsUnique
  <2>3. QED
      BY <2>1, <2>2
<1>2. Stands(lv, o, i, idx[o].pos)
    BY DEF Sound
<1>3. i \in 1..Len(lv) /\ DOMAIN lv[i].orders = 1..Len(lv[i].orders)
    BY <1>1, <1>2, LevelParts DEF Stands
<1>4. p \in 1..Len(lv[i].orders) /\ lv[i].orders[p] = o
    BY <1>2, <1>3 DEF Stands, PositionIn
<1> HIDE DEF i, p
<1>5. \A k \in 1..Len(lv) : \A m \in 1..Len(lv[k].orders) : lv[k].orders[m] = o <=> k = i /\ m = p
  <2>1. TAKE k \in 1..Len(lv)
  <2>2. TAKE m \in 1..Len(lv[k].orders)
  <2>3. lv[k].orders[m] = o => k = i /\ m = p
      BY <1>1, <1>3, <1>4 DEF Unique
  <2>4. QED
      BY <1>4, <2>3
<1>6. QED
    BY <1>1, <1>3, <1>4, <1>5 DEF i, p, StandsAlone

\* Removing the only order of a level, and so the level.
LEMMA CloseKeepsSound ==
    ASSUME NEW D \in SUBSET Nat, NEW idx \in [D -> Location], NEW side \in Side,
           NEW lv, Sound(lv, idx, side, D), Sorted(lv, side),
           NEW o \in D, idx[o] # Nowhere, idx[o].side = side, NEW remaining,
           Len(lv[idx[o].level].orders) = 1
    PROVE  LET i == idx[o].level
               new == RemoveFrom(lv, i, o, remaining)
               to == IndexAfterRemove(idx, side, lv, new, i, o)
           IN  Removed(lv, new, idx, to, side, D, o) /\ Sorted(new, side)
<1> DEFINE i == idx[o].level
           p == PositionIn(lv[i], o)
           new == RemoveFrom(lv, i, o, remaining)
           to == IndexAfterRemove(idx, side, lv, new, i, o)
           was(k) == IF k < i THEN k ELSE k + 1
<1>1. /\ lv \in Seq(Level) /\ Unique(lv) /\ i \in 1..Len(lv) /\ p \in 1..Len(lv[i].orders)
      /\ \A k \in 1..Len(lv) : \A m \in 1..Len(lv[k].orders) : lv[k].orders[m] = o <=> k = i /\ m = p
  <2>1. lv \in Seq(Level) /\ Unique(lv) /\ StandsAlone(lv, o, i, p)
      BY RemovedOrderStands
  <2>2. QED
      BY <2>1 DEF StandsAlone
<1>2. Len(lv) \in Nat
    BY <1>1, LenProperties
<1>3. new = RemoveAt(lv, i)
    BY DEF RemoveFrom
<1>a. Len(lv[i].orders) = 1
    OBVIOUS
<1> HIDE DEF new, i, p
<1>4. /\ new \in Seq(Level) /\ Len(new) = Len(lv) - 1 /\ Len(new) \in Nat
      /\ \A k \in 1..Len(new) : new[k] = lv[was(k)]
  <2>1. /\ RemoveAt(lv, i) \in Seq(Level) /\ Len(RemoveAt(lv, i)) = Len(lv) - 1
        /\ \A k \in 1..(Len(lv) - 1) : RemoveAt(lv, i)[k] = IF k < i THEN lv[k] ELSE lv[k + 1]
      BY <1>1, RemoveAtElements
  <2>2. QED
      BY <1>1, <1>2, <1>3, <2>1
<1>5. to = Reindex([idx EXCEPT ![o] = Nowhere], side, new, 1..Len(new))
    BY <1>2, <1>4 DEF IndexAfterRemove
<1>6. \A k \in 1..Len(new) : was(k) \in 1..Len(lv) /\ was(k) # i
    BY <1>1, <1>2, <1>4
<1>7. \A k, m \in 1..Len(new) : (was(k) = was(m) => k = m) /\ (k < m => was(k) < was(m))
    BY <1>1, <1>2, <1>4
<1>8. \A k \in 1..Len(lv) : k # i => \E m \in 1..Len(new) : was(m) = k
  <2>1. TAKE k \in 1..Len(lv)
  <2>2. HAVE k # i
  <2>3. CASE k < i
    <3>1. k \in 1..Len(new) /\ was(k) = k
        BY <1>1, <1>2, <1>4, <2>3
    <3>2. QED
        BY <3>1
  <2>4. CASE k > i
    <3>1. k - 1 \in 1..Len(new) /\ was(k - 1) = k
        BY <1>1, <1>2, <1>4, <2>4
    <3>2. QED
        BY <3>1
  <2>5. QED
      BY <1>1, <1>2, <2>2, <2>3, <2>4
<1> HIDE DEF was, to
<1>9. NoEmptyLevel(new)
    BY <1>4, <1>6 DEF NoEmptyLevel, Sound
<1>10. Unique(new)
  <2>1. SUFFICES ASSUME NEW k \in 1..Len(new), NEW n \in 1..Len(new),
                        NEW j \in 1..Len(new[k].orders), NEW m \in 1..Len(new[n].orders),
                        new[k].orders[j] = new[n].orders[m]
                 PROVE  k = n /\ j = m
      BY DEF Unique
  <2>2. was(k) = was(n) /\ j = m
    <3>1. new[k] = lv[was(k)] /\ new[n] = lv[was(n)] /\ was(k) \in 1..Len(lv) /\ was(n) \in 1..Len(lv)
        BY <1>4, <1>6
    <3>2. Unique(lv)
        BY <1>1
    <3>3. PICK a \in 1..Len(lv) : a = was(k) /\ new[k] = lv[a]
        BY <3>1
    <3>4. PICK b \in 1..Len(lv) : b = was(n) /\ new[n] = lv[b]
        BY <3>1
    <3>5. /\ j \in 1..Len(lv[a].orders) /\ m \in 1..Len(lv[b].orders)
          /\ lv[a].orders[j] = lv[b].orders[m]
        BY <2>1, <3>3, <3>4
    <3>6. a = b /\ j = m
        BY <3>2, <3>5 DEF Unique
    <3>7. QED
        BY <3>3, <3>4, <3>6
  <2>3. QED
      BY <1>7, <2>2
<1>11. KeptFrom(lv, new, o, 1..Len(new))
  <2>1. SUFFICES ASSUME NEW k \in 1..Len(new), NEW j \in 1..Len(new[k].orders)
                 PROVE  \E n \in 1..Len(lv) : \E m \in 1..Len(lv[n].orders) :
                          ComesFrom(lv, new, o, 1..Len(new), k, j, n, m)
      BY DEF KeptFrom
  <2>2. was(k) \in 1..Len(lv) /\ was(k) # i /\ new[k] = lv[was(k)]
      BY <1>4, <1>6
  <2>3. j \in 1..Len(lv[was(k)].orders) /\ ComesFrom(lv, new, o, 1..Len(new), k, j, was(k), j)
      BY <1>1, <2>2 DEF ComesFrom
  <2>4. QED
      BY <2>2, <2>3
<1>12. KeepsOthers(lv, new, o)
  <2>1. SUFFICES ASSUME NEW k \in 1..Len(lv), NEW m \in 1..Len(lv[k].orders), lv[k].orders[m] # o
                 PROVE  \E n \in 1..Len(new) : \E j \in 1..Len(new[n].orders) : new[n].orders[j] = lv[k].orders[m]
      BY DEF KeepsOthers
  <2>2. k # i
    <3>1. SUFFICES ASSUME k = i PROVE FALSE
        OBVIOUS
    <3>2. m = 1 /\ p = 1
        BY <1>1, <1>a, <3>1
    <3>3. QED
        BY <1>1, <2>1, <3>1, <3>2
  <2>3. PICK n \in 1..Len(new) : was(n) = k
      BY <1>8, <2>2
  <2>4. new[n] = lv[k]
      BY <1>4, <2>3
  <2>5. QED
      BY <2>4
<1>13. Removed(lv, new, idx, to, side, D, o)
  <2>1. 1..Len(new) \in SUBSET (1..Len(new))
      OBVIOUS
  <2>2. QED
      BY <1>4, <1>5, <1>9, <1>10, <1>11, <1>12, <2>1, ReindexAfterRemoval
<1>14. Sorted(new, side)
  <2>1. SUFFICES ASSUME NEW k \in 1..Len(new), NEW n \in 1..Len(new), k < n
                 PROVE  Better(side, new[k].price, new[n].price)
      BY DEF Sorted
  <2>2. was(k) \in 1..Len(lv) /\ was(n) \in 1..Len(lv) /\ was(k) < was(n)
      BY <1>6, <1>7, <2>1
  <2>3. QED
      BY <1>4, <2>2 DEF Sorted
<1>15. QED
    BY <1>13, <1>14 DEF i, new, to

\* Removing one of several orders of a level.
LEMMA ShrinkKeepsSound ==
    ASSUME NEW D \in SUBSET Nat, NEW idx \in [D -> Location], NEW side \in Side,
           NEW lv, Sound(lv, idx, side, D), Sorted(lv, side),
           NEW o \in D, idx[o] # Nowhere, idx[o].side = side, NEW remaining \in Int,
           Len(lv[idx[o].level].orders) # 1
    PROVE  LET i == idx[o].level
               new == RemoveFrom(lv, i, o, remaining)
               to == IndexAfterRemove(idx, side, lv, new, i, o)
           IN  Removed(lv, new, idx, to, side, D, o) /\ Sorted(new, side)
<1> DEFINE i == idx[o].level
           p == PositionIn(lv[i], o)
           new == RemoveFrom(lv, i, o, remaining)
           to == IndexAfterRemove(idx, side, lv, new, i, o)
           was(j) == IF j < p THEN j ELSE j + 1
           shrunk == [lv[i] EXCEPT !.orders = RemoveAt(lv[i].orders, p), !.total = lv[i].total - remaining]
<1>1. /\ lv \in Seq(Level) /\ Unique(lv) /\ i \in 1..Len(lv) /\ p \in 1..Len(lv[i].orders)
      /\ \A k \in 1..Len(lv) : \A m \in 1..Len(lv[k].orders) : lv[k].orders[m] = o <=> k = i /\ m = p
  <2>1. lv \in Seq(Level) /\ Unique(lv) /\ StandsAlone(lv, o, i, p)
      BY RemovedOrderStands
  <2>2. QED
      BY <2>1 DEF StandsAlone
<1>2. Len(lv) \in Nat
    BY <1>1, LenProperties
<1>3. new = [lv EXCEPT ![i] = shrunk]
    BY DEF RemoveFrom
<1>a. lv[i] \in Level /\ lv[i].orders \in Seq(Nat) /\ Len(lv[i].orders) \in Nat /\ lv[i].total \in Int
    BY <1>1, LevelParts
<1>b. /\ RemoveAt(lv[i].orders, p) \in Seq(Nat)
      /\ Len(RemoveAt(lv[i].orders, p)) = Len(lv[i].orders) - 1
      /\ \A j \in 1..(Len(lv[i].orders) - 1) :
           RemoveAt(lv[i].orders, p)[j] = IF j < p THEN lv[i].orders[j] ELSE lv[i].orders[j + 1]
  <2>1. lv[i].orders \in Seq(Nat) /\ p \in 1..Len(lv[i].orders)
      BY <1>1, <1>a
  <2> HIDE DEF i, p
  <2>2. QED
      BY <2>1, RemoveAtElements
<1>c. /\ shrunk \in Level /\ shrunk.price = lv[i].price
      /\ shrunk.orders = RemoveAt(lv[i].orders, p)
  <2>1. RemoveAt(lv[i].orders, p) \in Seq(Nat) /\ lv[i] \in Level /\ lv[i].total - remaining \in Int
      BY <1>a, <1>b
  <2>2. QED
      BY <2>1 DEF Level
<1> HIDE DEF shrunk, new, p, i
<1>4. /\ new \in Seq(Level) /\ Len(new) = Len(lv)
      /\ \A k \in 1..Len(lv) : new[k] = IF k = i THEN shrunk ELSE lv[k]
    BY <1>1, <1>3, <1>c, ExceptSeq
<1>5. to = Reindex([idx EXCEPT ![o] = Nowhere], side, new, {i})
    BY <1>4 DEF IndexAfterRemove
<1>6. /\ Len(new[i].orders) = Len(lv[i].orders) - 1
      /\ \A j \in 1..Len(new[i].orders) :
           /\ was(j) \in 1..Len(lv[i].orders) /\ was(j) # p
           /\ new[i].orders[j] = lv[i].orders[was(j)]
  <2>1. Len(new[i].orders) = Len(lv[i].orders) - 1
    <3>1. new[i].orders = RemoveAt(lv[i].orders, p)
        BY <1>1, <1>4, <1>c
    <3>2. QED
        BY <1>b, <3>1
  <2>2. ASSUME NEW j \in 1..Len(new[i].orders)
        PROVE  /\ was(j) \in 1..Len(lv[i].orders) /\ was(j) # p
               /\ new[i].orders[j] = lv[i].orders[was(j)]
    <3> DEFINE size == Len(lv[i].orders)
    <3>a. j \in 1..(size - 1) /\ size \in Nat
        BY <1>a, <2>1
    <3>b. p \in 1..size
        BY <1>1
    <3> HIDE DEF size
    <3>c. was(j) \in 1..size /\ was(j) # p
        BY <3>a, <3>b
    <3>1. was(j) \in 1..Len(lv[i].orders) /\ was(j) # p /\ j \in 1..(Len(lv[i].orders) - 1)
        BY <3>a, <3>c DEF size
    <3>2. new[i].orders = RemoveAt(lv[i].orders, p)
        BY <1>1, <1>4, <1>c
    <3>3. RemoveAt(lv[i].orders, p)[j] = lv[i].orders[was(j)]
        BY <1>b, <3>1
    <3>4. QED
        BY <3>1, <3>2, <3>3
  <2>3. QED
      BY <2>1, <2>2
<1>7. \A j, m \in 1..Len(new[i].orders) : was(j) = was(m) => j = m
  <2>1. p \in Nat /\ Len(new[i].orders) \in Nat
      BY <1>1, <1>a, <1>6
  <2>2. \A j, m \in Nat : was(j) = was(m) => j = m
      BY <2>1
  <2>3. QED
      BY <2>1, <2>2
<1>8. \A m \in 1..Len(lv[i].orders) : m # p => \E j \in 1..Len(new[i].orders) : was(j) = m
  <2>1. TAKE m \in 1..Len(lv[i].orders)
  <2>2. HAVE m # p
  <2>3. CASE m < p
    <3>1. m \in 1..Len(new[i].orders) /\ was(m) = m
        BY <1>1, <1>a, <1>6, <2>3
    <3>2. QED
        BY <3>1
  <2>4. CASE m > p
    <3>1. m - 1 \in 1..Len(new[i].orders) /\ was(m - 1) = m
        BY <1>1, <1>a, <1>6, <2>4
    <3>2. QED
        BY <3>1
  <2>5. QED
      BY <1>1, <1>a, <2>2, <2>3, <2>4
<1> HIDE DEF was, to
<1>9. NoEmptyLevel(new)
  <2>1. SUFFICES ASSUME NEW k \in 1..Len(new) PROVE new[k].orders # <<>>
      BY DEF NoEmptyLevel
  <2>2. CASE k = i
    <3>1. Len(lv[i].orders) # 1 /\ Len(lv[i].orders) # 0
        BY <1>1, <1>a DEF i
    <3>2. Len(new[i].orders) # 0
        BY <1>6, <1>a, <3>1
    <3>3. QED
        BY <2>2, <3>2
  <2>3. CASE k # i
      BY <1>4, <2>3 DEF Sound
  <2>4. QED
      BY <2>2, <2>3
<1>10. \A k \in 1..Len(new) : \A j \in 1..Len(new[k].orders) :
         LET m == IF k = i THEN was(j) ELSE j
         IN  /\ k \in 1..Len(lv) /\ m \in 1..Len(lv[k].orders)
             /\ new[k].orders[j] = lv[k].orders[m] /\ lv[k].orders[m] # o
             /\ new[k].price = lv[k].price
  <2>1. TAKE k \in 1..Len(new)
  <2>2. TAKE j \in 1..Len(new[k].orders)
  <2>3. CASE k = i
      BY <1>1, <1>4, <1>6, <1>c, <2>3
  <2>4. CASE k # i
      BY <1>1, <1>4, <2>4
  <2>5. QED
      BY <2>3, <2>4
<1>11. Unique(new)
  <2>1. SUFFICES ASSUME NEW k \in 1..Len(new), NEW n \in 1..Len(new),
                        NEW j \in 1..Len(new[k].orders), NEW m \in 1..Len(new[n].orders),
                        new[k].orders[j] = new[n].orders[m]
                 PROVE  k = n /\ j = m
      BY DEF Unique
  <2>2. k = n /\ (IF k = i THEN was(j) ELSE j) = (IF n = i THEN was(m) ELSE m)
    <3> DEFINE a == IF k = i THEN was(j) ELSE j
               b == IF n = i THEN was(m) ELSE m
    <3>1. /\ k \in 1..Len(lv) /\ a \in 1..Len(lv[k].orders) /\ new[k].orders[j] = lv[k].orders[a]
          /\ n \in 1..Len(lv) /\ b \in 1..Len(lv[n].orders) /\ new[n].orders[m] = lv[n].orders[b]
        BY <1>10
    <3> HIDE DEF a, b
    <3>2. lv[k].orders[a] = lv[n].orders[b]
        BY <2>1, <3>1
    <3>3. Unique(lv)
        BY <1>1
    <3>4. k \in 1..Len(lv) /\ n \in 1..Len(lv)
        BY <3>1
    <3>5. \A x \in 1..Len(lv[k].orders), y \in 1..Len(lv[n].orders) :
            lv[k].orders[x] = lv[n].orders[y] => k = n /\ x = y
        BY <3>3, <3>4 DEF Unique
    <3>6. a \in 1..Len(lv[k].orders) /\ b \in 1..Len(lv[n].orders)
        BY <3>1
    <3>7. k = n /\ a = b
        BY <3>2, <3>5, <3>6
    <3>8. QED
        BY <3>7 DEF a, b
  <2>3. QED
      BY <1>7, <2>2
<1>12. KeptFrom(lv, new, o, {i})
  <2>1. SUFFICES ASSUME NEW k \in 1..Len(new), NEW j \in 1..Len(new[k].orders)
                 PROVE  \E n \in 1..Len(lv) : \E m \in 1..Len(lv[n].orders) :
                          ComesFrom(lv, new, o, {i}, k, j, n, m)
      BY DEF KeptFrom
  <2> DEFINE m == IF k = i THEN was(j) ELSE j
  <2>2. /\ k \in 1..Len(lv) /\ m \in 1..Len(lv[k].orders)
        /\ new[k].orders[j] = lv[k].orders[m] /\ lv[k].orders[m] # o
        /\ new[k].price = lv[k].price
      BY <1>10
  <2>3. ComesFrom(lv, new, o, {i}, k, j, k, m)
      BY <2>2 DEF ComesFrom
  <2>4. QED
      BY <2>2, <2>3
<1>13. KeepsOthers(lv, new, o)
  <2>1. SUFFICES ASSUME NEW k \in 1..Len(lv), NEW m \in 1..Len(lv[k].orders), lv[k].orders[m] # o
                 PROVE  \E n \in 1..Len(new) : \E j \in 1..Len(new[n].orders) : new[n].orders[j] = lv[k].orders[m]
      BY DEF KeepsOthers
  <2>2. k \in 1..Len(new)
      BY <1>4
  <2>3. CASE k = i
    <3>1. PICK j \in 1..Len(new[i].orders) : was(j) = m
        BY <1>1, <1>8, <2>1, <2>3
    <3>2. new[i].orders[j] = lv[k].orders[m]
        BY <1>6, <2>3, <3>1
    <3>3. QED
        BY <2>2, <2>3, <3>2
  <2>4. CASE k # i
      BY <1>4, <2>2, <2>4
  <2>5. QED
      BY <2>3, <2>4
<1>14. Removed(lv, new, idx, to, side, D, o)
  <2>1. {i} \in SUBSET (1..Len(new))
      BY <1>1, <1>4
  <2>2. QED
      BY <1>4, <1>5, <1>9, <1>11, <1>12, <1>13, <2>1, ReindexAfterRemoval
<1>15. Sorted(new, side)
    BY <1>4, <1>c DEF Sorted
<1>16. QED
    BY <1>14, <1>15 DEF i, new, to

\* removeOrder keeps the side sound and sorted, and takes out just that order.
LEMMA RemoveKeepsSound ==
    ASSUME NEW D \in SUBSET Nat, NEW idx \in [D -> Location], NEW side \in Side,
           NEW lv, Sound(lv, idx, side, D), Sorted(lv, side),
           NEW o \in D, idx[o] # Nowhere, idx[o].side = side, NEW remaining \in Int
    PROVE  LET i == idx[o].level
               new == RemoveFrom(lv, i, o, remaining)
               to == IndexAfterRemove(idx, side, lv, new, i, o)
           IN  Removed(lv, new, idx, to, side, D, o) /\ Sorted(new, side)
<1>1. CASE Len(lv[idx[o].level].orders) = 1
    BY <1>1, CloseKeepsSound
<1>2. CASE Len(lv[idx[o].level].orders) # 1
    BY <1>2, ShrinkKeepsSound
<1>3. QED
    BY <1>1, <1>2

-----------------------------------------------------------------------------
(* The inductive invariant                                                  *)

BookInv == \A side \in Side : Sound(levels[side], index, side, Ids) /\ Sorted(levels[side], side)

\* Order x stands in a level of this side with this price.
Standing(lv, side, x, price) ==
    \E i \in 1..Len(lv[side]) : \E j \in 1..Len(lv[side][i].orders) :
        lv[side][i].orders[j] = x /\ lv[side][i].price = price

LiveAt(side, x, price) ==
    /\ x \in 1..Len(orders)
    /\ orders[x].side = side /\ orders[x].price = price
    /\ StaysInBook(x) /\ x # taker
    /\ filled[x] < orders[x].quantity \/ RecoveredSpent(x)

Live == \A side \in Side, x \in Ids, price \in Nat :
            Standing(levels, side, x, price) => LiveAt(side, x, price)

\* A market order has no price and every other order has one.
Priced == \A o \in 1..Len(orders) : orders[o].kind[1] = "market" <=> orders[o].price = NoPrice

\* An order that did not arrive yet has no fills.
Fresh == \A o \in Ids : o > Len(orders) => filled[o] = 0

IInv == TypeOK /\ BookInv /\ Live /\ Priced /\ NoOverfill /\ Fresh

\* What the bounds give.
LEMMA Bounds ==
    /\ Ids \in SUBSET Nat /\ \A o \in Ids : o > 0
    /\ Prices \in SUBSET Nat /\ NoPrice \in Nat /\ NoPrice \notin Prices
    /\ Quantities \in SUBSET Nat /\ \A q \in Quantities : q > 0
    /\ Side = {"buy", "sell"}
BY BoundsAssumption DEF Ids, Prices, NoPrice, Quantities, Side

-----------------------------------------------------------------------------
(* The three ways the book changes                                          *)

\* The book stays in order and gains at most order o, at this price.
BookAdds(o, s, p) ==
    /\ levels' \in [Side -> Seq(Level)] /\ index' \in [Ids -> Location] /\ BookInv'
    /\ \A side \in Side, x \in Ids, price \in Nat :
         Standing(levels', side, x, price) =>
             Standing(levels, side, x, price) \/ (x = o /\ side = s /\ price = p)

\* The book stays in order and loses order o.
BookLoses(o) ==
    /\ levels' \in [Side -> Seq(Level)] /\ index' \in [Ids -> Location] /\ BookInv'
    /\ \A side \in Side, x \in Ids, price \in Nat :
         Standing(levels', side, x, price) => Standing(levels, side, x, price) /\ x # o

\* addOrder
LEMMA AddStep ==
    ASSUME TypeOK, BookInv, NEW o \in Ids, index[o] = Nowhere,
           NEW order, order.side \in Side, order.price \in Nat,
           NEW remaining \in Int, AddOrder(o, order, remaining)
    PROVE  BookAdds(o, order.side, order.price)
<1> DEFINE s == order.side
           lv == levels[s]
<1>1. PICK l \in 1..(Len(lv) + 1) :
        /\ IsInsertionPoint(lv, s, order.price, l)
        /\ LET new == AddAt(lv, l, order.price, o, remaining)
           IN  /\ levels' = [levels EXCEPT ![s] = new]
               /\ index' = IndexAfterAdd(index, s, lv, new, l, o)
    BY DEF AddOrder
<1> DEFINE new == AddAt(lv, l, order.price, o, remaining)
<1>2. Sound(lv, index, s, Ids) /\ Sorted(lv, s)
    BY DEF BookInv
<1>3. index \in [Ids -> Location] /\ levels \in [Side -> Seq(Level)]
    BY DEF TypeOK
<1>4. Added(lv, new, index, index', s, Ids, o, order.price)
    BY <1>1, <1>2, <1>3, Bounds, AddKeepsSound
<1>5. levels' = [levels EXCEPT ![s] = new]
    BY <1>1
<1> HIDE DEF new
<1>6. /\ Sound(new, index', s, Ids) /\ Sorted(new, s) /\ index' \in [Ids -> Location]
      /\ ChangedOn(s, index, index', Ids) /\ From(lv, new, o, order.price)
    BY <1>4 DEF Added
<1>7. new \in Seq(Level)
    BY <1>6 DEF Sound
<1>8. levels' \in [Side -> Seq(Level)] /\ levels'[s] = new
      /\ \A side \in Side : side # s => levels'[side] = levels[side]
    BY <1>3, <1>5, <1>7
<1>9. BookInv'
  <2>1. SUFFICES ASSUME NEW side \in Side
                 PROVE  Sound(levels'[side], index', side, Ids) /\ Sorted(levels'[side], side)
      BY DEF BookInv
  <2>2. CASE side = s
      BY <1>6, <1>8, <2>2
  <2>3. CASE side # s
    <3>1. levels'[side] = levels[side] /\ Sound(levels[side], index, side, Ids) /\ Sorted(levels[side], side)
        BY <1>8, <2>3 DEF BookInv
    <3>2. Sound(levels[side], index', side, Ids)
        BY <1>6, <2>3, <3>1, OtherSideSound
    <3>3. QED
        BY <3>1, <3>2
  <2>4. QED
      BY <2>2, <2>3
<1>10. ASSUME NEW side \in Side, NEW x \in Ids, NEW price \in Nat, Standing(levels', side, x, price)
       PROVE  Standing(levels, side, x, price) \/ (x = o /\ side = s /\ price = order.price)
  <2>1. CASE side # s
      BY <1>8, <1>10, <2>1 DEF Standing
  <2>2. CASE side = s
    <3>1. PICK i \in 1..Len(new) : \E j \in 1..Len(new[i].orders) :
                 new[i].orders[j] = x /\ new[i].price = price
        BY <1>8, <1>10, <2>2 DEF Standing
    <3>2. PICK j \in 1..Len(new[i].orders) : new[i].orders[j] = x /\ new[i].price = price
        BY <3>1
    <3>3. \/ new[i].orders[j] = o /\ new[i].price = order.price
          \/ \E k \in 1..Len(lv) : \E m \in 1..Len(lv[k].orders) :
               lv[k].orders[m] = new[i].orders[j] /\ lv[k].price = new[i].price
        BY <1>6 DEF From
    <3>4. CASE new[i].orders[j] = o /\ new[i].price = order.price
        BY <2>2, <3>2, <3>4
    <3>5. CASE \E k \in 1..Len(lv) : \E m \in 1..Len(lv[k].orders) :
                 lv[k].orders[m] = new[i].orders[j] /\ lv[k].price = new[i].price
      <4>1. \E k \in 1..Len(lv) : \E m \in 1..Len(lv[k].orders) :
              lv[k].orders[m] = x /\ lv[k].price = price
          BY <3>2, <3>5
      <4>2. QED
          BY <2>2, <4>1 DEF Standing
    <3>6. QED
        BY <3>3, <3>4, <3>5
  <2>3. QED
      BY <2>1, <2>2
<1>11. QED
    BY <1>6, <1>8, <1>9, <1>10 DEF BookAdds

\* removeOrder
LEMMA RemoveStep ==
    ASSUME TypeOK, BookInv, NEW o \in Ids, index[o] # Nowhere,
           NEW s \in Side, s = index[o].side, NEW remaining \in Int, RemoveOrder(o, s, remaining)
    PROVE  BookLoses(o)
<1> DEFINE lv == levels[s]
           new == RemoveFrom(lv, index[o].level, o, remaining)
<1>1. /\ levels' = [levels EXCEPT ![s] = new]
      /\ index' = IndexAfterRemove(index, s, lv, new, index[o].level, o)
    BY DEF RemoveOrder
<1>2. Sound(lv, index, s, Ids) /\ Sorted(lv, s)
    BY DEF BookInv
<1>3. index \in [Ids -> Location] /\ levels \in [Side -> Seq(Level)]
    BY DEF TypeOK
<1>4. Removed(lv, new, index, index', s, Ids, o) /\ Sorted(new, s)
    BY <1>1, <1>2, <1>3, Bounds, RemoveKeepsSound
<1> HIDE DEF new
<1>5. /\ Sound(new, index', s, Ids) /\ index' \in [Ids -> Location]
      /\ ChangedOn(s, index, index', Ids) /\ KeptFrom(lv, new, o, 1..Len(new))
    BY <1>4 DEF Removed
<1>6. new \in Seq(Level)
    BY <1>5 DEF Sound
<1>7. levels' \in [Side -> Seq(Level)] /\ levels'[s] = new
      /\ \A side \in Side : side # s => levels'[side] = levels[side]
    BY <1>1, <1>3, <1>6
<1>8. BookInv'
  <2>1. SUFFICES ASSUME NEW side \in Side
                 PROVE  Sound(levels'[side], index', side, Ids) /\ Sorted(levels'[side], side)
      BY DEF BookInv
  <2>2. CASE side = s
      BY <1>4, <1>5, <1>7, <2>2
  <2>3. CASE side # s
    <3>1. levels'[side] = levels[side] /\ Sound(levels[side], index, side, Ids) /\ Sorted(levels[side], side)
        BY <1>7, <2>3 DEF BookInv
    <3>2. Sound(levels[side], index', side, Ids)
        BY <1>5, <2>3, <3>1, OtherSideSound
    <3>3. QED
        BY <3>1, <3>2
  <2>4. QED
      BY <2>2, <2>3
<1>9. ASSUME NEW side \in Side, NEW x \in Ids, NEW price \in Nat, Standing(levels', side, x, price)
      PROVE  Standing(levels, side, x, price) /\ x # o
  <2>1. CASE side # s
    <3>1. Standing(levels, side, x, price)
        BY <1>7, <1>9, <2>1 DEF Standing
    <3>2. PICK i \in 1..Len(levels[side]) : \E j \in 1..Len(levels[side][i].orders) : levels[side][i].orders[j] = x
        BY <3>1 DEF Standing
    <3>3. index[x] = At(side, i, CHOOSE j \in 1..Len(levels[side][i].orders) : levels[side][i].orders[j] = x)
        BY <3>2 DEF BookInv, Sound
    <3>4. index[x].side = side
        BY <3>3, AtParts
    <3>5. QED
        BY <2>1, <3>1, <3>4
  <2>2. CASE side = s
    <3>1. PICK i \in 1..Len(new) : \E j \in 1..Len(new[i].orders) :
                 new[i].orders[j] = x /\ new[i].price = price
        BY <1>7, <1>9, <2>2 DEF Standing
    <3>2. PICK j \in 1..Len(new[i].orders) : new[i].orders[j] = x /\ new[i].price = price
        BY <3>1
    <3>3. PICK k \in 1..Len(lv) : \E m \in 1..Len(lv[k].orders) : ComesFrom(lv, new, o, 1..Len(new), i, j, k, m)
        BY <1>5 DEF KeptFrom
    <3>4. PICK m \in 1..Len(lv[k].orders) : ComesFrom(lv, new, o, 1..Len(new), i, j, k, m)
        BY <3>3
    <3>5. lv[k].orders[m] = x /\ x # o /\ lv[k].price = price
        BY <3>2, <3>4 DEF ComesFrom
    <3>6. QED
        BY <2>2, <3>5 DEF Standing
  <2>3. QED
      BY <2>1, <2>2
<1>10. QED
    BY <1>5, <1>7, <1>8, <1>9 DEF BookLoses

\* A level's aggregate changes and nothing else.
LEMMA TotalStep ==
    ASSUME TypeOK, BookInv, NEW s \in Side, NEW l \in 1..Len(levels[s]), NEW total \in Int,
           levels' = [levels EXCEPT ![s][l].total = total], index' = index
    PROVE  /\ levels' \in [Side -> Seq(Level)] /\ BookInv'
           /\ \A side \in Side, x \in Ids, price \in Nat :
                Standing(levels', side, x, price) => Standing(levels, side, x, price)
<1> DEFINE changed == [levels[s][l] EXCEPT !.total = total]
           new == [levels[s] EXCEPT ![l] = changed]
<1>1. levels \in [Side -> Seq(Level)] /\ levels[s] \in Seq(Level)
    BY DEF TypeOK
<1>2. levels' = [levels EXCEPT ![s] = new]
    BY <1>1
<1>3. levels[s][l] \in Level
    BY <1>1, LevelParts
<1>4. changed \in Level /\ changed.price = levels[s][l].price /\ changed.orders = levels[s][l].orders
    BY <1>3 DEF Level
<1> HIDE DEF changed
<1>5. /\ new \in Seq(Level) /\ Len(new) = Len(levels[s])
      /\ \A i \in 1..Len(levels[s]) : new[i] = IF i = l THEN changed ELSE levels[s][i]
    BY <1>1, <1>4, ExceptSeq
<1> HIDE DEF new
<1>6. /\ levels' \in [Side -> Seq(Level)] /\ levels'[s] = new
      /\ \A side \in Side : side # s => levels'[side] = levels[side]
    BY <1>1, <1>2, <1>5
<1>7. ASSUME NEW side \in Side
      PROVE  /\ Len(levels'[side]) = Len(levels[side])
             /\ \A i \in 1..Len(levels[side]) :
                  levels'[side][i].price = levels[side][i].price /\ levels'[side][i].orders = levels[side][i].orders
  <2>1. CASE side = s
      BY <1>4, <1>5, <1>6, <2>1
  <2>2. CASE side # s
      BY <1>6, <2>2
  <2>3. QED
      BY <2>1, <2>2
<1>8. BookInv'
  <2>1. SUFFICES ASSUME NEW side \in Side
                 PROVE  Sound(levels'[side], index', side, Ids) /\ Sorted(levels'[side], side)
      BY DEF BookInv
  <2>2. Sound(levels[side], index, side, Ids) /\ Sorted(levels[side], side)
      BY DEF BookInv
  <2>3. Sorted(levels'[side], side)
      BY <1>7, <2>2 DEF Sorted
  <2>4. ASSUME NEW x \in Ids, index[x] # Nowhere, index[x].side = side
        PROVE  Stands(levels'[side], x, index[x].level, index[x].pos)
    <3>1. Stands(levels[side], x, index[x].level, index[x].pos)
        BY <2>2, <2>4 DEF Sound
    <3>2. QED
        BY <1>7, <3>1 DEF Stands
  <2>5. Sound(levels'[side], index', side, Ids)
    <3>1. levels'[side] \in Seq(Level)
        BY <1>6
    <3>2. ASSUME NEW i \in 1..Len(levels'[side])
          PROVE  /\ levels'[side][i].orders # <<>>
                 /\ \A j \in 1..Len(levels'[side][i].orders) :
                      /\ levels'[side][i].orders[j] \in Ids
                      /\ index'[levels'[side][i].orders[j]] = At(side, i, j)
      <4>1. i \in 1..Len(levels[side]) /\ levels'[side][i].orders = levels[side][i].orders
          BY <1>7
      <4>2. QED
          BY <2>2, <4>1 DEF Sound
    <3>3. QED
        BY <2>4, <3>1, <3>2 DEF Sound
  <2>6. QED
      BY <2>3, <2>5
<1>9. \A side \in Side, x \in Ids, price \in Nat :
        Standing(levels', side, x, price) => Standing(levels, side, x, price)
    BY <1>7 DEF Standing
<1>10. QED
    BY <1>6, <1>8, <1>9

-----------------------------------------------------------------------------
(* What the invariant says of an order                                      *)

\* The parts of an order that arrived.
LEMMA OrderFields ==
    ASSUME TypeOK, NEW o \in 1..Len(orders)
    PROVE  /\ o \in Ids /\ o \in Nat /\ filled[o] \in Nat
           /\ orders[o] \in Order /\ orders[o].side \in Side
           /\ orders[o].price \in Nat /\ orders[o].price \in Prices \cup {NoPrice}
           /\ orders[o].quantity \in Nat /\ orders[o].quantity > 0
           /\ orders[o].kind \in AllKinds
           /\ Remaining(o) \in Int
<1>1. orders \in Seq(Order) /\ Len(orders) <= MaxOrders /\ Len(orders) \in Nat
    BY LenProperties DEF TypeOK
<1>2. orders[o] \in Order
    BY <1>1, ElementOfSeq
<1>3. o \in Ids /\ o \in Nat
    BY <1>1, BoundsAssumption DEF Ids
<1>4. filled[o] \in Nat
    BY <1>3 DEF TypeOK
<1>5. /\ orders[o].side \in Side /\ orders[o].price \in Prices \cup {NoPrice}
      /\ orders[o].quantity \in Quantities /\ orders[o].kind \in AllKinds
    BY <1>2 DEF Order
<1>6. orders[o].quantity \in Nat /\ orders[o].quantity > 0
    BY <1>5, Bounds
<1>7. orders[o].price \in Nat
    BY <1>5, Bounds
<1>8. Remaining(o) \in Int
    BY <1>4, <1>6 DEF Remaining
<1>9. QED
    BY <1>2, <1>3, <1>4, <1>5, <1>6, <1>7, <1>8

\* A new order takes the next id.
LEMMA NewOrder ==
    ASSUME TypeOK, NEW order \in Order, Len(orders) < MaxOrders
    PROVE  /\ Append(orders, order) \in Seq(Order)
           /\ Len(orders) \in Nat
           /\ Len(Append(orders, order)) = Len(orders) + 1
           /\ Len(orders) + 1 <= MaxOrders
           /\ Len(orders) + 1 \in Ids
           /\ Append(orders, order)[Len(orders) + 1] = order
           /\ \A x \in 1..Len(orders) : Append(orders, order)[x] = orders[x]
<1>1. orders \in Seq(Order) /\ Len(orders) \in Nat
    BY LenProperties DEF TypeOK
<1>2. /\ Append(orders, order) \in Seq(Order)
      /\ Len(Append(orders, order)) = Len(orders) + 1
      /\ \A x \in 1..(Len(orders) + 1) :
           Append(orders, order)[x] = IF x <= Len(orders) THEN orders[x] ELSE order
    BY <1>1, AppendProperties
<1>3. Len(orders) + 1 <= MaxOrders /\ Len(orders) + 1 \in Ids
    BY <1>1, BoundsAssumption DEF Ids
<1>4. QED
    BY <1>1, <1>2, <1>3

\* An indexed order stands in its side's book and is live.
LEMMA RestingIsLive ==
    ASSUME IInv, NEW o \in Ids, index[o] # Nowhere
    PROVE  /\ o \in 1..Len(orders) /\ o # taker
           /\ orders[o].side \in Side /\ index[o].side = orders[o].side
           /\ StaysInBook(o)
<1> DEFINE s == index[o].side
<1>1. index[o] \in Location /\ s \in Side
    BY DEF IInv, TypeOK, Location
<1>2. Stands(levels[s], o, index[o].level, index[o].pos)
    BY <1>1 DEF IInv, BookInv, Sound
<1>3. PICK i \in 1..Len(levels[s]) : \E j \in 1..Len(levels[s][i].orders) : levels[s][i].orders[j] = o
    BY <1>2 DEF Stands
<1>4. levels[s] \in Seq(Level)
    BY <1>1 DEF IInv, TypeOK
<1>5. levels[s][i].price \in Nat
    BY <1>3, <1>4, LevelParts
<1>6. Standing(levels, s, o, levels[s][i].price)
    BY <1>3 DEF Standing
<1>7. LiveAt(s, o, levels[s][i].price)
    BY <1>1, <1>5, <1>6 DEF IInv, Live
<1>8. QED
    BY <1>1, <1>7 DEF LiveAt

\* What stands at a slot of a side is indexed there and live.
LEMMA SlotIsLive ==
    ASSUME IInv, NEW s \in Side, NEW i \in 1..Len(levels[s]), NEW j \in 1..Len(levels[s][i].orders)
    PROVE  LET o == levels[s][i].orders[j]
           IN  /\ o \in Ids /\ index[o] = At(s, i, j) /\ index[o] # Nowhere /\ index[o].side = s
               /\ levels[s][i].price \in Nat
               /\ LiveAt(s, o, levels[s][i].price)
<1> DEFINE o == levels[s][i].orders[j]
<1>1. Sound(levels[s], index, s, Ids)
    BY DEF IInv, BookInv
<1>2. o \in Ids /\ index[o] = At(s, i, j) /\ levels[s] \in Seq(Level)
    BY <1>1 DEF Sound
<1>3. i \in Nat \ {0} /\ levels[s][i].price \in Nat
    BY <1>2, LevelParts, LenProperties
<1>4. index[o] # Nowhere /\ index[o].side = s
    BY <1>2, <1>3, AtParts
<1>5. Standing(levels, s, o, levels[s][i].price)
    BY DEF Standing
<1>6. LiveAt(s, o, levels[s][i].price)
    BY <1>2, <1>3, <1>5 DEF IInv, Live
<1>7. QED
    BY <1>2, <1>3, <1>4, <1>6

\* An order that may rest has a price.
LEMMA RestingPrice ==
    ASSUME IInv, NEW o \in 1..Len(orders), StaysInBook(o)
    PROVE  orders[o].price \in Prices
<1>1. orders[o].kind[1] = "limit"
    BY DEF StaysInBook
<1>2. orders[o].price # NoPrice
    BY <1>1 DEF IInv, Priced
<1>3. QED
    BY <1>2, OrderFields DEF IInv

DepthOf == [quantity : Int, orderCount : Nat]

\* A snapshot shows a depth at every price.
LEMMA SnapshotType ==
    ASSUME NEW lv \in Seq(Level)
    PROVE  Snapshot(lv, Prices) \in [Prices -> DepthOf]
<1>1. SUFFICES ASSUME NEW p \in Prices
               PROVE  Snapshot(lv, Prices)[p] \in DepthOf
    BY DEF Snapshot
<1> DEFINE at == {i \in DOMAIN lv : lv[i].price = p}
<1>2. CASE at = {}
    BY <1>2 DEF Snapshot, Depth, DepthOf
<1>3. CASE at # {}
  <2>1. (CHOOSE i \in at : TRUE) \in at
      BY <1>3
  <2>2. PICK i \in DOMAIN lv : i = CHOOSE k \in at : TRUE
      BY <2>1
  <2>3. i \in 1..Len(lv)
      BY LenProperties
  <2>4. lv[i].total \in Int /\ Len(lv[i].orders) \in Nat
      BY <2>3, LevelParts
  <2>5. Snapshot(lv, Prices)[p] = Depth(lv[i].total, Len(lv[i].orders))
      BY <1>3, <2>2 DEF Snapshot
  <2>6. QED
      BY <2>4, <2>5 DEF Depth, DepthOf
<1>4. QED
    BY <1>2, <1>3

\* A book_update leaves the feed well formed.
LEMMA UpdateType ==
    ASSUME TypeOK, NEW s \in Side, NEW p, NEW quantity \in Int, NEW count \in Nat,
           BookUpdate(s, p, quantity, count)
    PROVE  feed' \in [Side -> [Prices -> DepthOf]]
<1>1. feed \in [Side -> [Prices -> DepthOf]]
    BY DEF TypeOK, DepthOf
<1>2. Depth(quantity, count) \in DepthOf
    BY DEF Depth, DepthOf
<1>3. [feed[s] EXCEPT ![p] = Depth(quantity, count)] \in [Prices -> DepthOf]
    BY <1>1, <1>2
<1>4. feed' = [feed EXCEPT ![s] = [feed[s] EXCEPT ![p] = Depth(quantity, count)]]
    BY DEF BookUpdate
<1>5. QED
    BY <1>1, <1>3, <1>4

\* addOrder starts the drift of a level that it opens.
LEMMA AddDrift ==
    ASSUME TypeOK, NEW o, NEW order, NEW remaining, AddOrder(o, order, remaining)
    PROVE  drift' \in [Side -> [Prices -> Nat]]
<1>1. drift \in [Side -> [Prices -> Nat]]
    BY DEF TypeOK
<1>2. drift' = drift \/ drift' = [drift EXCEPT ![order.side][order.price] = 0]
    BY DEF AddOrder
<1>3. [drift[order.side] EXCEPT ![order.price] = 0] \in [Prices -> Nat] \/ order.side \notin Side
    BY <1>1
<1>4. QED
    BY <1>1, <1>2, <1>3

\* A trade adds to the drift of its level.
LEMMA TradeDrift ==
    ASSUME TypeOK, NEW s \in Side, NEW p \in Prices, NEW q \in Nat,
           drift' = [drift EXCEPT ![s][p] = @ + q]
    PROVE  /\ drift' \in [Side -> [Prices -> Nat]]
           /\ drift'[s][p] = drift[s][p] + q
           /\ \A side \in Side, x \in Prices : side # s \/ x # p => drift'[side][x] = drift[side][x]
<1>1. drift \in [Side -> [Prices -> Nat]]
    BY DEF TypeOK
<1> DEFINE new == [drift[s] EXCEPT ![p] = drift[s][p] + q]
<1>2. /\ new \in [Prices -> Nat] /\ new[p] = drift[s][p] + q
      /\ \A x \in Prices : x # p => new[x] = drift[s][x]
  <2>1. drift[s] \in [Prices -> Nat] /\ drift[s][p] + q \in Nat
      BY <1>1
  <2>2. QED
      BY <2>1
<1>3. drift' = [drift EXCEPT ![s] = new]
    OBVIOUS
<1> HIDE DEF new
<1>4. QED
    BY <1>1, <1>2, <1>3

-----------------------------------------------------------------------------
(* The initial state and every step                                         *)

LEMMA InitInv == Init => IInv
<1> SUFFICES ASSUME Init PROVE IInv
    OBVIOUS
<1>1. TypeOK
  <2>1. /\ orders \in Seq(Order) /\ Len(orders) <= MaxOrders
        /\ filled \in [Ids -> Nat] /\ result \in [Ids -> Result]
        /\ levels \in [Side -> Seq(Level)] /\ trades \in Seq(Trade)
        /\ serving \in BOOLEAN /\ taker = NoId /\ announced \subseteq Ids
    <3>1. <<>> \in Seq(Order) /\ <<>> \in Seq(Level) /\ <<>> \in Seq(Trade) /\ Len(<<>>) = 0
        BY EmptySeq
    <3>2. orders \in Seq(Order) /\ Len(orders) <= MaxOrders
        BY <3>1, BoundsAssumption DEF Init
    <3>3. trades \in Seq(Trade) /\ levels \in [Side -> Seq(Level)]
        BY <3>1 DEF Init
    <3>4. QED
        BY <3>2, <3>3 DEF Init, Result
  <2>2. index \in [Ids -> Location]
      BY DEF Init, Nowhere, At, Location, Side
  <2>3. cursor \in [level : Nat \ {0}, pos : Nat \ {0}]
      BY DEF Init, FirstSlot
  <2>4. feed \in [Side -> [Prices -> [quantity : Int, orderCount : Nat]]]
      BY DEF Init, Depth
  <2>5. drift \in [Side -> [Prices -> Nat]]
      BY DEF Init
  <2>6. QED
      BY <2>1, <2>2, <2>3, <2>4, <2>5 DEF TypeOK
<1>2. \A side \in Side : levels[side] = <<>> /\ Len(levels[side]) = 0
    BY DEF Init
<1>3. \A o \in Ids : index[o] = Nowhere
    BY DEF Init
<1>4. BookInv
  <2>1. SUFFICES ASSUME NEW side \in Side
                 PROVE  Sound(levels[side], index, side, Ids) /\ Sorted(levels[side], side)
      BY DEF BookInv
  <2>2. levels[side] \in Seq(Level) /\ 1..Len(levels[side]) = {}
    <3>1. <<>> \in Seq(Level) /\ 1..0 = {}
        BY EmptySeq
    <3>2. QED
        BY <1>2, <3>1
  <2>3. QED
      BY <1>3, <2>2 DEF Sound, Sorted
<1>5. Live
    BY <1>2 DEF Live, Standing
<1>6. Len(orders) = 0 /\ 1..Len(orders) = {} /\ DOMAIN orders = {}
    BY DEF Init
<1>7. Priced /\ NoOverfill
    BY <1>6 DEF Priced, NoOverfill
<1>8. Fresh
    BY DEF Init, Fresh
<1>9. QED
    BY <1>1, <1>4, <1>5, <1>7, <1>8 DEF IInv

\* NoOverfill, with the domain of orders as an interval.
LEMMA OverfillDomain ==
    ASSUME orders \in Seq(Order)
    PROVE  NoOverfill <=> \A o \in 1..Len(orders) : filled[o] <= orders[o].quantity
BY LenProperties DEF NoOverfill

LEMMA LoadOrderInv ==
    ASSUME IInv, NEW side \in Side, NEW price \in Prices, NEW quantity \in Quantities,
           NEW carried \in 0..MaxQuantity, LoadOrder(side, price, quantity, carried)
    PROVE  IInv'
<1> DEFINE o == Len(orders) + 1
           order == [side |-> side, kind |-> <<"limit", "GTC">>, price |-> price,
                     quantity |-> quantity, carried |-> carried]
<1>1. order \in Order /\ carried \in Nat /\ quantity \in Nat /\ price \in Nat /\ TypeOK
    BY Bounds, BoundsAssumption DEF Order, AllKinds, IInv
<1>2. /\ order.side = side /\ order.price = price /\ order.quantity = quantity
      /\ order.kind = <<"limit", "GTC">>
    OBVIOUS
<1>3. /\ Len(orders) < MaxOrders /\ carried <= quantity
      /\ orders' = Append(orders, order)
      /\ filled' = [filled EXCEPT ![o] = carried]
      /\ result' = [result EXCEPT ![o] = IF carried > 0 THEN "partially_filled" ELSE "open"]
      /\ AddOrder(o, order, quantity - carried)
      /\ UNCHANGED <<serving, taker, cursor, trades, announced, feed>>
    BY DEF LoadOrder
<1> HIDE DEF order
<1>4. /\ orders' \in Seq(Order) /\ Len(orders) \in Nat /\ Len(orders') = o /\ o <= MaxOrders /\ o \in Ids
      /\ orders'[o] = order /\ (\A x \in 1..Len(orders) : orders'[x] = orders[x])
      /\ o = Len(orders) + 1
    BY <1>1, <1>3, NewOrder
<1> HIDE DEF o
<1>5. index[o] = Nowhere
    BY <1>4, RestingIsLive
<1>6. /\ levels' \in [Side -> Seq(Level)] /\ index' \in [Ids -> Location] /\ BookInv'
      /\ \A sd \in Side, x \in Ids, p \in Nat :
           Standing(levels', sd, x, p) => Standing(levels, sd, x, p) \/ (x = o /\ sd = side /\ p = price)
  <2>1. quantity - carried \in Int
      BY <1>1
  <2>2. order.side \in Side /\ order.price \in Nat
      BY <1>1, <1>2
  <2>3. QED
    <3>1. BookAdds(o, order.side, order.price)
        BY <1>1, <1>3, <1>4, <1>5, <2>1, <2>2, AddStep DEF IInv
    <3>2. QED
        BY <1>2, <3>1 DEF BookAdds
<1>7. /\ filled' \in [Ids -> Nat] /\ filled'[o] = carried
      /\ \A x \in Ids : x # o => filled'[x] = filled[x]
    BY <1>1, <1>3, <1>4 DEF TypeOK
<1>8. TypeOK'
  <2>1. result' \in [Ids -> Result]
      BY <1>1, <1>3 DEF TypeOK, Result
  <2>2. taker' \in {NoId} \cup 1..Len(orders')
      BY <1>1, <1>3, <1>4 DEF TypeOK
  <2>3. drift' \in [Side -> [Prices -> Nat]]
      BY <1>1, <1>3, AddDrift
  <2>4. QED
      BY <1>1, <1>3, <1>4, <1>6, <1>7, <2>1, <2>2, <2>3 DEF TypeOK
<1>9. Live'
  <2>1. SUFFICES ASSUME NEW sd \in Side, NEW x \in Ids, NEW p \in Nat, Standing(levels', sd, x, p)
                 PROVE  LiveAt(sd, x, p)'
      BY DEF Live, Standing
  <2>2. CASE Standing(levels, sd, x, p)
    <3>1. LiveAt(sd, x, p)
        BY <2>2 DEF IInv, Live
    <3>2. x \in 1..Len(orders) /\ x # o
        BY <1>4, <3>1 DEF LiveAt
    <3>3. x \in 1..Len(orders') /\ orders'[x] = orders[x] /\ filled'[x] = filled[x] /\ taker' = taker
        BY <1>3, <1>4, <1>7, <3>2
    <3>4. QED
        BY <3>1, <3>3 DEF LiveAt, StaysInBook, RecoveredSpent
  <2>3. CASE x = o /\ sd = side /\ p = price
    <3>1. o # taker'
        BY <1>1, <1>3, <1>4 DEF TypeOK, NoId
    <3>2. x \in 1..Len(orders') /\ orders'[x] = order /\ filled'[x] = carried
        BY <1>4, <1>7, <2>3
    <3>3. carried < quantity \/ carried = quantity
        BY <1>1, <1>3
    <3>4. order.carried = carried
        BY DEF order
    <3>5. QED
        BY <1>2, <2>3, <3>1, <3>2, <3>3, <3>4 DEF LiveAt, StaysInBook, RecoveredSpent
  <2>4. QED
      BY <1>6, <2>1, <2>2, <2>3
<1>10. Priced'
  <2>1. SUFFICES ASSUME NEW x \in 1..Len(orders')
                 PROVE  orders'[x].kind[1] = "market" <=> orders'[x].price = NoPrice
      BY DEF Priced
  <2>2. CASE x = o
    <3>1. orders'[x].kind[1] = "limit" /\ orders'[x].price # NoPrice
        BY <1>2, <1>4, <2>2, Bounds
    <3>2. QED
        BY <3>1
  <2>3. CASE x # o
    <3>1. x \in 1..Len(orders)
        BY <1>4, <2>3
    <3>2. QED
        BY <1>4, <3>1 DEF IInv, Priced
  <2>4. QED
      BY <2>2, <2>3
<1>11. NoOverfill'
  <2>1. SUFFICES ASSUME NEW x \in 1..Len(orders')
                 PROVE  filled'[x] <= orders'[x].quantity
      BY <1>4, LenProperties DEF NoOverfill
  <2>2. CASE x = o
      BY <1>1, <1>2, <1>3, <1>4, <1>7, <2>2
  <2>3. CASE x # o
    <3>1. x \in 1..Len(orders) /\ x \in Ids
        BY <1>1, <1>4, <2>3, OrderFields
    <3>2. filled[x] <= orders[x].quantity
        BY <1>1, <3>1, OverfillDomain DEF IInv, TypeOK
    <3>3. QED
        BY <1>4, <1>7, <2>3, <3>1, <3>2
  <2>4. QED
      BY <2>2, <2>3
<1>12. Fresh'
    BY <1>4, <1>7, Bounds DEF IInv, Fresh
<1>13. QED
    BY <1>8, <1>6, <1>9, <1>10, <1>11, <1>12 DEF IInv

LEMMA ServeInv ==
    ASSUME IInv, Serve
    PROVE  IInv'
<1>1. /\ serving' = TRUE
      /\ feed' = [side \in Side |-> Snapshot(levels[side], Prices)]
      /\ UNCHANGED <<orders, filled, result, levels, index, taker, cursor, trades, announced, drift>>
    BY DEF Serve
<1>2. feed' \in [Side -> [Prices -> DepthOf]]
  <2>1. \A side \in Side : levels[side] \in Seq(Level)
      BY DEF IInv, TypeOK
  <2>2. \A side \in Side : Snapshot(levels[side], Prices) \in [Prices -> DepthOf]
      BY <2>1, SnapshotType
  <2>3. QED
      BY <1>1, <2>2
<1>3. TypeOK'
    BY <1>1, <1>2 DEF IInv, TypeOK, DepthOf
<1>4. BookInv' /\ Live' /\ Priced' /\ NoOverfill' /\ Fresh'
    BY <1>1 DEF IInv, BookInv, Live, LiveAt, StaysInBook, RecoveredSpent, Priced, NoOverfill, Fresh
<1>5. QED
    BY <1>3, <1>4 DEF IInv

LEMMA ProcessOrderInv ==
    ASSUME IInv, NEW side \in Side, NEW kind \in Kinds, NEW price \in Prices \cup {NoPrice},
           NEW quantity \in Quantities, ProcessOrder(side, kind, price, quantity)
    PROVE  IInv'
<1> DEFINE o == Len(orders) + 1
           order == [side |-> side, kind |-> kind, price |-> price,
                     quantity |-> quantity, carried |-> 0]
<1>1. order \in Order /\ TypeOK
    BY KindsAssumption DEF Order, IInv
<1>2. order.price = price /\ order.quantity = quantity /\ order.kind = kind
    OBVIOUS
<1>3. /\ Len(orders) < MaxOrders /\ Idle
      /\ ((kind[1] = "market") = (price = NoPrice))
      /\ orders' = Append(orders, order)
      /\ taker' = Len(orders) + 1 /\ cursor' = FirstSlot
      /\ UNCHANGED <<filled, result, levels, index, serving, trades, announced, feed, drift>>
    BY DEF ProcessOrder
<1> HIDE DEF order
<1>4. /\ orders' \in Seq(Order) /\ Len(orders) \in Nat /\ Len(orders') = o /\ o <= MaxOrders /\ o \in Ids
      /\ orders'[o] = order /\ (\A x \in 1..Len(orders) : orders'[x] = orders[x])
      /\ o = Len(orders) + 1
    BY <1>1, <1>3, NewOrder
<1> HIDE DEF o
<1>5. TypeOK'
  <2>1. taker' \in {NoId} \cup 1..Len(orders')
      BY <1>3, <1>4
  <2>2. cursor' \in [level : Nat \ {0}, pos : Nat \ {0}]
      BY <1>3 DEF FirstSlot
  <2>3. QED
      BY <1>1, <1>3, <1>4, <2>1, <2>2 DEF TypeOK
<1>6. BookInv'
    BY <1>3 DEF IInv, BookInv
<1>7. Live'
  <2>1. SUFFICES ASSUME NEW sd \in Side, NEW x \in Ids, NEW p \in Nat, Standing(levels', sd, x, p)
                 PROVE  LiveAt(sd, x, p)'
      BY DEF Live, Standing
  <2>2. LiveAt(sd, x, p)
      BY <1>3, <2>1 DEF IInv, Live
  <2>3. x \in 1..Len(orders) /\ x # taker' /\ x \in 1..Len(orders') /\ orders'[x] = orders[x]
      BY <1>3, <1>4, <2>2 DEF LiveAt
  <2>4. QED
      BY <1>3, <2>2, <2>3 DEF LiveAt, StaysInBook, RecoveredSpent
<1>8. Priced'
  <2>1. SUFFICES ASSUME NEW x \in 1..Len(orders')
                 PROVE  orders'[x].kind[1] = "market" <=> orders'[x].price = NoPrice
      BY DEF Priced
  <2>2. CASE x = o
      BY <1>2, <1>3, <1>4, <2>2
  <2>3. CASE x # o
    <3>1. x \in 1..Len(orders)
        BY <1>4, <2>3
    <3>2. QED
        BY <1>4, <3>1 DEF IInv, Priced
  <2>4. QED
      BY <2>2, <2>3
<1>9. NoOverfill'
  <2>1. SUFFICES ASSUME NEW x \in 1..Len(orders')
                 PROVE  filled'[x] <= orders'[x].quantity
      BY <1>4, LenProperties DEF NoOverfill
  <2>2. CASE x = o
    <3>1. filled[o] = 0
        BY <1>4 DEF IInv, Fresh
    <3>2. quantity \in Nat
        BY Bounds
    <3>3. QED
        BY <1>2, <1>3, <1>4, <2>2, <3>1, <3>2
  <2>3. CASE x # o
    <3>1. x \in 1..Len(orders) /\ x \in Ids
        BY <1>1, <1>4, <2>3, OrderFields
    <3>2. filled[x] <= orders[x].quantity
        BY <1>1, <3>1, OverfillDomain DEF IInv, TypeOK
    <3>3. QED
        BY <1>3, <1>4, <3>1, <3>2
  <2>4. QED
      BY <2>2, <2>3
<1>10. Fresh'
  <2>1. SUFFICES ASSUME NEW x \in Ids, x > Len(orders') PROVE filled'[x] = 0
      BY DEF Fresh
  <2>2. x > Len(orders)
      BY <1>4, <2>1, Bounds
  <2>3. QED
      BY <1>3, <2>2 DEF IInv, Fresh
<1>11. QED
    BY <1>5, <1>6, <1>7, <1>8, <1>9, <1>10 DEF IInv

\* The inner iterator moves on: the book is not touched.
LEMMA NextLevelInv ==
    ASSUME IInv, NextLevel \/ SkipMaker
    PROVE  IInv'
<1>1. /\ \/ cursor' = [level |-> cursor.level + 1, pos |-> 1]
         \/ cursor' = [cursor EXCEPT !.pos = @ + 1]
      /\ UNCHANGED <<orders, filled, result, levels, index, serving, taker, trades, announced, feed, drift>>
    BY DEF NextLevel, SkipMaker
<1>2. TypeOK'
  <2>1. cursor \in [level : Nat \ {0}, pos : Nat \ {0}]
      BY DEF IInv, TypeOK
  <2>2. cursor' \in [level : Nat \ {0}, pos : Nat \ {0}]
      BY <1>1, <2>1
  <2>3. QED
      BY <1>1, <2>2 DEF IInv, TypeOK
<1>3. BookInv' /\ Live' /\ Priced' /\ NoOverfill' /\ Fresh'
    BY <1>1 DEF IInv, BookInv, Live, LiveAt, StaysInBook, RecoveredSpent, Priced, NoOverfill, Fresh
<1>4. QED
    BY <1>2, <1>3 DEF IInv

\* processOrder returns without resting the order.
LEMMA ReturnInv ==
    ASSUME IInv, ~Idle, NEW status \in Result, Return(status),
           UNCHANGED <<levels, index, feed, drift>>, announced' \in SUBSET Ids
    PROVE  IInv'
<1>1. /\ result' = [result EXCEPT ![taker] = status] /\ taker' = NoId /\ cursor' = FirstSlot
      /\ UNCHANGED <<orders, filled, serving, trades, levels, index, feed, drift>>
    BY DEF Return
<1>2. TypeOK'
  <2>1. result' \in [Ids -> Result]
      BY <1>1 DEF IInv, TypeOK
  <2>2. cursor' \in [level : Nat \ {0}, pos : Nat \ {0}]
      BY <1>1 DEF FirstSlot
  <2>3. QED
      BY <1>1, <2>1, <2>2 DEF IInv, TypeOK
<1>3. Live'
  <2>1. SUFFICES ASSUME NEW sd \in Side, NEW x \in Ids, NEW p \in Nat, Standing(levels', sd, x, p)
                 PROVE  LiveAt(sd, x, p)'
      BY DEF Live, Standing
  <2>2. LiveAt(sd, x, p)
      BY <1>1, <2>1 DEF IInv, Live
  <2>3. x # NoId
      BY Bounds DEF NoId
  <2>4. QED
      BY <1>1, <2>2, <2>3 DEF LiveAt, StaysInBook, RecoveredSpent
<1>4. BookInv' /\ Priced' /\ NoOverfill' /\ Fresh'
    BY <1>1 DEF IInv, BookInv, Priced, NoOverfill, Fresh
<1>5. QED
    BY <1>2, <1>3, <1>4 DEF IInv

\* The order inside processOrder.
LEMMA TakerFacts ==
    ASSUME IInv, ~Idle
    PROVE  /\ taker \in 1..Len(orders) /\ taker \in Ids /\ index[taker] = Nowhere
           /\ TakerSide \in Side /\ MakerSide \in Side /\ MakerSide # TakerSide
<1>1. taker \in 1..Len(orders)
    BY DEF IInv, TypeOK, Idle
<1>2. taker \in Ids /\ TakerSide \in Side
    BY <1>1, OrderFields DEF IInv, TakerSide
<1>3. index[taker] = Nowhere
    BY <1>2, RestingIsLive
<1>4. MakerSide \in Side /\ MakerSide # TakerSide
    BY <1>2 DEF MakerSide, Opposite, Side
<1>5. QED
    BY <1>1, <1>2, <1>3, <1>4

LEMMA FillInv ==
    ASSUME IInv, Fill
    PROVE  IInv'
<1>1. /\ ~Idle /\ Return("filled") /\ announced' = announced \cup {taker}
      /\ UNCHANGED <<levels, index, feed, drift>>
    BY DEF Fill, LoopDone
<1>2. announced' \in SUBSET Ids
    BY <1>1, TakerFacts DEF IInv, TypeOK
<1>3. QED
    BY <1>1, <1>2, ReturnInv DEF Result

LEMMA DropRemainderInv ==
    ASSUME IInv, DropRemainder
    PROVE  IInv'
<1>1. ~Idle /\ Return(DropStatus(taker)) /\ UNCHANGED <<levels, index, announced, feed, drift>>
    BY DEF DropRemainder, LoopDone
<1>2. DropStatus(taker) \in Result
    BY DEF DropStatus, Result
<1>3. announced' \in SUBSET Ids
    BY <1>1 DEF IInv, TypeOK
<1>4. QED
    BY <1>1, <1>2, <1>3, ReturnInv

LEMMA RestInv ==
    ASSUME IInv, Rest
    PROVE  IInv'
<1> DEFINE status == IF filled[taker] > 0 THEN "partially_filled" ELSE "open"
<1>1. /\ ~Idle /\ Remaining(taker) > 0 /\ StaysInBook(taker)
      /\ AddOrder(taker, orders[taker], Remaining(taker))
      /\ LET here == Snapshot(levels'[TakerSide], Prices)[orders[taker].price]
         IN  BookUpdate(TakerSide, orders[taker].price, here.quantity, here.orderCount)
      /\ result' = [result EXCEPT ![taker] = status] /\ taker' = NoId /\ cursor' = FirstSlot
      /\ UNCHANGED <<orders, filled, serving, trades, announced>>
    BY DEF Rest, LoopDone, Return
<1>2. /\ taker \in 1..Len(orders) /\ taker \in Ids /\ index[taker] = Nowhere
      /\ TakerSide \in Side
    BY <1>1, TakerFacts
<1>3. /\ orders[taker].side \in Side /\ orders[taker].price \in Nat /\ Remaining(taker) \in Int
      /\ filled[taker] \in Nat /\ orders[taker].quantity \in Nat
    BY <1>2, OrderFields DEF IInv
<1>4. BookAdds(taker, orders[taker].side, orders[taker].price)
    BY <1>1, <1>2, <1>3, AddStep DEF IInv
<1>5. feed' \in [Side -> [Prices -> DepthOf]]
  <2>1. levels'[TakerSide] \in Seq(Level)
      BY <1>2, <1>4 DEF BookAdds
  <2>2. orders[taker].price \in Prices
      BY <1>1, <1>2, RestingPrice
  <2>3. Snapshot(levels'[TakerSide], Prices)[orders[taker].price] \in DepthOf
      BY <2>1, <2>2, SnapshotType
  <2>4. QED
      BY <1>1, <1>2, <2>3, UpdateType DEF DepthOf, IInv
<1>6. TypeOK'
  <2>1. result' \in [Ids -> Result]
      BY <1>1 DEF IInv, TypeOK, Result
  <2>2. cursor' \in [level : Nat \ {0}, pos : Nat \ {0}]
      BY <1>1 DEF FirstSlot
  <2>3. levels' \in [Side -> Seq(Level)] /\ index' \in [Ids -> Location]
      BY <1>4 DEF BookAdds
  <2>4. drift' \in [Side -> [Prices -> Nat]]
      BY <1>1, <1>3, AddDrift DEF IInv
  <2>5. QED
      BY <1>1, <1>5, <2>1, <2>2, <2>3, <2>4 DEF IInv, TypeOK, DepthOf
<1>7. Live'
  <2>1. SUFFICES ASSUME NEW sd \in Side, NEW x \in Ids, NEW p \in Nat, Standing(levels', sd, x, p)
                 PROVE  LiveAt(sd, x, p)'
      BY DEF Live, Standing
  <2>2. x # taker'
      BY <1>1, Bounds DEF NoId
  <2>3. CASE Standing(levels, sd, x, p)
    <3>1. LiveAt(sd, x, p)
        BY <2>3 DEF IInv, Live
    <3>2. QED
        BY <1>1, <2>2, <3>1 DEF LiveAt, StaysInBook, RecoveredSpent
  <2>4. CASE x = taker /\ sd = orders[taker].side /\ p = orders[taker].price
    <3>1. filled[taker] < orders[taker].quantity
        BY <1>1, <1>3 DEF Remaining
    <3>2. QED
        BY <1>1, <1>2, <2>2, <2>4, <3>1 DEF LiveAt, StaysInBook, RecoveredSpent
  <2>5. QED
      BY <1>4, <2>1, <2>3, <2>4 DEF BookAdds
<1>8. BookInv'
    BY <1>4 DEF BookAdds
<1>9. Priced' /\ NoOverfill' /\ Fresh'
    BY <1>1 DEF IInv, Priced, NoOverfill, Fresh
<1>10. QED
    BY <1>6, <1>7, <1>8, <1>9 DEF IInv

LEMMA CancelOrderInv ==
    ASSUME IInv, NEW o \in Ids, CancelOrder(o)
    PROVE  IInv'
<1> DEFINE side == orders[o].side
           level == levels[side][index[o].level]
<1>1. /\ index[o] # Nowhere
      /\ RemoveOrder(o, side, Remaining(o))
      /\ BookUpdate(side, level.price, level.total - Remaining(o), Len(level.orders) - 1)
      /\ result' = [result EXCEPT ![o] = "cancelled"]
      /\ UNCHANGED <<orders, filled, serving, taker, cursor, trades, announced, drift>>
    BY DEF CancelOrder, Resting
<1>2. o \in 1..Len(orders) /\ side \in Side /\ index[o].side = side
    BY <1>1, RestingIsLive
<1>3. Remaining(o) \in Int /\ TypeOK
    BY <1>2, OrderFields DEF IInv
<1>4. BookLoses(o)
    BY <1>1, <1>2, <1>3, RemoveStep DEF IInv
<1>5. level.total - Remaining(o) \in Int /\ Len(level.orders) - 1 \in Nat
  <2>1. Stands(levels[side], o, index[o].level, index[o].pos) /\ levels[side] \in Seq(Level)
      BY <1>1, <1>2 DEF IInv, BookInv, Sound
  <2>2. PICK i \in 1..Len(levels[side]) : /\ i = index[o].level
                                          /\ \E j \in 1..Len(levels[side][i].orders) : TRUE
      BY <2>1 DEF Stands
  <2>3. levels[side][i].total \in Int /\ Len(levels[side][i].orders) \in Nat
      BY <2>1, LevelParts
  <2>4. Len(levels[side][i].orders) >= 1
      BY <2>2, <2>3
  <2>5. QED
      BY <1>3, <2>2, <2>3, <2>4
<1> HIDE DEF level
<1>6. feed' \in [Side -> [Prices -> DepthOf]]
    BY <1>1, <1>2, <1>3, <1>5, UpdateType
<1>7. TypeOK'
  <2>1. result' \in [Ids -> Result]
      BY <1>1, <1>3 DEF TypeOK, Result
  <2>2. levels' \in [Side -> Seq(Level)] /\ index' \in [Ids -> Location]
      BY <1>4 DEF BookLoses
  <2>3. QED
      BY <1>1, <1>3, <1>6, <2>1, <2>2 DEF TypeOK, DepthOf
<1>8. Live'
  <2>1. SUFFICES ASSUME NEW sd \in Side, NEW x \in Ids, NEW p \in Nat, Standing(levels', sd, x, p)
                 PROVE  LiveAt(sd, x, p)'
      BY DEF Live, Standing
  <2>2. Standing(levels, sd, x, p)
      BY <1>4, <2>1 DEF BookLoses
  <2>3. LiveAt(sd, x, p)
      BY <2>2 DEF IInv, Live
  <2>4. QED
      BY <1>1, <2>3 DEF LiveAt, StaysInBook, RecoveredSpent
<1>9. BookInv' /\ Priced' /\ NoOverfill' /\ Fresh'
    BY <1>1, <1>4 DEF IInv, BookLoses, Priced, NoOverfill, Fresh
<1>10. QED
    BY <1>7, <1>8, <1>9 DEF IInv

\* The maker that the loop looks at.
LEMMA MakerFacts ==
    ASSUME IInv, AtMaker
    PROVE  LET level == Facing[cursor.level]
               maker == level.orders[cursor.pos]
           IN  /\ ~Idle /\ cursor.level \in 1..Len(levels[MakerSide])
               /\ level = levels[MakerSide][cursor.level]
               /\ maker \in Ids /\ index[maker] # Nowhere /\ index[maker].side = MakerSide
               /\ level.total \in Int /\ Len(level.orders) \in Nat /\ Len(level.orders) >= 1
               /\ level.price \in Nat /\ LiveAt(MakerSide, maker, level.price)
<1> DEFINE lv == levels[MakerSide]
           i == cursor.level
           j == cursor.pos
<1>1. ~Idle /\ i <= Len(lv) /\ j <= Len(lv[i].orders)
    BY DEF AtMaker, AtLevel, Facing
<1>2. MakerSide \in Side
    BY <1>1, TakerFacts
<1>3. i \in Nat \ {0} /\ j \in Nat \ {0} /\ lv \in Seq(Level)
    BY <1>2 DEF IInv, TypeOK
<1>4. Len(lv) \in Nat
    BY <1>3, LenProperties
<1>5. i \in 1..Len(lv)
    BY <1>1, <1>3, <1>4
<1>6. lv[i].total \in Int /\ Len(lv[i].orders) \in Nat
    BY <1>3, <1>5, LevelParts
<1>7. j \in 1..Len(lv[i].orders) /\ Len(lv[i].orders) >= 1
    BY <1>1, <1>3, <1>6
<1>8. QED
    BY <1>1, <1>2, <1>5, <1>6, <1>7, SlotIsLive DEF Facing

\* A trade takes something, and no more than either side has left.
LEMMA TradeQuantityBounds ==
    ASSUME NEW wanted \in Int, NEW offered \in Int, wanted > 0, offered > 0
    PROVE  /\ TradeQuantity(wanted, offered) \in Nat /\ TradeQuantity(wanted, offered) > 0
           /\ TradeQuantity(wanted, offered) <= wanted /\ TradeQuantity(wanted, offered) <= offered
BY DEF TradeQuantity

LEMMA ExecuteTradeInv ==
    ASSUME IInv, ExecuteTrade
    PROVE  IInv'
<1> DEFINE level == Facing[cursor.level]
           maker == level.orders[cursor.pos]
           q == TradeQuantity(Remaining(taker), Remaining(maker))
           now == filled[maker] + q
           total == TotalAfterFill(level.total, orders[maker].quantity, now, now)
           left == orders[maker].quantity - now
           trade == [maker |-> maker, taker |-> taker, price |-> TradePrice(maker), quantity |-> q]
<1>1. /\ AtMaker /\ Remaining(maker) > 0 /\ Remaining(taker) > 0
      /\ filled' = [filled EXCEPT ![taker] = @ + q, ![maker] = now]
      /\ trades' = Append(trades, trade)
      /\ IF left > 0
         THEN /\ levels' = [levels EXCEPT ![MakerSide][cursor.level].total = total]
              /\ index' = index
              /\ BookUpdate(MakerSide, level.price, total, Len(level.orders))
         ELSE /\ RemoveOrder(maker, MakerSide, left)
              /\ BookUpdate(MakerSide, level.price, total, Len(level.orders) - 1)
      /\ cursor' = IF left <= 0 /\ Len(level.orders) = 1
                   THEN [level |-> cursor.level + 1, pos |-> 1]
                   ELSE [cursor EXCEPT !.pos = @ + 1]
      /\ drift' = [drift EXCEPT ![MakerSide][level.price] = @ + q]
      /\ UNCHANGED <<orders, result, serving, taker, announced>>
    BY DEF ExecuteTrade, AtMaker, AtLevel
<1>2. /\ ~Idle /\ cursor.level \in 1..Len(levels[MakerSide])
      /\ maker \in Ids /\ index[maker] # Nowhere /\ index[maker].side = MakerSide
      /\ level = levels[MakerSide][cursor.level]
      /\ level.total \in Int /\ Len(level.orders) \in Nat /\ Len(level.orders) >= 1
      /\ level.price \in Nat /\ LiveAt(MakerSide, maker, level.price)
    BY <1>1, MakerFacts
<1>3. /\ taker \in 1..Len(orders) /\ taker \in Ids /\ index[taker] = Nowhere /\ MakerSide \in Side
    BY <1>2, TakerFacts
<1>4. maker \in 1..Len(orders) /\ StaysInBook(maker) /\ maker # taker
    BY <1>2 DEF LiveAt
<1>5. TypeOK
    BY DEF IInv
<1>6. /\ filled[maker] \in Nat /\ filled[taker] \in Nat
      /\ orders[maker].quantity \in Nat /\ orders[taker].quantity \in Nat
      /\ orders[maker].quantity <= MaxQuantity
    <2>1. /\ filled[maker] \in Nat /\ filled[taker] \in Nat
          /\ orders[maker].quantity \in Nat /\ orders[taker].quantity \in Nat
        BY <1>3, <1>4, <1>5, OrderFields
    <2>2. orders[maker].quantity \in Quantities
        BY <1>4, <1>5, OrderFields DEF Order
    <2>3. QED
        BY <2>1, <2>2, BoundsAssumption DEF Quantities
<1>7. /\ q \in Nat /\ q > 0
      /\ q <= orders[taker].quantity - filled[taker] /\ q <= orders[maker].quantity - filled[maker]
  <2>1. Remaining(taker) \in Int /\ Remaining(maker) \in Int
      BY <1>6 DEF Remaining
  <2>2. q \in Nat /\ q > 0 /\ q <= Remaining(taker) /\ q <= Remaining(maker)
      BY <1>1, <2>1, TradeQuantityBounds
  <2>3. QED
      BY <2>2 DEF Remaining
<1> HIDE DEF level, maker, q
<1>8. now \in Nat /\ left \in Int /\ total \in Int /\ left >= 0
  <2>1. now \in Nat /\ now <= orders[maker].quantity
      BY <1>6, <1>7
  <2>2. left \in Int /\ left >= 0
      BY <1>6, <2>1
  <2>3. total = level.total - (left - left)
      BY DEF TotalAfterFill
  <2>4. QED
      BY <1>2, <2>1, <2>2, <2>3
<1> HIDE DEF left, total
<1>9. /\ filled' \in [Ids -> Nat]
      /\ filled'[taker] = filled[taker] + q /\ filled'[maker] = filled[maker] + q
      /\ \A x \in Ids : x # taker /\ x # maker => filled'[x] = filled[x]
  <2>1. filled \in [Ids -> Nat]
      BY <1>5 DEF TypeOK
  <2>2. filled[taker] + q \in Nat /\ now \in Nat
      BY <1>6, <1>7, <1>8
  <2> HIDE DEF now
  <2>3. filled' = [filled EXCEPT ![taker] = filled[taker] + q, ![maker] = now]
      BY <1>1
  <2>4. /\ filled' \in [Ids -> Nat]
        /\ filled'[taker] = filled[taker] + q /\ filled'[maker] = now
        /\ \A x \in Ids : x # taker /\ x # maker => filled'[x] = filled[x]
      BY <1>2, <1>3, <1>4, <2>1, <2>2, <2>3
  <2>5. QED
      BY <2>4 DEF now
<1>10. /\ levels' \in [Side -> Seq(Level)] /\ index' \in [Ids -> Location] /\ BookInv'
       /\ feed' \in [Side -> [Prices -> DepthOf]]
       /\ \A side \in Side, x \in Ids, price \in Nat :
            Standing(levels', side, x, price) =>
                Standing(levels, side, x, price) /\ (x = maker => left > 0)
  <2>1. CASE left > 0
    <3>1. /\ levels' = [levels EXCEPT ![MakerSide][cursor.level].total = total] /\ index' = index
          /\ BookUpdate(MakerSide, level.price, total, Len(level.orders))
        BY <1>1, <2>1
    <3>2. /\ levels' \in [Side -> Seq(Level)] /\ BookInv'
          /\ \A side \in Side, x \in Ids, price \in Nat :
               Standing(levels', side, x, price) => Standing(levels, side, x, price)
        BY <1>2, <1>3, <1>5, <1>8, <3>1, TotalStep DEF IInv
    <3>3. feed' \in [Side -> [Prices -> DepthOf]]
        BY <1>2, <1>3, <1>5, <1>8, <3>1, UpdateType
    <3>4. QED
        BY <1>5, <2>1, <3>1, <3>2, <3>3 DEF TypeOK
  <2>2. CASE ~(left > 0)
    <3>1. /\ RemoveOrder(maker, MakerSide, left)
          /\ BookUpdate(MakerSide, level.price, total, Len(level.orders) - 1)
        BY <1>1, <2>2
    <3>2. BookLoses(maker)
        BY <1>2, <1>3, <1>5, <1>8, <3>1, RemoveStep DEF IInv
    <3>3. Len(level.orders) - 1 \in Nat
        BY <1>2
    <3>4. feed' \in [Side -> [Prices -> DepthOf]]
        BY <1>3, <1>5, <1>8, <3>1, <3>3, UpdateType
    <3>5. QED
        BY <3>2, <3>4 DEF BookLoses
  <2>3. QED
      BY <2>1, <2>2
<1>11. TypeOK'
  <2>1. trades' \in Seq(Trade)
    <3>1. orders[maker].price \in Prices
        BY <1>4, RestingPrice
    <3>2. q \in Quantities
        BY <1>6, <1>7, BoundsAssumption DEF Quantities
    <3>3. trade \in Trade
        BY <1>2, <1>3, <3>1, <3>2 DEF Trade, TradePrice
    <3>4. QED
        BY <1>1, <1>5, <3>3, AppendProperties DEF TypeOK
  <2>2. cursor' \in [level : Nat \ {0}, pos : Nat \ {0}]
    <3>1. cursor.level \in Nat /\ cursor.pos \in Nat /\ cursor \in [level : Nat \ {0}, pos : Nat \ {0}]
        BY <1>5 DEF TypeOK
    <3>2. /\ [level |-> cursor.level + 1, pos |-> 1] \in [level : Nat \ {0}, pos : Nat \ {0}]
          /\ [cursor EXCEPT !.pos = @ + 1] \in [level : Nat \ {0}, pos : Nat \ {0}]
        BY <3>1
    <3>3. QED
        BY <1>1, <3>2
  <2>3. drift' \in [Side -> [Prices -> Nat]]
    <3>1. level.price \in Prices
        BY <1>2, <1>4, RestingPrice DEF LiveAt
    <3>2. QED
        BY <1>1, <1>3, <1>5, <1>7, <3>1, TradeDrift
  <2>4. QED
      BY <1>1, <1>5, <1>9, <1>10, <2>1, <2>2, <2>3 DEF TypeOK, DepthOf
<1>12. Live'
  <2>1. SUFFICES ASSUME NEW sd \in Side, NEW x \in Ids, NEW p \in Nat, Standing(levels', sd, x, p)
                 PROVE  LiveAt(sd, x, p)'
      BY DEF Live, Standing
  <2>2. Standing(levels, sd, x, p) /\ (x = maker => left > 0)
      BY <1>10, <2>1
  <2>3. LiveAt(sd, x, p)
      BY <2>2 DEF IInv, Live
  <2>4. filled'[x] < orders[x].quantity \/ RecoveredSpent(x)
    <3>1. CASE x = maker
        BY <1>6, <1>7, <1>9, <2>2, <3>1 DEF left
    <3>2. CASE x # maker
        BY <1>9, <2>3, <3>2 DEF LiveAt
    <3>3. QED
        BY <3>1, <3>2
  <2>5. QED
      BY <1>1, <2>3, <2>4 DEF LiveAt, StaysInBook, RecoveredSpent
<1>13. NoOverfill'
  <2>1. orders' = orders /\ orders \in Seq(Order)
      BY <1>1, <1>5 DEF TypeOK
  <2>2. SUFFICES ASSUME NEW x \in 1..Len(orders) PROVE filled'[x] <= orders[x].quantity
      BY <2>1, LenProperties DEF NoOverfill
  <2>3. x \in Ids /\ filled[x] <= orders[x].quantity
      BY <1>5, <2>1, OrderFields, OverfillDomain DEF IInv
  <2>4. CASE x = taker
    <3>1. filled'[taker] = filled[taker] + q
        BY <1>9
    <3>2. filled[taker] + q <= orders[taker].quantity
        BY <1>6, <1>7
    <3>3. QED
        BY <2>4, <3>1, <3>2
  <2>5. CASE x = maker
    <3>1. filled'[maker] = filled[maker] + q
        BY <1>9
    <3>2. filled[maker] + q <= orders[maker].quantity
        BY <1>6, <1>7
    <3>3. QED
        BY <2>5, <3>1, <3>2
  <2>6. CASE x # taker /\ x # maker
      BY <1>9, <2>3, <2>6
  <2>7. QED
      BY <2>4, <2>5, <2>6
<1>14. Fresh'
  <2>1. SUFFICES ASSUME NEW x \in Ids, x > Len(orders) PROVE filled'[x] = 0
      BY <1>1 DEF Fresh
  <2>2. Len(orders) \in Nat
      BY <1>5, LenProperties DEF TypeOK
  <2>3. x # taker /\ x # maker
      BY <1>3, <1>4, <2>1, <2>2
  <2>4. QED
      BY <1>9, <2>1, <2>3 DEF IInv, Fresh
<1>15. Priced'
    BY <1>1 DEF IInv, Priced
<1>16. QED
    BY <1>10, <1>11, <1>12, <1>13, <1>14, <1>15 DEF IInv

\* Every step of the engine keeps the invariant.
LEMMA NextInv == IInv /\ [Next]_vars => IInv'
<1> SUFFICES ASSUME IInv, [Next]_vars PROVE IInv'
    OBVIOUS
<1>1. ASSUME NEW side \in Side, NEW price \in Prices, NEW quantity \in Quantities,
             NEW carried \in 0..MaxQuantity, LoadOrder(side, price, quantity, carried)
      PROVE  IInv'
    BY <1>1, LoadOrderInv
<1>2. CASE Serve
    BY <1>2, ServeInv
<1>3. ASSUME NEW side \in Side, NEW kind \in Kinds, NEW price \in Prices \cup {NoPrice},
             NEW quantity \in Quantities, ProcessOrder(side, kind, price, quantity)
      PROVE  IInv'
    BY <1>3, ProcessOrderInv
<1>4. CASE ExecuteTrade
    BY <1>4, ExecuteTradeInv
<1>5. CASE NextLevel \/ SkipMaker
    BY <1>5, NextLevelInv
<1>6. CASE Fill
    BY <1>6, FillInv
<1>7. CASE DropRemainder
    BY <1>7, DropRemainderInv
<1>8. CASE Rest
    BY <1>8, RestInv
<1>9. ASSUME NEW o \in Ids, CancelOrder(o) PROVE IInv'
    BY <1>9, CancelOrderInv
<1>10. CASE UNCHANGED vars
  <2>1. UNCHANGED <<orders, filled, result, levels, index, serving, taker, cursor, trades, announced, feed, drift>>
      BY <1>10 DEF vars
  <2>2. TypeOK'
      BY <2>1 DEF IInv, TypeOK
  <2>3. BookInv' /\ Live' /\ Priced' /\ NoOverfill' /\ Fresh'
      BY <2>1 DEF IInv, BookInv, Live, LiveAt, StaysInBook, RecoveredSpent, Priced, NoOverfill, Fresh
  <2>4. QED
      BY <2>2, <2>3 DEF IInv
<1>11. QED
    BY <1>1, <1>2, <1>3, <1>4, <1>5, <1>6, <1>7, <1>8, <1>9, <1>10
       DEF Next, Recover, Place, Process, Cancel

-----------------------------------------------------------------------------
(* The theorems about the book                                              *)

\* IInv holds in every reachable state of the engine.
THEOREM Inductive == Spec => []IInv
BY InitInv, NextInv, PTL DEF Spec

\* The engine's state has its type: in particular every trade the engine
\* announces has a price within the price bounds and a positive quantity
\* within the quantity bounds, and every location in orderIndex is one.
THEOREM TypeCorrect == Spec => []TypeOK
<1>1. IInv => TypeOK
    BY DEF IInv
<1>2. QED
    BY <1>1, Inductive, PTL

\* addToBids, addToAsks, updateOrderFill and removeOrder keep orderIndex and
\* the price levels of class OrderBook describing the same book.
THEOREM IndexCorrect == Spec => []IndexAgrees
<1>1. IInv => IndexAgrees
  <2> SUFFICES ASSUME IInv PROVE IndexAgrees
      OBVIOUS
  <2>1. ASSUME NEW side \in Side
        PROVE  /\ levels[side] \in Seq(Level) /\ DOMAIN levels[side] = 1..Len(levels[side])
               /\ \A i \in 1..Len(levels[side]) : DOMAIN levels[side][i].orders = 1..Len(levels[side][i].orders)
    <3>1. levels[side] \in Seq(Level)
        BY DEF IInv, TypeOK
    <3>2. QED
        BY <3>1, LevelParts, LenProperties
  <2>2. \A side \in Side : Sound(levels[side], index, side, Ids)
      BY DEF IInv, BookInv
  <2>3. \A side \in Side : \A i \in DOMAIN levels[side] : \A j \in DOMAIN levels[side][i].orders :
          index[levels[side][i].orders[j]] = At(side, i, j)
      BY <2>1, <2>2 DEF Sound
  <2>4. ASSUME NEW o \in Ids, Resting(o)
        PROVE  IsAt(o, index[o].side, index[o].level, index[o].pos)
    <3>1. index[o].side \in Side
        BY DEF IInv, TypeOK, Location
    <3>2. Stands(levels[index[o].side], o, index[o].level, index[o].pos)
        BY <2>2, <2>4, <3>1 DEF Sound, Resting
    <3>3. QED
        BY <2>1, <3>1, <3>2 DEF IsAt, Stands
  <2>5. QED
      BY <2>3, <2>4 DEF IndexAgrees
<1>2. QED
    BY <1>1, Inductive, PTL

\* Class OrderBook keeps the levels of both sides strictly sorted from the
\* best price, and keeps no empty level.
THEOREM LevelsCorrect == Spec => []LevelsSorted
<1>1. IInv => LevelsSorted
  <2> SUFFICES ASSUME IInv, NEW side \in Side, NEW i \in DOMAIN levels[side]
               PROVE  /\ levels[side][i].orders # <<>>
                      /\ \A k \in DOMAIN levels[side] :
                           i < k => Better(side, levels[side][i].price, levels[side][k].price)
      BY DEF LevelsSorted
  <2>1. DOMAIN levels[side] = 1..Len(levels[side])
      BY LenProperties DEF IInv, TypeOK
  <2>2. QED
      BY <2>1 DEF IInv, BookInv, Sound, Sorted
<1>2. QED
    BY <1>1, Inductive, PTL

\* Whatever rests in the book is an order that the engine may still trade:
\* on its own side, at its own price, not filled, of a kind that may rest,
\* and not the order that processOrder works on.
THEOREM RestingCorrect == Spec => []RestingAreLive
<1>1. IInv => RestingAreLive
  <2> SUFFICES ASSUME IInv, NEW side \in Side, NEW i \in DOMAIN levels[side],
                      NEW j \in DOMAIN levels[side][i].orders
               PROVE  LET o == levels[side][i].orders[j]
                      IN  /\ o \in DOMAIN orders
                          /\ orders[o].side = side /\ orders[o].price = levels[side][i].price
                          /\ StaysInBook(o) /\ o # taker
                          /\ filled[o] < orders[o].quantity \/ RecoveredSpent(o)
      BY DEF RestingAreLive
  <2>1. levels[side] \in Seq(Level) /\ orders \in Seq(Order)
      BY DEF IInv, TypeOK
  <2>2. i \in 1..Len(levels[side]) /\ DOMAIN orders = 1..Len(orders)
      BY <2>1, LenProperties
  <2>3. j \in 1..Len(levels[side][i].orders)
      BY <2>1, <2>2, LevelParts
  <2>4. LiveAt(side, levels[side][i].orders[j], levels[side][i].price)
      BY <2>2, <2>3, SlotIsLive
  <2>5. QED
      BY <2>2, <2>4 DEF LiveAt
<1>2. QED
    BY <1>1, Inductive, PTL

\* executeTrade never fills an order beyond its quantity.
THEOREM FillsBounded == Spec => []NoOverfill
<1>1. IInv => NoOverfill
    BY DEF IInv
<1>2. QED
    BY <1>1, Inductive, PTL

-----------------------------------------------------------------------------
(* Which orders rest before and after a change of the book                  *)

\* addOrder puts this order in the index and changes nothing else about who rests.
LEMMA AddRests ==
    ASSUME IInv, NEW o \in Ids, index[o] = Nowhere, NEW order, order.side \in Side, order.price \in Nat,
           NEW remaining \in Int, AddOrder(o, order, remaining)
    PROVE  index'[o] # Nowhere /\ \A x \in Ids \ {o} : index'[x] = Nowhere <=> index[x] = Nowhere
<1> DEFINE s == order.side
           lv == levels[s]
<1>1. PICK l \in 1..(Len(lv) + 1) :
        /\ IsInsertionPoint(lv, s, order.price, l)
        /\ index' = IndexAfterAdd(index, s, lv, AddAt(lv, l, order.price, o, remaining), l, o)
    BY DEF AddOrder
<1>2. Sound(lv, index, s, Ids) /\ Sorted(lv, s) /\ index \in [Ids -> Location]
    BY DEF IInv, BookInv, TypeOK
<1>3. Added(lv, AddAt(lv, l, order.price, o, remaining), index, index', s, Ids, o, order.price)
    BY <1>1, <1>2, Bounds, AddKeepsSound
<1>4. QED
    BY <1>3 DEF Added

\* removeOrder takes this order out of the index and changes nothing else about who rests.
LEMMA RemoveRests ==
    ASSUME IInv, NEW o \in Ids, index[o] # Nowhere, NEW s \in Side, s = index[o].side,
           NEW remaining \in Int, RemoveOrder(o, s, remaining)
    PROVE  index'[o] = Nowhere /\ \A x \in Ids \ {o} : index'[x] = Nowhere <=> index[x] = Nowhere
<1> DEFINE lv == levels[s]
           new == RemoveFrom(lv, index[o].level, o, remaining)
<1>1. index' = IndexAfterRemove(index, s, lv, new, index[o].level, o)
    BY DEF RemoveOrder
<1>2. Sound(lv, index, s, Ids) /\ Sorted(lv, s) /\ index \in [Ids -> Location]
    BY DEF IInv, BookInv, TypeOK
<1>3. Removed(lv, new, index, index', s, Ids, o)
    BY <1>1, <1>2, Bounds, RemoveKeepsSound
<1>4. QED
    BY <1>3 DEF Removed

-----------------------------------------------------------------------------
(* The feed                                                                 *)

\* Depth d is what the levels have at price p.
Shows(lv, p, d) ==
    /\ \A i \in 1..Len(lv) : lv[i].price = p => d = Depth(lv[i].total, Len(lv[i].orders))
    /\ (\A i \in 1..Len(lv) : lv[i].price # p) => d.orderCount = 0

\* new shows what lv shows at every price but this one.
ShowsTheRest(lv, new, price) ==
    \A p, d : p # price /\ Shows(lv, p, d) => Shows(new, p, d)

FeedShows == serving => \A side \in Side, p \in Prices : Shows(levels[side], p, feed[side][p])

DInv == IInv /\ FeedShows

\* Sorted levels have different prices.
PriceOnce(lv) == \A i, k \in 1..Len(lv) : lv[i].price = lv[k].price => i = k

LEMMA SortedPrices ==
    ASSUME NEW side \in Side, NEW lv \in Seq(Level), Sorted(lv, side)
    PROVE  PriceOnce(lv)
<1>1. SUFFICES ASSUME NEW i \in 1..Len(lv), NEW k \in 1..Len(lv), lv[i].price = lv[k].price, i # k
               PROVE  FALSE
    BY DEF PriceOnce
<1>2. lv[i].price \in Nat /\ lv[k].price \in Nat
    BY LevelParts
<1>3. i < k \/ k < i
    BY <1>1, LenProperties
<1>4. Better(side, lv[i].price, lv[k].price) \/ Better(side, lv[k].price, lv[i].price)
    BY <1>3 DEF Sorted
<1>5. QED
    BY <1>1, <1>2, <1>4 DEF Better

LEMMA SidePrices ==
    ASSUME TypeOK, BookInv, NEW side \in Side
    PROVE  levels[side] \in Seq(Level) /\ PriceOnce(levels[side])
<1>1. levels[side] \in Seq(Level) /\ Sorted(levels[side], side)
    BY DEF TypeOK, BookInv
<1>2. QED
    BY <1>1, SortedPrices

\* One level changes and keeps its price.
LEMMA LevelChangeShows ==
    ASSUME NEW lv \in Seq(Level), PriceOnce(lv), NEW i \in 1..Len(lv),
           NEW changed \in Level, changed.price = lv[i].price,
           NEW new, new = [lv EXCEPT ![i] = changed]
    PROVE  /\ ShowsTheRest(lv, new, lv[i].price)
           /\ Shows(new, lv[i].price, Depth(changed.total, Len(changed.orders)))
<1>1. /\ Len(new) = Len(lv)
      /\ \A k \in 1..Len(lv) : new[k] = IF k = i THEN changed ELSE lv[k]
    BY ExceptSeq
<1>2. \A k \in 1..Len(new) : new[k].price = lv[k].price /\ (k # i => new[k] = lv[k])
    BY <1>1
<1>3. ASSUME NEW p, NEW d, p # lv[i].price, Shows(lv, p, d) PROVE Shows(new, p, d)
    BY <1>1, <1>2, <1>3 DEF Shows
<1>4. \A k \in 1..Len(new) : new[k].price = lv[i].price => new[k] = changed
    BY <1>1, <1>2 DEF PriceOnce
<1>5. new[i].price = lv[i].price /\ i \in 1..Len(new)
    BY <1>1, <1>2
<1>6. Shows(new, lv[i].price, Depth(changed.total, Len(changed.orders)))
    BY <1>4, <1>5 DEF Shows
<1>7. QED
    BY <1>3, <1>6 DEF ShowsTheRest

\* The level at i goes, with its last order.
LEMMA LevelGoneShows ==
    ASSUME NEW lv \in Seq(Level), PriceOnce(lv), NEW i \in 1..Len(lv),
           NEW new, new = RemoveAt(lv, i), NEW d, d.orderCount = 0
    PROVE  ShowsTheRest(lv, new, lv[i].price) /\ Shows(new, lv[i].price, d)
<1>1. /\ Len(new) = Len(lv) - 1 /\ Len(lv) \in Nat
      /\ \A j \in 1..(Len(lv) - 1) : new[j] = IF j < i THEN lv[j] ELSE lv[j + 1]
    BY RemoveAtElements, LenProperties
<1>2. ASSUME NEW k \in 1..Len(new)
      PROVE  \E m \in 1..Len(lv) : m # i /\ new[k] = lv[m]
  <2>1. CASE k < i
      BY <1>1, <2>1
  <2>2. CASE ~(k < i)
    <3>1. k + 1 \in 1..Len(lv) /\ k + 1 # i /\ new[k] = lv[k + 1]
        BY <1>1, <2>2
    <3>2. QED
        BY <3>1
  <2>3. QED
      BY <2>1, <2>2
<1>3. ASSUME NEW m \in 1..Len(lv), m # i
      PROVE  \E k \in 1..Len(new) : new[k] = lv[m]
  <2>1. CASE m < i
    <3>1. m \in 1..Len(new) /\ new[m] = lv[m]
        BY <1>1, <2>1
    <3>2. QED
        BY <3>1
  <2>2. CASE ~(m < i)
    <3>1. m - 1 \in 1..Len(new) /\ ~(m - 1 < i) /\ (m - 1) + 1 = m
        BY <1>1, <1>3, <2>2
    <3>2. new[m - 1] = lv[m]
        BY <1>1, <3>1
    <3>3. QED
        BY <3>1, <3>2
  <2>3. QED
      BY <2>1, <2>2
<1>4. ASSUME NEW p, NEW e, p # lv[i].price, Shows(lv, p, e) PROVE Shows(new, p, e)
  <2>1. ASSUME NEW k \in 1..Len(new), new[k].price = p
        PROVE  e = Depth(new[k].total, Len(new[k].orders))
    <3>1. PICK m \in 1..Len(lv) : new[k] = lv[m]
        BY <1>2
    <3>2. QED
        BY <1>4, <2>1, <3>1 DEF Shows
  <2>2. ASSUME \A k \in 1..Len(new) : new[k].price # p PROVE e.orderCount = 0
    <3>1. \A m \in 1..Len(lv) : lv[m].price # p
        BY <1>3, <1>4, <2>2
    <3>2. QED
        BY <1>4, <3>1 DEF Shows
  <2>3. QED
      BY <2>1, <2>2 DEF Shows
<1>5. \A k \in 1..Len(new) : new[k].price # lv[i].price
    BY <1>2 DEF PriceOnce
<1>6. ShowsTheRest(lv, new, lv[i].price)
    BY <1>4 DEF ShowsTheRest
<1>7. Shows(new, lv[i].price, d)
    BY <1>5 DEF Shows
<1>8. QED
    BY <1>6, <1>7

\* An order that is told what it already has leaves the aggregate alone.
LEMMA SameFill ==
    ASSUME NEW total \in Int, NEW quantity \in Int, NEW fill \in Int
    PROVE  TotalAfterFill(total, quantity, fill, fill) = total
BY DEF TotalAfterFill

\* removeOrder takes one order and what it had left off the depth at its price.
LEMMA RemoveShows ==
    ASSUME NEW lv \in Seq(Level), PriceOnce(lv), NEW i \in 1..Len(lv), NEW j \in 1..Len(lv[i].orders),
           NEW o, lv[i].orders[j] = o, NEW remaining \in Int,
           NEW new, new = RemoveFrom(lv, i, o, remaining)
    PROVE  /\ ShowsTheRest(lv, new, lv[i].price)
           /\ Shows(new, lv[i].price, Depth(lv[i].total - remaining, Len(lv[i].orders) - 1))
<1>1. /\ lv[i] \in Level /\ lv[i].total \in Int /\ lv[i].orders \in Seq(Nat)
      /\ Len(lv[i].orders) \in Nat /\ DOMAIN lv[i].orders = 1..Len(lv[i].orders)
    BY LevelParts
<1>2. CASE Len(lv[i].orders) = 1
  <2>1. new = RemoveAt(lv, i) /\ Depth(lv[i].total - remaining, Len(lv[i].orders) - 1).orderCount = 0
      BY <1>2 DEF RemoveFrom, Depth
  <2>2. QED
      BY <2>1, LevelGoneShows
<1>3. CASE Len(lv[i].orders) # 1
  <2> DEFINE k == PositionIn(lv[i], o)
             rest == RemoveAt(lv[i].orders, k)
             changed == [lv[i] EXCEPT !.orders = rest, !.total = lv[i].total - remaining]
  <2>1. k \in 1..Len(lv[i].orders)
      BY <1>1 DEF PositionIn
  <2>2. rest \in Seq(Nat) /\ Len(rest) = Len(lv[i].orders) - 1
      BY <1>1, <2>1, RemoveAtElements
  <2>3. new = [lv EXCEPT ![i] = changed]
      BY <1>3 DEF RemoveFrom
  <2>4. /\ changed \in Level /\ changed.price = lv[i].price
        /\ changed.total = lv[i].total - remaining /\ changed.orders = rest
    <3>1. rest \in Seq(Nat) /\ lv[i].total - remaining \in Int
        BY <1>1, <2>2
    <3>2. QED
        BY <1>1, <3>1 DEF Level
  <2> HIDE DEF changed, rest
  <2>5. /\ ShowsTheRest(lv, new, lv[i].price)
        /\ Shows(new, lv[i].price, Depth(changed.total, Len(changed.orders)))
      BY <2>3, <2>4, LevelChangeShows
  <2>6. QED
      BY <2>2, <2>4, <2>5
<1>4. QED
    BY <1>2, <1>3

\* addOrder changes the depth at no other price.
LEMMA AddShows ==
    ASSUME NEW lv \in Seq(Level), PriceOnce(lv), NEW l \in 1..(Len(lv) + 1),
           NEW price \in Nat, NEW o \in Nat, NEW remaining \in Int,
           NEW new, new = AddAt(lv, l, price, o, remaining)
    PROVE  ShowsTheRest(lv, new, price)
<1>1. Len(lv) \in Nat
    BY LenProperties
<1>2. CASE JoinsLevel(lv, price, l)
  <2>1. l \in 1..Len(lv) /\ lv[l].price = price
      BY <1>1, <1>2 DEF JoinsLevel
  <2>2. lv[l] \in Level /\ lv[l].total \in Int /\ lv[l].orders \in Seq(Nat)
      BY <2>1, LevelParts
  <2> DEFINE longer == Append(lv[l].orders, o)
             changed == [lv[l] EXCEPT !.orders = longer, !.total = lv[l].total + remaining]
  <2>3. longer \in Seq(Nat)
      BY <2>2, AppendProperties
  <2>4. new = [lv EXCEPT ![l] = changed]
      BY <1>2 DEF AddAt
  <2>5. changed \in Level /\ changed.price = lv[l].price
    <3>1. lv[l].total + remaining \in Int
        BY <2>2
    <3>2. QED
        BY <2>2, <2>3, <3>1 DEF Level
  <2> HIDE DEF changed
  <2>6. ShowsTheRest(lv, new, lv[l].price)
      BY <2>1, <2>4, <2>5, LevelChangeShows
  <2>7. QED
      BY <2>1, <2>6
<1>3. CASE ~JoinsLevel(lv, price, l)
  <2> DEFINE level == [price |-> price, orders |-> <<o>>, total |-> remaining]
  <2>1. level \in Level /\ level.price = price /\ new = InsertAt(lv, l, level)
      BY <1>3 DEF Level, AddAt
  <2> HIDE DEF level
  <2>2. /\ Len(new) = Len(lv) + 1
        /\ \A j \in 1..(Len(lv) + 1) :
             new[j] = IF j < l THEN lv[j] ELSE IF j = l THEN level ELSE lv[j - 1]
      BY <2>1, InsertAtElements
  <2>3. SUFFICES ASSUME NEW p, NEW d, p # price, Shows(lv, p, d) PROVE Shows(new, p, d)
      BY DEF ShowsTheRest
  <2>4. ASSUME NEW k \in 1..Len(new), new[k].price = p
        PROVE  d = Depth(new[k].total, Len(new[k].orders))
    <3>1. k # l
        BY <2>1, <2>2, <2>3, <2>4
    <3>2. PICK m \in 1..Len(lv) : new[k] = lv[m]
      <4>1. CASE k < l
          BY <1>1, <2>2, <4>1
      <4>2. CASE ~(k < l)
        <5>1. k - 1 \in 1..Len(lv) /\ new[k] = lv[k - 1]
            BY <1>1, <2>2, <3>1, <4>2
        <5>2. QED
            BY <5>1
      <4>3. QED
          BY <4>1, <4>2
    <3>3. QED
        BY <2>3, <2>4, <3>2 DEF Shows
  <2>5. ASSUME \A k \in 1..Len(new) : new[k].price # p PROVE d.orderCount = 0
    <3>1. ASSUME NEW m \in 1..Len(lv) PROVE lv[m].price # p
      <4>1. CASE m < l
        <5>1. m \in 1..Len(new) /\ new[m] = lv[m]
            BY <1>1, <2>2, <4>1
        <5>2. QED
            BY <2>5, <5>1
      <4>2. CASE ~(m < l)
        <5>1. m + 1 \in 1..Len(new) /\ ~(m + 1 < l) /\ m + 1 # l /\ (m + 1) - 1 = m
            BY <1>1, <2>2, <4>2
        <5>2. new[m + 1] = lv[m]
            BY <1>1, <2>2, <5>1
        <5>3. QED
            BY <2>5, <5>1, <5>2
      <4>3. QED
          BY <4>1, <4>2
    <3>2. QED
        BY <2>3, <3>1 DEF Shows
  <2>6. QED
      BY <2>4, <2>5 DEF Shows
<1>4. QED
    BY <1>2, <1>3

\* A snapshot shows the depth at every price.
LEMMA SnapshotShows ==
    ASSUME NEW lv \in Seq(Level), PriceOnce(lv), NEW p \in Prices
    PROVE  Shows(lv, p, Snapshot(lv, Prices)[p])
<1> DEFINE at == {i \in DOMAIN lv : lv[i].price = p}
<1>1. DOMAIN lv = 1..Len(lv)
    BY LenProperties
<1>2. CASE at = {}
  <2>1. Snapshot(lv, Prices)[p] = Depth(0, 0)
      BY <1>2 DEF Snapshot
  <2>2. \A i \in 1..Len(lv) : lv[i].price # p
      BY <1>1, <1>2
  <2>3. QED
      BY <2>1, <2>2 DEF Shows, Depth
<1>3. CASE at # {}
  <2>1. (CHOOSE i \in at : TRUE) \in at
      BY <1>3
  <2>2. PICK i \in DOMAIN lv : i = (CHOOSE k \in at : TRUE) /\ lv[i].price = p
      BY <2>1
  <2>3. Snapshot(lv, Prices)[p] = Depth(lv[i].total, Len(lv[i].orders))
      BY <1>3, <2>2 DEF Snapshot
  <2>4. i \in 1..Len(lv) /\ \A k \in 1..Len(lv) : lv[k].price = p => k = i
      BY <1>1, <2>2 DEF PriceOnce
  <2>5. QED
      BY <2>2, <2>3, <2>4 DEF Shows
<1>4. QED
    BY <1>2, <1>3

\* A book_update for the price at which the book changed keeps the feed right.
LEMMA UpdateFollows ==
    ASSUME IInv, FeedShows, NEW s \in Side, NEW price \in Prices, NEW new,
           levels' = [levels EXCEPT ![s] = new], serving' = serving,
           NEW quantity, NEW count, BookUpdate(s, price, quantity, count),
           ShowsTheRest(levels[s], new, price), Shows(new, price, Depth(quantity, count))
    PROVE  FeedShows'
<1>1. feed \in [Side -> [Prices -> DepthOf]] /\ levels \in [Side -> Seq(Level)]
    BY DEF IInv, TypeOK, DepthOf
<1>2. /\ feed'[s][price] = Depth(quantity, count)
      /\ \A p \in Prices : p # price => feed'[s][p] = feed[s][p]
      /\ \A side \in Side : side # s => feed'[side] = feed[side]
    BY <1>1 DEF BookUpdate
<1>3. levels'[s] = new /\ \A side \in Side : side # s => levels'[side] = levels[side]
    BY <1>1
<1>4. SUFFICES ASSUME serving, NEW side \in Side, NEW p \in Prices
               PROVE  Shows(levels'[side], p, feed'[side][p])
    BY DEF FeedShows, Shows
<1>5. Shows(levels[side], p, feed[side][p])
    BY <1>4 DEF FeedShows
<1>6. CASE side # s
    BY <1>2, <1>3, <1>5, <1>6
<1>7. CASE side = s /\ p # price
    BY <1>2, <1>3, <1>5, <1>7 DEF ShowsTheRest
<1>8. CASE side = s /\ p = price
    BY <1>2, <1>3, <1>8
<1>9. QED
    BY <1>6, <1>7, <1>8

\* Maker m stands in level i of side s at this price and gives q; its side becomes new, and
\* the update tells what is left at the price.
TradesAt(m, s, i, price, q, new, count) ==
    /\ i \in 1..Len(levels[s]) /\ levels[s][i].price = price /\ levels[s][i].total \in Int
    /\ index[m] # Nowhere /\ index[m].side = s /\ LiveAt(s, m, price)
    /\ q > 0 /\ q <= Remaining(m)
    /\ levels' = [levels EXCEPT ![s] = new]
    /\ ShowsTheRest(levels[s], new, price)
    /\ Shows(new, price, Depth(levels[s][i].total, count))
    /\ BookUpdate(s, price, levels[s][i].total, count)
    /\ drift' = [drift EXCEPT ![s][price] = @ + q]
    /\ filled' = [filled EXCEPT ![taker] = @ + q, ![m] = filled[m] + q]
    /\ orders' = orders /\ serving' = serving
    /\ IF Remaining(m) > q THEN index' = index ELSE Remaining(m) = q /\ RemoveOrder(m, s, 0)

LEMMA TradeChanges ==
    ASSUME DInv, ExecuteTrade
    PROVE  \E m \in Ids, s \in Side, i \in Nat, price \in Prices, q \in Nat : \E new, count :
               TradesAt(m, s, i, price, q, new, count)
<1> DEFINE level == Facing[cursor.level]
           maker == level.orders[cursor.pos]
           q == TradeQuantity(Remaining(taker), Remaining(maker))
           now == filled[maker] + q
           total == TotalAfterFill(level.total, orders[maker].quantity, now, now)
           left == orders[maker].quantity - now
           lv == levels[MakerSide]
           i == cursor.level
           j == cursor.pos
<1>1. /\ AtMaker /\ Remaining(maker) > 0
      /\ filled' = [filled EXCEPT ![taker] = @ + q, ![maker] = now]
      /\ IF left > 0
         THEN /\ levels' = [levels EXCEPT ![MakerSide][cursor.level].total = total]
              /\ index' = index
              /\ BookUpdate(MakerSide, level.price, total, Len(level.orders))
         ELSE /\ RemoveOrder(maker, MakerSide, left)
              /\ BookUpdate(MakerSide, level.price, total, Len(level.orders) - 1)
      /\ drift' = [drift EXCEPT ![MakerSide][level.price] = @ + q]
      /\ serving' = serving /\ orders' = orders
    BY DEF ExecuteTrade
<1>2. /\ ~Idle /\ i \in 1..Len(lv) /\ level = lv[i]
      /\ index[maker] # Nowhere /\ maker \in Ids /\ index[maker].side = MakerSide
      /\ LiveAt(MakerSide, maker, level.price)
    BY <1>1, MakerFacts DEF DInv
<1>3. MakerSide \in Side /\ taker \in 1..Len(orders) /\ taker \in Ids
    BY <1>2, TakerFacts DEF DInv
<1>4. /\ levels \in [Side -> Seq(Level)] /\ lv \in Seq(Level) /\ PriceOnce(lv)
      /\ cursor \in [level : Nat \ {0}, pos : Nat \ {0}]
    BY <1>3, SidePrices DEF DInv, IInv, TypeOK
<1>5. lv[i] \in Level /\ lv[i].total \in Int /\ Len(lv[i].orders) \in Nat
    BY <1>2, <1>4, LevelParts
<1>6. j \in 1..Len(lv[i].orders)
  <2>1. j <= Len(lv[i].orders) /\ j \in Nat \ {0}
      BY <1>1, <1>4 DEF AtMaker, Facing
  <2>2. QED
      BY <1>5, <2>1
<1>7. index[maker].level = i
  <2>1. index[lv[i].orders[j]] = At(MakerSide, i, j)
      BY <1>2, <1>3, <1>6, SlotIsLive DEF DInv
  <2>2. QED
      BY <1>2, <2>1, AtParts
<1>8. level.price \in Prices
  <2>1. maker \in 1..Len(orders) /\ StaysInBook(maker) /\ orders[maker].price = level.price
      BY <1>2 DEF LiveAt
  <2>2. QED
      BY <2>1, RestingPrice DEF DInv
<1>9. q \in Nat /\ q > 0 /\ q <= Remaining(maker) /\ filled[maker] \in Nat /\ orders[maker].quantity \in Nat
      /\ Remaining(maker) \in Int
  <2>1. maker \in 1..Len(orders)
      BY <1>2 DEF LiveAt
  <2>2. /\ Remaining(maker) \in Int /\ Remaining(taker) \in Int
        /\ filled[maker] \in Nat /\ orders[maker].quantity \in Nat
      BY <1>3, <2>1, OrderFields DEF DInv, IInv
  <2>3. Remaining(taker) > 0 /\ Remaining(maker) > 0
      BY <1>1 DEF AtMaker, AtLevel
  <2>4. QED
      BY <2>2, <2>3, TradeQuantityBounds
<1>10. total = level.total /\ left \in Int /\ left >= 0 /\ left = Remaining(maker) - q
  <2>1. now \in Int
      BY <1>9
  <2>2. total = level.total
    <3>1. level.total \in Int /\ orders[maker].quantity \in Int
        BY <1>2, <1>5, <1>9
    <3> HIDE DEF now
    <3>2. QED
        BY <2>1, <3>1, SameFill
  <2>3. left = Remaining(maker) - q
      BY <1>9 DEF Remaining
  <2>4. QED
      BY <1>9, <2>2, <2>3
<1>11. lv[i].orders[j] = maker
    BY <1>2
<1>12. now = filled[maker] + q
    OBVIOUS
<1> DEFINE Fits(new, count) ==
               /\ levels' = [levels EXCEPT ![MakerSide] = new]
               /\ ShowsTheRest(lv, new, lv[i].price)
               /\ Shows(new, lv[i].price, Depth(lv[i].total, count))
               /\ BookUpdate(MakerSide, lv[i].price, lv[i].total, count)
<1> HIDE DEF q, now, total, left, maker
<1>13. PICK new, count :
         /\ Fits(new, count)
         /\ IF Remaining(maker) > q THEN index' = index
            ELSE Remaining(maker) = q /\ RemoveOrder(maker, MakerSide, 0)
  <2>1. CASE left > 0
    <3> DEFINE changed == [lv[i] EXCEPT !.total = total]
               new == [lv EXCEPT ![i] = changed]
    <3>1. levels' = [levels EXCEPT ![MakerSide] = new] /\ index' = index
        BY <1>1, <2>1
    <3>2. /\ changed \in Level /\ changed.price = lv[i].price
          /\ changed.total = lv[i].total /\ changed.orders = lv[i].orders
        BY <1>2, <1>5, <1>10 DEF Level
    <3> HIDE DEF changed
    <3>3. /\ ShowsTheRest(lv, new, lv[i].price)
          /\ Shows(new, lv[i].price, Depth(changed.total, Len(changed.orders)))
        BY <1>2, <1>4, <3>2, LevelChangeShows
    <3> HIDE DEF new
    <3>4. BookUpdate(MakerSide, lv[i].price, lv[i].total, Len(lv[i].orders))
        BY <1>1, <1>2, <1>10, <2>1
    <3>5. Remaining(maker) > q
        BY <1>9, <1>10, <2>1
    <3> HIDE DEF level, lv, i
    <3>6. Fits(new, Len(lv[i].orders))
        BY <3>1, <3>2, <3>3, <3>4
    <3>7. QED
        BY <3>1, <3>5, <3>6
  <2>2. CASE ~(left > 0)
    <3> DEFINE new == RemoveFrom(lv, i, maker, left)
    <3>1. left = 0
        BY <1>10, <2>2
    <3>2. levels' = [levels EXCEPT ![MakerSide] = new] /\ RemoveOrder(maker, MakerSide, 0)
        BY <1>1, <1>7, <2>2, <3>1 DEF RemoveOrder
    <3>3. /\ ShowsTheRest(lv, new, lv[i].price)
          /\ Shows(new, lv[i].price, Depth(lv[i].total - left, Len(lv[i].orders) - 1))
        BY <1>2, <1>4, <1>6, <1>10, <1>11, RemoveShows
    <3> HIDE DEF new
    <3>4. lv[i].total - left = lv[i].total
        BY <1>2, <1>5, <1>10, <3>1
    <3>5. BookUpdate(MakerSide, lv[i].price, lv[i].total, Len(lv[i].orders) - 1)
        BY <1>1, <1>2, <1>10, <2>2
    <3>6. Remaining(maker) = q
        BY <1>9, <1>10, <3>1
    <3> HIDE DEF level, lv, i
    <3>7. Fits(new, Len(lv[i].orders) - 1)
        BY <3>2, <3>3, <3>4, <3>5
    <3>8. ~(Remaining(maker) > q)
        BY <1>9, <3>6
    <3>9. QED
        BY <3>2, <3>6, <3>7, <3>8
  <2>3. QED
      BY <2>1, <2>2
<1>14. i \in Nat
    BY <1>2
<1>15. TradesAt(maker, MakerSide, i, level.price, q, new, count)
  <2>1. filled' = [filled EXCEPT ![taker] = @ + q, ![maker] = filled[maker] + q]
      BY <1>1, <1>12
  <2>2. drift' = [drift EXCEPT ![MakerSide][level.price] = @ + q]
      BY <1>1
  <2>3. QED
      BY <1>1, <1>2, <1>5, <1>9, <1>13, <2>1, <2>2 DEF TradesAt
<1>16. QED
    BY <1>2, <1>3, <1>8, <1>9, <1>14, <1>15

\* A trade tells the depth that is left at the maker's price.
LEMMA ExecuteTradeFeed ==
    ASSUME DInv, ExecuteTrade
    PROVE  FeedShows'
<1>1. PICK m \in Ids, s \in Side, i \in Nat, price \in Prices, q \in Nat :
             \E new, count : TradesAt(m, s, i, price, q, new, count)
    BY TradeChanges
<1>2. PICK new, count : TradesAt(m, s, i, price, q, new, count)
    BY <1>1
<1>3. QED
    BY <1>2, UpdateFollows DEF DInv, TradesAt

LEMMA RestFeed ==
    ASSUME DInv, IInv', Rest
    PROVE  FeedShows'
<1> DEFINE s == TakerSide
           lv == levels[s]
           price == orders[taker].price
           here == Snapshot(levels'[s], Prices)[price]
<1>1. /\ ~Idle /\ Remaining(taker) > 0 /\ StaysInBook(taker)
      /\ AddOrder(taker, orders[taker], Remaining(taker))
      /\ BookUpdate(s, price, here.quantity, here.orderCount)
      /\ serving' = serving
    BY DEF Rest, LoopDone, Return
<1>2. /\ taker \in 1..Len(orders) /\ taker \in Ids /\ s \in Side /\ orders[taker].side = s
      /\ Remaining(taker) \in Int /\ price \in Nat
  <2>1. taker \in 1..Len(orders) /\ taker \in Ids /\ s \in Side
      BY <1>1, TakerFacts DEF DInv
  <2>2. QED
      BY <2>1, OrderFields DEF DInv, IInv, TakerSide
<1>3. price \in Prices
    BY <1>1, <1>2, RestingPrice DEF DInv
<1>4. PICK l \in 1..(Len(lv) + 1) :
        levels' = [levels EXCEPT ![s] = AddAt(lv, l, price, taker, Remaining(taker))]
    BY <1>1, <1>2 DEF AddOrder
<1> DEFINE new == AddAt(lv, l, price, taker, Remaining(taker))
<1>5. lv \in Seq(Level) /\ PriceOnce(lv)
    BY <1>2, SidePrices DEF DInv, IInv
<1>6. ShowsTheRest(lv, new, price)
    BY <1>2, <1>5, Bounds, AddShows
<1> HIDE DEF new
<1>7. levels'[s] = new
    BY <1>2, <1>4 DEF new, DInv, IInv, TypeOK
<1>8. levels'[s] \in Seq(Level) /\ PriceOnce(levels'[s])
  <2>1. levels'[s] \in Seq(Level) /\ Sorted(levels'[s], s)
      BY <1>2 DEF IInv, TypeOK, BookInv
  <2>2. QED
      BY <1>2, <2>1, SortedPrices
<1>9. here \in DepthOf /\ Shows(new, price, here)
    BY <1>3, <1>7, <1>8, SnapshotType, SnapshotShows
<1> HIDE DEF here
<1>10. here = Depth(here.quantity, here.orderCount)
    BY <1>9 DEF DepthOf, Depth
<1>11. levels' = [levels EXCEPT ![s] = new]
    BY <1>4 DEF new
<1> HIDE DEF s, lv, price
<1>12. QED
    BY <1>1, <1>2, <1>3, <1>6, <1>9, <1>10, <1>11, UpdateFollows DEF DInv, lv

LEMMA CancelOrderFeed ==
    ASSUME DInv, NEW o \in Ids, CancelOrder(o)
    PROVE  FeedShows'
<1> DEFINE s == orders[o].side
           lv == levels[s]
           i == index[o].level
           j == index[o].pos
           new == RemoveFrom(lv, i, o, Remaining(o))
<1>1. /\ index[o] # Nowhere
      /\ levels' = [levels EXCEPT ![s] = new]
      /\ BookUpdate(s, lv[i].price, lv[i].total - Remaining(o), Len(lv[i].orders) - 1)
      /\ serving' = serving
    BY DEF CancelOrder, Resting, RemoveOrder
<1>2. o \in 1..Len(orders) /\ s \in Side /\ index[o].side = s
    BY <1>1, RestingIsLive DEF DInv
<1>3. Remaining(o) \in Int
    BY <1>2, OrderFields DEF DInv, IInv
<1>4. lv \in Seq(Level) /\ PriceOnce(lv)
    BY <1>2, SidePrices DEF DInv, IInv
<1>5. i \in 1..Len(lv) /\ j \in 1..Len(lv[i].orders) /\ lv[i].orders[j] = o
    BY <1>1, <1>2 DEF DInv, IInv, BookInv, Sound, Stands
<1>6. lv[i].price \in Prices
  <2>1. LiveAt(s, lv[i].orders[j], lv[i].price)
      BY <1>2, <1>5, SlotIsLive DEF DInv
  <2>2. StaysInBook(o) /\ orders[o].price = lv[i].price
      BY <1>5, <2>1 DEF LiveAt
  <2>3. QED
      BY <1>2, <2>2, RestingPrice DEF DInv
<1>7. /\ ShowsTheRest(lv, new, lv[i].price)
      /\ Shows(new, lv[i].price, Depth(lv[i].total - Remaining(o), Len(lv[i].orders) - 1))
    BY <1>3, <1>4, <1>5, RemoveShows
<1> HIDE DEF new, i, j
<1>8. QED
    BY <1>1, <1>2, <1>6, <1>7, UpdateFollows DEF DInv

LEMMA ServeFeed ==
    ASSUME DInv, Serve
    PROVE  FeedShows'
<1>1. levels' = levels /\ feed' = [side \in Side |-> Snapshot(levels[side], Prices)]
    BY DEF Serve
<1>2. ASSUME NEW side \in Side, NEW p \in Prices
      PROVE  Shows(levels[side], p, feed'[side][p])
  <2>1. levels[side] \in Seq(Level) /\ PriceOnce(levels[side])
      BY SidePrices DEF DInv, IInv
  <2>2. feed'[side][p] = Snapshot(levels[side], Prices)[p]
      BY <1>1
  <2>3. QED
      BY <2>1, <2>2, SnapshotShows
<1>3. QED
    BY <1>1, <1>2 DEF FeedShows, Shows

LEMMA FeedNext == DInv /\ [Next]_vars => DInv'
<1> SUFFICES ASSUME DInv, [Next]_vars PROVE DInv'
    OBVIOUS
<1>1. IInv'
    BY NextInv DEF DInv
<1>2. SUFFICES FeedShows'
    BY <1>1 DEF DInv
<1>3. ASSUME UNCHANGED <<levels, feed, serving>> PROVE FeedShows'
    BY <1>3 DEF DInv, FeedShows, Shows
<1>4. ASSUME NEW side \in Side, NEW price \in Prices, NEW quantity \in Quantities,
             NEW carried \in 0..MaxQuantity, LoadOrder(side, price, quantity, carried)
      PROVE  FeedShows'
    BY <1>4 DEF LoadOrder, FeedShows
<1>5. ASSUME NEW side \in Side, NEW kind \in Kinds, NEW price \in Prices \cup {NoPrice},
             NEW quantity \in Quantities, ProcessOrder(side, kind, price, quantity)
      PROVE  FeedShows'
    BY <1>3, <1>5 DEF ProcessOrder
<1>6. CASE Serve
    BY <1>6, ServeFeed
<1>7. CASE ExecuteTrade
    BY <1>7, ExecuteTradeFeed
<1>8. CASE SkipMaker \/ NextLevel
    BY <1>3, <1>8 DEF SkipMaker, NextLevel
<1>9. CASE Fill \/ DropRemainder
    BY <1>3, <1>9 DEF Fill, DropRemainder, Return
<1>10. CASE Rest
    BY <1>1, <1>10, RestFeed
<1>11. ASSUME NEW o \in Ids, CancelOrder(o) PROVE FeedShows'
    BY <1>11, CancelOrderFeed
<1>12. CASE UNCHANGED vars
    BY <1>3, <1>12 DEF vars
<1>13. QED
    BY <1>4, <1>5, <1>6, <1>7, <1>8, <1>9, <1>10, <1>11, <1>12 DEF Next, Recover, Place, Process, Cancel

\* The orders at a price that a level has are those of that level, each once.
LEMMA OrdersOfLevel ==
    ASSUME IInv, NEW side \in Side, NEW i \in 1..Len(levels[side])
    PROVE  /\ OrdersAt(side, levels[side][i].price) # {}
           /\ Cardinality(OrdersAt(side, levels[side][i].price)) = Len(levels[side][i].orders)
<1> DEFINE lv == levels[side]
           s == lv[i].orders
           S == OrdersAt(side, lv[i].price)
<1>1. lv \in Seq(Level) /\ PriceOnce(lv) /\ DOMAIN lv = 1..Len(lv)
    BY SidePrices, LenProperties DEF IInv
<1>2. s \in Seq(Nat) /\ Len(s) \in Nat /\ DOMAIN s = 1..Len(s)
    BY <1>1, LevelParts
<1>3. {k \in DOMAIN lv : lv[k].price = lv[i].price} = {i}
    BY <1>1 DEF PriceOnce
<1>4. S = ToSet(s)
    BY <1>3 DEF OrdersAt
<1>5. S = {s[j] : j \in 1..Len(s)}
    BY <1>2, <1>4 DEF ToSet
<1>6. \A j, k \in 1..Len(s) : s[j] = s[k] => j = k
  <2>1. Sound(lv, index, side, Ids)
      BY DEF IInv, BookInv
  <2>2. Unique(lv)
      BY <2>1, SoundIsUnique
  <2>3. QED
      BY <2>2 DEF Unique
<1>7. s # <<>> /\ Len(s) # 0
  <2>1. s # <<>>
      BY DEF IInv, BookInv, Sound
  <2>2. QED
      BY <1>2, <2>1, EmptySeq
<1>8. S # {}
  <2>1. 1 \in 1..Len(s)
      BY <1>2, <1>7
  <2>2. QED
      BY <1>5, <2>1
<1> DEFINE f == [j \in 1..Len(s) |-> s[j]]
<1>9. f \in Bijection(1..Len(s), S)
    BY <1>5, <1>6 DEF Bijection, Injection, Surjection, IsInjective
<1>10. Cardinality(S) = Len(s)
    BY <1>2, <1>9, FS_CountingElements DEF ExistsBijection
<1>11. QED
    BY <1>8, <1>10

-----------------------------------------------------------------------------
(* The quantities of the feed                                               *)

\* The orders that rest on a side at a price, by the index.
RestingAt(side, p) ==
    {x \in 1..Len(orders) : index[x] # Nowhere /\ orders[x].side = side /\ orders[x].price = p}

\* What an order adds to the depth of a side at a price.
Share(side, p) == [x \in Ids |-> IF x \in RestingAt(side, p) THEN Remaining(x) ELSE 0]

\* What the levels and the feed should hold.
Due(side, p) == Offered(side, p) + drift[side][p]

\* The offer of every price is the sum of the shares.
SharesAddUp ==
    \A side \in Side, p \in Prices :
        /\ OrdersAt(side, p) = RestingAt(side, p)
        /\ \A x \in Ids : Share(side, p)[x] \in Int
        /\ Offered(side, p) = SumFunctionOnSet(Share(side, p), Ids)
        /\ Offered(side, p) \in Int /\ drift[side][p] \in Nat

LEMMA OrdersAtIs ==
    ASSUME IInv, NEW side \in Side, NEW p \in Prices
    PROVE  OrdersAt(side, p) = RestingAt(side, p)
<1> DEFINE lv == levels[side]
           K == {k \in DOMAIN lv : lv[k].price = p}
<1>1. lv \in Seq(Level) /\ DOMAIN lv = 1..Len(lv)
    BY LenProperties DEF IInv, TypeOK
<1>2. OrdersAt(side, p) = UNION {ToSet(lv[i].orders) : i \in K}
    BY DEF OrdersAt
<1>3. ASSUME NEW i \in 1..Len(lv)
      PROVE  ToSet(lv[i].orders) = {lv[i].orders[j] : j \in 1..Len(lv[i].orders)}
  <2>1. DOMAIN lv[i].orders = 1..Len(lv[i].orders)
      BY <1>1, LevelParts, LenProperties
  <2>2. QED
      BY <2>1 DEF ToSet
<1>4. ASSUME NEW x \in OrdersAt(side, p) PROVE x \in RestingAt(side, p)
  <2>1. PICK i \in 1..Len(lv) : lv[i].price = p /\ x \in ToSet(lv[i].orders)
      BY <1>1, <1>2
  <2>2. PICK j \in 1..Len(lv[i].orders) : x = lv[i].orders[j]
      BY <1>3, <2>1
  <2>3. index[x] # Nowhere /\ LiveAt(side, x, p)
      BY <2>1, <2>2, SlotIsLive
  <2>4. QED
      BY <2>3 DEF LiveAt, RestingAt
<1>5. ASSUME NEW x \in RestingAt(side, p) PROVE x \in OrdersAt(side, p)
  <2>1. x \in 1..Len(orders) /\ index[x] # Nowhere /\ orders[x].side = side /\ orders[x].price = p
      BY DEF RestingAt
  <2>2. x \in Ids
      BY <2>1, OrderFields DEF IInv
  <2>3. index[x].side = side
      BY <2>1, <2>2, RestingIsLive
  <2>4. Stands(lv, x, index[x].level, index[x].pos)
      BY <2>1, <2>2, <2>3 DEF IInv, BookInv, Sound
  <2>5. PICK i \in 1..Len(lv) : \E j \in 1..Len(lv[i].orders) : lv[i].orders[j] = x
      BY <2>4 DEF Stands
  <2>6. PICK j \in 1..Len(lv[i].orders) : lv[i].orders[j] = x
      BY <2>5
  <2>7. LiveAt(side, x, lv[i].price)
      BY <2>6, SlotIsLive
  <2>8. i \in K /\ x \in ToSet(lv[i].orders)
      BY <1>1, <1>3, <2>1, <2>6, <2>7 DEF LiveAt
  <2>9. QED
      BY <1>2, <2>8
<1>6. QED
    BY <1>4, <1>5

LEMMA IdsAreFinite == IsFiniteSet(Ids)
<1>1. 1 \in Int /\ MaxOrders \in Int
    BY BoundsAssumption
<1>2. QED
    BY <1>1, FS_Interval DEF Ids

LEMMA Shares == IInv => SharesAddUp
<1> SUFFICES ASSUME IInv, NEW side \in Side, NEW p \in Prices
             PROVE  /\ OrdersAt(side, p) = RestingAt(side, p)
                    /\ \A x \in Ids : Share(side, p)[x] \in Int
                    /\ Offered(side, p) = SumFunctionOnSet(Share(side, p), Ids)
                    /\ Offered(side, p) \in Int /\ drift[side][p] \in Nat
    BY DEF SharesAddUp
<1> DEFINE S == RestingAt(side, p)
           f == [o \in DOMAIN orders |-> Remaining(o)]
           g == Share(side, p)
<1>1. OrdersAt(side, p) = S
    BY OrdersAtIs
<1>2. DOMAIN orders = 1..Len(orders) /\ TypeOK
    BY LenProperties DEF IInv, TypeOK
<1>3. ASSUME NEW x \in S PROVE x \in Ids /\ x \in DOMAIN orders /\ Remaining(x) \in Int
    BY <1>2, OrderFields DEF RestingAt
<1>4. ASSUME NEW x \in Ids PROVE g[x] = IF x \in S THEN Remaining(x) ELSE 0
    BY DEF Share
<1>5. \A x \in S : f[x] \in Int /\ f[x] = g[x]
    BY <1>3, <1>4
<1>6. \A x \in Ids : g[x] \in Int
    BY <1>3, <1>4
<1>7. \A x \in Ids \ S : g[x] = 0
    BY <1>4
<1>8. Offered(side, p) = SumFunctionOnSet(f, S)
    BY <1>1 DEF Offered
<1>9. S \subseteq Ids /\ IsFiniteSet(Ids)
    BY <1>3, IdsAreFinite
<1> HIDE DEF f, g, S
<1>10. IsFiniteSet(S) /\ IsFiniteSet(Ids \ S) /\ S \cup (Ids \ S) = Ids /\ S \cap (Ids \ S) = {}
    BY <1>9, FS_Subset, FS_Difference
<1>11. SumFunctionOnSet(f, S) = SumFunctionOnSet(g, S) /\ SumFunctionOnSet(g, S) \in Int
  <2>1. \A x \in S : g[x] \in Int
      BY <1>6, <1>9
  <2>2. QED
      BY <1>5, <1>10, <2>1, SumSame, SumInt
<1>12. SumFunctionOnSet(g, Ids \ S) = 0
    BY <1>7, <1>10, SumZero
<1>13. SumFunctionOnSet(g, Ids) = SumFunctionOnSet(g, S) + SumFunctionOnSet(g, Ids \ S)
  <2>1. \A x \in S \cup (Ids \ S) : g[x] \in Int
      BY <1>6, <1>10
  <2>2. SumFunctionOnSet(g, S \cup (Ids \ S)) = SumFunctionOnSet(g, S) + SumFunctionOnSet(g, Ids \ S)
      BY <1>10, <2>1, SumSplits
  <2>3. QED
      BY <1>10, <2>2
<1>14. drift[side][p] \in Nat
    BY <1>2 DEF TypeOK
<1>15. QED
    BY <1>1, <1>6, <1>8, <1>11, <1>12, <1>13, <1>14 DEF g, S

LEMMA SharesNext == IInv' => SharesAddUp'
BY Shares, PTL

\* If one share changes, so does the offer.
LEMMA OneShareChanges ==
    ASSUME IInv, IInv', NEW side \in Side, NEW p \in Prices, NEW o \in Ids,
           \A x \in Ids \ {o} : Share(side, p)'[x] = Share(side, p)[x]
    PROVE  Offered(side, p)' = Offered(side, p) - Share(side, p)[o] + Share(side, p)'[o]
<1>1. PICK f : f = Share(side, p)
    OBVIOUS
<1>2. PICK g : g = Share(side, p)'
    OBVIOUS
<1>3. /\ Offered(side, p) = SumFunctionOnSet(f, Ids) /\ Offered(side, p)' = SumFunctionOnSet(g, Ids)
      /\ \A x \in Ids : f[x] \in Int /\ g[x] \in Int
    BY <1>1, <1>2, Shares, SharesNext DEF SharesAddUp
<1>4. IsFiniteSet(Ids)
    BY IdsAreFinite
<1>5. \A x \in Ids \ {o} : f[x] \in Int /\ f[x] = g[x]
    BY <1>1, <1>2, <1>3
<1>6. SumFunctionOnSet(g, Ids) = SumFunctionOnSet(f, Ids) - f[o] + g[o]
    BY <1>3, <1>4, <1>5, SumChanges
<1>7. QED
    BY <1>1, <1>2, <1>3, <1>6

\* An order whose rest and remainder stay keeps its share.
LEMMA ShareStays ==
    ASSUME IInv, IInv', NEW side \in Side, NEW p \in Prices, NEW x \in Ids,
           index'[x] = Nowhere <=> index[x] = Nowhere,
           index[x] # Nowhere =>
               /\ x \in 1..Len(orders') /\ orders'[x] = orders[x] /\ filled'[x] = filled[x]
    PROVE  Share(side, p)'[x] = Share(side, p)[x]
<1>1. /\ Share(side, p)[x] = IF x \in RestingAt(side, p) THEN Remaining(x) ELSE 0
      /\ Share(side, p)'[x] = IF x \in RestingAt(side, p)' THEN Remaining(x)' ELSE 0
    BY DEF Share
<1>2. CASE index[x] = Nowhere
    BY <1>1, <1>2 DEF RestingAt
<1>3. CASE index[x] # Nowhere
  <2>1. x \in 1..Len(orders)
      BY <1>3, RestingIsLive
  <2>2. x \in RestingAt(side, p)' <=> x \in RestingAt(side, p)
      BY <1>3, <2>1 DEF RestingAt
  <2>3. Remaining(x)' = Remaining(x)
      BY <1>3 DEF Remaining
  <2>4. QED
      BY <1>1, <2>2, <2>3
<1>4. QED
    BY <1>2, <1>3
\* What an order at one price does to the offers when all others stay as they are.
LEMMA OfferMoves ==
    ASSUME IInv, IInv', NEW o \in Ids, NEW s \in Side, NEW price \in Prices,
           \A x \in Ids \ {o} : index'[x] = Nowhere <=> index[x] = Nowhere,
           \A x \in Ids \ {o} : index[x] # Nowhere =>
               /\ x \in 1..Len(orders') /\ orders'[x] = orders[x] /\ filled'[x] = filled[x],
           index[o] # Nowhere =>
               /\ o \in 1..Len(orders) /\ orders[o].side = s /\ orders[o].price = price,
           index'[o] # Nowhere =>
               /\ o \in 1..Len(orders') /\ orders'[o].side = s /\ orders'[o].price = price,
           NEW a \in Int, a = IF index[o] = Nowhere THEN 0 ELSE Remaining(o),
           NEW b \in Int, b = IF index'[o] = Nowhere THEN 0 ELSE Remaining(o)'
    PROVE  \A side \in Side, p \in Prices :
               Offered(side, p)' = IF side = s /\ p = price THEN Offered(side, p) - a + b
                                   ELSE Offered(side, p)
<1> SUFFICES ASSUME NEW side \in Side, NEW p \in Prices
             PROVE  Offered(side, p)' = IF side = s /\ p = price THEN Offered(side, p) - a + b
                                        ELSE Offered(side, p)
    OBVIOUS
<1>1. ASSUME NEW x \in Ids \ {o} PROVE Share(side, p)'[x] = Share(side, p)[x]
    BY <1>1, ShareStays
<1>2. Offered(side, p)' = Offered(side, p) - Share(side, p)[o] + Share(side, p)'[o]
    BY <1>1, OneShareChanges
<1>3. Offered(side, p) \in Int
    BY Shares DEF SharesAddUp
<1>4. /\ Share(side, p)[o] = IF o \in RestingAt(side, p) THEN Remaining(o) ELSE 0
      /\ Share(side, p)'[o] = IF o \in RestingAt(side, p)' THEN Remaining(o)' ELSE 0
    BY DEF Share
<1>5. CASE side = s /\ p = price
  <2>1. o \in RestingAt(side, p) <=> index[o] # Nowhere
      BY <1>5 DEF RestingAt
  <2>2. o \in RestingAt(side, p)' <=> index'[o] # Nowhere
      BY <1>5 DEF RestingAt
  <2>3. Share(side, p)[o] = a /\ Share(side, p)'[o] = b
      BY <1>4, <2>1, <2>2
  <2>4. QED
      BY <1>2, <1>5, <2>3
<1>6. CASE ~(side = s /\ p = price)
  <2>1. o \notin RestingAt(side, p)
      BY <1>6 DEF RestingAt
  <2>2. o \notin RestingAt(side, p)'
      BY <1>6 DEF RestingAt
  <2>3. Share(side, p)[o] = 0 /\ Share(side, p)'[o] = 0
      BY <1>4, <2>1, <2>2
  <2>4. QED
      BY <1>2, <1>3, <1>6, <2>3
<1>7. QED
    BY <1>5, <1>6

\* The aggregate of every level is what its orders can trade and what was traded from it.
Totals == \A side \in Side, p \in Prices : \A i \in 1..Len(levels[side]) :
              levels[side][i].price = p => levels[side][i].total = Due(side, p)

\* So is the quantity that the subscriber holds.
FeedExact == serving => \A side \in Side, p \in Prices : feed[side][p].quantity = Due(side, p)

\* Nothing is traded during recovery.
NoDrift == ~serving => Idle /\ \A side \in Side, p \in Prices : drift[side][p] = 0

QInv == DInv /\ Totals /\ FeedExact /\ NoDrift

\* Nothing is offered or owed differently, and the levels stay.
LEMMA TotalsStay ==
    ASSUME Totals, levels' = levels,
           \A side \in Side, p \in Prices : Due(side, p)' = Due(side, p)
    PROVE  Totals'
BY DEF Totals

\* The level of one price changes as it should.
LEMMA TotalsFollow ==
    ASSUME IInv, Totals, NEW s \in Side, NEW price \in Prices, NEW new,
           levels' = [levels EXCEPT ![s] = new],
           ShowsTheRest(levels[s], new, price),
           NEW count, Shows(new, price, Depth(Due(s, price)', count)),
           \A side \in Side, p \in Prices : (side # s \/ p # price) => Due(side, p)' = Due(side, p)
    PROVE  Totals'
<1>1. levels'[s] = new /\ \A side \in Side : side # s => levels'[side] = levels[side]
    BY DEF IInv, TypeOK
<1>2. SUFFICES ASSUME NEW side \in Side, NEW p \in Prices, NEW i \in 1..Len(levels'[side]),
                      levels'[side][i].price = p
               PROVE  levels'[side][i].total = Due(side, p)'
    BY DEF Totals
<1>3. CASE side # s
  <2>1. levels[side][i].total = Due(side, p)
      BY <1>1, <1>2, <1>3 DEF Totals
  <2>2. QED
      BY <1>1, <1>3, <2>1
<1>4. CASE side = s /\ p = price
  <2>1. Depth(Due(s, price)', count) = Depth(new[i].total, Len(new[i].orders))
      BY <1>1, <1>2, <1>4 DEF Shows
  <2>2. QED
      BY <1>1, <1>4, <2>1 DEF Depth
<1>5. CASE side = s /\ p # price
  <2> DEFINE lv == levels[s]
  <2>1. CASE \E k \in 1..Len(lv) : lv[k].price = p
    <3>1. PICK k \in 1..Len(lv) : lv[k].price = p
        BY <2>1
    <3>2. lv \in Seq(Level) /\ PriceOnce(lv)
        BY SidePrices DEF IInv
    <3>3. Shows(lv, p, Depth(lv[k].total, Len(lv[k].orders)))
        BY <3>1, <3>2 DEF Shows, PriceOnce
    <3>4. Shows(new, p, Depth(lv[k].total, Len(lv[k].orders)))
        BY <1>5, <3>3 DEF ShowsTheRest
    <3>5. Depth(lv[k].total, Len(lv[k].orders)) = Depth(new[i].total, Len(new[i].orders))
        BY <1>1, <1>2, <1>5, <3>4 DEF Shows
    <3>6. new[i].total = lv[k].total /\ lv[k].total = Due(s, p)
        BY <3>1, <3>5 DEF Depth, Totals
    <3>7. QED
        BY <1>1, <1>5, <3>6
  <2>2. CASE \A k \in 1..Len(lv) : lv[k].price # p
    <3>1. Shows(lv, p, Depth(0, 0)) /\ Shows(lv, p, Depth(1, 0))
        BY <2>2 DEF Shows, Depth
    <3>2. Shows(new, p, Depth(0, 0)) /\ Shows(new, p, Depth(1, 0))
        BY <1>5, <3>1 DEF ShowsTheRest
    <3>3. /\ Depth(0, 0) = Depth(new[i].total, Len(new[i].orders))
          /\ Depth(1, 0) = Depth(new[i].total, Len(new[i].orders))
        BY <1>1, <1>2, <1>5, <3>2 DEF Shows
    <3>4. QED
        BY <3>3 DEF Depth
  <2>3. QED
      BY <2>1, <2>2
<1>6. QED
    BY <1>3, <1>4, <1>5

\* So does the feed, with an update that tells what is due.
LEMMA FeedExactFollows ==
    ASSUME IInv, FeedExact, NEW s \in Side, NEW price \in Prices,
           serving' = serving, NEW count, NEW quantity, quantity = Due(s, price)',
           BookUpdate(s, price, quantity, count),
           \A side \in Side, p \in Prices : (side # s \/ p # price) => Due(side, p)' = Due(side, p)
    PROVE  FeedExact'
<1>1. feed \in [Side -> [Prices -> DepthOf]]
    BY DEF IInv, TypeOK, DepthOf
<1>2. /\ feed'[s][price] = Depth(quantity, count)
      /\ \A p \in Prices : p # price => feed'[s][p] = feed[s][p]
      /\ \A side \in Side : side # s => feed'[side] = feed[side]
    BY <1>1 DEF BookUpdate
<1>3. SUFFICES ASSUME serving, NEW side \in Side, NEW p \in Prices
               PROVE  feed'[side][p].quantity = Due(side, p)'
    BY DEF FeedExact
<1>4. CASE side = s /\ p = price
    BY <1>2, <1>4 DEF Depth
<1>5. CASE side # s \/ p # price
  <2>1. feed[side][p].quantity = Due(side, p)
      BY <1>3 DEF FeedExact
  <2>2. feed'[side][p] = feed[side][p]
      BY <1>2, <1>5
  <2>3. QED
      BY <1>5, <2>1, <2>2
<1>6. QED
    BY <1>4, <1>5

\* What addOrder does to the aggregates and to what is due.
LEMMA AddQuantities ==
    ASSUME IInv, IInv', Totals, NEW o \in Ids, index[o] = Nowhere,
           NEW order, NEW s \in Side, s = order.side, NEW price \in Prices, price = order.price,
           NEW remaining \in Int, AddOrder(o, order, remaining),
           o \in 1..Len(orders'), orders'[o].side = s, orders'[o].price = price,
           Remaining(o)' = remaining,
           \A x \in Ids \ {o} : index[x] # Nowhere =>
               /\ x \in 1..Len(orders') /\ orders'[x] = orders[x] /\ filled'[x] = filled[x]
    PROVE  /\ Totals'
           /\ \A side \in Side, p \in Prices : (side # s \/ p # price) => Due(side, p)' = Due(side, p)
           /\ \E i \in 1..Len(levels'[s]) : levels'[s][i].price = price
           /\ NoDrift /\ ~serving => \A side \in Side, p \in Prices : drift'[side][p] = 0
<1> DEFINE lv == levels[s]
<1>1. PICK l \in 1..(Len(lv) + 1) :
        /\ IsInsertionPoint(lv, s, price, l)
        /\ levels' = [levels EXCEPT ![s] = AddAt(lv, l, price, o, remaining)]
        /\ drift' = IF JoinsLevel(lv, price, l) THEN drift ELSE [drift EXCEPT ![s][price] = 0]
    BY DEF AddOrder
<1> DEFINE new == AddAt(lv, l, price, o, remaining)
<1>2. /\ lv \in Seq(Level) /\ PriceOnce(lv) /\ Len(lv) \in Nat
      /\ drift \in [Side -> [Prices -> Nat]] /\ levels \in [Side -> Seq(Level)]
    BY SidePrices, LenProperties DEF IInv, TypeOK
<1>3. o \in Nat /\ price \in Nat
    BY Bounds
<1>4. ShowsTheRest(lv, new, price)
    BY <1>2, <1>3, AddShows
<1>5. levels'[s] = new /\ levels' = [levels EXCEPT ![s] = new]
    BY <1>1, <1>2
<1>6. index'[o] # Nowhere /\ \A x \in Ids \ {o} : index'[x] = Nowhere <=> index[x] = Nowhere
    BY <1>3, AddRests
<1>7. \A side \in Side, p \in Prices :
          Offered(side, p)' = IF side = s /\ p = price THEN Offered(side, p) - 0 + remaining
                              ELSE Offered(side, p)
    BY <1>6, OfferMoves
<1>8. \A side \in Side, p \in Prices : Offered(side, p) \in Int /\ drift[side][p] \in Nat
    BY Shares DEF SharesAddUp
<1>9. \A side \in Side, p \in Prices : (side # s \/ p # price) => drift'[side][p] = drift[side][p]
    BY <1>1, <1>2
<1>10. \A side \in Side, p \in Prices : (side # s \/ p # price) => Due(side, p)' = Due(side, p)
    BY <1>7, <1>9 DEF Due
<1>11. NoDrift /\ ~serving => \A side \in Side, p \in Prices : drift'[side][p] = 0
  <2>1. ASSUME NoDrift, ~serving, NEW side \in Side, NEW p \in Prices PROVE drift'[side][p] = 0
    <3>1. drift[side][p] = 0
        BY <2>1 DEF NoDrift
    <3>2. QED
        BY <1>1, <1>2, <3>1
  <2>2. QED
      BY <2>1
<1>12. CASE JoinsLevel(lv, price, l)
  <2>1. l \in 1..Len(lv) /\ lv[l].price = price
      BY <1>2, <1>12 DEF JoinsLevel
  <2>2. lv[l] \in Level /\ lv[l].total \in Int /\ lv[l].orders \in Seq(Nat)
      BY <1>2, <2>1, LevelParts
  <2> DEFINE longer == Append(lv[l].orders, o)
             changed == [lv[l] EXCEPT !.orders = longer, !.total = lv[l].total + remaining]
  <2>3. longer \in Seq(Nat)
      BY <1>3, <2>2, AppendProperties
  <2>4. new = [lv EXCEPT ![l] = changed]
      BY <1>12 DEF AddAt
  <2>5. changed \in Level /\ changed.price = lv[l].price /\ changed.total = lv[l].total + remaining
    <3>1. lv[l].total + remaining \in Int
        BY <2>2
    <3>2. QED
        BY <2>2, <2>3, <3>1 DEF Level
  <2> HIDE DEF changed, new
  <2>6. Shows(new, price, Depth(changed.total, Len(changed.orders)))
      BY <1>2, <2>1, <2>4, <2>5, LevelChangeShows
  <2>7. drift'[s][price] = drift[s][price] /\ lv[l].total = Due(s, price)
      BY <1>1, <1>12, <2>1 DEF Totals
  <2>8. changed.total = Due(s, price)'
      BY <1>7, <1>8, <2>5, <2>7 DEF Due
  <2>9. Totals'
      BY <1>4, <1>5, <1>10, <2>6, <2>8, TotalsFollow
  <2>10. new[l].price = price /\ l \in 1..Len(new)
      BY <2>1, <2>4, <2>5, <1>2, ExceptSeq
  <2>11. QED
      BY <1>5, <1>10, <1>11, <2>9, <2>10
<1>13. CASE ~JoinsLevel(lv, price, l)
  <2> DEFINE level == [price |-> price, orders |-> <<o>>, total |-> remaining]
  <2>1. /\ level \in Level /\ level.price = price /\ level.total = remaining
        /\ Len(level.orders) = 1 /\ new = InsertAt(lv, l, level)
      BY <1>3, <1>13 DEF Level, AddAt
  <2> HIDE DEF level, new
  <2>2. /\ Len(new) = Len(lv) + 1
        /\ \A j \in 1..(Len(lv) + 1) :
             new[j] = IF j < l THEN lv[j] ELSE IF j = l THEN level ELSE lv[j - 1]
    <3>1. PICK old : old = lv
        OBVIOUS
    <3>2. PICK k \in 1..(Len(old) + 1) : k = l
        BY <3>1
    <3>3. PICK added : added = level
        OBVIOUS
    <3>4. old \in Seq(Level) /\ added \in Level /\ new = InsertAt(old, k, added)
        BY <1>2, <2>1, <3>1, <3>2, <3>3
    <3>5. /\ Len(InsertAt(old, k, added)) = Len(old) + 1
          /\ \A j \in 1..(Len(old) + 1) :
               InsertAt(old, k, added)[j] = IF j < k THEN old[j] ELSE IF j = k THEN added ELSE old[j - 1]
        BY <3>4, InsertAtElements
    <3>6. QED
        BY <3>1, <3>2, <3>3, <3>4, <3>5
  <2>3. new[l] = level /\ l \in 1..Len(new)
      BY <2>2
  <2>4. PriceOnce(new)
    <3>1. levels'[s] \in Seq(Level) /\ Sorted(levels'[s], s)
        BY DEF IInv, TypeOK, BookInv
    <3>2. QED
        BY <1>5, <3>1, SortedPrices
  <2>5. ASSUME NEW m \in 1..Len(lv) PROVE lv[m].price # price
    <3>1. CASE m < l
      <4>1. m \in 1..Len(new) /\ new[m] = lv[m] /\ m # l
          BY <1>2, <2>2, <3>1
      <4>2. QED
          BY <2>1, <2>3, <2>4, <4>1 DEF PriceOnce
    <3>2. CASE ~(m < l)
      <4>1. m + 1 \in 1..Len(new) /\ ~(m + 1 < l) /\ m + 1 # l /\ (m + 1) - 1 = m
          BY <1>2, <2>2, <3>2
      <4>2. new[m + 1] = lv[m]
          BY <1>2, <2>2, <4>1
      <4>3. QED
          BY <2>1, <2>3, <2>4, <4>1, <4>2 DEF PriceOnce
    <3>3. QED
        BY <3>1, <3>2
  <2>6. {k \in DOMAIN lv : lv[k].price = price} = {}
      BY <1>2, <2>5, LenProperties
  <2>7. OrdersAt(s, price) = {}
      BY <2>6 DEF OrdersAt
  <2>8. Offered(s, price) = 0
      BY <2>7, SumEmpty DEF Offered
  <2>9. drift'[s][price] = 0
      BY <1>1, <1>2, <1>13
  <2>10. Due(s, price)' = remaining
      BY <1>7, <2>8, <2>9 DEF Due
  <2>11. Shows(new, price, Depth(remaining, 1))
    <3>1. ASSUME NEW k \in 1..Len(new), new[k].price = price
          PROVE  Depth(remaining, 1) = Depth(new[k].total, Len(new[k].orders))
      <4>1. k = l
          BY <2>1, <2>3, <2>4, <3>1 DEF PriceOnce
      <4>2. QED
          BY <2>1, <2>3, <4>1
    <3>2. ~(\A k \in 1..Len(new) : new[k].price # price)
        BY <2>1, <2>3
    <3>3. QED
        BY <3>1, <3>2 DEF Shows
  <2>12. Totals'
      BY <1>4, <1>5, <1>10, <2>10, <2>11, TotalsFollow
  <2>13. QED
      BY <1>5, <1>10, <1>11, <2>1, <2>3, <2>12
<1>14. QED
    BY <1>12, <1>13

LEMMA LoadOrderQuantities ==
    ASSUME QInv, IInv', NEW side \in Side, NEW price \in Prices, NEW quantity \in Quantities,
           NEW carried \in 0..MaxQuantity, LoadOrder(side, price, quantity, carried)
    PROVE  Totals' /\ FeedExact' /\ NoDrift'
<1> DEFINE o == Len(orders) + 1
           order == [side |-> side, kind |-> <<"limit", "GTC">>, price |-> price,
                     quantity |-> quantity, carried |-> carried]
<1>1. /\ order \in Order /\ carried \in Nat /\ quantity \in Nat /\ TypeOK /\ IInv
      /\ quantity - carried \in Int
    BY Bounds, BoundsAssumption DEF Order, AllKinds, QInv, DInv, IInv
<1>2. order.side = side /\ order.price = price /\ order.quantity = quantity
    OBVIOUS
<1>3. /\ Len(orders) < MaxOrders /\ ~serving
      /\ orders' = Append(orders, order)
      /\ filled' = [filled EXCEPT ![o] = carried]
      /\ AddOrder(o, order, quantity - carried)
      /\ serving' = serving /\ taker' = taker
    BY DEF LoadOrder
<1> HIDE DEF order
<1>4. /\ Len(orders) \in Nat /\ Len(orders') = o /\ o \in Ids
      /\ orders'[o] = order /\ (\A x \in 1..Len(orders) : orders'[x] = orders[x])
      /\ o = Len(orders) + 1
    BY <1>1, <1>3, NewOrder
<1> HIDE DEF o
<1>5. PICK w \in Ids : w = o
    BY <1>4
<1>6. index[w] = Nowhere
    BY <1>1, <1>4, <1>5, RestingIsLive
<1>7. filled'[w] = carried /\ \A x \in Ids : x # w => filled'[x] = filled[x]
    BY <1>1, <1>3, <1>4, <1>5 DEF TypeOK
<1>8. ASSUME NEW x \in Ids \ {w}, index[x] # Nowhere
      PROVE  x \in 1..Len(orders') /\ orders'[x] = orders[x] /\ filled'[x] = filled[x]
  <2>1. x \in 1..Len(orders)
      BY <1>1, <1>8, RestingIsLive
  <2>2. QED
      BY <1>4, <1>7, <2>1
<1>9. w \in 1..Len(orders') /\ orders'[w].side = side /\ orders'[w].price = price
    BY <1>2, <1>4, <1>5
<1>10. Remaining(w)' = quantity - carried
    BY <1>2, <1>4, <1>5, <1>7 DEF Remaining
<1>11. AddOrder(w, order, quantity - carried)
    BY <1>3, <1>5
<1>12. /\ Totals'
       /\ NoDrift /\ ~serving => \A sd \in Side, p \in Prices : drift'[sd][p] = 0
  <2>1. PICK r \in Int : r = quantity - carried
      BY <1>1
  <2>2. AddOrder(w, order, r) /\ Remaining(w)' = r
      BY <1>10, <1>11, <2>1
  <2>3. QED
      BY <1>1, <1>2, <1>6, <1>8, <1>9, <2>2, AddQuantities DEF QInv
<1>13. QED
    BY <1>3, <1>12 DEF FeedExact, NoDrift, QInv, Idle

LEMMA RestQuantities ==
    ASSUME QInv, IInv', Rest
    PROVE  Totals' /\ FeedExact' /\ NoDrift'
<1>1. /\ ~Idle /\ Remaining(taker) > 0 /\ StaysInBook(taker)
      /\ AddOrder(taker, orders[taker], Remaining(taker))
      /\ LET here == Snapshot(levels'[TakerSide], Prices)[orders[taker].price]
         IN  BookUpdate(TakerSide, orders[taker].price, here.quantity, here.orderCount)
      /\ serving' = serving /\ orders' = orders /\ filled' = filled
    BY DEF Rest, LoopDone, Return
<1>2. IInv /\ taker \in 1..Len(orders) /\ taker \in Ids /\ TakerSide \in Side /\ index[taker] = Nowhere
    BY <1>1, TakerFacts DEF QInv, DInv
<1>3. orders[taker].price \in Prices /\ Remaining(taker) \in Int
    BY <1>1, <1>2, RestingPrice, OrderFields DEF IInv
<1>4. PICK o \in Ids : o = taker
    BY <1>2
<1>5. PICK s \in Side : s = TakerSide
    BY <1>2
<1>6. PICK price \in Prices : price = orders[taker].price
    BY <1>3
<1>7. PICK order : order = orders[taker]
    OBVIOUS
<1>8. PICK left \in Int : left = Remaining(taker)
    BY <1>3
<1>9. PICK here : here = Snapshot(levels'[s], Prices)[price]
    OBVIOUS
<1>10. order.side = s /\ order.price = price
    BY <1>5, <1>6, <1>7 DEF TakerSide
<1>11. AddOrder(o, order, left) /\ index[o] = Nowhere
    BY <1>1, <1>2, <1>4, <1>7, <1>8
<1>12. BookUpdate(s, price, here.quantity, here.orderCount)
    BY <1>1, <1>5, <1>6, <1>9
<1>13. o \in 1..Len(orders') /\ orders'[o].side = s /\ orders'[o].price = price
    BY <1>1, <1>2, <1>4, <1>7, <1>10
<1>14. Remaining(o)' = left
    BY <1>1, <1>4, <1>8 DEF Remaining
<1>15. \A x \in Ids \ {o} : index[x] # Nowhere =>
          x \in 1..Len(orders') /\ orders'[x] = orders[x] /\ filled'[x] = filled[x]
    BY <1>1, <1>2, RestingIsLive
<1>16. /\ Totals'
       /\ \A side \in Side, p \in Prices : (side # s \/ p # price) => Due(side, p)' = Due(side, p)
       /\ \E i \in 1..Len(levels'[s]) : levels'[s][i].price = price
       /\ NoDrift /\ ~serving => \A side \in Side, p \in Prices : drift'[side][p] = 0
    BY <1>2, <1>10, <1>11, <1>13, <1>14, <1>15, AddQuantities DEF QInv
<1>17. here.quantity = Due(s, price)'
  <2> DEFINE new == levels'[s]
  <2>1. new \in Seq(Level) /\ PriceOnce(new)
    <3>1. new \in Seq(Level) /\ Sorted(new, s)
        BY DEF IInv, TypeOK, BookInv
    <3>2. QED
        BY <3>1, SortedPrices
  <2>2. Shows(new, price, here)
      BY <1>9, <2>1, SnapshotShows
  <2>3. PICK i \in 1..Len(new) : new[i].price = price
      BY <1>16
  <2>4. here = Depth(new[i].total, Len(new[i].orders))
      BY <2>2, <2>3 DEF Shows
  <2>5. new[i].total = Due(s, price)'
      BY <1>16, <2>3 DEF Totals
  <2>6. QED
      BY <2>4, <2>5 DEF Depth
<1>18. FeedExact'
    BY <1>1, <1>2, <1>12, <1>16, <1>17, FeedExactFollows DEF QInv
<1>19. QED
    BY <1>1, <1>16, <1>18 DEF NoDrift, QInv

LEMMA ExecuteTradeQuantities ==
    ASSUME QInv, IInv', ExecuteTrade
    PROVE  Totals' /\ FeedExact' /\ NoDrift'
<1>1. PICK m \in Ids, s \in Side, i \in Nat, price \in Prices, q \in Nat :
             \E new, count : TradesAt(m, s, i, price, q, new, count)
    BY TradeChanges DEF QInv
<1>2. PICK new, count : TradesAt(m, s, i, price, q, new, count)
    BY <1>1
<1>3. IInv /\ TypeOK
    BY DEF QInv, DInv, IInv
<1>4. m \in 1..Len(orders) /\ orders[m].side = s /\ orders[m].price = price /\ m # taker
    BY <1>2 DEF TradesAt, LiveAt
<1>5. ~Idle /\ taker \in Ids /\ index[taker] = Nowhere
    BY <1>3, TakerFacts DEF ExecuteTrade, AtMaker, AtLevel
<1>6. /\ filled'[m] = filled[m] + q
      /\ \A x \in Ids : x # m /\ x # taker => filled'[x] = filled[x]
    BY <1>2, <1>3, <1>4, <1>5 DEF TradesAt, TypeOK
<1>7. PICK a \in Int : a = Remaining(m)
    BY <1>3, <1>4, OrderFields
<1>8. Remaining(m)' = a - q
    BY <1>2, <1>3, <1>4, <1>6, <1>7, OrderFields DEF Remaining, TradesAt
<1>9. /\ \A x \in Ids \ {m} : index'[x] = Nowhere <=> index[x] = Nowhere
      /\ a - q = IF index'[m] = Nowhere THEN 0 ELSE Remaining(m)'
  <2>1. CASE a > q
      BY <1>2, <1>7, <1>8, <2>1 DEF TradesAt
  <2>2. CASE ~(a > q)
    <3>1. index[m] # Nowhere /\ s = index[m].side /\ RemoveOrder(m, s, 0) /\ a = q
        BY <1>2, <1>7, <2>2 DEF TradesAt
    <3>2. index'[m] = Nowhere /\ \A x \in Ids \ {m} : index'[x] = Nowhere <=> index[x] = Nowhere
        BY <1>3, <3>1, RemoveRests
    <3>3. QED
        BY <3>1, <3>2
  <2>3. QED
      BY <2>1, <2>2
<1>10. \A x \in Ids \ {m} : index[x] # Nowhere =>
          x \in 1..Len(orders') /\ orders'[x] = orders[x] /\ filled'[x] = filled[x]
    BY <1>2, <1>3, <1>5, <1>6, RestingIsLive DEF TradesAt
<1>11. PICK b \in Int : b = a - q
    BY <1>7
<1>12. orders' = orders /\ index[m] # Nowhere
    BY <1>2 DEF TradesAt
<1>13. \A side \in Side, p \in Prices :
           Offered(side, p)' = IF side = s /\ p = price THEN Offered(side, p) - a + b
                               ELSE Offered(side, p)
    BY <1>3, <1>4, <1>7, <1>9, <1>10, <1>11, <1>12, OfferMoves
<1>14. drift' = [drift EXCEPT ![s][price] = @ + q]
    BY <1>2 DEF TradesAt
<1>15. /\ drift'[s][price] = drift[s][price] + q
       /\ \A side \in Side, p \in Prices : side # s \/ p # price => drift'[side][p] = drift[side][p]
    BY <1>3, <1>14, TradeDrift
<1>16. Offered(s, price) \in Int /\ drift[s][price] \in Nat
    BY <1>3, Shares DEF SharesAddUp
<1>17. \A side \in Side, p \in Prices : (side # s \/ p # price) => Due(side, p)' = Due(side, p)
    BY <1>13, <1>15 DEF Due
<1>18. Due(s, price)' = Due(s, price)
    BY <1>7, <1>11, <1>13, <1>15, <1>16 DEF Due
<1>19. levels[s][i].total = Due(s, price)'
    BY <1>2, <1>18 DEF QInv, Totals, TradesAt
<1>20. Totals'
    BY <1>2, <1>3, <1>17, <1>19, TotalsFollow DEF QInv, TradesAt
<1>21. FeedExact'
    BY <1>2, <1>3, <1>17, <1>19, FeedExactFollows DEF QInv, TradesAt
<1>22. NoDrift'
    BY <1>2, <1>5 DEF NoDrift, QInv, TradesAt
<1>23. QED
    BY <1>20, <1>21, <1>22

LEMMA CancelOrderQuantities ==
    ASSUME QInv, IInv', NEW o \in Ids, CancelOrder(o)
    PROVE  Totals' /\ FeedExact' /\ NoDrift'
<1>1. /\ index[o] # Nowhere /\ IInv
      /\ RemoveOrder(o, orders[o].side, Remaining(o))
      /\ LET level == levels[orders[o].side][index[o].level]
         IN  BookUpdate(orders[o].side, level.price, level.total - Remaining(o), Len(level.orders) - 1)
      /\ orders' = orders /\ filled' = filled /\ serving' = serving /\ serving /\ drift' = drift
    BY DEF CancelOrder, Resting, QInv, DInv
<1>2. PICK s \in Side : s = orders[o].side /\ index[o].side = s /\ o \in 1..Len(orders)
    BY <1>1, RestingIsLive
<1>3. PICK a \in Int : a = Remaining(o)
    BY <1>1, <1>2, OrderFields DEF IInv
<1>4. levels[s] \in Seq(Level) /\ PriceOnce(levels[s])
    BY <1>1, SidePrices DEF IInv
<1>5. PICK i \in 1..Len(levels[s]) : i = index[o].level /\ \E j \in 1..Len(levels[s][i].orders) : levels[s][i].orders[j] = o
    BY <1>1, <1>2 DEF IInv, BookInv, Sound, Stands
<1>6. PICK j \in 1..Len(levels[s][i].orders) : levels[s][i].orders[j] = o
    BY <1>5
<1>7. LiveAt(s, o, levels[s][i].price)
    BY <1>1, <1>6, SlotIsLive
<1>8. PICK price \in Prices : price = levels[s][i].price /\ price = orders[o].price
  <2>1. StaysInBook(o) /\ orders[o].price = levels[s][i].price
      BY <1>7 DEF LiveAt
  <2>2. QED
      BY <1>1, <1>2, <2>1, RestingPrice
<1>9. PICK new : new = RemoveFrom(levels[s], i, o, a) /\ levels' = [levels EXCEPT ![s] = new]
    BY <1>1, <1>2, <1>3, <1>5 DEF RemoveOrder
<1>10. PICK t \in Int : t = levels[s][i].total
    BY <1>4, LevelParts
<1>11. PICK count : count = Len(levels[s][i].orders) - 1
    OBVIOUS
<1>12. ShowsTheRest(levels[s], new, price) /\ Shows(new, price, Depth(t - a, count))
    BY <1>4, <1>6, <1>8, <1>9, <1>10, <1>11, RemoveShows
<1>13. BookUpdate(s, price, t - a, count)
    BY <1>1, <1>2, <1>3, <1>5, <1>8, <1>10, <1>11
<1>14. index'[o] = Nowhere /\ \A x \in Ids \ {o} : index'[x] = Nowhere <=> index[x] = Nowhere
    BY <1>1, <1>2, <1>3, RemoveRests
<1>15. \A x \in Ids \ {o} : index[x] # Nowhere =>
          x \in 1..Len(orders') /\ orders'[x] = orders[x] /\ filled'[x] = filled[x]
    BY <1>1, RestingIsLive
<1>16. \A side \in Side, p \in Prices :
           Offered(side, p)' = IF side = s /\ p = price THEN Offered(side, p) - a + 0
                               ELSE Offered(side, p)
    BY <1>1, <1>2, <1>3, <1>8, <1>14, <1>15, OfferMoves
<1>17. Offered(s, price) \in Int /\ drift[s][price] \in Nat
    BY <1>1, Shares DEF SharesAddUp
<1>18. \A side \in Side, p \in Prices : (side # s \/ p # price) => Due(side, p)' = Due(side, p)
    BY <1>1, <1>16 DEF Due
<1>19. t = Due(s, price)
    BY <1>8, <1>10 DEF QInv, Totals
<1>20. t - a = Due(s, price)'
    BY <1>1, <1>16, <1>17, <1>19 DEF Due
<1>21. Totals'
    BY <1>1, <1>9, <1>12, <1>18, <1>20, TotalsFollow DEF QInv
<1>22. FeedExact'
    BY <1>1, <1>13, <1>18, <1>20, FeedExactFollows DEF QInv
<1>23. QED
    BY <1>1, <1>21, <1>22 DEF NoDrift

\* The snapshot of a book in which nothing was traded shows what is due.
LEMMA ServeQuantities ==
    ASSUME QInv, Serve
    PROVE  Totals' /\ FeedExact' /\ NoDrift'
<1>1. /\ ~serving /\ serving' = TRUE /\ IInv
      /\ feed' = [side \in Side |-> Snapshot(levels[side], Prices)]
      /\ UNCHANGED <<orders, filled, levels, drift>>
    BY DEF Serve, QInv, DInv
<1>2. \A side \in Side, p \in Prices : Due(side, p)' = Due(side, p)
    BY <1>1 DEF Due, Offered, OrdersAt, Remaining
<1>3. Totals'
    BY <1>1, <1>2, TotalsStay DEF QInv
<1>4. ASSUME NEW side \in Side, NEW p \in Prices
      PROVE  feed'[side][p].quantity = Due(side, p)
  <2> DEFINE lv == levels[side]
             at == {i \in DOMAIN lv : lv[i].price = p}
  <2>1. lv \in Seq(Level) /\ PriceOnce(lv) /\ DOMAIN lv = 1..Len(lv)
      BY <1>1, SidePrices, LenProperties DEF IInv
  <2>2. PICK d : d = Snapshot(lv, Prices)[p]
      OBVIOUS
  <2>3. feed'[side][p] = d /\ Shows(lv, p, d)
      BY <1>1, <2>1, <2>2, SnapshotShows
  <2>4. CASE \E i \in 1..Len(lv) : lv[i].price = p
    <3>1. PICK i \in 1..Len(lv) : lv[i].price = p
        BY <2>4
    <3>2. d = Depth(lv[i].total, Len(lv[i].orders)) /\ lv[i].total = Due(side, p)
        BY <2>3, <3>1 DEF Shows, QInv, Totals
    <3>3. QED
        BY <2>3, <3>2 DEF Depth
  <2>5. CASE \A i \in 1..Len(lv) : lv[i].price # p
    <3>1. at = {}
        BY <2>1, <2>5
    <3>2. d = Depth(0, 0)
        BY <2>2, <3>1 DEF Snapshot
    <3>3. OrdersAt(side, p) = {}
        BY <3>1 DEF OrdersAt
    <3>4. Offered(side, p) = 0 /\ drift[side][p] = 0
        BY <1>1, <3>3, SumEmpty DEF Offered, QInv, NoDrift
    <3>5. QED
        BY <2>3, <3>2, <3>4 DEF Depth, Due
  <2>6. QED
      BY <2>4, <2>5
<1>5. QED
    BY <1>1, <1>2, <1>3, <1>4 DEF FeedExact, NoDrift

\* A step that leaves the book, its orders and the feed alone.
LEMMA QuantitiesStay ==
    ASSUME QInv, IInv', UNCHANGED <<levels, index, feed, drift, serving>>,
           ~serving => taker' = taker,
           \A x \in Ids : index[x] # Nowhere =>
               /\ x \in 1..Len(orders') /\ orders'[x] = orders[x] /\ filled'[x] = filled[x]
    PROVE  Totals' /\ FeedExact' /\ NoDrift'
<1>1. IInv
    BY DEF QInv, DInv
<1>2. ASSUME NEW side \in Side, NEW p \in Prices
      PROVE  Due(side, p)' = Due(side, p)
  <2>1. PICK f : f = Share(side, p)
      OBVIOUS
  <2>2. PICK g : g = Share(side, p)'
      OBVIOUS
  <2>3. /\ Offered(side, p) = SumFunctionOnSet(f, Ids) /\ Offered(side, p)' = SumFunctionOnSet(g, Ids)
        /\ \A x \in Ids : f[x] \in Int /\ g[x] \in Int
      BY <1>1, <2>1, <2>2, Shares, SharesNext DEF SharesAddUp
  <2>4. \A x \in Ids : f[x] = g[x]
      BY <1>1, <2>1, <2>2, ShareStays
  <2>5. IsFiniteSet(Ids)
      BY IdsAreFinite
  <2>6. SumFunctionOnSet(f, Ids) = SumFunctionOnSet(g, Ids)
      BY <2>3, <2>4, <2>5, SumSame
  <2>7. QED
      BY <2>3, <2>6 DEF Due
<1>3. Totals'
    BY <1>2, TotalsStay DEF QInv
<1>4. QED
    BY <1>2, <1>3 DEF FeedExact, NoDrift, QInv, Idle

LEMMA ProcessOrderQuantities ==
    ASSUME QInv, IInv', NEW side \in Side, NEW kind \in Kinds, NEW price \in Prices \cup {NoPrice},
           NEW quantity \in Quantities, ProcessOrder(side, kind, price, quantity)
    PROVE  Totals' /\ FeedExact' /\ NoDrift'
<1> DEFINE order == [side |-> side, kind |-> kind, price |-> price,
                     quantity |-> quantity, carried |-> 0]
<1>1. IInv /\ TypeOK
    BY DEF QInv, DInv, IInv
<1>2. orders' = Append(orders, order) /\ UNCHANGED <<levels, index, feed, drift, serving, filled>> /\ serving
    BY DEF ProcessOrder
<1>3. order \in Order
    BY KindsAssumption DEF Order
<1> HIDE DEF order
<1>4. /\ Len(orders) \in Nat /\ Len(orders') = Len(orders) + 1
      /\ \A x \in 1..Len(orders) : orders'[x] = orders[x]
    BY <1>1, <1>2, <1>3, NewOrder DEF ProcessOrder
<1>5. ASSUME NEW x \in Ids, index[x] # Nowhere
      PROVE  x \in 1..Len(orders') /\ orders'[x] = orders[x] /\ filled'[x] = filled[x]
  <2>1. x \in 1..Len(orders)
      BY <1>1, <1>5, RestingIsLive
  <2>2. QED
      BY <1>2, <1>4, <2>1
<1>6. QED
    BY <1>2, <1>5, QuantitiesStay

LEMMA QuantitiesNext == QInv /\ [Next]_vars => QInv'
<1> SUFFICES ASSUME QInv, [Next]_vars PROVE QInv'
    OBVIOUS
<1>1. DInv' /\ IInv'
  <2>1. DInv'
      BY FeedNext DEF QInv
  <2>2. QED
      BY <2>1 DEF DInv
<1>2. SUFFICES Totals' /\ FeedExact' /\ NoDrift'
    BY <1>1 DEF QInv
<1>3. ASSUME UNCHANGED <<orders, filled, levels, index, feed, drift, serving>>, ~serving => taker' = taker
      PROVE  Totals' /\ FeedExact' /\ NoDrift'
  <2>1. \A x \in Ids : index[x] # Nowhere => x \in 1..Len(orders')
      BY <1>3, RestingIsLive DEF QInv, DInv
  <2>2. QED
      BY <1>1, <1>3, <2>1, QuantitiesStay
<1>4. ASSUME NEW side \in Side, NEW price \in Prices, NEW quantity \in Quantities,
             NEW carried \in 0..MaxQuantity, LoadOrder(side, price, quantity, carried)
      PROVE  Totals' /\ FeedExact' /\ NoDrift'
    BY <1>1, <1>4, LoadOrderQuantities
<1>5. ASSUME NEW side \in Side, NEW kind \in Kinds, NEW price \in Prices \cup {NoPrice},
             NEW quantity \in Quantities, ProcessOrder(side, kind, price, quantity)
      PROVE  Totals' /\ FeedExact' /\ NoDrift'
    BY <1>1, <1>5, ProcessOrderQuantities
<1>6. CASE Serve
    BY <1>6, ServeQuantities
<1>7. CASE ExecuteTrade
    BY <1>1, <1>7, ExecuteTradeQuantities
<1>8. CASE SkipMaker \/ NextLevel
    BY <1>3, <1>8 DEF SkipMaker, NextLevel
<1>9. CASE Fill \/ DropRemainder
    BY <1>3, <1>9 DEF Fill, DropRemainder, Return, LoopDone, QInv, NoDrift
<1>10. CASE Rest
    BY <1>1, <1>10, RestQuantities
<1>11. ASSUME NEW o \in Ids, CancelOrder(o) PROVE Totals' /\ FeedExact' /\ NoDrift'
    BY <1>1, <1>11, CancelOrderQuantities
<1>12. CASE UNCHANGED vars
    BY <1>3, <1>12 DEF vars
<1>13. QED
    BY <1>4, <1>5, <1>6, <1>7, <1>8, <1>9, <1>10, <1>11, <1>12 DEF Next, Recover, Place, Process, Cancel

LEMMA InitQuantities == Init => QInv
<1> SUFFICES ASSUME Init PROVE QInv
    OBVIOUS
<1>1. IInv /\ ~serving
    BY InitInv DEF Init
<1>2. DInv /\ FeedExact
    BY <1>1 DEF DInv, FeedShows, FeedExact
<1>3. NoDrift
    BY DEF Init, NoDrift, Idle
<1>4. Totals
  <2>1. \A side \in Side : levels[side] = <<>>
      BY DEF Init
  <2>2. \A side \in Side : Len(levels[side]) = 0
      BY <2>1, EmptySeq
  <2>3. QED
      BY <2>2 DEF Totals
<1>5. QED
    BY <1>2, <1>3, <1>4 DEF QInv

\* Whatever levels are opened, emptied and spliced, by trades, cancels and arrivals: a
\* subscriber that starts from a snapshot and applies every book_update has, at every
\* price, the number of the orders that rest there, and for their quantity what they can
\* still trade and, on top, everything traded from their level since it was opened.
THEOREM FeedCorrect == Spec => []FeedFollowsBook
<1>1. QInv => FeedFollowsBook
  <2> SUFFICES ASSUME QInv, serving, NEW side \in Side, NEW p \in Prices
               PROVE  /\ feed[side][p].orderCount = Cardinality(OrdersAt(side, p))
                      /\ feed[side][p].quantity = Offered(side, p) + drift[side][p]
      BY DEF FeedFollowsBook
  <2> DEFINE lv == levels[side]
  <2>1. DInv /\ IInv /\ lv \in Seq(Level) /\ DOMAIN lv = 1..Len(lv)
      BY SidePrices, LenProperties DEF QInv, DInv, IInv
  <2>2. Shows(lv, p, feed[side][p])
      BY <2>1 DEF DInv, FeedShows
  <2>3. feed[side][p].orderCount = Cardinality(OrdersAt(side, p))
    <3>1. CASE \E i \in 1..Len(lv) : lv[i].price = p
      <4>1. PICK i \in 1..Len(lv) : lv[i].price = p
          BY <3>1
      <4>2. feed[side][p] = Depth(lv[i].total, Len(lv[i].orders))
          BY <2>2, <4>1 DEF Shows
      <4>3. Cardinality(OrdersAt(side, p)) = Len(lv[i].orders)
          BY <2>1, <4>1, OrdersOfLevel
      <4>4. QED
          BY <4>2, <4>3 DEF Depth
    <3>2. CASE \A i \in 1..Len(lv) : lv[i].price # p
      <4>1. OrdersAt(side, p) = {}
          BY <2>1, <3>2 DEF OrdersAt
      <4>2. feed[side][p].orderCount = 0
          BY <2>2, <3>2 DEF Shows
      <4>3. QED
          BY <4>1, <4>2, FS_EmptySet
    <3>3. QED
        BY <3>1, <3>2
  <2>4. feed[side][p].quantity = Offered(side, p) + drift[side][p]
      BY DEF QInv, FeedExact, Due
  <2>5. QED
      BY <2>3, <2>4
<1>2. QED
    BY <1>1, InitQuantities, QuantitiesNext, PTL DEF Spec

-----------------------------------------------------------------------------
(* Trades                                                                   *)

\* The order inside processOrder is the last that arrived, and recovery runs without one.
Newest == (taker # NoId => taker = Len(orders)) /\ (~serving => taker = NoId)

\* A trade of these makers and takers honours the limits of both.
Honest(t) ==
    /\ t.taker \in 1..Len(orders) /\ t.maker \in 1..Len(orders) /\ t.maker < t.taker
    /\ orders[t.maker].side = Opposite(orders[t.taker].side)
    /\ t.price = orders[t.maker].price
    /\ \/ orders[t.taker].kind[1] = "market"
       \/ Crosses(orders[t.taker].side, orders[t.taker].price, t.price)

HonestTrades == \A n \in 1..Len(trades) : Honest(trades[n])

TInv == IInv /\ Newest /\ HonestTrades

-----------------------------------------------------------------------------
(* Trades, statement by statement                                           *)

\* An order that arrives changes no older one.
LEMMA ArrivalKeepsTrades ==
    ASSUME IInv, HonestTrades, NEW order \in Order, Len(orders) < MaxOrders,
           orders' = Append(orders, order), UNCHANGED trades
    PROVE  HonestTrades'
<1>1. /\ Len(orders) \in Nat /\ Len(orders') = Len(orders) + 1
      /\ \A x \in 1..Len(orders) : orders'[x] = orders[x]
    BY NewOrder DEF IInv
<1>2. ASSUME NEW n \in 1..Len(trades)
      PROVE  Honest(trades[n])'
  <2>1. Honest(trades[n])
      BY DEF HonestTrades
  <2>2. trades[n].taker \in 1..Len(orders') /\ trades[n].maker \in 1..Len(orders')
      BY <1>1, <2>1 DEF Honest
  <2>3. trades'[n] = trades[n]
      OBVIOUS
  <2>4. QED
      BY <1>1, <2>1, <2>2, <2>3 DEF Honest
<1>3. QED
    BY <1>2 DEF HonestTrades

\* LoadOrder runs without a taker, and processOrder makes the newest order the taker.
LEMMA LoadOrderTrades ==
    ASSUME TInv, NEW side \in Side, NEW price \in Prices, NEW quantity \in Quantities,
           NEW carried \in 0..MaxQuantity, LoadOrder(side, price, quantity, carried)
    PROVE  Newest' /\ HonestTrades'
<1> DEFINE order == [side |-> side, kind |-> <<"limit", "GTC">>, price |-> price,
                     quantity |-> quantity, carried |-> carried]
<1>1. order \in Order
  <2>1. carried \in Nat
      BY BoundsAssumption
  <2>2. QED
      BY <2>1 DEF Order, AllKinds
<1>2. /\ Len(orders) < MaxOrders /\ orders' = Append(orders, order)
      /\ ~serving /\ UNCHANGED <<serving, taker, trades>>
    BY DEF LoadOrder
<1> HIDE DEF order
<1>3. HonestTrades'
    BY <1>1, <1>2, ArrivalKeepsTrades DEF TInv
<1>4. QED
    BY <1>2, <1>3 DEF TInv, Newest

LEMMA ProcessOrderTrades ==
    ASSUME TInv, NEW side \in Side, NEW kind \in Kinds, NEW price \in Prices \cup {NoPrice},
           NEW quantity \in Quantities, ProcessOrder(side, kind, price, quantity)
    PROVE  Newest' /\ HonestTrades'
<1> DEFINE order == [side |-> side, kind |-> kind, price |-> price,
                     quantity |-> quantity, carried |-> 0]
<1>1. order \in Order
    BY KindsAssumption DEF Order
<1>2. /\ Len(orders) < MaxOrders /\ orders' = Append(orders, order)
      /\ serving /\ taker' = Len(orders) + 1 /\ UNCHANGED <<serving, trades>>
    BY DEF ProcessOrder
<1> HIDE DEF order
<1>3. HonestTrades'
    BY <1>1, <1>2, ArrivalKeepsTrades DEF TInv
<1>4. Len(orders') = Len(orders) + 1
    BY <1>1, <1>2, NewOrder DEF TInv, IInv
<1>5. QED
    BY <1>2, <1>3, <1>4 DEF TInv, Newest

\* The trade of one iteration: the maker's price is that of its level, which the taker
\* accepts, and the maker rested when the taker, the newest order, arrived.
LEMMA ExecuteTradeTrades ==
    ASSUME TInv, ExecuteTrade
    PROVE  Newest' /\ HonestTrades'
<1> DEFINE level == Facing[cursor.level]
           maker == level.orders[cursor.pos]
           q == TradeQuantity(Remaining(taker), Remaining(maker))
           trade == [maker |-> maker, taker |-> taker, price |-> TradePrice(maker), quantity |-> q]
<1>1. /\ AtMaker /\ trades' = Append(trades, trade)
      /\ UNCHANGED <<orders, serving, taker>>
    BY DEF ExecuteTrade
<1>2. ~Idle /\ LiveAt(MakerSide, maker, level.price)
    BY <1>1, MakerFacts DEF TInv
<1>3. taker \in 1..Len(orders) /\ taker = Len(orders)
    BY <1>2, TakerFacts DEF TInv, Newest, Idle
<1>4. \/ orders[taker].kind[1] = "market"
      \/ Crosses(TakerSide, orders[taker].price, level.price)
    BY <1>1 DEF AtMaker, AtLevel
<1>5. trade.maker = maker /\ trade.taker = taker /\ trade.price = orders[maker].price
    BY DEF TradePrice
<1> HIDE DEF level, maker, trade
<1>6. /\ maker \in 1..Len(orders) /\ maker # taker
      /\ orders[maker].side = MakerSide /\ orders[maker].price = level.price
    BY <1>2 DEF LiveAt
<1>7. Honest(trade)
  <2>1. Len(orders) \in Nat
      BY LenProperties DEF TInv, IInv, TypeOK
  <2>2. maker < taker
      BY <1>3, <1>6, <2>1
  <2>3. QED
      BY <1>3, <1>4, <1>5, <1>6, <2>2 DEF Honest, MakerSide, TakerSide
<1>8. HonestTrades'
  <2>1. SUFFICES ASSUME NEW n \in 1..Len(trades') PROVE Honest(trades'[n])
      BY <1>1 DEF HonestTrades, Honest
  <2>2. trades \in Seq(Trade)
      BY DEF TInv, IInv, TypeOK
  <2>3. /\ Len(trades') = Len(trades) + 1 /\ trades'[Len(trades) + 1] = trade
        /\ \A m \in 1..Len(trades) : trades'[m] = trades[m]
      BY <1>1, <2>2, AppendProperties
  <2>4. CASE n = Len(trades) + 1
      BY <1>7, <2>3, <2>4
  <2>5. CASE n # Len(trades) + 1
    <3>1. n \in 1..Len(trades)
        BY <2>2, <2>3, <2>5, LenProperties
    <3>2. QED
        BY <2>3, <3>1 DEF TInv, HonestTrades
  <2>6. QED
      BY <2>4, <2>5
<1>9. QED
    BY <1>1, <1>8 DEF TInv, Newest

LEMMA TradesNext == TInv /\ [Next]_vars => TInv'
<1> SUFFICES ASSUME TInv, [Next]_vars PROVE TInv'
    OBVIOUS
<1>1. SUFFICES Newest' /\ HonestTrades'
    BY NextInv DEF TInv
<1>2. ASSUME NEW side \in Side, NEW price \in Prices, NEW quantity \in Quantities,
             NEW carried \in 0..MaxQuantity, LoadOrder(side, price, quantity, carried)
      PROVE  Newest' /\ HonestTrades'
    BY <1>2, LoadOrderTrades
<1>3. ASSUME NEW side \in Side, NEW kind \in Kinds, NEW price \in Prices \cup {NoPrice},
             NEW quantity \in Quantities, ProcessOrder(side, kind, price, quantity)
      PROVE  Newest' /\ HonestTrades'
    BY <1>3, ProcessOrderTrades
<1>4. CASE ExecuteTrade
    BY <1>4, ExecuteTradeTrades
<1>5. CASE /\ UNCHANGED <<orders, trades>>
           /\ taker' \in {taker, NoId} /\ (serving' = serving \/ serving' = TRUE)
  <2>1. HonestTrades'
      BY <1>5 DEF TInv, HonestTrades, Honest
  <2>2. QED
      BY <1>5, <2>1 DEF TInv, Newest
<1>6. CASE Serve
    BY <1>5, <1>6 DEF Serve
<1>7. CASE NextLevel \/ SkipMaker
    BY <1>5, <1>7 DEF NextLevel, SkipMaker
<1>8. CASE Fill \/ DropRemainder \/ Rest
    BY <1>5, <1>8 DEF Fill, DropRemainder, Rest, Return
<1>9. ASSUME NEW o \in Ids, CancelOrder(o) PROVE Newest' /\ HonestTrades'
    BY <1>5, <1>9 DEF CancelOrder
<1>10. CASE UNCHANGED vars
    BY <1>5, <1>10 DEF vars
<1>11. QED
    BY <1>2, <1>3, <1>4, <1>6, <1>7, <1>8, <1>9, <1>10
       DEF Next, Recover, Place, Process, Cancel

-----------------------------------------------------------------------------
(* The theorems about trades                                                *)

LEMMA InitTrades == Init => TInv
<1> SUFFICES ASSUME Init PROVE TInv
    OBVIOUS
<1>1. IInv
    BY InitInv
<1>2. taker = NoId /\ trades = <<>> /\ Len(trades) = 0
    BY DEF Init
<1>3. QED
    BY <1>1, <1>2 DEF TInv, Newest, HonestTrades

\* TInv holds in every reachable state.
THEOREM TradesInductive == Spec => []TInv
BY InitTrades, TradesNext, PTL DEF Spec

\* executeTrade never trades past a limit, at another price than the resting order's,
\* with an order of the taker's own side or with a younger one.
THEOREM TradesCorrect == Spec => []TradesHonourLimits
<1>1. TInv => TradesHonourLimits
  <2> SUFFICES ASSUME TInv PROVE TradesHonourLimits
      OBVIOUS
  <2>1. DOMAIN trades = 1..Len(trades) /\ DOMAIN orders = 1..Len(orders)
      BY LenProperties DEF TInv, IInv, TypeOK
  <2>2. QED
      BY <2>1 DEF TInv, HonestTrades, Honest, TradesHonourLimits
<1>2. QED
    BY <1>1, TradesInductive, PTL

-----------------------------------------------------------------------------
(* The walk of a taker                                                      *)

\* No level that the loop still has to look at is better than a trade of its taker.
Ahead ==
    ~Idle => \A n \in 1..Len(trades) : trades[n].taker = taker =>
                \A k \in 1..Len(Facing) :
                    k >= cursor.level => ~Better(MakerSide, Facing[k].price, trades[n].price)

\* Trade n is no better for its taker than its trade m.
NoBetter(n, m) ==
    trades[m].taker = trades[n].taker
        => ~Better(Opposite(orders[trades[n].taker].side), trades[n].price, trades[m].price)

Walks == \A m, n \in 1..Len(trades) : m < n => NoBetter(n, m)

WInv == TInv /\ Ahead /\ Walks

\* A level that the loop looks at after removeOrder or updateOrderFill is one that it
\* would have looked at before.
LEMMA LevelsAhead ==
    ASSUME IInv, ExecuteTrade
    PROVE  /\ MakerSide \in Side
           /\ \A k \in 1..Len(levels'[MakerSide]) : k >= cursor'.level =>
                \E m \in 1..Len(levels[MakerSide]) :
                    m >= cursor.level /\ levels'[MakerSide][k].price = levels[MakerSide][m].price
<1> DEFINE level == Facing[cursor.level]
           maker == level.orders[cursor.pos]
           q == TradeQuantity(Remaining(taker), Remaining(maker))
           now == filled[maker] + q
           total == TotalAfterFill(level.total, orders[maker].quantity, now, now)
           left == orders[maker].quantity - now
           lv == levels[MakerSide]
           i == cursor.level
<1>1. /\ AtMaker
      /\ IF left > 0
         THEN levels' = [levels EXCEPT ![MakerSide][cursor.level].total = total]
         ELSE RemoveOrder(maker, MakerSide, left)
      /\ cursor' = IF left <= 0 /\ Len(level.orders) = 1
                   THEN [level |-> cursor.level + 1, pos |-> 1]
                   ELSE [cursor EXCEPT !.pos = @ + 1]
    BY DEF ExecuteTrade
<1>2. /\ ~Idle /\ i \in 1..Len(lv) /\ level = lv[i]
      /\ index[maker] # Nowhere /\ maker \in Ids /\ index[maker].side = MakerSide
    BY <1>1, MakerFacts
<1>3. MakerSide \in Side
    BY <1>2, TakerFacts
<1>4. /\ levels \in [Side -> Seq(Level)] /\ lv \in Seq(Level) /\ Len(lv) \in Nat
      /\ cursor \in [level : Nat \ {0}, pos : Nat \ {0}]
    BY <1>3, LenProperties DEF IInv, TypeOK
<1>5. index[maker].level = i
  <2>1. cursor.pos \in 1..Len(lv[i].orders)
    <3>1. cursor.pos <= Len(lv[i].orders) /\ cursor.pos \in Nat \ {0}
        BY <1>1, <1>4 DEF AtMaker, Facing
    <3>2. Len(lv[i].orders) \in Nat
        BY <1>2, <1>4, LevelParts
    <3>3. QED
        BY <3>1, <3>2
  <2>2. index[lv[i].orders[cursor.pos]] = At(MakerSide, i, cursor.pos)
      BY <1>2, <1>3, <2>1, SlotIsLive
  <2>3. QED
      BY <1>2, <2>2, AtParts
<1> HIDE DEF level, maker, q, now, total, left
<1>6. cursor'.level \in {i, i + 1} /\ (~(left <= 0 /\ Len(level.orders) = 1) => cursor'.level = i)
                                  /\ (left <= 0 /\ Len(level.orders) = 1 => cursor'.level = i + 1)
    BY <1>1, <1>4
<1>7. SUFFICES ASSUME NEW k \in 1..Len(levels'[MakerSide]), k >= cursor'.level
               PROVE  \E m \in 1..Len(lv) : m >= i /\ levels'[MakerSide][k].price = lv[m].price
    BY <1>3
<1>8. CASE left > 0
  <2> DEFINE changed == [lv[i] EXCEPT !.total = total]
             new == [lv EXCEPT ![i] = changed]
  <2>1. levels'[MakerSide] = new
      BY <1>1, <1>3, <1>4, <1>8
  <2>2. changed.price = lv[i].price
    <3>1. lv[i] \in Level
        BY <1>2, <1>4, LevelParts
    <3>2. QED
        BY <3>1 DEF Level
  <2> HIDE DEF changed
  <2>3. Len(new) = Len(lv) /\ \A m \in 1..Len(lv) : new[m].price = lv[m].price
      BY <1>2, <1>4, <2>2, LenProperties
  <2>4. cursor'.level = i \/ cursor'.level = i + 1
      BY <1>6
  <2> HIDE DEF new
  <2>5. k \in 1..Len(lv) /\ new[k].price = lv[k].price /\ k >= i
      BY <1>2, <1>4, <1>7, <2>1, <2>3, <2>4
  <2>6. QED
      BY <2>1, <2>5
<1>9. CASE ~(left > 0)
  <2> DEFINE new == RemoveFrom(lv, i, maker, left)
  <2>1. levels'[MakerSide] = new
      BY <1>1, <1>3, <1>4, <1>5, <1>9 DEF RemoveOrder
  <2>2. CASE Len(lv[i].orders) = 1
    <3>1. new = RemoveAt(lv, i)
        BY <2>2 DEF RemoveFrom
    <3> HIDE DEF new
    <3>2. /\ Len(new) = Len(lv) - 1
          /\ \A m \in 1..(Len(lv) - 1) : new[m] = IF m < i THEN lv[m] ELSE lv[m + 1]
        BY <1>2, <1>4, <3>1, RemoveAtElements
    <3>3. k >= i
        BY <1>2, <1>4, <1>6, <1>7
    <3>4. k + 1 \in 1..Len(lv) /\ k + 1 >= i /\ new[k] = lv[k + 1]
        BY <1>2, <1>4, <1>7, <2>1, <3>2, <3>3
    <3>5. QED
        BY <2>1, <3>4
  <2>3. CASE Len(lv[i].orders) # 1
    <3> DEFINE shorter == [lv[i] EXCEPT !.orders = RemoveAt(@, PositionIn(lv[i], maker)),
                                        !.total = @ - left]
    <3>1. new = [lv EXCEPT ![i] = shorter]
        BY <2>3 DEF RemoveFrom
    <3>2. shorter.price = lv[i].price
      <4>1. lv[i] \in Level
          BY <1>2, <1>4, LevelParts
      <4>2. QED
          BY <4>1 DEF Level
    <3> HIDE DEF shorter, new
    <3>3. Len(new) = Len(lv) /\ \A m \in 1..Len(lv) : new[m].price = lv[m].price
        BY <1>2, <1>4, <3>1, <3>2, LenProperties
    <3>4. k \in 1..Len(lv) /\ new[k].price = lv[k].price /\ k >= i
        BY <1>2, <1>4, <1>6, <1>7, <2>1, <3>3
    <3>5. QED
        BY <2>1, <3>4
  <2>4. QED
      BY <2>2, <2>3
<1>10. QED
    BY <1>8, <1>9

\* A trade of the loop: no better than the taker's earlier ones, and no worse than what
\* lies ahead.
LEMMA ExecuteTradeWalks ==
    ASSUME WInv, ExecuteTrade
    PROVE  Ahead' /\ Walks'
<1> DEFINE level == Facing[cursor.level]
           maker == level.orders[cursor.pos]
           q == TradeQuantity(Remaining(taker), Remaining(maker))
           trade == [maker |-> maker, taker |-> taker, price |-> TradePrice(maker), quantity |-> q]
           lv == levels[MakerSide]
           i == cursor.level
<1>1. /\ AtMaker /\ trades' = Append(trades, trade)
      /\ orders' = orders /\ taker' = taker
    BY DEF ExecuteTrade
<1>2. IInv /\ Ahead /\ Walks /\ trades \in Seq(Trade) /\ Len(trades) \in Nat
    BY LenProperties DEF WInv, TInv, IInv, TypeOK
<1>3. /\ ~Idle /\ i \in 1..Len(lv) /\ level = lv[i]
      /\ LiveAt(MakerSide, maker, level.price)
    BY <1>1, <1>2, MakerFacts
<1>4. trade.taker = taker /\ trade.price = lv[i].price
    BY <1>3 DEF TradePrice, LiveAt
<1> HIDE DEF level, maker, q, trade
<1>5. MakerSide \in Side /\ MakerSide' = MakerSide /\ ~Idle' /\ Facing = lv /\ Facing' = levels'[MakerSide]
  <2>1. MakerSide \in Side
      BY <1>2, <1>3, TakerFacts
  <2>2. QED
      BY <1>1, <1>3, <2>1 DEF MakerSide, TakerSide, Facing, Idle
<1>6. /\ Len(trades') = Len(trades) + 1 /\ trades'[Len(trades) + 1] = trade
      /\ \A n \in 1..Len(trades) : trades'[n] = trades[n]
    BY <1>1, <1>2, AppendProperties
<1>7. \A k \in 1..Len(lv) : lv[k].price \in Nat
    BY <1>2, <1>5, LevelParts DEF IInv, TypeOK
<1>8. \A k \in 1..Len(lv) : k >= i => ~Better(MakerSide, lv[k].price, trade.price)
  <2>1. SUFFICES ASSUME NEW k \in 1..Len(lv), k >= i
                 PROVE  ~Better(MakerSide, lv[k].price, lv[i].price)
      BY <1>4
  <2>2. CASE k = i
      BY <1>3, <1>7, <2>2 DEF Better
  <2>3. CASE k # i
    <3>1. i < k
        BY <1>3, <2>1, <2>3
    <3>2. Better(MakerSide, lv[i].price, lv[k].price)
        BY <1>2, <1>3, <1>5, <3>1 DEF IInv, BookInv, Sorted
    <3>3. QED
        BY <1>3, <1>7, <3>2 DEF Better
  <2>4. QED
      BY <2>2, <2>3
<1>9. \A n \in 1..Len(trades') : trades'[n].taker = taker =>
        \A k \in 1..Len(lv) : k >= i => ~Better(MakerSide, lv[k].price, trades'[n].price)
  <2>1. TAKE n \in 1..Len(trades')
  <2>2. CASE n = Len(trades) + 1
      BY <1>6, <1>8, <2>2
  <2>3. CASE n # Len(trades) + 1
    <3>1. n \in 1..Len(trades) /\ trades'[n] = trades[n]
        BY <1>2, <1>6, <2>3
    <3>2. QED
        BY <1>2, <1>3, <1>5, <3>1 DEF Ahead
  <2>4. QED
      BY <2>2, <2>3
<1>10. Ahead'
  <2>1. SUFFICES ASSUME NEW n \in 1..Len(trades'), trades'[n].taker = taker,
                        NEW k \in 1..Len(levels'[MakerSide]), k >= cursor'.level
                 PROVE  ~Better(MakerSide, levels'[MakerSide][k].price, trades'[n].price)
      BY <1>1, <1>5 DEF Ahead
  <2>2. PICK m \in 1..Len(lv) : m >= i /\ levels'[MakerSide][k].price = lv[m].price
      BY <1>2, <2>1, LevelsAhead
  <2>3. QED
      BY <1>9, <2>1, <2>2
<1>11. Walks'
  <2>1. SUFFICES ASSUME NEW m \in 1..Len(trades'), NEW n \in 1..Len(trades'), m < n,
                        trades'[m].taker = trades'[n].taker
                 PROVE  ~Better(Opposite(orders[trades'[n].taker].side), trades'[n].price, trades'[m].price)
      BY <1>1 DEF Walks, NoBetter
  <2>2. m \in 1..Len(trades) /\ trades'[m] = trades[m]
      BY <1>2, <1>6, <2>1
  <2>3. CASE n = Len(trades) + 1
    <3>1. trades'[n].taker = taker /\ trades'[n].price = lv[i].price
        BY <1>4, <1>6, <2>3
    <3>2. ~Better(MakerSide, lv[i].price, trades'[m].price)
        BY <1>3, <1>9, <2>1, <3>1
    <3>3. QED
        BY <3>1, <3>2 DEF MakerSide, TakerSide
  <2>4. CASE n # Len(trades) + 1
    <3>1. n \in 1..Len(trades) /\ trades'[n] = trades[n]
        BY <1>2, <1>6, <2>4
    <3>2. QED
        BY <1>2, <2>1, <2>2, <3>1 DEF Walks, NoBetter
  <2>5. QED
      BY <2>3, <2>4
<1>12. QED
    BY <1>10, <1>11

\* No trade names an order that has yet to arrive, and older orders stay as they are.
LEMMA ArrivalKeepsWalks ==
    ASSUME WInv, NEW order \in Order, Len(orders) < MaxOrders, orders' = Append(orders, order),
           UNCHANGED trades, taker' \in {NoId, Len(orders) + 1}
    PROVE  Ahead' /\ Walks'
<1>1. /\ Len(orders) \in Nat
      /\ \A x \in 1..Len(orders) : orders'[x] = orders[x]
    BY NewOrder DEF WInv, TInv, IInv
<1>2. \A n \in 1..Len(trades) : trades[n].taker \in 1..Len(orders)
    BY DEF WInv, TInv, HonestTrades, Honest
<1>3. Ahead'
  <2>1. \A n \in 1..Len(trades) : trades[n].taker # Len(orders) + 1
      BY <1>1, <1>2
  <2>2. QED
      BY <2>1 DEF Ahead, Idle
<1>4. Walks'
    BY <1>1, <1>2 DEF WInv, Walks, NoBetter
<1>5. QED
    BY <1>3, <1>4

LEMMA WalksNext == WInv /\ [Next]_vars => WInv'
<1> SUFFICES ASSUME WInv, [Next]_vars PROVE WInv'
    OBVIOUS
<1>1. SUFFICES Ahead' /\ Walks'
    BY TradesNext DEF WInv
<1>2. ASSUME NEW side \in Side, NEW price \in Prices, NEW quantity \in Quantities,
             NEW carried \in 0..MaxQuantity, LoadOrder(side, price, quantity, carried)
      PROVE  Ahead' /\ Walks'
  <2> DEFINE order == [side |-> side, kind |-> <<"limit", "GTC">>, price |-> price,
                       quantity |-> quantity, carried |-> carried]
  <2>1. order \in Order
    <3>1. carried \in Nat
        BY BoundsAssumption
    <3>2. QED
        BY <3>1 DEF Order, AllKinds
  <2>2. /\ Len(orders) < MaxOrders /\ orders' = Append(orders, order)
        /\ ~serving /\ UNCHANGED <<taker, trades>>
      BY <1>2 DEF LoadOrder
  <2> HIDE DEF order
  <2>3. taker' = NoId
      BY <2>2 DEF WInv, TInv, Newest
  <2>4. QED
      BY <2>1, <2>2, <2>3, ArrivalKeepsWalks
<1>3. ASSUME NEW side \in Side, NEW kind \in Kinds, NEW price \in Prices \cup {NoPrice},
             NEW quantity \in Quantities, ProcessOrder(side, kind, price, quantity)
      PROVE  Ahead' /\ Walks'
  <2> DEFINE order == [side |-> side, kind |-> kind, price |-> price,
                       quantity |-> quantity, carried |-> 0]
  <2>1. order \in Order
      BY KindsAssumption DEF Order
  <2>2. /\ Len(orders) < MaxOrders /\ orders' = Append(orders, order)
        /\ taker' = Len(orders) + 1 /\ trades' = trades
      BY <1>3 DEF ProcessOrder
  <2> HIDE DEF order
  <2>3. QED
      BY <2>1, <2>2, ArrivalKeepsWalks
<1>4. CASE ExecuteTrade
    BY <1>4, ExecuteTradeWalks
<1>5. CASE UNCHANGED <<orders, levels, taker, trades>> /\ (cursor' = cursor \/ cursor'.level >= cursor.level)
  <2>1. Walks'
      BY <1>5 DEF WInv, Walks, NoBetter
  <2>2. Ahead'
    <3>1. SUFFICES ASSUME ~Idle, NEW n \in 1..Len(trades), trades[n].taker = taker,
                          NEW k \in 1..Len(Facing), k >= cursor'.level
                   PROVE  ~Better(MakerSide, Facing[k].price, trades[n].price)
        BY <1>5 DEF Ahead, Idle, Facing, MakerSide, TakerSide
    <3>2. k >= cursor.level
      <4>1. cursor.level \in Nat /\ cursor'.level \in Nat /\ k \in Nat
          BY NextInv DEF WInv, TInv, IInv, TypeOK
      <4>2. QED
          BY <1>5, <3>1, <4>1
    <3>3. QED
        BY <3>1, <3>2 DEF WInv, Ahead
  <2>3. QED
      BY <2>1, <2>2
<1>6. CASE UNCHANGED <<orders, trades>> /\ taker' = NoId
    BY <1>6 DEF WInv, Walks, NoBetter, Ahead, Idle
<1>7. CASE Serve \/ UNCHANGED vars
    BY <1>5, <1>7 DEF Serve, vars
<1>8. CASE NextLevel \/ SkipMaker
  <2>1. cursor.level \in Nat /\ cursor \in [level : Nat \ {0}, pos : Nat \ {0}]
      BY DEF WInv, TInv, IInv, TypeOK
  <2>2. cursor'.level >= cursor.level
      BY <1>8, <2>1 DEF NextLevel, SkipMaker
  <2>3. QED
      BY <1>5, <1>8, <2>2 DEF NextLevel, SkipMaker
<1>9. CASE Fill \/ DropRemainder \/ Rest
    BY <1>6, <1>9 DEF Fill, DropRemainder, Rest, Return
<1>10. ASSUME NEW o \in Ids, CancelOrder(o) PROVE Ahead' /\ Walks'
    BY <1>6, <1>10 DEF CancelOrder, Idle
<1>11. QED
    BY <1>2, <1>3, <1>4, <1>7, <1>8, <1>9, <1>10
       DEF Next, Recover, Place, Process, Cancel

\* The loop of processOrder over the live arrays never comes back to a better level: the
\* trades of one taker do not get better for it, although makers and levels are spliced
\* out underneath the iterators.
THEOREM WalkCorrect == Spec => []TakerWalksAway
<1>1. Init => WInv
  <2> SUFFICES ASSUME Init PROVE WInv
      OBVIOUS
  <2>1. IInv
      BY InitInv
  <2>2. taker = NoId /\ trades = <<>> /\ Len(trades) = 0
      BY DEF Init
  <2>3. QED
      BY <2>1, <2>2 DEF WInv, TInv, Newest, HonestTrades, Ahead, Walks
<1>2. WInv => TakerWalksAway
  <2> SUFFICES ASSUME WInv PROVE TakerWalksAway
      OBVIOUS
  <2>1. DOMAIN trades = 1..Len(trades)
      BY LenProperties DEF WInv, TInv, IInv, TypeOK
  <2>2. QED
      BY <2>1 DEF WInv, Walks, NoBetter, TakerWalksAway
<1>3. QED
    BY <1>1, <1>2, WalksNext, PTL DEF Spec

-----------------------------------------------------------------------------
(* Fills are trades                                                         *)

\* What an order is filled is what it brought and what its trades add up to.
FillsAddUp == \A o \in 1..Len(orders) : filled[o] = orders[o].carried + Traded(o)

SInv == TInv /\ FillsAddUp

\* The trades of an order are finitely many positions of the log.
LEMMA TradedAdds ==
    ASSUME trades \in Seq(Trade), NEW o
    PROVE  /\ DOMAIN trades = 1..Len(trades) /\ Len(trades) \in Nat
           /\ IsFiniteSet(TradesOf(o)) /\ TradesOf(o) \subseteq DOMAIN trades
           /\ \A n \in DOMAIN trades : trades[n] \in Trade /\ trades[n].quantity \in Int
           /\ Traded(o) \in Int
<1> DEFINE f == [n \in DOMAIN trades |-> trades[n].quantity]
<1>1. DOMAIN trades = 1..Len(trades) /\ Len(trades) \in Nat
    BY LenProperties
<1>2. TradesOf(o) \subseteq DOMAIN trades
    BY DEF TradesOf
<1>3. IsFiniteSet(TradesOf(o))
    <2>1. IsFiniteSet(DOMAIN trades) /\ TradesOf(o) \in SUBSET DOMAIN trades
        BY <1>1, <1>2, FS_Interval
    <2> QED
        BY <2>1, FS_Subset
<1>4. \A n \in DOMAIN trades : trades[n] \in Trade
    BY <1>1, ElementOfSeq
<1>5. \A n \in DOMAIN trades : trades[n].quantity \in Int
    BY <1>4, BoundsAssumption DEF Trade, Quantities
<1>6. \A n \in TradesOf(o) : f[n] \in Int
    BY <1>2, <1>5
<1> HIDE DEF f
<1>7. SumFunctionOnSet(f, TradesOf(o)) \in Int
    BY <1>3, <1>6, SumInt
<1> QED
    BY <1>1, <1>2, <1>3, <1>4, <1>5, <1>7 DEF f, Traded

\* A trade adds its quantity to what its maker and its taker have traded.
LEMMA TradeAdds ==
    ASSUME trades \in Seq(Trade), NEW t \in Trade, trades' = Append(trades, t), NEW o
    PROVE  Traded(o)' = Traded(o) + (IF o \in {t.maker, t.taker} THEN t.quantity ELSE 0)
<1> DEFINE f == [n \in DOMAIN trades |-> trades[n].quantity]
           g == [n \in DOMAIN trades' |-> trades'[n].quantity]
           S == TradesOf(o)
           y == Len(trades) + 1
<1>1. /\ DOMAIN trades = 1..Len(trades) /\ Len(trades) \in Nat
      /\ IsFiniteSet(S) /\ S \subseteq DOMAIN trades
      /\ \A n \in DOMAIN trades : trades[n].quantity \in Int
      /\ Traded(o) \in Int
    BY TradedAdds
<1>2. /\ trades' \in Seq(Trade) /\ Len(trades') = y
      /\ \A n \in 1..Len(trades) : trades'[n] = trades[n]
      /\ trades'[y] = t
    BY AppendProperties
<1>3. DOMAIN trades' = 1..y
    BY <1>2, LenProperties
<1>4. Traded(o) = SumFunctionOnSet(f, S) /\ Traded(o)' = SumFunctionOnSet(g, TradesOf(o)')
    BY DEF Traded
<1>5. t.quantity \in Int
    BY BoundsAssumption DEF Trade, Quantities
<1>6. y \notin S /\ \A n \in S : n \in 1..y /\ f[n] \in Int /\ g[n] = f[n]
    BY <1>1, <1>2, <1>3
<1>7. g[y] = t.quantity
    BY <1>1, <1>2, <1>3
<1>8. TradesOf(o)' = IF o \in {t.maker, t.taker} THEN S \cup {y} ELSE S
    <2>1. \A n : n \in 1..y <=> n \in 1..Len(trades) \/ n = y
        BY <1>1
    <2>2. \A n : n \in TradesOf(o)' <=> n \in S \/ (n = y /\ o \in {t.maker, t.taker})
        BY <1>1, <1>2, <1>3, <2>1 DEF TradesOf
    <2> QED
        BY <2>2
<1> HIDE DEF f, g, S, y
<1>9. SumFunctionOnSet(f, S) = SumFunctionOnSet(g, S)
    BY <1>1, <1>6, SumSame
<1>10. SumFunctionOnSet(g, S \cup {y}) = g[y] + SumFunctionOnSet(g, S)
    <2>1. IsFiniteSet(S) /\ y \notin S /\ g[y] \in Int /\ \A n \in S : g[n] \in Int
        BY <1>1, <1>5, <1>6, <1>7
    <2> QED
        BY <2>1, SumAddsElement, Zenon
<1>11. CASE o \in {t.maker, t.taker}
    BY <1>1, <1>4, <1>5, <1>7, <1>8, <1>9, <1>10, <1>11
<1>12. CASE o \notin {t.maker, t.taker}
    BY <1>1, <1>4, <1>8, <1>9, <1>12
<1> QED
    BY <1>11, <1>12

\* No trade names an order that has yet to arrive.
LEMMA ArrivalKeepsFills ==
    ASSUME SInv, NEW order \in Order, Len(orders) < MaxOrders, orders' = Append(orders, order),
           UNCHANGED trades, filled'[Len(orders) + 1] = order.carried,
           \A x \in 1..Len(orders) : filled'[x] = filled[x]
    PROVE  FillsAddUp'
<1>1. /\ Len(orders) \in Nat /\ Len(orders') = Len(orders) + 1
      /\ \A x \in 1..Len(orders) : orders'[x] = orders[x]
      /\ orders'[Len(orders) + 1] = order
    BY NewOrder DEF SInv, TInv, IInv
<1>2. SUFFICES ASSUME NEW x \in 1..Len(orders')
               PROVE  filled'[x] = orders'[x].carried + Traded(x)
    BY DEF FillsAddUp, Traded, TradesOf
<1>3. CASE x \in 1..Len(orders)
    BY <1>1, <1>3 DEF SInv, FillsAddUp
<1>4. CASE x = Len(orders) + 1
    <2>1. TradesOf(x) = {}
        <3>1. trades \in Seq(Trade)
            BY DEF SInv, TInv, IInv, TypeOK
        <3>2. \A n \in DOMAIN trades : Honest(trades[n])
            BY <3>1, TradedAdds DEF SInv, TInv, HonestTrades
        <3>3. \A n \in DOMAIN trades : trades[n].maker # x /\ trades[n].taker # x
            BY <1>1, <1>4, <3>2 DEF Honest
        <3> QED
            BY <3>3 DEF TradesOf
    <2>2. Traded(x) = 0
        BY <2>1, SumEmpty DEF Traded
    <2>3. order.carried \in Nat
        BY DEF Order
    <2> QED
        BY <1>1, <1>4, <2>2, <2>3
<1> QED
    BY <1>1, <1>3, <1>4

LEMMA LoadOrderFills ==
    ASSUME SInv, NEW side \in Side, NEW price \in Prices, NEW quantity \in Quantities,
           NEW carried \in 0..MaxQuantity, LoadOrder(side, price, quantity, carried)
    PROVE  FillsAddUp'
<1> DEFINE order == [side |-> side, kind |-> <<"limit", "GTC">>, price |-> price,
                     quantity |-> quantity, carried |-> carried]
<1>1. order \in Order /\ order.carried = carried
  <2>1. carried \in Nat
      BY BoundsAssumption
  <2>2. QED
      BY <2>1 DEF Order, AllKinds
<1>2. /\ Len(orders) < MaxOrders /\ orders' = Append(orders, order)
      /\ filled' = [filled EXCEPT ![Len(orders) + 1] = carried] /\ UNCHANGED trades
    BY DEF LoadOrder
<1> HIDE DEF order
<1>3. filled \in [Ids -> Nat] /\ Len(orders) + 1 \in Ids /\ Len(orders) \in Nat
      /\ \A x \in 1..Len(orders) : x \in Ids
  <2>1. TypeOK
      BY DEF SInv, TInv, IInv
  <2>2. Len(orders) + 1 \in Ids /\ Len(orders) \in Nat
      BY <1>1, <1>2, <2>1, NewOrder
  <2>3. \A x \in 1..Len(orders) : x \in Ids
      BY <2>1, OrderFields
  <2>4. filled \in [Ids -> Nat]
      BY <2>1 DEF TypeOK
  <2>5. QED
      BY <2>2, <2>3, <2>4
<1>4. filled'[Len(orders) + 1] = order.carried /\ \A x \in 1..Len(orders) : filled'[x] = filled[x]
    BY <1>1, <1>2, <1>3
<1>5. QED
    BY <1>1, <1>2, <1>4, ArrivalKeepsFills

LEMMA ProcessOrderFills ==
    ASSUME SInv, NEW side \in Side, NEW kind \in Kinds, NEW price \in Prices \cup {NoPrice},
           NEW quantity \in Quantities, ProcessOrder(side, kind, price, quantity)
    PROVE  FillsAddUp'
<1> DEFINE order == [side |-> side, kind |-> kind, price |-> price,
                     quantity |-> quantity, carried |-> 0]
<1>1. order \in Order /\ order.carried = 0
    BY KindsAssumption DEF Order
<1>2. /\ Len(orders) < MaxOrders /\ orders' = Append(orders, order)
      /\ UNCHANGED <<filled, trades>>
    BY DEF ProcessOrder
<1> HIDE DEF order
<1>3. Len(orders) + 1 \in Ids /\ Len(orders) \in Nat
    BY <1>1, <1>2, NewOrder DEF SInv, TInv, IInv
<1>4. filled[Len(orders) + 1] = 0
    BY <1>3 DEF SInv, TInv, IInv, Fresh
<1>5. QED
    BY <1>1, <1>2, <1>4, ArrivalKeepsFills

\* executeTrade gives both orders what it writes into the log.
LEMMA ExecuteTradeFills ==
    ASSUME SInv, TInv', ExecuteTrade
    PROVE  FillsAddUp'
<1> DEFINE level == Facing[cursor.level]
           maker == level.orders[cursor.pos]
           q == TradeQuantity(Remaining(taker), Remaining(maker))
           trade == [maker |-> maker, taker |-> taker, price |-> TradePrice(maker), quantity |-> q]
<1>1. /\ AtMaker /\ trades' = Append(trades, trade) /\ orders' = orders
      /\ filled' = [filled EXCEPT ![taker] = @ + q, ![maker] = filled[maker] + q]
    BY DEF ExecuteTrade
<1>2. trades \in Seq(Trade) /\ trade \in Trade
    <2>1. trades \in Seq(Trade) /\ trades' \in Seq(Trade)
        BY DEF SInv, TInv, IInv, TypeOK
    <2>2. Len(trades') = Len(trades) + 1 /\ trades'[Len(trades) + 1] = trade /\ Len(trades) \in Nat
        BY <1>1, <2>1
    <2>3. Len(trades) + 1 \in 1..Len(trades')
        BY <2>2
    <2>4. trades'[Len(trades) + 1] \in Trade
        BY <2>1, <2>3, ElementOfSeq
    <2> QED
        BY <2>1, <2>2, <2>4
<1>3. trade.maker = maker /\ trade.taker = taker /\ trade.quantity = q
    OBVIOUS
<1>4. q \in Int
    BY <1>2, <1>3, BoundsAssumption DEF Trade, Quantities
<1>5. maker \in Ids /\ taker \in Ids /\ maker # taker
    <2>1. ~Idle /\ LiveAt(MakerSide, maker, level.price) /\ maker \in Ids
        BY <1>1, MakerFacts DEF SInv, TInv
    <2> QED
        BY <2>1, TakerFacts DEF SInv, TInv, LiveAt
<1> HIDE DEF trade, q, maker
<1>6. SUFFICES ASSUME NEW o \in 1..Len(orders)
               PROVE  filled'[o] = orders[o].carried + Traded(o)'
    BY <1>1 DEF FillsAddUp
<1>7. Traded(o)' = Traded(o) + (IF o \in {maker, taker} THEN q ELSE 0) /\ Traded(o) \in Int
    BY <1>1, <1>2, <1>3, TradeAdds, TradedAdds
<1>8. filled[o] = orders[o].carried + Traded(o)
    BY DEF SInv, FillsAddUp
<1>9. o \in Ids /\ orders[o].carried \in Nat /\ filled[o] \in Nat /\ filled \in [Ids -> Nat]
    <2>1. orders \in Seq(Order) /\ filled \in [Ids -> Nat] /\ Len(orders) <= MaxOrders /\ Len(orders) \in Nat
        BY LenProperties DEF SInv, TInv, IInv, TypeOK
    <2>2. orders[o] \in Order
        BY <2>1, ElementOfSeq
    <2>3. o \in Ids
        BY <2>1, BoundsAssumption DEF Ids
    <2> QED
        BY <2>1, <2>2, <2>3 DEF Order
<1>10. filled'[o] = filled[o] + (IF o \in {maker, taker} THEN q ELSE 0)
    <2>1. filled'[maker] = filled[maker] + q
        BY <1>1, <1>5, <1>9
    <2>2. filled'[taker] = filled[taker] + q
        BY <1>1, <1>5, <1>9
    <2>3. o \notin {maker, taker} => filled'[o] = filled[o]
        BY <1>1, <1>5, <1>9
    <2> QED
        BY <1>4, <1>9, <2>1, <2>2, <2>3
<1>11. QED
    BY <1>4, <1>7, <1>8, <1>9, <1>10

LEMMA FillsNext == SInv /\ [Next]_vars => SInv'
<1> SUFFICES ASSUME SInv, [Next]_vars PROVE SInv'
    OBVIOUS
<1>1. TInv'
    BY TradesNext DEF SInv
<1>2. SUFFICES FillsAddUp'
    BY <1>1 DEF SInv
<1>3. ASSUME NEW side \in Side, NEW price \in Prices, NEW quantity \in Quantities,
             NEW carried \in 0..MaxQuantity, LoadOrder(side, price, quantity, carried)
      PROVE  FillsAddUp'
    BY <1>3, LoadOrderFills
<1>4. ASSUME NEW side \in Side, NEW kind \in Kinds, NEW price \in Prices \cup {NoPrice},
             NEW quantity \in Quantities, ProcessOrder(side, kind, price, quantity)
      PROVE  FillsAddUp'
    BY <1>4, ProcessOrderFills
<1>5. CASE ExecuteTrade
    BY <1>1, <1>5, ExecuteTradeFills
<1>6. ASSUME UNCHANGED <<orders, filled, trades>> PROVE FillsAddUp'
    BY <1>6 DEF SInv, FillsAddUp, Traded, TradesOf
<1>7. CASE Serve \/ SkipMaker \/ NextLevel
    BY <1>6, <1>7 DEF Serve, SkipMaker, NextLevel
<1>8. CASE Fill \/ DropRemainder \/ Rest
    BY <1>6, <1>8 DEF Fill, DropRemainder, Rest, Return
<1>9. ASSUME NEW o \in Ids, CancelOrder(o) PROVE FillsAddUp'
    BY <1>6, <1>9 DEF CancelOrder
<1>10. CASE UNCHANGED vars
    BY <1>6, <1>10 DEF vars
<1>11. QED
    BY <1>3, <1>4, <1>5, <1>7, <1>8, <1>9, <1>10 DEF Next, Recover, Place, Process, Cancel

\* However the loop walks and splices the levels, an order is never filled beyond its
\* quantity, and its fills are what recovery brought and exactly the trades announced for it.
THEOREM FillsCorrect == Spec => []FillsAreTrades
<1>1. Init => SInv
  <2> SUFFICES ASSUME Init PROVE SInv
      OBVIOUS
  <2>1. TInv
      BY InitTrades
  <2>2. FillsAddUp
      BY DEF Init, FillsAddUp
  <2>3. QED
      BY <2>1, <2>2 DEF SInv
<1>2. SInv => FillsAreTrades
  <2> SUFFICES ASSUME SInv PROVE FillsAreTrades
      OBVIOUS
  <2>1. DOMAIN orders = 1..Len(orders) /\ NoOverfill
      BY LenProperties DEF SInv, TInv, IInv, TypeOK
  <2>2. QED
      BY <2>1 DEF SInv, FillsAddUp, FillsAreTrades, NoOverfill
<1>3. QED
    BY <1>1, <1>2, FillsNext, PTL DEF Spec

-----------------------------------------------------------------------------
(* Time priority                                                            *)

\* The orders of every level of a side stand in the order of their ids.
Fifo(lv) ==
    \A i \in 1..Len(lv) : \A j, k \in 1..Len(lv[i].orders) :
        j < k => lv[i].orders[j] < lv[i].orders[k]

FifoBook == \A side \in Side : Fifo(levels[side])

FInv == TInv /\ FifoBook

-----------------------------------------------------------------------------
(* The two changes of a side                                                *)

\* Appending an order that is younger than all of a queue keeps it in order.
LEMMA AppendKeepsOrder ==
    ASSUME NEW s \in Seq(Nat), NEW o \in Nat, \A j \in 1..Len(s) : s[j] < o,
           \A j, k \in 1..Len(s) : j < k => s[j] < s[k],
           NEW j \in 1..Len(Append(s, o)), NEW k \in 1..Len(Append(s, o)), j < k
    PROVE  Append(s, o)[j] < Append(s, o)[k]
<1>1. /\ Len(s) \in Nat /\ Len(Append(s, o)) = Len(s) + 1
      /\ \A n \in 1..(Len(s) + 1) : Append(s, o)[n] = IF n <= Len(s) THEN s[n] ELSE o
  <2>1. Len(s) \in Nat
      BY LenProperties
  <2>2. PICK S : S = Nat
      OBVIOUS
  <2>3. s \in Seq(S) /\ o \in S
      BY <2>2
  <2>4. /\ Len(Append(s, o)) = Len(s) + 1
        /\ \A n \in 1..(Len(s) + 1) : Append(s, o)[n] = IF n <= Len(s) THEN s[n] ELSE o
      BY <2>3, AppendProperties
  <2>5. QED
      BY <2>1, <2>4
<1>a. j \in 1..(Len(s) + 1) /\ k \in 1..(Len(s) + 1)
    BY <1>1
<1>2. j \in 1..Len(s) /\ Append(s, o)[j] = s[j]
    BY <1>1, <1>a
<1>3. CASE k = Len(s) + 1
    BY <1>1, <1>2, <1>3
<1>4. CASE k # Len(s) + 1
  <2>1. k \in 1..Len(s) /\ Append(s, o)[k] = s[k]
      BY <1>1, <1>a, <1>4
  <2>2. QED
      BY <1>2, <2>1
<1>5. QED
    BY <1>3, <1>4

\* Taking an order out of a queue keeps the others in order.
LEMMA RemoveKeepsOrder ==
    ASSUME NEW s \in Seq(Nat), NEW n \in 1..Len(s),
           \A j, k \in 1..Len(s) : j < k => s[j] < s[k],
           NEW j \in 1..Len(RemoveAt(s, n)), NEW k \in 1..Len(RemoveAt(s, n)), j < k
    PROVE  RemoveAt(s, n)[j] < RemoveAt(s, n)[k]
<1>1. /\ Len(s) \in Nat /\ Len(RemoveAt(s, n)) = Len(s) - 1
      /\ \A m \in 1..(Len(s) - 1) : RemoveAt(s, n)[m] = IF m < n THEN s[m] ELSE s[m + 1]
    BY RemoveAtElements, LenProperties
<1> DEFINE was(m) == IF m < n THEN m ELSE m + 1
<1>2. /\ was(j) \in 1..Len(s) /\ RemoveAt(s, n)[j] = s[was(j)]
      /\ was(k) \in 1..Len(s) /\ RemoveAt(s, n)[k] = s[was(k)]
    BY <1>1
<1>3. was(j) < was(k)
    BY <1>1
<1> HIDE DEF was
<1>4. QED
    BY <1>2, <1>3

\* addToBids, addToAsks: an order younger than all of a side goes to the end of its level.
LEMMA AddKeepsFifo ==
    ASSUME NEW lv \in Seq(Level), Fifo(lv), NEW o \in Nat, NEW l \in 1..(Len(lv) + 1),
           \A i \in 1..Len(lv) : \A j \in 1..Len(lv[i].orders) : lv[i].orders[j] < o,
           NEW price \in Nat, NEW remaining \in Int
    PROVE  Fifo(AddAt(lv, l, price, o, remaining))
<1> DEFINE new == AddAt(lv, l, price, o, remaining)
           opened == [price |-> price, orders |-> <<o>>, total |-> remaining]
<1>0. Len(lv) \in Nat
    BY LenProperties
<1>1. CASE JoinsLevel(lv, price, l)
  <2> DEFINE joined == [lv[l] EXCEPT !.orders = Append(lv[l].orders, o), !.total = lv[l].total + remaining]
  <2>1. new = [lv EXCEPT ![l] = joined]
      BY <1>1 DEF AddAt
  <2>2. l \in 1..Len(lv)
      BY <1>0, <1>1 DEF JoinsLevel
  <2>3. lv[l] \in Level /\ lv[l].orders \in Seq(Nat) /\ lv[l].total \in Int
      BY <2>2, LevelParts
  <2>4. joined \in Level /\ joined.orders = Append(lv[l].orders, o)
    <3>1. Append(lv[l].orders, o) \in Seq(Nat) /\ lv[l].total + remaining \in Int
        BY <2>3, AppendProperties
    <3>2. QED
        BY <2>3, <3>1 DEF Level
  <2> HIDE DEF joined, new
  <2>5. /\ Len(new) = Len(lv)
        /\ \A i \in 1..Len(lv) : new[i] = IF i = l THEN joined ELSE lv[i]
      BY <2>1, <2>2, <2>4, ExceptSeq
  <2>6. SUFFICES ASSUME NEW i \in 1..Len(lv), NEW j \in 1..Len(new[i].orders),
                        NEW k \in 1..Len(new[i].orders), j < k
                 PROVE  new[i].orders[j] < new[i].orders[k]
      BY <2>5 DEF Fifo, new
  <2>7. CASE i = l
    <3>1. new[i].orders = Append(lv[l].orders, o)
        BY <2>4, <2>5, <2>7
    <3>2. /\ \A n \in 1..Len(lv[l].orders) : lv[l].orders[n] < o
          /\ \A n, m \in 1..Len(lv[l].orders) : n < m => lv[l].orders[n] < lv[l].orders[m]
        BY <2>2 DEF Fifo
    <3>3. QED
        BY <2>3, <2>6, <3>1, <3>2, AppendKeepsOrder
  <2>8. CASE i # l
      BY <2>5, <2>6, <2>8 DEF Fifo
  <2>9. QED
      BY <2>7, <2>8
<1>2. CASE ~JoinsLevel(lv, price, l)
  <2>1. new = InsertAt(lv, l, opened)
      BY <1>2 DEF AddAt
  <2>2. opened \in Level /\ opened.orders = <<o>>
      BY DEF Level
  <2> HIDE DEF opened, new
  <2>3. /\ Len(new) = Len(lv) + 1
        /\ \A i \in 1..(Len(lv) + 1) :
             new[i] = IF i < l THEN lv[i] ELSE IF i = l THEN opened ELSE lv[i - 1]
      BY <2>1, <2>2, InsertAtElements
  <2>4. SUFFICES ASSUME NEW i \in 1..(Len(lv) + 1), NEW j \in 1..Len(new[i].orders),
                        NEW k \in 1..Len(new[i].orders), j < k
                 PROVE  new[i].orders[j] < new[i].orders[k]
      BY <2>3 DEF Fifo, new
  <2>5. CASE i = l
    <3>1. new[i].orders = <<o>> /\ Len(<<o>>) = 1
        BY <2>2, <2>3, <2>5
    <3>2. j \in 1..1 /\ k \in 1..1
        BY <3>1
    <3>3. QED
        BY <2>4, <3>2
  <2>6. CASE i # l
    <3>1. \E n \in 1..Len(lv) : new[i] = lv[n]
        BY <1>0, <2>3, <2>6
    <3>2. QED
        BY <2>4, <3>1 DEF Fifo
  <2>7. QED
      BY <2>5, <2>6
<1>3. QED
    BY <1>1, <1>2

\* removeOrder: the other orders keep their places relative to each other.
LEMMA RemoveKeepsFifo ==
    ASSUME NEW lv \in Seq(Level), Fifo(lv), NEW i \in 1..Len(lv), NEW o,
           \E j \in 1..Len(lv[i].orders) : lv[i].orders[j] = o, NEW remaining \in Int
    PROVE  Fifo(RemoveFrom(lv, i, o, remaining))
<1> DEFINE new == RemoveFrom(lv, i, o, remaining)
           n == PositionIn(lv[i], o)
<1>0. Len(lv) \in Nat
    BY LenProperties
<1>1. lv[i] \in Level /\ lv[i].orders \in Seq(Nat) /\ lv[i].total \in Int
      /\ DOMAIN lv[i].orders = 1..Len(lv[i].orders)
    BY LevelParts
<1>2. n \in 1..Len(lv[i].orders)
    BY <1>1 DEF PositionIn
<1>3. CASE Len(lv[i].orders) = 1
  <2>1. new = RemoveAt(lv, i)
      BY <1>3 DEF RemoveFrom
  <2> HIDE DEF new
  <2>2. /\ Len(new) = Len(lv) - 1
        /\ \A k \in 1..(Len(lv) - 1) : new[k] = IF k < i THEN lv[k] ELSE lv[k + 1]
      BY <2>1, RemoveAtElements
  <2>3. \A k \in 1..Len(new) : \E m \in 1..Len(lv) : new[k] = lv[m]
      BY <1>0, <2>2
  <2>4. QED
      BY <2>3 DEF Fifo, new
<1>4. CASE Len(lv[i].orders) # 1
  <2> DEFINE shorter == [lv[i] EXCEPT !.orders = RemoveAt(lv[i].orders, n), !.total = lv[i].total - remaining]
  <2>1. new = [lv EXCEPT ![i] = shorter]
      BY <1>4 DEF RemoveFrom
  <2>2. shorter \in Level /\ shorter.orders = RemoveAt(lv[i].orders, n)
    <3>1. RemoveAt(lv[i].orders, n) \in Seq(Nat)
      <4> HIDE DEF n
      <4>1. QED
          BY <1>1, <1>2, RemoveAtElements
    <3>a. lv[i].total - remaining \in Int
        BY <1>1
    <3>2. QED
        BY <1>1, <3>1, <3>a DEF Level
  <2> HIDE DEF shorter, new, n
  <2>3. /\ Len(new) = Len(lv)
        /\ \A k \in 1..Len(lv) : new[k] = IF k = i THEN shorter ELSE lv[k]
      BY <2>1, <2>2, ExceptSeq
  <2>4. SUFFICES ASSUME NEW m \in 1..Len(lv), NEW j \in 1..Len(new[m].orders),
                        NEW k \in 1..Len(new[m].orders), j < k
                 PROVE  new[m].orders[j] < new[m].orders[k]
      BY <2>3 DEF Fifo, new
  <2>5. CASE m = i
    <3>1. new[m].orders = RemoveAt(lv[i].orders, n)
        BY <2>2, <2>3, <2>5
    <3>2. \A a, b \in 1..Len(lv[i].orders) : a < b => lv[i].orders[a] < lv[i].orders[b]
        BY DEF Fifo
    <3>3. QED
        BY <1>1, <1>2, <2>4, <3>1, <3>2, RemoveKeepsOrder
  <2>6. CASE m # i
      BY <2>3, <2>4, <2>6 DEF Fifo
  <2>7. QED
      BY <2>5, <2>6
<1>5. QED
    BY <1>3, <1>4

-----------------------------------------------------------------------------
(* Time priority, statement by statement                                    *)

\* addOrder, for an order that is younger than all that rest.
LEMMA AddOrderFifo ==
    ASSUME FInv, NEW o \in Nat, NEW order, order.side \in Side, order.price \in Nat,
           NEW remaining \in Int, AddOrder(o, order, remaining),
           \A side \in Side : \A i \in 1..Len(levels[side]) : \A j \in 1..Len(levels[side][i].orders) :
               levels[side][i].orders[j] < o
    PROVE  FifoBook'
<1> DEFINE s == order.side
<1>1. PICK l \in 1..(Len(levels[s]) + 1) :
        levels' = [levels EXCEPT ![s] = AddAt(levels[s], l, order.price, o, remaining)]
    BY DEF AddOrder
<1>2. levels \in [Side -> Seq(Level)] /\ Fifo(levels[s])
    BY DEF FInv, FifoBook, TInv, IInv, TypeOK
<1>3. Fifo(AddAt(levels[s], l, order.price, o, remaining))
    BY <1>2, AddKeepsFifo
<1>4. QED
    BY <1>1, <1>2, <1>3 DEF FInv, FifoBook

\* removeOrder, for an order that rests.
LEMMA RemoveOrderFifo ==
    ASSUME FInv, NEW o \in Ids, index[o] # Nowhere, NEW s \in Side, s = index[o].side,
           NEW remaining \in Int, RemoveOrder(o, s, remaining)
    PROVE  FifoBook'
<1>1. levels' = [levels EXCEPT ![s] = RemoveFrom(levels[s], index[o].level, o, remaining)]
    BY DEF RemoveOrder
<1>2. levels \in [Side -> Seq(Level)] /\ Fifo(levels[s])
    BY DEF FInv, FifoBook, TInv, IInv, TypeOK
<1>3. Stands(levels[s], o, index[o].level, index[o].pos)
    BY DEF FInv, TInv, IInv, BookInv, Sound
<1>4. Fifo(RemoveFrom(levels[s], index[o].level, o, remaining))
    BY <1>2, <1>3, RemoveKeepsFifo DEF Stands
<1>5. QED
    BY <1>1, <1>2, <1>4 DEF FInv, FifoBook

\* Whatever rests arrived, and is not the order inside processOrder.
LEMMA RestingArrived ==
    ASSUME IInv, NEW side \in Side, NEW i \in 1..Len(levels[side]), NEW j \in 1..Len(levels[side][i].orders)
    PROVE  levels[side][i].orders[j] \in 1..Len(orders) /\ levels[side][i].orders[j] # taker
BY SlotIsLive DEF LiveAt

LEMMA LoadOrderFifo ==
    ASSUME FInv, NEW side \in Side, NEW price \in Prices, NEW quantity \in Quantities,
           NEW carried \in 0..MaxQuantity, LoadOrder(side, price, quantity, carried)
    PROVE  FifoBook'
<1> DEFINE o == Len(orders) + 1
           order == [side |-> side, kind |-> <<"limit", "GTC">>, price |-> price,
                     quantity |-> quantity, carried |-> carried]
           remaining == quantity - carried
<1>1. AddOrder(o, order, remaining)
    BY DEF LoadOrder
<1>2. order.side \in Side /\ order.price \in Nat /\ remaining \in Int
    BY BoundsAssumption DEF Prices, Quantities
<1>3. Len(orders) \in Nat
    BY LenProperties DEF FInv, TInv, IInv, TypeOK
<1>4. o \in Nat
    BY <1>3
<1>5. \A sd \in Side : \A i \in 1..Len(levels[sd]) : \A j \in 1..Len(levels[sd][i].orders) :
        levels[sd][i].orders[j] < o
  <2>1. TAKE sd \in Side
  <2>2. TAKE i \in 1..Len(levels[sd])
  <2>3. TAKE j \in 1..Len(levels[sd][i].orders)
  <2>4. levels[sd][i].orders[j] \in 1..Len(orders)
      BY RestingArrived DEF FInv, TInv
  <2>5. QED
      BY <1>3, <2>4
<1> HIDE DEF o, order, remaining
<1>6. QED
    BY <1>1, <1>2, <1>4, <1>5, AddOrderFifo

LEMMA RestFifo ==
    ASSUME FInv, Rest
    PROVE  FifoBook'
<1>1. ~Idle /\ AddOrder(taker, orders[taker], Remaining(taker))
    BY DEF Rest, LoopDone
<1>2. taker \in 1..Len(orders) /\ taker = Len(orders)
    BY <1>1, TakerFacts DEF FInv, TInv, Newest, Idle
<1>3. /\ taker \in Nat /\ orders[taker].side \in Side /\ orders[taker].price \in Nat
      /\ Remaining(taker) \in Int
    BY <1>2, OrderFields DEF FInv, TInv, IInv
<1>4. \A sd \in Side : \A i \in 1..Len(levels[sd]) : \A j \in 1..Len(levels[sd][i].orders) :
        levels[sd][i].orders[j] < taker
    BY <1>2, <1>3, RestingArrived DEF FInv, TInv
<1>5. QED
    BY <1>1, <1>3, <1>4, AddOrderFifo

LEMMA ExecuteTradeFifo ==
    ASSUME FInv, ExecuteTrade
    PROVE  FifoBook'
<1> DEFINE level == Facing[cursor.level]
           maker == level.orders[cursor.pos]
           q == TradeQuantity(Remaining(taker), Remaining(maker))
           now == filled[maker] + q
           total == TotalAfterFill(level.total, orders[maker].quantity, now, now)
           left == orders[maker].quantity - now
<1>1. /\ AtMaker /\ Remaining(maker) > 0 /\ Remaining(taker) > 0
      /\ \/ levels' = [levels EXCEPT ![MakerSide][cursor.level].total = total]
         \/ RemoveOrder(maker, MakerSide, left)
    BY DEF ExecuteTrade, AtMaker, AtLevel
<1>2. /\ ~Idle /\ cursor.level \in 1..Len(levels[MakerSide])
      /\ maker \in Ids /\ index[maker] # Nowhere /\ index[maker].side = MakerSide
      /\ LiveAt(MakerSide, maker, level.price)
    BY <1>1, MakerFacts DEF FInv, TInv
<1>3. MakerSide \in Side /\ taker \in 1..Len(orders)
    BY <1>2, TakerFacts DEF FInv, TInv
<1>4. left \in Int
  <2>1. maker \in 1..Len(orders) /\ TypeOK
      BY <1>2 DEF LiveAt, FInv, TInv, IInv
  <2>2. /\ filled[maker] \in Nat /\ orders[maker].quantity \in Nat
        /\ Remaining(maker) \in Int /\ Remaining(taker) \in Int
      BY <1>3, <2>1, OrderFields
  <2>3. q \in Int
      BY <2>2 DEF TradeQuantity
  <2>4. QED
      BY <2>2, <2>3
<1> HIDE DEF level, maker, q, now, total, left
<1>5. CASE levels' = [levels EXCEPT ![MakerSide][cursor.level].total = total]
  <2> DEFINE lv == levels[MakerSide]
             changed == [lv[cursor.level] EXCEPT !.total = total]
             new == [lv EXCEPT ![cursor.level] = changed]
  <2>1. levels \in [Side -> Seq(Level)] /\ lv \in Seq(Level) /\ Fifo(lv)
      BY <1>3 DEF FInv, FifoBook, TInv, IInv, TypeOK
  <2>2. levels' = [levels EXCEPT ![MakerSide] = new]
      BY <1>5
  <2>3. lv[cursor.level] \in Level
      BY <1>2, <2>1, LevelParts
  <2>4. changed.orders = lv[cursor.level].orders
      BY <2>3 DEF Level
  <2> HIDE DEF changed
  <2>5. /\ Len(new) = Len(lv)
        /\ \A i \in 1..Len(lv) : new[i].orders = lv[i].orders
      BY <1>2, <2>1, <2>4, LenProperties
  <2> HIDE DEF new
  <2>6. Fifo(new)
      BY <2>1, <2>5 DEF Fifo
  <2>7. QED
      BY <1>3, <2>1, <2>2, <2>6 DEF FInv, FifoBook
<1>6. CASE RemoveOrder(maker, MakerSide, left)
    BY <1>2, <1>3, <1>4, <1>6, RemoveOrderFifo
<1>7. QED
    BY <1>1, <1>5, <1>6

LEMMA CancelOrderFifo ==
    ASSUME FInv, NEW o \in Ids, CancelOrder(o)
    PROVE  FifoBook'
<1>1. index[o] # Nowhere /\ RemoveOrder(o, orders[o].side, Remaining(o))
    BY DEF CancelOrder, Resting
<1>2. /\ o \in 1..Len(orders) /\ orders[o].side \in Side /\ index[o].side = orders[o].side
    BY <1>1, RestingIsLive DEF FInv, TInv
<1>3. Remaining(o) \in Int
    BY <1>2, OrderFields DEF FInv, TInv, IInv
<1>4. QED
    BY <1>1, <1>2, <1>3, RemoveOrderFifo

LEMMA FifoNext == FInv /\ [Next]_vars => FInv'
<1> SUFFICES ASSUME FInv, [Next]_vars PROVE FInv'
    OBVIOUS
<1>1. SUFFICES FifoBook'
    BY TradesNext DEF FInv
<1>2. ASSUME NEW side \in Side, NEW price \in Prices, NEW quantity \in Quantities,
             NEW carried \in 0..MaxQuantity, LoadOrder(side, price, quantity, carried)
      PROVE  FifoBook'
    BY <1>2, LoadOrderFifo
<1>3. CASE ExecuteTrade
    BY <1>3, ExecuteTradeFifo
<1>4. CASE Rest
    BY <1>4, RestFifo
<1>5. ASSUME NEW o \in Ids, CancelOrder(o) PROVE FifoBook'
    BY <1>5, CancelOrderFifo
<1>6. CASE levels' = levels
    BY <1>6 DEF FInv, FifoBook
<1>7. ASSUME NEW side \in Side, NEW kind \in Kinds, NEW price \in Prices \cup {NoPrice},
             NEW quantity \in Quantities, ProcessOrder(side, kind, price, quantity)
      PROVE  FifoBook'
    BY <1>6, <1>7 DEF ProcessOrder
<1>8. CASE Serve \/ NextLevel \/ SkipMaker \/ Fill \/ DropRemainder \/ UNCHANGED vars
    BY <1>6, <1>8 DEF Serve, NextLevel, SkipMaker, Fill, DropRemainder, vars
<1>9. QED
    BY <1>2, <1>3, <1>4, <1>5, <1>7, <1>8 DEF Next, Recover, Place, Process, Cancel

-----------------------------------------------------------------------------
(* The theorem about time priority                                          *)

\* addToBids, addToAsks and removeOrder keep the orders of each price in the
\* order they arrived, whatever was cancelled or filled from the middle.
THEOREM FifoCorrect == Spec => []FifoWithinLevel
<1>1. Init => FInv
  <2> SUFFICES ASSUME Init PROVE FInv
      OBVIOUS
  <2>1. IInv
      BY InitInv
  <2>2. /\ taker = NoId /\ trades = <<>> /\ Len(trades) = 0
        /\ \A side \in Side : levels[side] = <<>> /\ Len(levels[side]) = 0
      BY DEF Init
  <2>3. QED
      BY <2>1, <2>2 DEF FInv, FifoBook, TInv, Newest, HonestTrades, Fifo
<1>2. FInv => FifoWithinLevel
  <2> SUFFICES ASSUME FInv, NEW side \in Side, NEW i \in DOMAIN levels[side]
               PROVE  \A j, k \in DOMAIN levels[side][i].orders :
                         j < k => levels[side][i].orders[j] < levels[side][i].orders[k]
      BY DEF FifoWithinLevel
  <2>1. levels[side] \in Seq(Level)
      BY DEF FInv, TInv, IInv, TypeOK
  <2>2. i \in 1..Len(levels[side])
      BY <2>1, LenProperties
  <2>3. DOMAIN levels[side][i].orders = 1..Len(levels[side][i].orders)
      BY <2>1, <2>2, LevelParts
  <2>4. QED
      BY <2>2, <2>3 DEF FInv, FifoBook, Fifo
<1>3. QED
    BY <1>1, <1>2, FifoNext, PTL DEF Spec

-----------------------------------------------------------------------------
(* The life of an order                                                     *)

Stages == [o \in Ids |-> Stage(o)]

-----------------------------------------------------------------------------
(* Stages                                                                   *)

\* The stage of each order, with the domain of orders as an interval.
LEMMA StageOf ==
    ASSUME TypeOK, NEW o \in Ids
    PROVE  Stage(o) = IF o \notin 1..Len(orders) THEN "unknown"
                      ELSE IF o = taker THEN "working"
                      ELSE IF index[o] # Nowhere THEN "resting" ELSE "closed"
<1>1. DOMAIN orders = 1..Len(orders)
    BY LenProperties DEF TypeOK
<1>2. QED
    BY <1>1 DEF Stage, Resting

LEMMA StageOfNext ==
    ASSUME TypeOK', NEW o \in Ids
    PROVE  Stage(o)' = IF o \notin 1..Len(orders') THEN "unknown"
                       ELSE IF o = taker' THEN "working"
                       ELSE IF index'[o] # Nowhere THEN "resting" ELSE "closed"
<1>1. DOMAIN orders' = 1..Len(orders')
    BY LenProperties DEF TypeOK
<1>2. QED
    BY <1>1 DEF Stage, Resting

\* Nobody works while no order is inside processOrder.
LEMMA NobodyWorks ==
    ASSUME TypeOK, taker = NoId
    PROVE  {o \in Ids : Stages[o] = "working"} = {}
<1>1. ASSUME NEW o \in Ids
      PROVE  Stage(o) # "working"
  <2>1. o # taker
      BY Bounds DEF NoId
  <2>2. QED
      BY <2>1, StageOf
<1>2. QED
    BY <1>1 DEF Stages

\* A step that changes the stage of one order.
LEMMA OneStage ==
    ASSUME NEW o \in Ids, NEW new, Stage(o)' = new, \A x \in Ids \ {o} : Stage(x)' = Stage(x)
    PROVE  Stages' = [Stages EXCEPT ![o] = new]
<1>1. \A x \in Ids : Stages'[x] = IF x = o THEN new ELSE Stages[x]
    BY DEF Stages
<1>2. QED
    BY <1>1 DEF Stages

-----------------------------------------------------------------------------
(* Lives, statement by statement                                            *)

\* An order that arrives is appended.
LEMMA Arrival ==
    ASSUME TypeOK, NEW order \in Order, Len(orders) < MaxOrders, orders' = Append(orders, order)
    PROVE  /\ Len(orders) \in Nat /\ Len(orders') = Len(orders) + 1
           /\ SubSeq(orders', 1, Len(orders)) = orders
           /\ orders'[Len(orders) + 1] = order
           /\ Len(orders) + 1 \in Ids
<1>1. /\ orders \in Seq(Order) /\ orders' \in Seq(Order)
      /\ Len(orders) \in Nat /\ Len(orders') = Len(orders) + 1
      /\ orders'[Len(orders) + 1] = order /\ Len(orders) + 1 \in Ids
      /\ \A x \in 1..Len(orders) : orders'[x] = orders[x]
    BY NewOrder DEF TypeOK
<1>2. \A x \in 1..Len(orders) : orders'[x] \in Order
    BY <1>1, ElementOfSeq
<1>3. /\ SubSeq(orders', 1, Len(orders)) \in Seq(Order)
      /\ Len(SubSeq(orders', 1, Len(orders))) = Len(orders)
      /\ \A x \in 1..Len(orders) : SubSeq(orders', 1, Len(orders))[x] = orders'[x]
    BY <1>1, <1>2, SubSeqProperties
<1>4. SubSeq(orders', 1, Len(orders)) = orders
    BY <1>1, <1>3, SeqEqual
<1>5. QED
    BY <1>1, <1>4

\* There is an id for the next order.
LEMMA Room ==
    ASSUME TypeOK, Len(orders) < MaxOrders
    PROVE  Len(orders) + 1 \in Ids
BY LenProperties, BoundsAssumption DEF TypeOK, Ids

LEMMA LoadOrderAdmits ==
    ASSUME TInv, TypeOK', NEW side \in Side, NEW price \in Prices, NEW quantity \in Quantities,
           NEW carried \in 0..MaxQuantity, LoadOrder(side, price, quantity, carried)
    PROVE  Lifecycle!Admit
<1> DEFINE order == [side |-> side, kind |-> <<"limit", "GTC">>, price |-> price,
                     quantity |-> quantity, carried |-> carried]
<1>0. PICK o \in Ids : o = Len(orders) + 1
    BY Room DEF TInv, IInv, LoadOrder
<1>1. order \in Order /\ order.side \in Side /\ order.price \in Nat
      /\ order.carried = carried /\ order.quantity = quantity /\ order.kind = <<"limit", "GTC">>
  <2>1. carried \in Nat
      BY BoundsAssumption
  <2>2. QED
      BY <2>1, Bounds DEF Order, AllKinds
<1>2. quantity - carried \in Int
    BY Bounds, BoundsAssumption
<1>3. /\ Len(orders) < MaxOrders /\ orders' = Append(orders, order)
      /\ carried <= quantity /\ filled' = [filled EXCEPT ![o] = carried]
      /\ AddOrder(o, order, quantity - carried)
      /\ ~serving /\ taker' = taker
    BY <1>0 DEF LoadOrder
<1> HIDE DEF order
<1>4. TypeOK /\ IInv /\ taker = NoId
    BY <1>3 DEF TInv, IInv, Newest
<1>5. /\ Len(orders) \in Nat /\ Len(orders') = o /\ SubSeq(orders', 1, Len(orders)) = orders
      /\ orders'[o] = order /\ o \in Ids /\ o = Len(orders) + 1
    BY <1>0, <1>1, <1>3, <1>4, Arrival
<1>6. index[o] = Nowhere
  <2>1. o \notin 1..Len(orders)
      BY <1>5
  <2>2. QED
      BY <1>4, <1>5, <2>1, RestingIsLive
<1>7. index'[o] # Nowhere /\ \A x \in Ids \ {o} : index'[x] = Nowhere <=> index[x] = Nowhere
    BY <1>1, <1>2, <1>3, <1>4, <1>5, <1>6, AddRests
<1>8. Stages[o] = "unknown"
    BY <1>4, <1>5, StageOf DEF Stages
<1>9. Stages' = [Stages EXCEPT ![o] = "resting"]
  <2>1. Stage(o)' = "resting"
    <3>1. o # taker' /\ o \in 1..Len(orders')
        BY <1>3, <1>4, <1>5, Bounds DEF NoId
    <3>2. QED
        BY <1>5, <1>7, <3>1, StageOfNext
  <2>2. ASSUME NEW x \in Ids \ {o} PROVE Stage(x)' = Stage(x)
    <3>1. x \in 1..Len(orders') <=> x \in 1..Len(orders)
        BY <1>5, Bounds
    <3>2. QED
        BY <1>3, <1>4, <1>7, <3>1, StageOf, StageOfNext
  <2>3. QED
      BY <1>5, <2>1, <2>2, OneStage
<1>10. {x \in Ids : Stages[x] = "working"} = {}
    BY <1>4, NobodyWorks
<1>11. Lifecycle!MayRest(orders'[o])
    BY <1>1, <1>5 DEF Lifecycle!MayRest
<1>12. QED
    BY <1>1, <1>3, <1>5, <1>8, <1>9, <1>10, <1>11 DEF Lifecycle!Admit, Lifecycle!Working, Lifecycle!Ids, Ids, Stages

LEMMA ProcessOrderAdmits ==
    ASSUME TInv, TypeOK', NEW side \in Side, NEW kind \in Kinds, NEW price \in Prices \cup {NoPrice},
           NEW quantity \in Quantities, ProcessOrder(side, kind, price, quantity)
    PROVE  Lifecycle!Admit
<1> DEFINE order == [side |-> side, kind |-> kind, price |-> price,
                     quantity |-> quantity, carried |-> 0]
<1>0. PICK o \in Ids : o = Len(orders) + 1
    BY Room DEF TInv, IInv, ProcessOrder
<1>1. order \in Order /\ order.carried = 0
    BY KindsAssumption DEF Order
<1>2. /\ Len(orders) < MaxOrders /\ orders' = Append(orders, order)
      /\ taker = NoId /\ taker' = o /\ UNCHANGED <<filled, index>>
    BY <1>0 DEF ProcessOrder, Idle
<1> HIDE DEF order
<1>3. TypeOK /\ Fresh
    BY DEF TInv, IInv
<1>4. /\ Len(orders) \in Nat /\ Len(orders') = o /\ SubSeq(orders', 1, Len(orders)) = orders
      /\ orders'[o] = order /\ o \in Ids /\ o = Len(orders) + 1
    BY <1>0, <1>1, <1>2, <1>3, Arrival
<1>5. Stages[o] = "unknown"
    BY <1>3, <1>4, StageOf DEF Stages
<1>6. Stages' = [Stages EXCEPT ![o] = "working"]
  <2>1. Stage(o)' = "working"
      BY <1>2, <1>4, StageOfNext
  <2>2. ASSUME NEW x \in Ids \ {o} PROVE Stage(x)' = Stage(x)
    <3>1. x \in 1..Len(orders') <=> x \in 1..Len(orders)
        BY <1>4, Bounds
    <3>2. x # taker /\ x # taker'
        BY <1>2, Bounds DEF NoId
    <3>3. QED
        BY <1>2, <1>3, <3>1, <3>2, StageOf, StageOfNext
  <2>3. QED
      BY <1>4, <2>1, <2>2, OneStage
<1>7. filled' = [filled EXCEPT ![o] = 0]
  <2>1. filled[o] = 0 /\ filled \in [Ids -> Nat]
      BY <1>3, <1>4 DEF Fresh, TypeOK
  <2>2. QED
      BY <1>2, <1>4, <2>1
<1>8. {x \in Ids : Stages[x] = "working"} = {}
    BY <1>2, <1>3, NobodyWorks
<1>9. QED
    BY <1>1, <1>2, <1>4, <1>5, <1>6, <1>7, <1>8 DEF Lifecycle!Admit, Lifecycle!Working, Lifecycle!Ids, Ids, Stages

\* A trade: the maker rests, the taker works, and the maker closes exactly when it is exhausted.
LEMMA ExecuteTradeTakes ==
    ASSUME TInv, TypeOK', ExecuteTrade
    PROVE  \E maker, taker_ \in Ids : Lifecycle!Take(maker, taker_)
<1> DEFINE level == Facing[cursor.level]
           q0 == TradeQuantity(Remaining(taker), Remaining(level.orders[cursor.pos]))
<1>1. AtMaker /\ IInv /\ TypeOK
    BY DEF ExecuteTrade, TInv, IInv
<1>2. /\ ~Idle /\ level.orders[cursor.pos] \in Ids
      /\ index[level.orders[cursor.pos]] # Nowhere /\ index[level.orders[cursor.pos]].side = MakerSide
      /\ LiveAt(MakerSide, level.orders[cursor.pos], level.price)
    BY <1>1, MakerFacts
<1>3. PICK m \in Ids : m = level.orders[cursor.pos]
    BY <1>2
<1>4. PICK t \in Ids : t = taker /\ t \in 1..Len(orders) /\ index[t] = Nowhere
    BY <1>1, <1>2, TakerFacts
<1>5. MakerSide \in Side /\ MakerSide # orders[t].side /\ orders[t].side \in Side
    BY <1>1, <1>2, <1>4, TakerFacts DEF TakerSide
<1>6. /\ m \in 1..Len(orders) /\ m # t
      /\ orders[m].side = MakerSide /\ orders[m].price = level.price
    BY <1>2, <1>3, <1>4 DEF LiveAt
<1>7. \/ orders[t].kind[1] = "market"
      \/ Crosses(orders[t].side, orders[t].price, orders[m].price)
    BY <1>1, <1>4, <1>6 DEF AtMaker, AtLevel, TakerSide
<1>8. /\ Remaining(t) \in Int /\ Remaining(m) \in Int
      /\ filled[t] \in Nat /\ filled[m] \in Nat
      /\ orders[t].quantity \in Nat /\ orders[m].quantity \in Nat
    BY <1>1, <1>4, <1>6, OrderFields
<1>9. Remaining(t) > 0 /\ Remaining(m) > 0
    BY <1>1, <1>3, <1>4 DEF ExecuteTrade, AtMaker, AtLevel
<1>10. PICK q \in Nat : q = q0 /\ q > 0 /\ q <= Remaining(t) /\ q <= Remaining(m)
    BY <1>3, <1>4, <1>8, <1>9, TradeQuantityBounds
<1>11. PICK left \in Int : left = orders[m].quantity - (filled[m] + q)
    BY <1>8
<1>12. /\ filled' = [filled EXCEPT ![t] = @ + q, ![m] = filled[m] + q]
       /\ left > 0 => index' = index
       /\ ~(left > 0) => RemoveOrder(m, MakerSide, left)
       /\ orders' = orders /\ taker' = taker
    BY <1>3, <1>4, <1>10, <1>11 DEF ExecuteTrade
<1> HIDE DEF level, q0
<1>13. left >= 0 /\ (left = 0 <=> q = Remaining(m)) /\ Remaining(m) = orders[m].quantity - filled[m]
    BY <1>8, <1>10, <1>11 DEF Remaining
<1>14. /\ index'[m] = Nowhere <=> q = Remaining(m)
       /\ \A x \in Ids \ {m} : index'[x] = Nowhere <=> index[x] = Nowhere
  <2>1. CASE left > 0
      BY <1>2, <1>3, <1>12, <1>13, <2>1
  <2>2. CASE ~(left > 0)
    <3>1. index'[m] = Nowhere /\ \A x \in Ids \ {m} : index'[x] = Nowhere <=> index[x] = Nowhere
        BY <1>1, <1>2, <1>3, <1>5, <1>12, <2>2, RemoveRests
    <3>2. QED
        BY <1>13, <2>2, <3>1
  <2>3. QED
      BY <2>1, <2>2
<1>15. Stages[m] = "resting" /\ Stages[t] = "working"
    BY <1>1, <1>2, <1>3, <1>4, <1>6, StageOf DEF Stages
<1>16. Stages' = [Stages EXCEPT ![m] = IF q = Remaining(m) THEN "closed" ELSE "resting"]
  <2>1. Stage(m)' = IF q = Remaining(m) THEN "closed" ELSE "resting"
      BY <1>4, <1>6, <1>12, <1>14, StageOfNext
  <2>2. ASSUME NEW x \in Ids \ {m} PROVE Stage(x)' = Stage(x)
      BY <1>1, <1>12, <1>14, StageOf, StageOfNext
  <2>3. Stages' = [Stages EXCEPT ![m] = Stage(m)']
      BY <2>2, OneStage
  <2>4. QED
      BY <2>1, <2>3
<1>17. filled' = [filled EXCEPT ![m] = @ + q, ![t] = @ + q]
    BY <1>1, <1>6, <1>12 DEF TypeOK
<1>18. Lifecycle!Compatible(m, t)
  <2>1. orders[m].side # orders[t].side
      BY <1>5, <1>6
  <2>2. CASE orders[t].kind[1] = "market"
      BY <2>1, <2>2 DEF Lifecycle!Compatible
  <2>3. CASE Crosses(orders[t].side, orders[t].price, orders[m].price)
      BY <1>5, <2>1, <2>3 DEF Lifecycle!Compatible, Crosses, Side
  <2>4. QED
      BY <1>7, <2>2, <2>3
<1>19. q \in 1..orders[m].quantity
    BY <1>8, <1>10, <1>13
<1>20. Lifecycle!Take(m, t)
    BY <1>10, <1>12, <1>15, <1>16, <1>17, <1>18, <1>19
       DEF Lifecycle!Take, Lifecycle!Open, Remaining, Stages
<1>21. QED
    BY <1>20

\* A taker may rest by its kind exactly when its remainder goes to the book.
LEMMA MayRestKinds ==
    ASSUME TypeOK, NEW o \in 1..Len(orders)
    PROVE  Lifecycle!MayRest(orders[o]) <=> StaysInBook(o)
<1>1. orders[o].kind \in AllKinds
    BY OrderFields
<1>2. QED
    BY <1>1 DEF Lifecycle!MayRest, StaysInBook, AllKinds

\* processOrder returns: nothing changes but the stage of its order.
LEMMA ReturnSettles ==
    ASSUME TInv, TypeOK', ~Idle, NEW status, Return(status),
           index'[taker] # Nowhere <=> (StaysInBook(taker) /\ Remaining(taker) > 0),
           \A x \in Ids \ {taker} : index'[x] = Nowhere <=> index[x] = Nowhere
    PROVE  \E o \in Ids : Lifecycle!Settle(o)
<1>1. IInv /\ TypeOK
    BY DEF TInv, IInv
<1>2. PICK t \in Ids : t = taker /\ t \in 1..Len(orders)
    BY <1>1, TakerFacts
<1>3. orders' = orders /\ filled' = filled /\ taker' = NoId
    BY DEF Return
<1>4. \A x \in Ids : x # NoId
    BY Bounds DEF NoId
<1>5. Stages[t] = "working"
    BY <1>1, <1>2, StageOf DEF Stages
<1>6. Stages' = [Stages EXCEPT ![t] = IF StaysInBook(t) /\ Remaining(t) > 0 THEN "resting" ELSE "closed"]
  <2>1. Stage(t)' = IF StaysInBook(t) /\ Remaining(t) > 0 THEN "resting" ELSE "closed"
      BY <1>2, <1>3, <1>4, StageOfNext
  <2>2. ASSUME NEW x \in Ids \ {t} PROVE Stage(x)' = Stage(x)
      BY <1>1, <1>2, <1>3, <1>4, StageOf, StageOfNext
  <2>3. Stages' = [Stages EXCEPT ![t] = Stage(t)']
      BY <2>2, OneStage
  <2>4. QED
      BY <2>1, <2>3
<1>7. Lifecycle!MayRest(orders[t]) <=> StaysInBook(t)
    BY <1>1, <1>2, MayRestKinds
<1>8. Lifecycle!Settle(t)
    BY <1>3, <1>5, <1>6, <1>7 DEF Lifecycle!Settle, Lifecycle!Open, Remaining, Stages
<1>9. QED
    BY <1>8

LEMMA FillSettles ==
    ASSUME TInv, TypeOK', Fill \/ DropRemainder
    PROVE  \E o \in Ids : Lifecycle!Settle(o)
<1>1. /\ ~Idle /\ index' = index /\ (Return("filled") \/ Return(DropStatus(taker)))
      /\ ~(StaysInBook(taker) /\ Remaining(taker) > 0)
    BY DEF Fill, DropRemainder, LoopDone
<1>2. index[taker] = Nowhere
    BY <1>1, TakerFacts DEF TInv
<1>3. QED
    BY <1>1, <1>2, ReturnSettles

LEMMA RestSettles ==
    ASSUME TInv, TypeOK', Rest
    PROVE  \E o \in Ids : Lifecycle!Settle(o)
<1>1. /\ ~Idle /\ Return(IF filled[taker] > 0 THEN "partially_filled" ELSE "open")
      /\ StaysInBook(taker) /\ Remaining(taker) > 0
      /\ AddOrder(taker, orders[taker], Remaining(taker))
    BY DEF Rest, LoopDone
<1>2. IInv /\ TypeOK
    BY DEF TInv, IInv
<1>3. taker \in 1..Len(orders) /\ taker \in Ids /\ index[taker] = Nowhere
    BY <1>1, <1>2, TakerFacts
<1>4. orders[taker].side \in Side /\ orders[taker].price \in Nat /\ Remaining(taker) \in Int
    BY <1>2, <1>3, OrderFields
<1>5. index'[taker] # Nowhere /\ \A x \in Ids \ {taker} : index'[x] = Nowhere <=> index[x] = Nowhere
    BY <1>1, <1>2, <1>3, <1>4, AddRests
<1>6. QED
    BY <1>1, <1>5, ReturnSettles

LEMMA CancelOrderWithdraws ==
    ASSUME TInv, TypeOK', NEW o \in Ids, CancelOrder(o)
    PROVE  Lifecycle!Withdraw(o)
<1>1. /\ taker = NoId /\ index[o] # Nowhere
      /\ RemoveOrder(o, orders[o].side, Remaining(o))
      /\ UNCHANGED <<orders, filled, taker>>
    BY DEF CancelOrder, Resting, Idle
<1>2. IInv /\ TypeOK
    BY DEF TInv, IInv
<1>3. o \in 1..Len(orders) /\ o # taker /\ orders[o].side \in Side /\ index[o].side = orders[o].side
    BY <1>1, <1>2, RestingIsLive
<1>4. Remaining(o) \in Int
    BY <1>2, <1>3, OrderFields
<1>5. index'[o] = Nowhere /\ \A x \in Ids \ {o} : index'[x] = Nowhere <=> index[x] = Nowhere
    BY <1>1, <1>2, <1>3, <1>4, RemoveRests
<1>6. Stages[o] = "resting"
    BY <1>1, <1>2, <1>3, StageOf DEF Stages
<1>7. Stages' = [Stages EXCEPT ![o] = "closed"]
  <2>1. Stage(o)' = "closed"
      BY <1>1, <1>3, <1>5, StageOfNext
  <2>2. ASSUME NEW x \in Ids \ {o} PROVE Stage(x)' = Stage(x)
      BY <1>1, <1>2, <1>5, StageOf, StageOfNext
  <2>3. QED
      BY <2>1, <2>2, OneStage
<1>8. {x \in Ids : Stages[x] = "working"} = {}
    BY <1>1, <1>2, NobodyWorks
<1>9. QED
    BY <1>1, <1>6, <1>7, <1>8 DEF Lifecycle!Withdraw, Lifecycle!Working, Lifecycle!Ids, Ids, Stages

\* What moves only the iterators, or starts to serve, changes the life of no order.
LEMMA OthersStutter ==
    ASSUME UNCHANGED <<orders, filled, index, taker>>
    PROVE  UNCHANGED Lifecycle!vars
<1>1. \A o \in Ids : Stage(o)' = Stage(o)
    BY DEF Stage, Resting
<1>2. QED
    BY <1>1 DEF Lifecycle!vars

LEMMA NextImplements == TInv /\ TInv' /\ [Next]_vars => [Lifecycle!Next]_(Lifecycle!vars)
<1> SUFFICES ASSUME TInv, TInv', [Next]_vars
             PROVE  Lifecycle!Next \/ UNCHANGED Lifecycle!vars
    OBVIOUS
<1>1. TypeOK'
    BY DEF TInv, IInv
<1>2. Lifecycle!Ids = Ids
    BY DEF Lifecycle!Ids, Ids
<1>3. ASSUME NEW side \in Side, NEW price \in Prices, NEW quantity \in Quantities,
             NEW carried \in 0..MaxQuantity, LoadOrder(side, price, quantity, carried)
      PROVE  Lifecycle!Next
    BY <1>1, <1>3, LoadOrderAdmits DEF Lifecycle!Next
<1>4. ASSUME NEW side \in Side, NEW kind \in Kinds, NEW price \in Prices \cup {NoPrice},
             NEW quantity \in Quantities, ProcessOrder(side, kind, price, quantity)
      PROVE  Lifecycle!Next
    BY <1>1, <1>4, ProcessOrderAdmits DEF Lifecycle!Next
<1>5. ASSUME ExecuteTrade PROVE Lifecycle!Next
    BY <1>1, <1>2, <1>5, ExecuteTradeTakes DEF Lifecycle!Next
<1>6. ASSUME Fill \/ DropRemainder \/ Rest PROVE Lifecycle!Next
  <2>1. \E o \in Ids : Lifecycle!Settle(o)
      BY <1>1, <1>6, FillSettles, RestSettles
  <2>2. QED
      BY <1>2, <2>1 DEF Lifecycle!Next
<1>7. ASSUME NEW o \in Ids, CancelOrder(o) PROVE Lifecycle!Next
    BY <1>1, <1>2, <1>7, CancelOrderWithdraws DEF Lifecycle!Next
<1>8. ASSUME Serve \/ SkipMaker \/ NextLevel \/ UNCHANGED vars PROVE UNCHANGED Lifecycle!vars
    BY <1>8, OthersStutter DEF Serve, SkipMaker, NextLevel, vars
<1>9. QED
    BY <1>3, <1>4, <1>5, <1>6, <1>7, <1>8 DEF Next, Recover, Place, Process, Cancel

-----------------------------------------------------------------------------
(* The refinement                                                           *)

\* The engine, with its levels, orderIndex and live iterators, implements OrderLifecycle: an
\* order is admitted once, trades only with a compatible resting order of the other side and
\* within both remainders, and once it is filled, dropped or cancelled it stays closed.
THEOREM LifecycleImplemented == Spec => ImplementsLifecycle
<1>1. Init => Lifecycle!Init
  <2> SUFFICES ASSUME Init PROVE Lifecycle!Init
      OBVIOUS
  <2>1. IInv /\ TypeOK
      BY InitInv DEF IInv
  <2>2. orders = <<>> /\ Len(orders) = 0 /\ filled = [o \in Ids |-> 0]
      BY DEF Init
  <2>3. \A o \in Ids : Stage(o) = "unknown"
      BY <2>1, <2>2, StageOf
  <2>4. QED
      BY <2>2, <2>3 DEF Lifecycle!Init, Lifecycle!Ids, Ids
<1>2. QED
    BY <1>1, NextImplements, TradesInductive, PTL DEF Spec, ImplementsLifecycle, Lifecycle!Spec

-----------------------------------------------------------------------------
(* What left the book stays out                                             *)

\* An order that has a result has arrived.
Answered == \A o \in Ids : result[o] # "none" => o \in 1..Len(orders)

GInv == TInv /\ Answered

\* No order that is gone comes back, trades or gets another result.
NoneReturns == \A o \in Ids : Gone(o) => Gone(o)' /\ filled'[o] = filled[o] /\ result'[o] = result[o]

\* A step that touches the fills, the result and the index of at most two orders, neither
\* of which is gone, and makes none of the gone ones the taker.
LEMMA TouchesOthers ==
    ASSUME NEW a \in Ids, NEW b \in Ids, ~Gone(a), ~Gone(b),
           \A o \in Ids \ {a, b} : /\ filled'[o] = filled[o] /\ result'[o] = result[o]
                                   /\ index'[o] = Nowhere <=> index[o] = Nowhere
                                   /\ o # taker => o # taker'
    PROVE  NoneReturns
BY DEF NoneReturns, Gone, Resting

LEMMA LoadOrderNoneReturns ==
    ASSUME GInv, NEW side \in Side, NEW price \in Prices, NEW quantity \in Quantities,
           NEW carried \in 0..MaxQuantity, LoadOrder(side, price, quantity, carried)
    PROVE  NoneReturns /\ Answered'
<1> DEFINE o == Len(orders) + 1
           order == [side |-> side, kind |-> <<"limit", "GTC">>, price |-> price,
                     quantity |-> quantity, carried |-> carried]
           remaining == quantity - carried
           status == IF carried > 0 THEN "partially_filled" ELSE "open"
<1>1. /\ Len(orders) < MaxOrders /\ orders' = Append(orders, order)
      /\ filled' = [filled EXCEPT ![o] = carried]
      /\ result' = [result EXCEPT ![o] = status]
      /\ AddOrder(o, order, remaining) /\ taker' = taker
    BY DEF LoadOrder
<1>2. IInv /\ TypeOK /\ Answered
    BY DEF GInv, TInv, IInv
<1>3. order \in Order /\ order.side \in Side /\ order.price \in Nat /\ remaining \in Int
    BY BoundsAssumption DEF Order, AllKinds, Prices, Quantities
<1> HIDE DEF order, remaining, status
<1>4. Len(orders) \in Nat /\ Len(orders') = Len(orders) + 1 /\ o \in Ids
    BY <1>1, <1>2, <1>3, Arrival
<1>5. o \notin 1..Len(orders)
    BY <1>4
<1> HIDE DEF o
<1>6. index[o] = Nowhere
    BY <1>2, <1>4, <1>5, RestingIsLive
<1>7. \A x \in Ids \ {o} : index'[x] = Nowhere <=> index[x] = Nowhere
    BY <1>1, <1>2, <1>3, <1>4, <1>6, AddRests
<1>8. \A x \in Ids \ {o} : filled'[x] = filled[x] /\ result'[x] = result[x]
    BY <1>1, <1>2 DEF TypeOK
<1>9. ~Gone(o)
    BY <1>2, <1>4, <1>5 DEF Answered, Gone
<1>10. NoneReturns
    BY <1>1, <1>4, <1>7, <1>8, <1>9, TouchesOthers
<1>11. Answered'
  <2>1. o \in 1..Len(orders') /\ \A x \in 1..Len(orders) : x \in 1..Len(orders')
      BY <1>4 DEF o
  <2>2. QED
      BY <1>2, <1>8, <2>1 DEF Answered
<1>12. QED
    BY <1>10, <1>11

LEMMA ProcessOrderNoneReturns ==
    ASSUME GInv, NEW side \in Side, NEW kind \in Kinds, NEW price \in Prices \cup {NoPrice},
           NEW quantity \in Quantities, ProcessOrder(side, kind, price, quantity)
    PROVE  NoneReturns /\ Answered'
<1> DEFINE order == [side |-> side, kind |-> kind, price |-> price,
                     quantity |-> quantity, carried |-> 0]
<1>1. order \in Order
    BY KindsAssumption DEF Order
<1>2. /\ Len(orders) < MaxOrders /\ orders' = Append(orders, order)
      /\ taker' = Len(orders) + 1 /\ UNCHANGED <<filled, result, index>>
    BY DEF ProcessOrder
<1> HIDE DEF order
<1>3. TypeOK /\ Answered
    BY DEF GInv, TInv, IInv
<1>4. Len(orders) \in Nat /\ Len(orders') = Len(orders) + 1 /\ Len(orders) + 1 \in Ids
    BY <1>1, <1>2, <1>3, Arrival
<1>5. ~Gone(Len(orders) + 1)
    BY <1>3, <1>4 DEF Answered, Gone
<1>6. NoneReturns
    BY <1>2, <1>4, <1>5, TouchesOthers
<1>7. Answered'
    BY <1>2, <1>3, <1>4 DEF Answered
<1>8. QED
    BY <1>6, <1>7

\* Only the taker and the resting maker change in a trade.
LEMMA ExecuteTradeNoneReturns ==
    ASSUME GInv, ExecuteTrade
    PROVE  NoneReturns /\ Answered'
<1> DEFINE level == Facing[cursor.level]
           maker == level.orders[cursor.pos]
           q == TradeQuantity(Remaining(taker), Remaining(maker))
           now == filled[maker] + q
           left == orders[maker].quantity - now
<1>1. /\ AtMaker
      /\ filled' = [filled EXCEPT ![taker] = @ + q, ![maker] = now]
      /\ index' = index \/ RemoveOrder(maker, MakerSide, left)
      /\ UNCHANGED <<orders, result, taker>>
    BY DEF ExecuteTrade
<1>2. IInv /\ TypeOK /\ Answered
    BY DEF GInv, TInv, IInv
<1>3. /\ ~Idle /\ maker \in Ids /\ index[maker] # Nowhere /\ index[maker].side = MakerSide
      /\ LiveAt(MakerSide, maker, level.price)
    BY <1>1, <1>2, MakerFacts
<1>4. taker \in 1..Len(orders) /\ taker \in Ids /\ MakerSide \in Side
    BY <1>2, <1>3, TakerFacts
<1>5. left \in Int
  <2>1. maker \in 1..Len(orders)
      BY <1>3 DEF LiveAt
  <2>2. /\ filled[maker] \in Nat /\ orders[maker].quantity \in Nat
        /\ Remaining(maker) \in Int /\ Remaining(taker) \in Int
      BY <1>2, <1>4, <2>1, OrderFields
  <2>3. q \in Int
      BY <2>2 DEF TradeQuantity
  <2>4. QED
      BY <2>2, <2>3
<1> HIDE DEF level, maker, q, now, left
<1>6. \A x \in Ids \ {taker, maker} : filled'[x] = filled[x] /\ result'[x] = result[x]
    BY <1>1, <1>2 DEF TypeOK
<1>7. \A x \in Ids \ {maker} : index'[x] = Nowhere <=> index[x] = Nowhere
  <2>1. CASE index' = index
      BY <2>1
  <2>2. CASE RemoveOrder(maker, MakerSide, left)
      BY <1>2, <1>3, <1>4, <1>5, <2>2, RemoveRests
  <2>3. QED
      BY <1>1, <2>1, <2>2
<1>8. ~Gone(taker) /\ ~Gone(maker)
    BY <1>3 DEF Gone, Resting
<1>9. NoneReturns
    BY <1>1, <1>3, <1>4, <1>6, <1>7, <1>8, TouchesOthers
<1>10. Answered'
    BY <1>1, <1>2 DEF Answered
<1>11. QED
    BY <1>9, <1>10

\* processOrder returns: only its own order gets a result and perhaps a place.
LEMMA ReturnNoneReturns ==
    ASSUME GInv, ~Idle, NEW status, Return(status),
           \A x \in Ids \ {taker} : index'[x] = Nowhere <=> index[x] = Nowhere
    PROVE  NoneReturns /\ Answered'
<1>1. /\ result' = [result EXCEPT ![taker] = status]
      /\ taker' = NoId /\ UNCHANGED <<orders, filled>>
    BY DEF Return
<1>2. IInv /\ TypeOK /\ Answered
    BY DEF GInv, TInv, IInv
<1>3. taker \in Ids /\ taker \in 1..Len(orders)
    BY <1>2, TakerFacts
<1>4. \A x \in Ids \ {taker} : result'[x] = result[x] /\ x # NoId
    BY <1>1, <1>2, Bounds DEF TypeOK, NoId
<1>5. NoneReturns
  <2>1. ~Gone(taker)
      BY DEF Gone
  <2>2. QED
      BY <1>1, <1>3, <1>4, <2>1, TouchesOthers
<1>6. Answered'
    BY <1>1, <1>2, <1>3, <1>4 DEF Answered
<1>7. QED
    BY <1>5, <1>6

LEMMA RestNoneReturns ==
    ASSUME GInv, Rest
    PROVE  NoneReturns /\ Answered'
<1>1. /\ ~Idle /\ Return(IF filled[taker] > 0 THEN "partially_filled" ELSE "open")
      /\ AddOrder(taker, orders[taker], Remaining(taker))
    BY DEF Rest, LoopDone
<1>2. IInv /\ TypeOK
    BY DEF GInv, TInv, IInv
<1>3. taker \in 1..Len(orders) /\ taker \in Ids /\ index[taker] = Nowhere
    BY <1>1, <1>2, TakerFacts
<1>4. orders[taker].side \in Side /\ orders[taker].price \in Nat /\ Remaining(taker) \in Int
    BY <1>2, <1>3, OrderFields
<1>5. \A x \in Ids \ {taker} : index'[x] = Nowhere <=> index[x] = Nowhere
    BY <1>1, <1>2, <1>3, <1>4, AddRests
<1>6. QED
    BY <1>1, <1>5, ReturnNoneReturns

LEMMA CancelOrderNoneReturns ==
    ASSUME GInv, NEW o \in Ids, CancelOrder(o)
    PROVE  NoneReturns /\ Answered'
<1>1. /\ index[o] # Nowhere /\ RemoveOrder(o, orders[o].side, Remaining(o))
      /\ result' = [result EXCEPT ![o] = "cancelled"]
      /\ UNCHANGED <<orders, filled, taker>>
    BY DEF CancelOrder, Resting
<1>2. IInv /\ TypeOK /\ Answered
    BY DEF GInv, TInv, IInv
<1>3. o \in 1..Len(orders) /\ orders[o].side \in Side /\ index[o].side = orders[o].side
    BY <1>1, <1>2, RestingIsLive
<1>4. Remaining(o) \in Int
    BY <1>2, <1>3, OrderFields
<1>5. \A x \in Ids \ {o} : index'[x] = Nowhere <=> index[x] = Nowhere
    BY <1>1, <1>2, <1>3, <1>4, RemoveRests
<1>6. \A x \in Ids \ {o} : result'[x] = result[x]
    BY <1>1, <1>2 DEF TypeOK
<1>7. NoneReturns
  <2>1. ~Gone(o)
      BY <1>1 DEF Gone, Resting
  <2>2. QED
      BY <1>1, <1>5, <1>6, <2>1, TouchesOthers
<1>8. Answered'
    BY <1>1, <1>2, <1>3, <1>6 DEF Answered
<1>9. QED
    BY <1>7, <1>8

LEMMA GoneNext == GInv /\ [Next]_vars => GInv' /\ NoneReturns
<1> SUFFICES ASSUME GInv, [Next]_vars PROVE GInv' /\ NoneReturns
    OBVIOUS
<1>1. SUFFICES NoneReturns /\ Answered'
    BY TradesNext DEF GInv
<1>2. ASSUME NEW side \in Side, NEW price \in Prices, NEW quantity \in Quantities,
             NEW carried \in 0..MaxQuantity, LoadOrder(side, price, quantity, carried)
      PROVE  NoneReturns /\ Answered'
    BY <1>2, LoadOrderNoneReturns
<1>3. ASSUME NEW side \in Side, NEW kind \in Kinds, NEW price \in Prices \cup {NoPrice},
             NEW quantity \in Quantities, ProcessOrder(side, kind, price, quantity)
      PROVE  NoneReturns /\ Answered'
    BY <1>3, ProcessOrderNoneReturns
<1>4. CASE ExecuteTrade
    BY <1>4, ExecuteTradeNoneReturns
<1>5. CASE Fill \/ DropRemainder
  <2>1. PICK status : ~Idle /\ Return(status) /\ index' = index
      BY <1>5 DEF Fill, DropRemainder, LoopDone
  <2>2. QED
      BY <2>1, ReturnNoneReturns
<1>6. CASE Rest
    BY <1>6, RestNoneReturns
<1>7. ASSUME NEW o \in Ids, CancelOrder(o) PROVE NoneReturns /\ Answered'
    BY <1>7, CancelOrderNoneReturns
<1>8. CASE UNCHANGED <<orders, filled, result, index, taker>>
    BY <1>8 DEF GInv, NoneReturns, Answered, Gone, Resting
<1>9. CASE Serve \/ SkipMaker \/ NextLevel \/ UNCHANGED vars
    BY <1>8, <1>9 DEF Serve, SkipMaker, NextLevel, vars
<1>10. QED
    BY <1>2, <1>3, <1>4, <1>5, <1>6, <1>7, <1>9 DEF Next, Recover, Place, Process, Cancel

\* An order that was filled, cancelled, rejected or dropped stays out of the book, with the
\* fills and the result it had, whatever is placed, traded or cancelled later.
THEOREM GoneForGood == Spec => GoneStaysGone
<1>1. Init => GInv
  <2> SUFFICES ASSUME Init PROVE GInv
      OBVIOUS
  <2>1. IInv
      BY InitInv
  <2>2. taker = NoId /\ trades = <<>> /\ Len(trades) = 0 /\ result = [o \in Ids |-> "none"]
      BY DEF Init
  <2>3. QED
      BY <2>1, <2>2 DEF GInv, TInv, Newest, HonestTrades, Answered
<1>2. GInv /\ [Next]_vars => [\A o \in Ids : Gone(o) => Gone(o)' /\ filled'[o] = filled[o] /\ result'[o] = result[o]]_vars
    BY GoneNext DEF NoneReturns
<1>3. QED
    BY <1>1, <1>2, GoneNext, PTL DEF Spec, GoneStaysGone
=============================================================================
