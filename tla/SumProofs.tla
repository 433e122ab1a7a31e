----------------------------- MODULE SumProofs ------------------------------
(***************************************************************************)
(* Sums over finite sets.  SumFunctionOnSet is a recursive function on the *)
(* subsets of a finite set.  That the recursion has a solution, and what   *)
(* it is, follows from the well-founded order of these subsets: a set of   *)
(* counterexamples would have a smallest one.  The same argument gives     *)
(* the largest and the smallest element of a set, what the elements of a   *)
(* sequence weigh together, and the steps of a fold over a sequence.       *)
(***************************************************************************)
EXTENDS Integers, Functions, FiniteSets, FiniteSetsExt, SequencesExt, FiniteSetTheorems, SequenceTheorems,
         WellFoundedInduction, TLAPS

OneOf(s) == CHOOSE x \in s : TRUE

\* g adds up f over every subset of S.
Adds(f, S, g) ==
    g = [s \in SUBSET S |-> IF s = {} THEN 0 ELSE f[OneOf(s)] + g[s \ {OneOf(s)}]]

LEMMA SumIsAdded ==
    ASSUME NEW f, NEW S
    PROVE  SumFunctionOnSet(f, S) = (CHOOSE g : Adds(f, S, g))[S]
BY DEF SumFunctionOnSet, FoldFunctionOnSet, MapThenFoldSet, Adds, OneOf

LEMMA AnyIsIn == ASSUME NEW s, s # {} PROVE OneOf(s) \in s
BY DEF OneOf

\* Sets of subsets of a finite set have smallest members.
LEMMA Smallest ==
    ASSUME NEW S, IsFiniteSet(S), NEW F, F \subseteq SUBSET S, F # {}
    PROVE  \E s \in F : \A t \in F : t \subseteq s => t = s
<1>1. IsWellFoundedOn(StrictSubsetOrdering(S), SUBSET S)
    BY FS_StrictSubsetOrderingWellFounded, FS_FiniteSubsetsOfFinite
<1>2. \E x \in F : \A y \in F : ~ (<<y, x>> \in StrictSubsetOrdering(S))
    BY <1>1, WFMin
<1>3. QED
    BY <1>2 DEF StrictSubsetOrdering

\* Two functions that add up f agree wherever both are defined.
LEMMA AddsAgree ==
    ASSUME NEW f, NEW S, IsFiniteSet(S), NEW T, NEW g, NEW h, Adds(f, S, g), Adds(f, T, h),
           NEW U, U \subseteq S, U \subseteq T
    PROVE  g[U] = h[U]
<1> DEFINE Bad == {V \in SUBSET S : V \subseteq T /\ g[V] # h[V]}
<1>1. SUFFICES ASSUME Bad # {} PROVE FALSE
    OBVIOUS
<1>2. Bad \subseteq SUBSET S
    OBVIOUS
<1> HIDE DEF Bad
<1>3. PICK B \in Bad : \A V \in Bad : V \subseteq B => V = B
    BY <1>1, <1>2, Smallest
<1> USE DEF Bad
<1>4. B # {}
    BY DEF Adds
<1>5. OneOf(B) \in B
    BY <1>4, AnyIsIn
<1>6. g[B \ {OneOf(B)}] = h[B \ {OneOf(B)}]
    BY <1>3, <1>5
<1>7. g[B] = f[OneOf(B)] + g[B \ {OneOf(B)}] /\ h[B] = f[OneOf(B)] + h[B \ {OneOf(B)}]
    BY <1>4 DEF Adds
<1>8. QED
    BY <1>6, <1>7

\* There is one for every finite set.
LEMMA AddsExists ==
    ASSUME NEW f, NEW S, IsFiniteSet(S)
    PROVE  \E g : Adds(f, S, g)
<1> DEFINE Bad == {U \in SUBSET S : ~ \E g : Adds(f, U, g)}
           G(U) == CHOOSE g : Adds(f, U, g)
<1>1. SUFFICES ASSUME Bad # {} PROVE FALSE
    OBVIOUS
<1>2. Bad \subseteq SUBSET S
    OBVIOUS
<1> HIDE DEF Bad
<1>3. PICK T \in Bad : \A V \in Bad : V \subseteq T => V = T
    BY <1>1, <1>2, Smallest
<1> USE DEF Bad
<1>4. ASSUME NEW U, U \subseteq T, U # T PROVE Adds(f, U, G(U))
  <2>1. U \notin Bad /\ U \subseteq S
      BY <1>3, <1>4
  <2>2. \E g : Adds(f, U, g)
      BY <2>1
  <2>3. QED
      BY <2>2
<1>5. IsFiniteSet(T)
    BY FS_Subset
<1> HIDE DEF G, Bad
<1>6. ASSUME NEW U, NEW V, U \subseteq V, V \subseteq T, V # T
      PROVE  G(U)[U] = G(V)[U]
  <2>1. Adds(f, U, G(U)) /\ Adds(f, V, G(V))
      BY <1>4, <1>6
  <2>2. IsFiniteSet(U)
      BY <1>5, <1>6, FS_Subset
  <2>3. QED
      BY <1>6, <2>1, <2>2, AddsAgree
<1> DEFINE Value(s) == IF s = {} THEN 0 ELSE f[OneOf(s)] + G(s \ {OneOf(s)})[s \ {OneOf(s)}]
<1>7. ASSUME NEW s, s \subseteq T, s # T
      PROVE  G(s)[s] = Value(s)
  <2>1. Adds(f, s, G(s))
      BY <1>4, <1>7
  <2>2. CASE s = {}
    <3>1. G(s)[s] = 0
        BY <2>1, <2>2 DEF Adds
    <3>2. QED
        BY <2>2, <3>1
  <2>3. CASE s # {}
    <3>1. OneOf(s) \in s
        BY <2>3, AnyIsIn
    <3>2. G(s)[s] = f[OneOf(s)] + G(s)[s \ {OneOf(s)}]
        BY <2>1, <2>3 DEF Adds
    <3>3. G(s)[s \ {OneOf(s)}] = G(s \ {OneOf(s)})[s \ {OneOf(s)}]
        BY <1>6, <1>7
    <3>4. QED
        BY <2>3, <3>2, <3>3
  <2>4. QED
      BY <2>2, <2>3
<1> DEFINE g == [s \in SUBSET T |-> Value(s)]
<1>8. Adds(f, T, g)
  <2>1. ASSUME NEW s \in SUBSET T, s # {}
        PROVE  Value(s) = f[OneOf(s)] + g[s \ {OneOf(s)}]
    <3>1. OneOf(s) \in s
        BY <2>1, AnyIsIn
    <3>2. s \ {OneOf(s)} \subseteq T /\ s \ {OneOf(s)} # T
        BY <3>1
    <3>3. G(s \ {OneOf(s)})[s \ {OneOf(s)}] = Value(s \ {OneOf(s)})
        BY <1>7, <3>2
    <3>4. g[s \ {OneOf(s)}] = Value(s \ {OneOf(s)})
        BY <3>2
    <3>5. QED
        BY <2>1, <3>3, <3>4
  <2>2. g = [s \in SUBSET T |-> IF s = {} THEN 0 ELSE f[OneOf(s)] + g[s \ {OneOf(s)}]]
      BY <2>1
  <2>3. QED
      BY <2>2 DEF Adds
<1>9. QED
    BY <1>3, <1>8 DEF Bad

-----------------------------------------------------------------------------
(* Sums                                                                     *)

LEMMA SumUnfolds ==
    ASSUME NEW f, NEW S, IsFiniteSet(S)
    PROVE  /\ SumFunctionOnSet(f, {}) = 0
           /\ S # {} => /\ OneOf(S) \in S
                        /\ SumFunctionOnSet(f, S) = f[OneOf(S)] + SumFunctionOnSet(f, S \ {OneOf(S)})
<1> DEFINE G(U) == CHOOSE g : Adds(f, U, g)
<1>1. ASSUME NEW U, IsFiniteSet(U) PROVE Adds(f, U, G(U)) /\ SumFunctionOnSet(f, U) = G(U)[U]
    BY <1>1, AddsExists, SumIsAdded
<1> HIDE DEF G
<1>2. SumFunctionOnSet(f, {}) = 0
    BY <1>1, FS_EmptySet DEF Adds
<1>3. ASSUME S # {}
      PROVE  /\ OneOf(S) \in S
             /\ SumFunctionOnSet(f, S) = f[OneOf(S)] + SumFunctionOnSet(f, S \ {OneOf(S)})
  <2>1. OneOf(S) \in S
      BY <1>3, AnyIsIn
  <2>2. IsFiniteSet(S \ {OneOf(S)})
      BY FS_RemoveElement
  <2>3. Adds(f, S, G(S)) /\ Adds(f, S \ {OneOf(S)}, G(S \ {OneOf(S)}))
      BY <1>1, <2>2
  <2>4. G(S)[S \ {OneOf(S)}] = G(S \ {OneOf(S)})[S \ {OneOf(S)}]
      BY <2>2, <2>3, AddsAgree
  <2>5. G(S)[S] = f[OneOf(S)] + G(S)[S \ {OneOf(S)}]
      BY <1>3, <2>3 DEF Adds
  <2>6. QED
      BY <1>1, <2>1, <2>2, <2>4, <2>5
<1>4. QED
    BY <1>2, <1>3

LEMMA SumEmpty == ASSUME NEW f PROVE SumFunctionOnSet(f, {}) = 0
BY SumUnfolds, FS_EmptySet

\* A sum of integers is an integer.
LEMMA SumInt ==
    ASSUME NEW f, NEW S, IsFiniteSet(S), \A x \in S : f[x] \in Int
    PROVE  SumFunctionOnSet(f, S) \in Int
<1> DEFINE Bad == {U \in SUBSET S : SumFunctionOnSet(f, U) \notin Int}
<1>1. SUFFICES ASSUME Bad # {} PROVE FALSE
    OBVIOUS
<1>2. Bad \subseteq SUBSET S
    OBVIOUS
<1> HIDE DEF Bad
<1>3. PICK T \in Bad : \A V \in Bad : V \subseteq T => V = T
    BY <1>1, <1>2, Smallest
<1> USE DEF Bad
<1>4. IsFiniteSet(T)
    BY FS_Subset
<1>5. T # {}
    BY SumEmpty
<1>6. OneOf(T) \in T /\ SumFunctionOnSet(f, T) = f[OneOf(T)] + SumFunctionOnSet(f, T \ {OneOf(T)})
    BY <1>4, <1>5, SumUnfolds
<1>7. SumFunctionOnSet(f, T \ {OneOf(T)}) \in Int
    BY <1>3, <1>6
<1>8. QED
    BY <1>6, <1>7

\* Any element can be taken out of a sum.
LEMMA SumTakesOut ==
    ASSUME NEW f, NEW S, IsFiniteSet(S), \A x \in S : f[x] \in Int, NEW y \in S
    PROVE  SumFunctionOnSet(f, S) = f[y] + SumFunctionOnSet(f, S \ {y})
<1> DEFINE Bad == {U \in SUBSET S : \E x \in U :
                      SumFunctionOnSet(f, U) # f[x] + SumFunctionOnSet(f, U \ {x})}
<1>1. SUFFICES ASSUME Bad # {} PROVE FALSE
    OBVIOUS
<1>2. Bad \subseteq SUBSET S
    OBVIOUS
<1> HIDE DEF Bad
<1>3. PICK T \in Bad : \A V \in Bad : V \subseteq T => V = T
    BY <1>1, <1>2, Smallest
<1> USE DEF Bad
<1>4. PICK x \in T : SumFunctionOnSet(f, T) # f[x] + SumFunctionOnSet(f, T \ {x})
    OBVIOUS
<1> DEFINE a == OneOf(T)
           R == (T \ {a}) \ {x}
<1>5. IsFiniteSet(T) /\ IsFiniteSet(T \ {x}) /\ IsFiniteSet(T \ {a}) /\ IsFiniteSet(R)
    BY FS_Subset, FS_RemoveElement
<1>6. a \in T /\ SumFunctionOnSet(f, T) = f[a] + SumFunctionOnSet(f, T \ {a})
    BY <1>4, <1>5, SumUnfolds
<1>7. a # x
    BY <1>4, <1>6
<1>8. T \ {a} \notin Bad /\ T \ {x} \notin Bad
    BY <1>3, <1>6
<1>9. SumFunctionOnSet(f, T \ {a}) = f[x] + SumFunctionOnSet(f, R)
    BY <1>7, <1>8
<1>10. SumFunctionOnSet(f, T \ {x}) = f[a] + SumFunctionOnSet(f, R)
  <2>1. (T \ {x}) \ {a} = R
      OBVIOUS
  <2>2. QED
      BY <1>6, <1>7, <1>8, <2>1
<1>11. SumFunctionOnSet(f, R) \in Int
    BY <1>5, SumInt
<1>12. f[a] \in Int /\ f[x] \in Int
    BY <1>6
<1>13. QED
    BY <1>4, <1>6, <1>9, <1>10, <1>11, <1>12

LEMMA SumSingle ==
    ASSUME NEW f, NEW x, f[x] \in Int
    PROVE  SumFunctionOnSet(f, {x}) = f[x]
<1>1. IsFiniteSet({x}) /\ {x} \ {x} = {}
    BY FS_Singleton
<1>2. SumFunctionOnSet(f, {x}) = f[x] + SumFunctionOnSet(f, {x} \ {x})
    BY <1>1, SumTakesOut
<1>3. SumFunctionOnSet(f, {}) = 0
    BY SumEmpty
<1>4. QED
    BY <1>1, <1>2, <1>3

LEMMA SumAddsElement ==
    ASSUME NEW f, NEW S, IsFiniteSet(S), \A x \in S : f[x] \in Int, NEW y, y \notin S, f[y] \in Int
    PROVE  SumFunctionOnSet(f, S \cup {y}) = f[y] + SumFunctionOnSet(f, S)
<1>1. IsFiniteSet(S \cup {y})
    BY FS_AddElement
<1>2. (S \cup {y}) \ {y} = S
    OBVIOUS
<1>3. QED
    BY <1>1, <1>2, SumTakesOut

\* Sums are ordered as their terms are.
LEMMA SumMonotonic ==
    ASSUME NEW f, NEW g, NEW S, IsFiniteSet(S),
           \A x \in S : f[x] \in Int /\ g[x] \in Int /\ f[x] <= g[x]
    PROVE  SumFunctionOnSet(f, S) <= SumFunctionOnSet(g, S)
<1> DEFINE Bad == {U \in SUBSET S : ~(SumFunctionOnSet(f, U) <= SumFunctionOnSet(g, U))}
<1>1. SUFFICES ASSUME Bad # {} PROVE FALSE
    OBVIOUS
<1>2. Bad \subseteq SUBSET S
    OBVIOUS
<1> HIDE DEF Bad
<1>3. PICK T \in Bad : \A V \in Bad : V \subseteq T => V = T
    BY <1>1, <1>2, Smallest
<1> USE DEF Bad
<1>4. T # {}
    BY SumEmpty
<1>5. PICK y \in T : TRUE
    BY <1>4
<1>6. IsFiniteSet(T) /\ IsFiniteSet(T \ {y})
    BY FS_Subset, FS_RemoveElement
<1>7. /\ SumFunctionOnSet(f, T) = f[y] + SumFunctionOnSet(f, T \ {y})
      /\ SumFunctionOnSet(g, T) = g[y] + SumFunctionOnSet(g, T \ {y})
    BY <1>6, SumTakesOut
<1>8. SumFunctionOnSet(f, T \ {y}) \in Int /\ SumFunctionOnSet(g, T \ {y}) \in Int
    BY <1>6, SumInt
<1>9. SumFunctionOnSet(f, T \ {y}) <= SumFunctionOnSet(g, T \ {y})
    BY <1>3
<1>10. f[y] \in Int /\ g[y] \in Int /\ f[y] <= g[y]
    OBVIOUS
<1>11. QED
    BY <1>7, <1>8, <1>9, <1>10

LEMMA SumSame ==
    ASSUME NEW f, NEW g, NEW S, IsFiniteSet(S), \A x \in S : f[x] \in Int /\ f[x] = g[x]
    PROVE  SumFunctionOnSet(f, S) = SumFunctionOnSet(g, S)
<1>1. SumFunctionOnSet(f, S) \in Int /\ SumFunctionOnSet(g, S) \in Int
    BY SumInt
<1>2. SumFunctionOnSet(f, S) <= SumFunctionOnSet(g, S) /\ SumFunctionOnSet(g, S) <= SumFunctionOnSet(f, S)
    BY SumMonotonic
<1>3. QED
    BY <1>1, <1>2

\* A sum changes by what one of its terms changes.
LEMMA SumChanges ==
    ASSUME NEW f, NEW g, NEW S, IsFiniteSet(S), NEW y \in S, f[y] \in Int, g[y] \in Int,
           \A x \in S \ {y} : f[x] \in Int /\ f[x] = g[x]
    PROVE  SumFunctionOnSet(g, S) = SumFunctionOnSet(f, S) - f[y] + g[y]
<1>1. IsFiniteSet(S \ {y})
    BY FS_RemoveElement
<1>2. SumFunctionOnSet(f, S \ {y}) = SumFunctionOnSet(g, S \ {y})
    BY <1>1, SumSame
<1>3. /\ SumFunctionOnSet(f, S) = f[y] + SumFunctionOnSet(f, S \ {y})
      /\ SumFunctionOnSet(g, S) = g[y] + SumFunctionOnSet(g, S \ {y})
    BY SumTakesOut
<1>4. SumFunctionOnSet(f, S \ {y}) \in Int
    BY <1>1, SumInt
<1>5. QED
    BY <1>2, <1>3, <1>4

\* The sum of two functions.
LEMMA SumPlus ==
    ASSUME NEW f, NEW g, NEW h, NEW S, IsFiniteSet(S),
           \A x \in S : f[x] \in Int /\ g[x] \in Int /\ h[x] = f[x] + g[x]
    PROVE  SumFunctionOnSet(h, S) = SumFunctionOnSet(f, S) + SumFunctionOnSet(g, S)
<1> DEFINE Bad == {U \in SUBSET S : SumFunctionOnSet(h, U) # SumFunctionOnSet(f, U) + SumFunctionOnSet(g, U)}
<1>1. SUFFICES ASSUME Bad # {} PROVE FALSE
    OBVIOUS
<1>2. Bad \subseteq SUBSET S
    OBVIOUS
<1> HIDE DEF Bad
<1>3. PICK T \in Bad : \A V \in Bad : V \subseteq T => V = T
    BY <1>1, <1>2, Smallest
<1> USE DEF Bad
<1>4. T # {}
  <2>1. SumFunctionOnSet(f, {}) = 0 /\ SumFunctionOnSet(g, {}) = 0 /\ SumFunctionOnSet(h, {}) = 0
      BY SumEmpty
  <2>2. SumFunctionOnSet(h, {}) = SumFunctionOnSet(f, {}) + SumFunctionOnSet(g, {})
      BY <2>1, SMT
  <2>3. {} \notin Bad
      BY <2>2
  <2>4. QED
      BY <2>3
<1>5. PICK y \in T : TRUE
    BY <1>4
<1>6. IsFiniteSet(T) /\ IsFiniteSet(T \ {y})
    BY FS_Subset, FS_RemoveElement
<1>7. \A x \in T : h[x] \in Int
    OBVIOUS
<1>8. /\ SumFunctionOnSet(f, T) = f[y] + SumFunctionOnSet(f, T \ {y})
      /\ SumFunctionOnSet(g, T) = g[y] + SumFunctionOnSet(g, T \ {y})
      /\ SumFunctionOnSet(h, T) = h[y] + SumFunctionOnSet(h, T \ {y})
    BY <1>6, <1>7, SumTakesOut
<1>9. SumFunctionOnSet(f, T \ {y}) \in Int /\ SumFunctionOnSet(g, T \ {y}) \in Int
    BY <1>6, SumInt
<1>10. SumFunctionOnSet(h, T \ {y}) = SumFunctionOnSet(f, T \ {y}) + SumFunctionOnSet(g, T \ {y})
    BY <1>3
<1>11. f[y] \in Int /\ g[y] \in Int /\ h[y] = f[y] + g[y]
    OBVIOUS
<1>12. QED
    BY <1>8, <1>9, <1>10, <1>11

LEMMA SumZero ==
    ASSUME NEW f, NEW S, IsFiniteSet(S), \A x \in S : f[x] = 0
    PROVE  SumFunctionOnSet(f, S) = 0
<1> DEFINE Bad == {U \in SUBSET S : SumFunctionOnSet(f, U) # 0}
<1>1. SUFFICES ASSUME Bad # {} PROVE FALSE
    OBVIOUS
<1>2. Bad \subseteq SUBSET S
    OBVIOUS
<1> HIDE DEF Bad
<1>3. PICK T \in Bad : \A V \in Bad : V \subseteq T => V = T
    BY <1>1, <1>2, Smallest
<1> USE DEF Bad
<1>4. PICK y \in T : TRUE
    BY SumEmpty
<1>5. IsFiniteSet(T)
    BY FS_Subset
<1>6. SumFunctionOnSet(f, T) = f[y] + SumFunctionOnSet(f, T \ {y})
    BY <1>5, SumTakesOut
<1>7. SumFunctionOnSet(f, T \ {y}) = 0
    BY <1>3
<1>8. QED
    BY <1>6, <1>7

\* A sum of natural numbers is one.
LEMMA SumNat ==
    ASSUME NEW f, NEW S, IsFiniteSet(S), \A x \in S : f[x] \in Nat
    PROVE  SumFunctionOnSet(f, S) \in Nat
<1> DEFINE zero == [x \in S |-> 0]
<1>1. SumFunctionOnSet(zero, S) = 0
    BY SumZero
<1>2. SumFunctionOnSet(zero, S) <= SumFunctionOnSet(f, S)
    BY SumMonotonic
<1>3. SumFunctionOnSet(f, S) \in Int
    BY SumInt
<1>4. QED
    BY <1>1, <1>2, <1>3

\* A sum over two sets that are apart.
LEMMA SumSplits ==
    ASSUME NEW f, NEW S, NEW T, IsFiniteSet(S), IsFiniteSet(T), S \cap T = {},
           \A x \in S \cup T : f[x] \in Int
    PROVE  SumFunctionOnSet(f, S \cup T) = SumFunctionOnSet(f, S) + SumFunctionOnSet(f, T)
<1> DEFINE Bad == {U \in SUBSET T : SumFunctionOnSet(f, S \cup U) # SumFunctionOnSet(f, S) + SumFunctionOnSet(f, U)}
<1>1. SUFFICES ASSUME Bad # {} PROVE FALSE
    OBVIOUS
<1>2. Bad \subseteq SUBSET T
    OBVIOUS
<1> HIDE DEF Bad
<1>3. PICK U \in Bad : \A V \in Bad : V \subseteq U => V = U
    BY <1>1, <1>2, Smallest
<1> USE DEF Bad
<1>4. SumFunctionOnSet(f, S) \in Int
    BY SumInt
<1>5. PICK y \in U : TRUE
    <2>1. U # {}
        <3>1. SumFunctionOnSet(f, {}) = 0
            BY SumEmpty
        <3>2. ASSUME U = {} PROVE FALSE
            <4>1. S \cup U = S
                BY <3>2
            <4>2. SumFunctionOnSet(f, S \cup U) = SumFunctionOnSet(f, S)
                BY <4>1
            <4>3. SumFunctionOnSet(f, U) = 0
                BY <3>1, <3>2
            <4> QED
                BY <1>3, <1>4, <4>2, <4>3
        <3> QED
            BY <3>2
    <2> QED
        BY <2>1
<1>6. U \ {y} \notin Bad /\ U \ {y} \in SUBSET T
    BY <1>3
<1>7. SumFunctionOnSet(f, S \cup (U \ {y})) = SumFunctionOnSet(f, S) + SumFunctionOnSet(f, U \ {y})
    BY <1>6
<1>8. IsFiniteSet(U) /\ IsFiniteSet(S \cup U) /\ IsFiniteSet(U \ {y})
    BY FS_Subset, FS_Union, FS_RemoveElement
<1>9. SumFunctionOnSet(f, U) = f[y] + SumFunctionOnSet(f, U \ {y}) /\ SumFunctionOnSet(f, U \ {y}) \in Int
    BY <1>8, SumTakesOut, SumInt
<1>10. SumFunctionOnSet(f, S \cup U) = f[y] + SumFunctionOnSet(f, S \cup (U \ {y}))
    <2>1. (S \cup U) \ {y} = S \cup (U \ {y}) /\ y \in S \cup U
        OBVIOUS
    <2>2. \A x \in S \cup U : f[x] \in Int
        OBVIOUS
    <2>3. SumFunctionOnSet(f, S \cup U) = f[y] + SumFunctionOnSet(f, (S \cup U) \ {y})
        BY <1>8, <2>1, <2>2, SumTakesOut
    <2> QED
        BY <2>1, <2>3
<1>11. f[y] \in Int
    OBVIOUS
<1>12. QED
    BY <1>3, <1>4, <1>7, <1>9, <1>10, <1>11

\* Fewer natural numbers have a smaller sum.
LEMMA SumSubset ==
    ASSUME NEW f, NEW T, IsFiniteSet(T), NEW S \in SUBSET T, \A x \in T : f[x] \in Nat
    PROVE  SumFunctionOnSet(f, S) <= SumFunctionOnSet(f, T)
<1>1. IsFiniteSet(S) /\ IsFiniteSet(T \ S) /\ S \cup (T \ S) = T
    BY FS_Subset, FS_Difference
<1>2. SumFunctionOnSet(f, S) \in Nat /\ SumFunctionOnSet(f, T \ S) \in Nat
    BY <1>1, SumNat
<1>3. SumFunctionOnSet(f, T) = SumFunctionOnSet(f, S) + SumFunctionOnSet(f, T \ S)
    BY <1>1, SumSplits
<1>4. QED
    BY <1>2, <1>3

\* A sum in which the members of S go by other names.
LEMMA SumRenamed ==
    ASSUME NEW f, NEW S, IsFiniteSet(S), NEW g, NEW m,
           \A x \in S : f[x] \in Int /\ f[x] = g[m[x]],
           \A x, y \in S : m[x] = m[y] => x = y
    PROVE  SumFunctionOnSet(f, S) = SumFunctionOnSet(g, {m[x] : x \in S})
<1> DEFINE Image(U) == {m[x] : x \in U}
           Bad == {U \in SUBSET S : SumFunctionOnSet(f, U) # SumFunctionOnSet(g, Image(U))}
<1>1. SUFFICES ASSUME Bad # {} PROVE FALSE
    OBVIOUS
<1>2. Bad \subseteq SUBSET S
    OBVIOUS
<1> HIDE DEF Bad
<1>3. PICK U \in Bad : \A V \in Bad : V \subseteq U => V = U
    BY <1>1, <1>2, Smallest
<1> USE DEF Bad
<1>4. U # {}
    <2>1. SumFunctionOnSet(f, {}) = 0 /\ SumFunctionOnSet(g, {}) = 0
        BY SumEmpty
    <2>2. ASSUME U = {} PROVE FALSE
        <3>1. Image(U) = {}
            BY <2>2
        <3> QED
            BY <1>3, <2>1, <2>2, <3>1
    <2> QED
        BY <2>2
<1>5. PICK y \in U : TRUE
    BY <1>4
<1>6. U \ {y} \notin Bad /\ U \ {y} \in SUBSET S
    BY <1>3
<1>7. SumFunctionOnSet(f, U \ {y}) = SumFunctionOnSet(g, Image(U \ {y}))
    BY <1>6
<1>8. IsFiniteSet(U) /\ IsFiniteSet(Image(U))
    <2>1. IsFiniteSet(U)
        BY FS_Subset
    <2>2. [x \in U |-> m[x]] \in Surjection(U, Image(U))
        BY DEF Surjection
    <2> QED
        BY <2>1, <2>2, FS_Surjection
<1>9. SumFunctionOnSet(f, U) = f[y] + SumFunctionOnSet(f, U \ {y})
    BY <1>8, SumTakesOut
<1>10. Image(U \ {y}) = Image(U) \ {m[y]} /\ m[y] \in Image(U)
    OBVIOUS
<1>11. \A z \in Image(U) : g[z] \in Int
    OBVIOUS
<1>12. SumFunctionOnSet(g, Image(U)) = g[m[y]] + SumFunctionOnSet(g, Image(U) \ {m[y]})
    BY <1>8, <1>10, <1>11, SumTakesOut
<1>13. f[y] = g[m[y]]
    OBVIOUS
<1>14. QED
    BY <1>3, <1>7, <1>9, <1>10, <1>12, <1>13

-----------------------------------------------------------------------------
(* Division                                                                 *)

\* A division with remainder.
LEMMA DivBounds ==
    ASSUME NEW t \in Nat, NEW L \in Nat \ {0}
    PROVE  /\ t \div L \in Nat /\ L * (t \div L) <= t /\ t < L * (t \div L) + L
BY Z3

\* ... has one quotient.
LEMMA DivUnique ==
    ASSUME NEW t \in Nat, NEW L \in Nat \ {0}, NEW k \in Nat, L * k <= t, t < L * k + L
    PROVE  t \div L = k
<1>1. t \div L \in Nat /\ L * (t \div L) <= t /\ t < L * (t \div L) + L
    BY DivBounds
<1>2. PICK q \in Nat : q = t \div L
    BY <1>1
<1>3. L * q < L * k + L /\ L * k < L * q + L
    BY <1>1, <1>2
<1>4. CASE q < k
  <2>1. PICK d \in Nat : k = q + 1 + d
    <3>1. k - q - 1 \in Nat /\ k = q + 1 + (k - q - 1)
        BY <1>4
    <3>2. QED
        BY <3>1
  <2>2. L * k = L * q + L + L * d
      BY <2>1
  <2>3. L * d >= 0
      BY <2>1
  <2>4. QED
      BY <1>3, <2>2, <2>3
<1>5. CASE k < q
  <2>1. PICK d \in Nat : q = k + 1 + d
    <3>1. q - k - 1 \in Nat /\ q = k + 1 + (q - k - 1)
        BY <1>5
    <3>2. QED
        BY <3>1
  <2>2. L * q = L * k + L + L * d
      BY <2>1
  <2>3. L * d >= 0
      BY <2>1
  <2>4. QED
      BY <1>3, <2>2, <2>3
<1>6. QED
    BY <1>2, <1>4, <1>5

-----------------------------------------------------------------------------
(* What the elements of a sequence weigh together                           *)

Weight(f, q) == SumFunctionOnSet([i \in DOMAIN q |-> f[q[i]]], DOMAIN q)

\* The positions of a sequence.
LEMMA FiniteDomain ==
    ASSUME NEW D, NEW q \in Seq(D)
    PROVE  DOMAIN q = 1..Len(q) /\ Len(q) \in Nat /\ IsFiniteSet(DOMAIN q) /\ \A i \in DOMAIN q : q[i] \in D
<1>1. DOMAIN q = 1..Len(q) /\ Len(q) \in Nat /\ \A i \in DOMAIN q : q[i] \in D
    OBVIOUS
<1>2. IsFiniteSet(1..Len(q))
    BY <1>1, FS_Interval
<1>3. QED
    BY <1>1, <1>2

\* A weight is a number.
LEMMA WeightNat ==
    ASSUME NEW D, NEW q \in Seq(D), NEW f, \A x \in D : f[x] \in Nat
    PROVE  Weight(f, q) \in Nat
<1> DEFINE g == [i \in DOMAIN q |-> f[q[i]]]
<1>1. IsFiniteSet(DOMAIN q) /\ \A i \in DOMAIN q : g[i] \in Nat
    BY FiniteDomain
<1> HIDE DEF g
<1>2. SumFunctionOnSet(g, DOMAIN q) \in Nat
    BY <1>1, SumNat
<1>3. QED
    BY <1>2 DEF Weight, g

\* Nothing weighs nothing.
LEMMA WeightEmpty == ASSUME NEW f PROVE Weight(f, <<>>) = 0
<1>1. DOMAIN <<>> = {}
    OBVIOUS
<1>2. QED
    BY <1>1, SumEmpty DEF Weight

\* Elements that weigh nothing weigh nothing together.
LEMMA WeightZero ==
    ASSUME NEW D, NEW q \in Seq(D), NEW f, \A i \in DOMAIN q : f[q[i]] = 0
    PROVE  Weight(f, q) = 0
<1> DEFINE g == [i \in DOMAIN q |-> f[q[i]]]
<1>1. IsFiniteSet(DOMAIN q) /\ \A i \in DOMAIN q : g[i] = 0
    BY FiniteDomain
<1> HIDE DEF g
<1>2. SumFunctionOnSet(g, DOMAIN q) = 0
    BY <1>1, SumZero
<1>3. QED
    BY <1>2 DEF Weight, g

\* Two sequences one after the other weigh what they weigh.
LEMMA WeightConcat ==
    ASSUME NEW D, NEW q \in Seq(D), NEW r \in Seq(D), NEW f, \A x \in D : f[x] \in Nat
    PROVE  Weight(f, q \o r) = Weight(f, q) + Weight(f, r)
<1> DEFINE all == q \o r
           g == [i \in DOMAIN all |-> f[all[i]]]
           gq == [i \in DOMAIN q |-> f[q[i]]]
           gr == [i \in DOMAIN r |-> f[r[i]]]
           shift == [i \in DOMAIN r |-> Len(q) + i]
           Moved == {shift[i] : i \in DOMAIN r}
<1>1. /\ DOMAIN q = 1..Len(q) /\ Len(q) \in Nat /\ IsFiniteSet(DOMAIN q)
      /\ DOMAIN r = 1..Len(r) /\ Len(r) \in Nat /\ IsFiniteSet(DOMAIN r)
    BY FiniteDomain
<1>2. /\ all \in Seq(D) /\ Len(all) = Len(q) + Len(r)
      /\ \A i \in DOMAIN q : all[i] = q[i]
      /\ \A i \in DOMAIN r : all[Len(q) + i] = r[i]
    OBVIOUS
<1>3. DOMAIN all = 1..(Len(q) + Len(r)) /\ \A i \in DOMAIN all : all[i] \in D
    BY <1>2
<1> HIDE DEF all
<1>4. \A i \in DOMAIN all : g[i] \in Nat
    BY <1>3
<1>5. DOMAIN all = DOMAIN q \cup Moved /\ DOMAIN q \cap Moved = {}
  <2>1. ASSUME NEW i \in DOMAIN all PROVE i \in DOMAIN q \cup Moved
    <3>1. CASE i <= Len(q)
        BY <1>1, <1>3, <3>1
    <3>2. CASE ~(i <= Len(q))
      <4>1. i - Len(q) \in DOMAIN r /\ shift[i - Len(q)] = i
          BY <1>1, <1>3, <3>2
      <4>2. QED
          BY <4>1
    <3>3. QED
        BY <3>1, <3>2
  <2>2. ASSUME NEW i \in DOMAIN r PROVE shift[i] \in DOMAIN all /\ shift[i] \notin DOMAIN q
      BY <1>1, <1>3
  <2>3. DOMAIN q \subseteq DOMAIN all
      BY <1>1, <1>3
  <2>4. QED
      BY <2>1, <2>2, <2>3
<1>6. \A i \in DOMAIN r : gr[i] \in Int /\ gr[i] = g[shift[i]]
    BY <1>1, <1>2, <1>3, <1>4
<1>7. \A i, j \in DOMAIN r : shift[i] = shift[j] => i = j
    BY <1>1
<1>8. \A i \in DOMAIN q : gq[i] \in Int /\ gq[i] = g[i]
    BY <1>1, <1>2, <1>3, <1>4
<1>9. IsFiniteSet(Moved)
  <2>1. IsFiniteSet(DOMAIN all)
      BY <1>1, <1>3, FS_Interval
  <2>2. QED
      BY <1>5, <2>1, FS_Subset
<1> HIDE DEF g, gq, gr, shift
<1>10. SumFunctionOnSet(gr, DOMAIN r) = SumFunctionOnSet(g, Moved)
  <2>1. PICK N : N = DOMAIN r
      OBVIOUS
  <2>2. /\ IsFiniteSet(N) /\ \A i \in N : gr[i] \in Int /\ gr[i] = g[shift[i]]
        /\ \A i, j \in N : shift[i] = shift[j] => i = j
      BY <1>1, <1>6, <1>7, <2>1
  <2>3. SumFunctionOnSet(gr, N) = SumFunctionOnSet(g, {shift[i] : i \in N})
      BY <2>2, SumRenamed
  <2>4. QED
      BY <2>1, <2>3
<1> HIDE DEF Moved
<1>11. SumFunctionOnSet(gq, DOMAIN q) = SumFunctionOnSet(g, DOMAIN q)
    BY <1>1, <1>8, SumSame
<1>12. \A i \in DOMAIN q \cup Moved : g[i] \in Int
    BY <1>4, <1>5
<1>13. SumFunctionOnSet(g, DOMAIN q \cup Moved) = SumFunctionOnSet(g, DOMAIN q) + SumFunctionOnSet(g, Moved)
    BY <1>1, <1>5, <1>9, <1>12, SumSplits
<1>14. SumFunctionOnSet(g, DOMAIN all) = SumFunctionOnSet(gq, DOMAIN q) + SumFunctionOnSet(gr, DOMAIN r)
    BY <1>5, <1>10, <1>11, <1>13
<1>15. QED
    BY <1>14 DEF Weight, all, g, gq, gr

\* One element weighs what it weighs.
LEMMA WeightOne ==
    ASSUME NEW f, NEW x, f[x] \in Nat
    PROVE  Weight(f, <<x>>) = f[x]
<1> DEFINE g == [i \in DOMAIN <<x>> |-> f[<<x>>[i]]]
<1>1. DOMAIN <<x>> = {1}
    OBVIOUS
<1>2. g[1] = f[x]
    BY <1>1
<1> HIDE DEF g
<1>3. SumFunctionOnSet(g, {1}) = f[x]
    BY <1>2, SumSingle
<1>4. SumFunctionOnSet(g, DOMAIN <<x>>) = f[x]
    BY <1>1, <1>3
<1>5. QED
    BY <1>4 DEF Weight, g

\* One more element adds its weight.
LEMMA WeightAppend ==
    ASSUME NEW D, NEW q \in Seq(D), NEW x \in D, NEW f, \A y \in D : f[y] \in Nat
    PROVE  Weight(f, Append(q, x)) = Weight(f, q) + f[x]
<1>1. Append(q, x) = q \o <<x>> /\ <<x>> \in Seq(D)
    BY AppendIsConcat
<1>2. Weight(f, q \o <<x>>) = Weight(f, q) + Weight(f, <<x>>)
    BY <1>1, WeightConcat
<1>3. Weight(f, <<x>>) = f[x]
    BY WeightOne
<1>4. QED
    BY <1>1, <1>2, <1>3

\* One less takes it away.
LEMMA WeightRemoved ==
    ASSUME NEW D, NEW q \in Seq(D), NEW i \in DOMAIN q, NEW f, \A y \in D : f[y] \in Nat
    PROVE  RemoveAt(q, i) \in Seq(D) /\ Weight(f, q) = Weight(f, RemoveAt(q, i)) + f[q[i]]
<1>1. i \in 1..Len(q) /\ Len(q) \in Nat /\ q[i] \in D
    OBVIOUS
<1>2. PICK a : a = SubSeq(q, 1, i - 1)
    OBVIOUS
<1>3. PICK b : b = SubSeq(q, i + 1, Len(q))
    OBVIOUS
<1>4. a \in Seq(D) /\ Len(a) = i - 1 /\ \A j \in 1..(i - 1) : a[j] = q[j]
  <2>1. SubSeq(q, 1, i - 1) = [j \in 1..(i - 1) |-> q[j]]
      BY <1>1
  <2>2. \A j \in 1..(i - 1) : q[j] \in D
      BY <1>1
  <2>3. i - 1 \in Nat
      BY <1>1
  <2>4. QED
      BY <1>2, <2>1, <2>2, <2>3, IsASeq
<1>5. b \in Seq(D) /\ Len(b) = Len(q) - i /\ \A j \in 1..(Len(q) - i) : b[j] = q[i + j]
  <2>1. PICK n : n = Len(q) - i
      OBVIOUS
  <2>2. n \in Nat /\ SubSeq(q, i + 1, Len(q)) = [j \in 1..n |-> q[i + j]]
      BY <1>1, <2>1
  <2>3. \A j \in 1..n : q[i + j] \in D
      BY <1>1, <2>1
  <2>4. QED
      BY <1>3, <2>1, <2>2, <2>3, IsASeq
<1>6. RemoveAt(q, i) = a \o b
    BY <1>2, <1>3 DEF RemoveAt
<1>7. PICK c : c = Append(a, q[i])
    OBVIOUS
<1>8. c \in Seq(D) /\ Len(c) = i /\ c[i] = q[i] /\ \A j \in 1..(i - 1) : c[j] = q[j]
    BY <1>1, <1>4, <1>7
<1>9. PICK r : r = c \o b
    OBVIOUS
<1>10. /\ r \in Seq(D) /\ Len(r) = Len(q)
       /\ \A j \in 1..i : r[j] = c[j]
       /\ \A j \in 1..(Len(q) - i) : r[i + j] = b[j]
    BY <1>1, <1>5, <1>8, <1>9
<1>11. ASSUME NEW j \in 1..Len(q) PROVE r[j] = q[j]
  <2>1. CASE j <= i
    <3>1. j \in 1..i /\ (j \in 1..(i - 1) \/ j = i)
        BY <1>1, <2>1
    <3>2. c[j] = q[j]
        BY <1>8, <3>1
    <3>3. r[j] = c[j]
        BY <1>10, <3>1
    <3>4. QED
        BY <3>2, <3>3
  <2>2. CASE ~(j <= i)
    <3>1. j - i \in 1..(Len(q) - i) /\ i + (j - i) = j
        BY <1>1, <2>2
    <3>2. PICK k : k = j - i
        OBVIOUS
    <3>3. r[i + k] = b[k] /\ b[k] = q[i + k] /\ i + k = j
        BY <1>5, <1>10, <3>1, <3>2
    <3>4. QED
        BY <3>3
  <2>3. QED
      BY <2>1, <2>2
<1>12. q = r
    BY <1>10, <1>11, SeqEqual
<1>13. Weight(f, r) = Weight(f, c) + Weight(f, b)
    BY <1>5, <1>8, <1>9, WeightConcat
<1>14. Weight(f, c) = Weight(f, a) + f[q[i]]
    BY <1>1, <1>4, <1>7, WeightAppend
<1>15. Weight(f, a \o b) = Weight(f, a) + Weight(f, b)
    BY <1>4, <1>5, WeightConcat
<1>16. Weight(f, a) \in Nat /\ Weight(f, b) \in Nat /\ f[q[i]] \in Nat
    BY <1>1, <1>4, <1>5, WeightNat
<1>17. a \o b \in Seq(D)
    BY <1>4, <1>5
<1>18. QED
    BY <1>6, <1>12, <1>13, <1>14, <1>15, <1>16, <1>17

-----------------------------------------------------------------------------
(* Largest and smallest elements                                            *)

\* A finite set that is not empty has a largest element: of the sets without one there
\* would be a smallest.
LEMMA MaxExists ==
    ASSUME NEW S, IsFiniteSet(S), \A x \in S : x \in Int, S # {}
    PROVE  Max(S) \in S /\ \A x \in S : Max(S) >= x
<1> DEFINE Bad == {U \in SUBSET S : U # {} /\ ~ \E x \in U : \A y \in U : x >= y}
<1>1. Bad = {}
  <2>1. SUFFICES ASSUME Bad # {} PROVE FALSE
      OBVIOUS
  <2>2. Bad \subseteq SUBSET S
      OBVIOUS
  <2> HIDE DEF Bad
  <2>3. PICK T \in Bad : \A V \in Bad : V \subseteq T => V = T
      BY <2>1, <2>2, Smallest
  <2> USE DEF Bad
  <2>4. PICK a \in T : TRUE
      OBVIOUS
  <2>5. T \ {a} \notin Bad
      BY <2>3, <2>4
  <2>6. CASE T \ {a} = {}
    <3>1. \A y \in T : a >= y
        BY <2>6
    <3>2. QED
        BY <3>1
  <2>7. CASE T \ {a} # {}
    <3>1. PICK b \in T \ {a} : \A y \in T \ {a} : b >= y
        BY <2>5, <2>7
    <3>2. a \in Int /\ b \in Int /\ T \subseteq Int
        OBVIOUS
    <3>3. CASE a >= b
      <4>1. \A y \in T : a >= y
          BY <3>1, <3>2, <3>3
      <4>2. QED
          BY <4>1
    <3>4. CASE ~(a >= b)
      <4>1. \A y \in T : b >= y
          BY <3>1, <3>2, <3>4
      <4>2. QED
          BY <4>1
    <3>5. QED
        BY <3>3, <3>4
  <2>8. QED
      BY <2>6, <2>7
<1>2. \E x \in S : \A y \in S : x >= y
    BY <1>1
<1>3. QED
    BY <1>2 DEF Max

\* And a smallest one.
LEMMA MinExists ==
    ASSUME NEW S, IsFiniteSet(S), \A x \in S : x \in Int, S # {}
    PROVE  Min(S) \in S /\ \A x \in S : Min(S) <= x
<1> DEFINE Bad == {U \in SUBSET S : U # {} /\ ~ \E x \in U : \A y \in U : x <= y}
<1>1. Bad = {}
  <2>1. SUFFICES ASSUME Bad # {} PROVE FALSE
      OBVIOUS
  <2>2. Bad \subseteq SUBSET S
      OBVIOUS
  <2> HIDE DEF Bad
  <2>3. PICK T \in Bad : \A V \in Bad : V \subseteq T => V = T
      BY <2>1, <2>2, Smallest
  <2> USE DEF Bad
  <2>4. PICK a \in T : TRUE
      OBVIOUS
  <2>5. T \ {a} \notin Bad
      BY <2>3, <2>4
  <2>6. CASE T \ {a} = {}
    <3>1. \A y \in T : a <= y
        BY <2>6
    <3>2. QED
        BY <3>1
  <2>7. CASE T \ {a} # {}
    <3>1. PICK b \in T \ {a} : \A y \in T \ {a} : b <= y
        BY <2>5, <2>7
    <3>2. a \in Int /\ b \in Int /\ T \subseteq Int
        OBVIOUS
    <3>3. CASE a <= b
      <4>1. \A y \in T : a <= y
          BY <3>1, <3>2, <3>3
      <4>2. QED
          BY <4>1
    <3>4. CASE ~(a <= b)
      <4>1. \A y \in T : b <= y
          BY <3>1, <3>2, <3>4
      <4>2. QED
          BY <4>1
    <3>5. QED
        BY <3>3, <3>4
  <2>8. QED
      BY <2>6, <2>7
<1>2. \E x \in S : \A y \in S : x <= y
    BY <1>1
<1>3. QED
    BY <1>2 DEF Min

\* What is at least all elements is the largest of them, and so on.
LEMMA MaxIs ==
    ASSUME NEW S, \A x \in S : x \in Int, NEW m \in S, \A x \in S : m >= x
    PROVE  Max(S) = m
<1>1. Max(S) \in S /\ \A x \in S : Max(S) >= x
    BY DEF Max
<1>2. PICK n : n = Max(S)
    OBVIOUS
<1>3. n \in Int /\ m \in Int /\ n >= m /\ m >= n
    BY <1>1, <1>2
<1>4. QED
    BY <1>2, <1>3

\* What is in a set and below all of it is its smallest element.
LEMMA MinIs ==
    ASSUME NEW S, \A x \in S : x \in Int, NEW m \in S, \A x \in S : m <= x
    PROVE  Min(S) = m
<1>1. Min(S) \in S /\ \A x \in S : Min(S) <= x
    BY DEF Min
<1>2. PICK n : n = Min(S)
    OBVIOUS
<1>3. n \in Int /\ m \in Int /\ n <= m /\ m <= n
    BY <1>1, <1>2
<1>4. QED
    BY <1>2, <1>3

-----------------------------------------------------------------------------
(* Folds                                                                    *)

\* g folds h over every subset of S, from the smallest number to the largest.
Runs(h, zero, S, g) ==
    g = [s \in SUBSET S |-> IF s = {} THEN zero ELSE h[Max(s)][g[s \ {Max(s)}]]]

\* Two such functions agree where both are defined.
LEMMA RunsAgree ==
    ASSUME NEW h, NEW zero, NEW S, IsFiniteSet(S), \A x \in S : x \in Nat, NEW T, NEW f, NEW g,
           Runs(h, zero, S, f), Runs(h, zero, T, g), NEW U, U \subseteq S, U \subseteq T
    PROVE  f[U] = g[U]
<1> DEFINE Bad == {V \in SUBSET S : V \subseteq T /\ f[V] # g[V]}
<1>1. SUFFICES ASSUME Bad # {} PROVE FALSE
    OBVIOUS
<1>2. Bad \subseteq SUBSET S
    OBVIOUS
<1> HIDE DEF Bad
<1>3. PICK B \in Bad : \A V \in Bad : V \subseteq B => V = B
    BY <1>1, <1>2, Smallest
<1> USE DEF Bad
<1>4. B # {}
    BY DEF Runs
<1>5. Max(B) \in B
  <2>1. IsFiniteSet(B) /\ \A x \in B : x \in Int
      BY FS_Subset
  <2>2. QED
      BY <1>4, <2>1, MaxExists
<1>6. f[B \ {Max(B)}] = g[B \ {Max(B)}]
    BY <1>3, <1>5
<1>7. f[B] = h[Max(B)][f[B \ {Max(B)}]] /\ g[B] = h[Max(B)][g[B \ {Max(B)}]]
    BY <1>4 DEF Runs
<1>8. QED
    BY <1>6, <1>7

\* There is one.
LEMMA RunsExists ==
    ASSUME NEW h, NEW zero, NEW S, IsFiniteSet(S), \A x \in S : x \in Nat
    PROVE  \E g : Runs(h, zero, S, g)
<1> DEFINE Bad == {U \in SUBSET S : ~ \E g : Runs(h, zero, U, g)}
           G(U) == CHOOSE g : Runs(h, zero, U, g)
<1>1. SUFFICES ASSUME Bad # {} PROVE FALSE
    OBVIOUS
<1>2. Bad \subseteq SUBSET S
    OBVIOUS
<1> HIDE DEF Bad
<1>3. PICK T \in Bad : \A V \in Bad : V \subseteq T => V = T
    BY <1>1, <1>2, Smallest
<1> USE DEF Bad
<1>4. ASSUME NEW U, U \subseteq T, U # T PROVE Runs(h, zero, U, G(U))
  <2>1. U \notin Bad /\ U \subseteq S
      BY <1>3, <1>4
  <2>2. \E g : Runs(h, zero, U, g)
      BY <2>1
  <2>3. QED
      BY <2>2
<1>5. IsFiniteSet(T) /\ \A x \in T : x \in Nat
    BY FS_Subset
<1> HIDE DEF G, Bad
<1>6. ASSUME NEW U, NEW V, U \subseteq V, V \subseteq T, V # T
      PROVE  G(U)[U] = G(V)[U]
  <2>1. Runs(h, zero, U, G(U)) /\ Runs(h, zero, V, G(V))
      BY <1>4, <1>6
  <2>2. IsFiniteSet(U) /\ \A x \in U : x \in Nat
      BY <1>5, <1>6, FS_Subset
  <2>3. QED
      BY <1>6, <2>1, <2>2, RunsAgree
<1>7. ASSUME NEW s, s \subseteq T, s # {} PROVE Max(s) \in s
  <2>1. IsFiniteSet(s) /\ \A x \in s : x \in Int
      BY <1>5, <1>7, FS_Subset
  <2>2. QED
      BY <1>7, <2>1, MaxExists
<1> DEFINE Value(s) == IF s = {} THEN zero ELSE h[Max(s)][G(s \ {Max(s)})[s \ {Max(s)}]]
<1>8. ASSUME NEW s, s \subseteq T, s # T
      PROVE  G(s)[s] = Value(s)
  <2>1. Runs(h, zero, s, G(s))
      BY <1>4, <1>8
  <2>2. CASE s = {}
    <3>1. G(s)[s] = zero
        BY <2>1, <2>2 DEF Runs
    <3>2. QED
        BY <2>2, <3>1
  <2>3. CASE s # {}
    <3>1. Max(s) \in s
        BY <1>7, <1>8, <2>3
    <3>2. G(s)[s] = h[Max(s)][G(s)[s \ {Max(s)}]]
        BY <2>1, <2>3 DEF Runs
    <3>3. G(s)[s \ {Max(s)}] = G(s \ {Max(s)})[s \ {Max(s)}]
        BY <1>6, <1>8
    <3>4. QED
        BY <2>3, <3>2, <3>3
  <2>4. QED
      BY <2>2, <2>3
<1> DEFINE g == [s \in SUBSET T |-> Value(s)]
<1>9. Runs(h, zero, T, g)
  <2>1. ASSUME NEW s \in SUBSET T, s # {}
        PROVE  Value(s) = h[Max(s)][g[s \ {Max(s)}]]
    <3>1. Max(s) \in s
        BY <1>7, <2>1
    <3>2. s \ {Max(s)} \subseteq T /\ s \ {Max(s)} # T
        BY <3>1
    <3>3. G(s \ {Max(s)})[s \ {Max(s)}] = Value(s \ {Max(s)})
        BY <1>8, <3>2
    <3>4. g[s \ {Max(s)}] = Value(s \ {Max(s)})
        BY <3>2
    <3>5. QED
        BY <2>1, <3>3, <3>4
  <2>2. g = [s \in SUBSET T |-> IF s = {} THEN zero ELSE h[Max(s)][g[s \ {Max(s)}]]]
      BY <2>1
  <2>3. QED
      BY <2>2 DEF Runs
<1>10. QED
    BY <1>3, <1>9 DEF Bad

\* It stays in the set that its steps stay in.
LEMMA RunsTyped ==
    ASSUME NEW h, NEW V, NEW zero \in V, NEW S, IsFiniteSet(S), \A x \in S : x \in Nat,
           h \in [S -> [V -> V]], NEW g, Runs(h, zero, S, g)
    PROVE  g \in [SUBSET S -> V]
<1> DEFINE Bad == {U \in SUBSET S : g[U] \notin V}
<1>1. Bad = {}
  <2>1. SUFFICES ASSUME Bad # {} PROVE FALSE
      OBVIOUS
  <2>2. Bad \subseteq SUBSET S
      OBVIOUS
  <2> HIDE DEF Bad
  <2>3. PICK B \in Bad : \A U \in Bad : U \subseteq B => U = B
      BY <2>1, <2>2, Smallest
  <2> USE DEF Bad
  <2>4. B # {}
      BY DEF Runs
  <2>5. Max(B) \in B
    <3>1. IsFiniteSet(B) /\ \A x \in B : x \in Int
        BY FS_Subset
    <3>2. QED
        BY <2>4, <3>1, MaxExists
  <2>6. g[B \ {Max(B)}] \in V
      BY <2>3, <2>5
  <2>7. g[B] = h[Max(B)][g[B \ {Max(B)}]]
      BY <2>4 DEF Runs
  <2>8. h[Max(B)] \in [V -> V]
      BY <2>5
  <2>9. QED
      BY <2>6, <2>7, <2>8
<1>2. \A U \in SUBSET S : g[U] \in V
    BY <1>1
<1>3. g = [s \in SUBSET S |-> g[s]]
    BY DEF Runs
<1>4. QED
    BY <1>2, <1>3

\* Induction, for the numbers up to n.
LEMMA NumbersInduct ==
    ASSUME NEW n \in Nat, NEW P, 0 \in P, \A k \in 1..n : k - 1 \in P => k \in P
    PROVE  \A k \in 0..n : k \in P
<1> DEFINE Bad == {k \in 0..n : k \notin P}
<1>1. SUFFICES ASSUME Bad # {} PROVE FALSE
    OBVIOUS
<1>2. IsFiniteSet(Bad) /\ \A k \in Bad : k \in Int
  <2>1. IsFiniteSet(0..n) /\ Bad \subseteq 0..n
      BY FS_Interval
  <2>2. QED
      BY <2>1, FS_Subset
<1> HIDE DEF Bad
<1>3. PICK m \in Bad : \A k \in Bad : m <= k
    BY <1>1, <1>2, MinExists
<1> USE DEF Bad
<1>4. m # 0 /\ m \in 1..n /\ m \notin P
    OBVIOUS
<1>5. m - 1 \in 0..n /\ ~(m <= m - 1)
    BY <1>4
<1>6. m - 1 \notin Bad
    BY <1>3, <1>5
<1>7. QED
    BY <1>4, <1>5, <1>6

\* The positions up to k, of which k is the largest.
LEMMA PrefixFacts ==
    ASSUME NEW n \in Nat, NEW k \in 1..n
    PROVE  /\ 1..k \in SUBSET (1..n) /\ 1..k # {}
           /\ Max(1..k) = k /\ (1..k) \ {k} = 1..(k - 1)
<1>1. k \in 1..k /\ \A x \in 1..k : k >= x /\ x \in Int
    OBVIOUS
<1>2. Max(1..k) = k
    BY <1>1, MaxIs
<1>3. (1..k) \ {k} = 1..(k - 1)
    OBVIOUS
<1>4. 1..k \subseteq 1..n
    OBVIOUS
<1>5. QED
    BY <1>1, <1>2, <1>3, <1>4
=============================================================================
