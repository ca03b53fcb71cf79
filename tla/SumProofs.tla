------------------------------ MODULE SumProofs ------------------------------
(***************************************************************************)
(* Facts about MapThenSumSet, the recursive sum over a finite set with     *)
(* which MeterIsExact of Sandbox adds up the results of executions and     *)
(* OvershootIsBounded of ResourceManager the pages of leases.              *)
(*                                                                         *)
(* The sum of f over S is the number of units of S, the pairs of an        *)
(* element x and a number from 1 to f[x].  A set of units grows by those   *)
(* of one element when the element is added, whereas the recursion takes   *)
(* the elements in an order of its own; so the recursion is replaced by    *)
(* the units once, here, and is not seen again.                            *)
(***************************************************************************)
EXTENDS Integers, FiniteSetsExt, FiniteSetTheorems, WellFoundedInduction, TLAPS

Units(f, S) == UNION {{x} \X (1..f[x]) : x \in S}

\* the right-hand side of the recursion over the subsets of S
Recursion(f, S, sum) ==
    [T \in SUBSET S |->
        IF T = {} THEN 0
        ELSE f[CHOOSE x \in T : TRUE] + sum[T \ {CHOOSE x \in T : TRUE}]]

-----------------------------------------------------------------------------
(* What a pair in Units is. *)
LEMMA InUnits ==
    ASSUME NEW f, NEW S, NEW u
    PROVE  u \in Units(f, S) <=> \E x \in S : \E k \in 1..f[x] : u = <<x, k>>
  BY DEF Units

(* A new element adds its own units and no other. *)
LEMMA UnitsAdd ==
    ASSUME NEW f, NEW S, NEW x, x \notin S, f[x] \in Nat,
           IsFiniteSet(Units(f, S))
    PROVE  /\ IsFiniteSet(Units(f, S \cup {x}))
           /\ Cardinality(Units(f, S \cup {x})) = Cardinality(Units(f, S)) + f[x]
<1> DEFINE own == {x} \X (1..f[x])
<1>1. IsFiniteSet(1..f[x]) /\ Cardinality(1..f[x]) = f[x]
  <2>1. \A m \in Nat : IsFiniteSet(1..m) /\ Cardinality(1..m) = m
    BY FS_Interval
  <2>2. QED
    BY <2>1
<1>2. IsFiniteSet({x}) /\ Cardinality({x}) = 1
  BY FS_Singleton
<1>3. IsFiniteSet(own) /\ Cardinality(own) = f[x]
  <2>1. IsFiniteSet(own) /\ Cardinality(own) = Cardinality({x}) * Cardinality(1..f[x])
    BY <1>1, <1>2, FS_Product
  <2>2. 1 * f[x] = f[x]
    OBVIOUS
  <2>3. QED
    BY <2>1, <2>2, <1>1, <1>2
<1>4. Units(f, S \cup {x}) = Units(f, S) \cup own
  BY DEF Units
<1>5. Units(f, S) \cap own = {}
  BY DEF Units
<1>6. Cardinality(Units(f, S)) \in Nat
  BY FS_CardinalityType
<1>7. Cardinality(Units(f, S) \cap own) = 0
  BY <1>5, FS_EmptySet
<1> HIDE DEF own
<1>8. /\ IsFiniteSet(Units(f, S) \cup own)
      /\ Cardinality(Units(f, S) \cup own)
           = Cardinality(Units(f, S)) + Cardinality(own) - Cardinality(Units(f, S) \cap own)
  BY <1>3, FS_Union
<1>9. Cardinality(Units(f, S) \cup own) = Cardinality(Units(f, S)) + f[x]
  <2>1. \A a, b \in Nat : a + b - 0 = a + b
    OBVIOUS
  <2>2. Cardinality(Units(f, S) \cup own) = Cardinality(Units(f, S)) + f[x] - 0
    BY <1>3, <1>7, <1>8
  <2>3. QED
    BY <2>1, <2>2, <1>6
<1>10. QED
  BY <1>4, <1>8, <1>9

(* The empty set has no units. *)
LEMMA UnitsEmpty ==
    ASSUME NEW f
    PROVE  Units(f, {}) = {} /\ IsFiniteSet(Units(f, {})) /\ Cardinality(Units(f, {})) = 0
  BY FS_EmptySet DEF Units

(***************************************************************************)
(* Induction over the subsets of a finite set, by a smallest counter-      *)
(* example: what is true of {} and of every T that it is true of without   *)
(* one element is true of all.  B is the set of counterexamples.           *)
(***************************************************************************)
LEMMA NoSmallest ==
    ASSUME NEW S, IsFiniteSet(S), NEW B \in SUBSET (SUBSET S),
           \A T \in B : \E U \in B : U \subseteq T /\ U # T
    PROVE  B = {}
<1> SUFFICES ASSUME B # {} PROVE FALSE
  OBVIOUS
<1>1. B \subseteq FiniteSubsetsOf(S)
  BY FS_Subset DEF FiniteSubsetsOf
<1>2. IsWellFoundedOn(StrictSubsetOrdering(S), FiniteSubsetsOf(S))
  BY FS_StrictSubsetOrderingWellFounded
<1>3. PICK T \in B : \A U \in B : ~(<<U, T>> \in StrictSubsetOrdering(S))
  BY <1>1, <1>2, WFMin
<1>4. PICK U \in B : U \subseteq T /\ U # T
  BY <1>3
<1>5. <<U, T>> \in StrictSubsetOrdering(S)
  BY <1>4 DEF StrictSubsetOrdering
<1>6. QED
  BY <1>3, <1>5

(* The units of a finite set are finite. *)
LEMMA UnitsFinite ==
    ASSUME NEW f, NEW S, IsFiniteSet(S), \A x \in S : f[x] \in Nat
    PROVE  \A T \in SUBSET S : IsFiniteSet(Units(f, T)) /\ Cardinality(Units(f, T)) \in Nat
<1> DEFINE B == {T \in SUBSET S : ~IsFiniteSet(Units(f, T))}
<1>1. ASSUME NEW T \in B
      PROVE  \E U \in B : U \subseteq T /\ U # T
  <2>1. PICK x \in T : TRUE
    BY UnitsEmpty
  <2>2. T \ {x} \in SUBSET S /\ T = (T \ {x}) \cup {x} /\ x \notin T \ {x} /\ f[x] \in Nat
    OBVIOUS
  <2>3. ~IsFiniteSet(Units(f, T \ {x}))
    <3>1. SUFFICES ASSUME IsFiniteSet(Units(f, T \ {x})) PROVE FALSE
      OBVIOUS
    <3>2. IsFiniteSet(Units(f, (T \ {x}) \cup {x}))
      BY <2>2, <3>1, UnitsAdd
    <3>3. QED
      BY <2>2, <3>2
  <2>4. QED
    BY <2>2, <2>3
<1>2. B = {}
  <2>1. B \in SUBSET (SUBSET S)
    OBVIOUS
  <2> HIDE DEF B
  <2>2. QED
    BY <1>1, <2>1, NoSmallest
<1>3. QED
  BY <1>2, FS_CardinalityType

(* There is a function that satisfies the equations of the recursion. *)
LEMMA SumExists ==
    ASSUME NEW f, NEW S, IsFiniteSet(S), \A x \in S : f[x] \in Nat
    PROVE  \E sum : sum = Recursion(f, S, sum)
<1> DEFINE sum == [T \in SUBSET S |-> Cardinality(Units(f, T))]
<1> SUFFICES ASSUME NEW T \in SUBSET S
             PROVE  sum[T] = IF T = {} THEN 0
                             ELSE f[CHOOSE x \in T : TRUE]
                                    + sum[T \ {CHOOSE x \in T : TRUE}]
  <2>1. sum = Recursion(f, S, sum)
    BY DEF Recursion
  <2> HIDE DEF sum
  <2>2. QED
    BY <2>1
<1>1. CASE T = {}
  BY <1>1, UnitsEmpty
<1>2. CASE T # {}
  <2> DEFINE x == CHOOSE y \in T : TRUE
  <2>1. x \in T
    BY <1>2
  <2> HIDE DEF x
  <2>2. T \ {x} \in SUBSET S /\ T = (T \ {x}) \cup {x} /\ x \notin T \ {x} /\ f[x] \in Nat
    BY <2>1
  <2>3. IsFiniteSet(Units(f, T \ {x})) /\ Cardinality(Units(f, T \ {x})) \in Nat
    BY <2>2, UnitsFinite
  <2>4. Cardinality(Units(f, (T \ {x}) \cup {x})) = Cardinality(Units(f, T \ {x})) + f[x]
    BY <2>2, <2>3, UnitsAdd
  <2>5. sum[T] = f[x] + sum[T \ {x}]
    <3>1. /\ sum[T] = Cardinality(Units(f, T))
          /\ sum[T \ {x}] = Cardinality(Units(f, T \ {x}))
      BY <2>2
    <3>2. (T \ {x}) \cup {x} = T
      BY <2>2
    <3> HIDE DEF sum
    <3>3. Cardinality(Units(f, T)) = Cardinality(Units(f, T \ {x})) + f[x]
      BY <2>4, <3>2
    <3>4. \A a, b \in Nat : a + b = b + a
      OBVIOUS
    <3>5. QED
      BY <2>2, <2>3, <3>1, <3>3, <3>4
  <2>6. QED
    BY <1>2, <2>5 DEF x
<1>3. QED
  BY <1>1, <1>2

(* And every one that does counts the units. *)
LEMMA SumUnique ==
    ASSUME NEW f, NEW S, IsFiniteSet(S), \A x \in S : f[x] \in Nat, NEW sum,
           sum = Recursion(f, S, sum)
    PROVE  sum[S] = Cardinality(Units(f, S))
<1> DEFINE B == {T \in SUBSET S : sum[T] # Cardinality(Units(f, T))}
<1>1. ASSUME NEW T \in B
      PROVE  \E U \in B : U \subseteq T /\ U # T
  <2> DEFINE x == CHOOSE y \in T : TRUE
  <2>1. sum[T] = IF T = {} THEN 0 ELSE f[x] + sum[T \ {x}]
    BY DEF Recursion
  <2>2. T # {}
    BY <2>1, UnitsEmpty
  <2>3. x \in T
    BY <2>2
  <2> HIDE DEF x
  <2>4. T \ {x} \in SUBSET S /\ T = (T \ {x}) \cup {x} /\ x \notin T \ {x} /\ f[x] \in Nat
    BY <2>3
  <2>5. IsFiniteSet(Units(f, T \ {x})) /\ Cardinality(Units(f, T \ {x})) \in Nat
    BY <2>4, UnitsFinite
  <2>6. Cardinality(Units(f, (T \ {x}) \cup {x})) = Cardinality(Units(f, T \ {x})) + f[x]
    BY <2>4, <2>5, UnitsAdd
  <2>7. sum[T \ {x}] # Cardinality(Units(f, T \ {x}))
    <3>1. sum[T] # Cardinality(Units(f, T)) /\ sum[T] = f[x] + sum[T \ {x}]
      BY <2>1, <2>2
    <3>2. (T \ {x}) \cup {x} = T
      BY <2>4
    <3>3. Cardinality(Units(f, T)) = Cardinality(Units(f, T \ {x})) + f[x]
      BY <2>6, <3>2
    <3>4. QED
      BY <3>1, <3>3, <2>4, <2>5
  <2>8. T \ {x} \in B
    BY <2>4, <2>7
  <2>9. T \ {x} \subseteq T /\ T \ {x} # T
    BY <2>3
  <2> HIDE DEF B
  <2>10. QED
    BY <2>8, <2>9
<1>2. B = {}
  <2>1. B \in SUBSET (SUBSET S)
    OBVIOUS
  <2> HIDE DEF B
  <2>2. QED
    BY <1>1, <2>1, NoSmallest
<1>3. QED
  BY <1>2

(* The sum of f over a finite set is the number of its units. *)
LEMMA SumIsUnits ==
    ASSUME NEW f, NEW S, IsFiniteSet(S), \A x \in S : f[x] \in Nat
    PROVE  MapThenSumSet(LAMBDA x : f[x], S) = Cardinality(Units(f, S))
<1> DEFINE it == CHOOSE sum : sum = Recursion(f, S, sum)
<1>1. it = Recursion(f, S, it)
  BY SumExists
<1>2. it[S] = Cardinality(Units(f, S))
  <2> HIDE DEF it
  <2>1. QED
    BY <1>1, SumUnique
<1>3. MapThenSumSet(LAMBDA x : f[x], S) = it[S]
  BY DEF MapThenSumSet, MapThenFoldSet, Recursion
<1>4. QED
  BY <1>2, <1>3

(* Functions that agree on a set have the same units there. *)
LEMMA UnitsAgree ==
    ASSUME NEW f, NEW g, NEW S, \A x \in S : f[x] = g[x]
    PROVE  Units(f, S) = Units(g, S)
<1>1. ASSUME NEW u PROVE u \in Units(f, S) <=> u \in Units(g, S)
  BY InUnits
<1>2. QED
  BY <1>1

(* The units of a function that nowhere exceeds n. *)
LEMMA UnitsAtMost ==
    ASSUME NEW f, NEW S, IsFiniteSet(S), NEW n \in Nat,
           \A x \in S : f[x] \in Nat /\ f[x] <= n
    PROVE  /\ Cardinality(Units(f, S)) \in Nat
           /\ Cardinality(Units(f, S)) <= Cardinality(S) * n
<1>1. /\ IsFiniteSet(1..n) /\ Cardinality(1..n) = n
      /\ IsFiniteSet(S \X (1..n))
      /\ Cardinality(S \X (1..n)) = Cardinality(S) * n
  <2>1. IsFiniteSet(1..n) /\ Cardinality(1..n) = n
    BY FS_Interval
  <2>2. QED
    BY <2>1, FS_Product
<1>2. Units(f, S) \subseteq S \X (1..n)
  BY DEF Units
<1>3. /\ Cardinality(Units(f, S)) <= Cardinality(S \X (1..n))
      /\ Cardinality(Units(f, S)) \in Nat
  BY <1>1, <1>2, FS_Subset, FS_CardinalityType
<1>4. QED
  BY <1>1, <1>3
=============================================================================
