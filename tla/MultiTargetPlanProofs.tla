----------------------- MODULE MultiTargetPlanProofs -----------------------
(* What the waves and the grants of a multi-target plan promise, for any     *)
(* number of nodes and any amounts.                                          *)
EXTENDS MultiTargetPlan, FiniteSetTheorems, SequenceTheorems, WellFoundedInduction, TLAPS

-----------------------------------------------------------------------------
(* Induction. The library's theorems take a predicate as a parameter; these  *)
(* take the set of what it holds of.                                         *)

Less == {x \in Nat \X Nat : x[1] < x[2]}

LEMMA LeastNatural ==
    ASSUME NEW T, T \subseteq Nat, T # {}
    PROVE  \E x \in T : \A y \in T : x <= y
<1>1. OpToRel(<, Nat) = Less
  BY DEF OpToRel, Less
<1>2. IsWellFoundedOn(Less, Nat)
  BY <1>1, NatLessThanWellFounded
<1>3. PICK x \in T : \A y \in T : ~(<<y, x>> \in Less)
  BY <1>2, WFMin
<1>4. \A y \in T : ~(y < x)
  BY <1>3 DEF Less
<1> QED
  BY <1>4

LEMMA NatInductionSet ==
    ASSUME NEW Q, 0 \in Q, \A n \in Nat : n \in Q => n + 1 \in Q
    PROVE  Nat \subseteq Q
<1> SUFFICES ASSUME Nat \ Q # {} PROVE FALSE
  OBVIOUS
<1>1. PICK x \in Nat \ Q : \A y \in Nat \ Q : x <= y
  BY LeastNatural
<1>2. x # 0 /\ x - 1 \in Nat
  BY <1>1
<1>3. x - 1 \in Q
  BY <1>1, <1>2
<1> QED
  BY <1>1, <1>2, <1>3

\* A least set outside Q, of those within S.
LEMMA LeastSet ==
    ASSUME NEW S, IsFiniteSet(S), NEW Q, S \notin Q
    PROVE  \E U \in SUBSET S : /\ U \notin Q
                               /\ \A V \in SUBSET S : Cardinality(V) < Cardinality(U) => V \in Q
<1> DEFINE sizes == {k \in Nat : \E U \in SUBSET S : U \notin Q /\ Cardinality(U) = k}
<1>1. \A U \in SUBSET S : IsFiniteSet(U) /\ Cardinality(U) \in Nat
  BY FS_Subset, FS_CardinalityType
<1>2. sizes \subseteq Nat /\ sizes # {}
  BY <1>1
<1>3. PICK k \in sizes : \A j \in sizes : k <= j
  BY <1>2, LeastNatural
<1>4. PICK U \in SUBSET S : U \notin Q /\ Cardinality(U) = k
  BY <1>3
<1>5. ASSUME NEW V \in SUBSET S, Cardinality(V) < Cardinality(U) PROVE V \in Q
  BY <1>1, <1>3, <1>4, <1>5
<1> QED
  BY <1>4, <1>5

LEMMA SetInduction ==
    ASSUME NEW S, IsFiniteSet(S), NEW Q, {} \in Q,
           \A T \in SUBSET S : \A x \in S \ T : T \in Q => T \cup {x} \in Q
    PROVE  S \in Q
<1> SUFFICES ASSUME S \notin Q PROVE FALSE
  OBVIOUS
<1>1. PICK U \in SUBSET S :
         U \notin Q /\ \A V \in SUBSET S : Cardinality(V) < Cardinality(U) => V \in Q
  BY LeastSet
<1>2. PICK x \in U : TRUE
  BY <1>1
<1>3. IsFiniteSet(U) /\ Cardinality(U) \in Nat
  BY FS_Subset, FS_CardinalityType
<1>4. Cardinality(U \ {x}) = Cardinality(U) - 1
  BY <1>2, <1>3, FS_RemoveElement
<1>5. U \ {x} \in Q
  BY <1>1, <1>3, <1>4
<1>6. (U \ {x}) \cup {x} = U /\ x \in S \ (U \ {x}) /\ U \ {x} \in SUBSET S
  BY <1>2
<1> QED
  BY <1>1, <1>5, <1>6

-----------------------------------------------------------------------------
(* Sums                                                                      *)

Amounts(f, S) == \A n \in S : f[n] \in Nat

\* Element by element, h is the sum of f and g, or c times f.
Adds(h, f, g, S) == \A n \in S : h[n] = f[n] + g[n]
Multiplies(h, c, f, S) == \A n \in S : h[n] = c * f[n]

\* One pair for every unit of the sum.
Units(f, S) == {u \in S \X Nat : u[2] < f[u[1]]}

LEMMA UnitsAdd ==
    ASSUME NEW f, NEW S, NEW x \in S, Amounts(f, S), IsFiniteSet(Units(f, S \ {x}))
    PROVE  /\ IsFiniteSet(Units(f, S))
           /\ Cardinality(Units(f, S)) = f[x] + Cardinality(Units(f, S \ {x}))
<1> DEFINE new == {x} \X (0..(f[x] - 1))
           old == Units(f, S \ {x})
<1>1. f[x] \in Nat
  BY DEF Amounts
<1>2. IsFiniteSet(0..(f[x] - 1)) /\ Cardinality(0..(f[x] - 1)) = f[x]
  BY <1>1, FS_Interval
<1>3. IsFiniteSet(new) /\ Cardinality(new) = f[x]
  <2> DEFINE one == {x}
             span == 0..(f[x] - 1)
  <2>1. IsFiniteSet(one) /\ Cardinality(one) = 1
    BY FS_Singleton
  <2>2. IsFiniteSet(span) /\ Cardinality(span) = f[x]
    BY <1>2
  <2> HIDE DEF one, span
  <2>3. IsFiniteSet(one \X span) /\ Cardinality(one \X span) = 1 * f[x]
    BY <2>1, <2>2, FS_Product
  <2>4. 1 * f[x] = f[x]
    BY <1>1
  <2> QED
    BY <2>3, <2>4 DEF one, span
<1>4. Units(f, S) = old \cup new
  <2>1. ASSUME NEW u \in Units(f, S) PROVE u \in old \cup new
    <3>1. u \in S \X Nat /\ u[2] < f[u[1]]
      BY DEF Units
    <3>2. CASE u[1] = x
      BY <1>1, <3>1, <3>2
    <3>3. CASE u[1] # x
      BY <3>1, <3>3 DEF Units
    <3> QED
      BY <3>2, <3>3
  <2>2. ASSUME NEW u \in old \cup new PROVE u \in Units(f, S)
    BY <1>1 DEF Units
  <2> QED
    BY <2>1, <2>2
<1>5. old \cap new = {}
  BY DEF Units
<1>6. Cardinality(old \cap new) = 0
  BY <1>5, FS_EmptySet
<1> HIDE DEF old, new
<1>7. IsFiniteSet(old)
  BY DEF old
<1>8. /\ IsFiniteSet(old \cup new)
      /\ Cardinality(old \cup new) = Cardinality(old) + Cardinality(new) - 0
  BY <1>3, <1>6, <1>7, FS_Union
<1>9. Cardinality(old) \in Nat
  BY <1>7, FS_CardinalityType
<1> QED
  BY <1>1, <1>3, <1>4, <1>8, <1>9 DEF old

LEMMA UnitsFinite ==
    ASSUME NEW f, NEW S, IsFiniteSet(S), Amounts(f, S)
    PROVE  IsFiniteSet(Units(f, S))
<1> DEFINE Q == {T \in SUBSET S : IsFiniteSet(Units(f, T))}
<1>1. {} \in Q
  <2>1. Units(f, {}) = {}
    BY DEF Units
  <2> QED
    BY <2>1, FS_EmptySet
<1>2. ASSUME NEW T \in SUBSET S, NEW x \in S \ T, T \in Q PROVE T \cup {x} \in Q
  <2>1. (T \cup {x}) \ {x} = T /\ x \in T \cup {x} /\ Amounts(f, T \cup {x})
    BY <1>2 DEF Amounts
  <2> QED
    BY <1>2, <2>1, UnitsAdd
<1> HIDE DEF Q
<1>3. S \in Q
  BY <1>1, <1>2, SetInduction
<1> QED
  BY <1>3 DEF Q

\* The fold computes what it says.
LEMMA TotalIsUnits ==
    ASSUME NEW f, NEW S, IsFiniteSet(S), Amounts(f, S)
    PROVE  Total(f, S) = Cardinality(Units(f, S))
<1> DEFINE pick(s) == CHOOSE x \in s : TRUE
           Folds(g) == g = [s \in SUBSET S |->
                                IF s = {} THEN 0 ELSE f[pick(s)] + g[s \ {pick(s)}]]
           count == [s \in SUBSET S |-> Cardinality(Units(f, s))]
           iter == CHOOSE g : Folds(g)
<1>1. Total(f, S) = iter[S]
  BY DEF Total, FoldFunctionOnSet, MapThenFoldSet
<1>2. \A s \in SUBSET S : /\ IsFiniteSet(s) /\ Amounts(f, s)
                          /\ IsFiniteSet(Units(f, s))
  BY FS_Subset, UnitsFinite DEF Amounts
<1>3. \A s \in SUBSET S : s # {} => pick(s) \in s
  OBVIOUS
<1> HIDE DEF pick
<1>4. Folds(count)
  <2>1. count[{}] = 0
    <3>1. Units(f, {}) = {}
      BY DEF Units
    <3> QED
      BY <3>1, FS_EmptySet
  <2>2. ASSUME NEW s \in SUBSET S, s # {}
        PROVE  count[s] = f[pick(s)] + count[s \ {pick(s)}]
    <3>1. pick(s) \in s /\ s \ {pick(s)} \in SUBSET S
      BY <1>3, <2>2
    <3> QED
      BY <1>2, <3>1, UnitsAdd
  <2> QED
    BY <2>1, <2>2
<1>5. Folds(iter)
  <2> HIDE DEF Folds, count
  <2> QED
    BY <1>4
<1> HIDE DEF iter
<1> DEFINE Q == {s \in SUBSET S : iter[s] = count[s]}
<1>6. S \in Q
  <2> SUFFICES ASSUME S \notin Q PROVE FALSE
    OBVIOUS
  <2>1. PICK U \in SUBSET S :
           U \notin Q /\ \A V \in SUBSET S : Cardinality(V) < Cardinality(U) => V \in Q
    <3> HIDE DEF Q
    <3> QED
      BY LeastSet
  <2>2. U # {}
    BY <1>4, <1>5, <2>1
  <2> DEFINE x == pick(U)
  <2>3. x \in U /\ U \ {x} \in SUBSET S
    BY <1>3, <2>2
  <2>4. Cardinality(U \ {x}) < Cardinality(U)
    <3>1. IsFiniteSet(U) /\ Cardinality(U) \in Nat
      BY <1>2, FS_CardinalityType
    <3>2. Cardinality(U \ {x}) = Cardinality(U) - 1
      <4> HIDE DEF x
      <4> QED
        BY <2>3, <3>1, FS_RemoveElement
    <3> QED
      BY <3>1, <3>2
  <2>5. iter[U \ {x}] = count[U \ {x}]
    BY <2>1, <2>3, <2>4
  <2>6. iter[U] = f[x] + iter[U \ {x}] /\ count[U] = f[x] + count[U \ {x}]
    <3> HIDE DEF count
    <3> QED
      BY <1>4, <1>5, <2>2
  <2> QED
    BY <2>1, <2>5, <2>6
<1> QED
  BY <1>1, <1>6

LEMMA TotalType ==
    ASSUME NEW f, NEW S, IsFiniteSet(S), Amounts(f, S)
    PROVE  Total(f, S) \in Nat
BY TotalIsUnits, UnitsFinite, FS_CardinalityType

LEMMA TotalEmpty == ASSUME NEW f PROVE Total(f, {}) = 0
<1>1. Units(f, {}) = {} /\ Amounts(f, {})
  BY DEF Units, Amounts
<1> QED
  BY <1>1, TotalIsUnits, FS_EmptySet

LEMMA TotalAdd ==
    ASSUME NEW f, NEW S, IsFiniteSet(S), NEW x, x \notin S, Amounts(f, S \cup {x})
    PROVE  Total(f, S \cup {x}) = f[x] + Total(f, S)
<1>1. (S \cup {x}) \ {x} = S /\ IsFiniteSet(S \cup {x}) /\ Amounts(f, S)
  BY FS_AddElement DEF Amounts
<1>2. IsFiniteSet(Units(f, S))
  BY <1>1, UnitsFinite
<1>3. Cardinality(Units(f, S \cup {x})) = f[x] + Cardinality(Units(f, S))
  BY <1>1, <1>2, UnitsAdd
<1> QED
  BY <1>1, <1>3, TotalIsUnits

\* The sum of an element-by-element sum, and of a multiple.
LEMMA TotalPlus ==
    ASSUME NEW f, NEW g, NEW h, NEW S, IsFiniteSet(S), Amounts(f, S), Amounts(g, S),
           Adds(h, f, g, S)
    PROVE  Amounts(h, S) /\ Total(h, S) = Total(f, S) + Total(g, S)
<1> DEFINE Q == {T \in SUBSET S : Total(h, T) = Total(f, T) + Total(g, T)}
<1>1. {} \in Q
  BY TotalEmpty
<1>2. ASSUME NEW T \in SUBSET S, NEW x \in S \ T, T \in Q PROVE T \cup {x} \in Q
  <2>1. /\ IsFiniteSet(T) /\ Amounts(f, T \cup {x}) /\ Amounts(g, T \cup {x})
        /\ Amounts(h, T \cup {x}) /\ Amounts(f, T) /\ Amounts(g, T)
    BY FS_Subset DEF Amounts, Adds
  <2>2. /\ Total(h, T \cup {x}) = h[x] + Total(h, T)
        /\ Total(f, T \cup {x}) = f[x] + Total(f, T)
        /\ Total(g, T \cup {x}) = g[x] + Total(g, T)
    BY <2>1, TotalAdd
  <2>3. Total(f, T) \in Nat /\ Total(g, T) \in Nat /\ f[x] \in Nat /\ g[x] \in Nat
    BY <2>1, TotalType DEF Amounts
  <2> QED
    BY <1>2, <2>2, <2>3 DEF Adds
<1> HIDE DEF Q
<1>3. S \in Q
  BY <1>1, <1>2, SetInduction
<1> QED
  BY <1>3 DEF Q, Amounts, Adds

LEMMA TotalTimes ==
    ASSUME NEW f, NEW h, NEW c \in Nat, NEW S, IsFiniteSet(S), Amounts(f, S),
           Multiplies(h, c, f, S)
    PROVE  Amounts(h, S) /\ Total(h, S) = c * Total(f, S)
<1> DEFINE Q == {T \in SUBSET S : Total(h, T) = c * Total(f, T)}
<1>0. \A a, b \in Nat : c * (a + b) = c * a + c * b /\ c * a \in Nat /\ c * 0 = 0
  OBVIOUS
<1>1. {} \in Q
  BY <1>0, TotalEmpty
<1>2. ASSUME NEW T \in SUBSET S, NEW x \in S \ T, T \in Q PROVE T \cup {x} \in Q
  <2>1. /\ IsFiniteSet(T) /\ Amounts(f, T \cup {x}) /\ Amounts(h, T \cup {x}) /\ Amounts(f, T)
    BY <1>0, FS_Subset DEF Amounts, Multiplies
  <2>2. /\ Total(h, T \cup {x}) = h[x] + Total(h, T)
        /\ Total(f, T \cup {x}) = f[x] + Total(f, T)
    BY <2>1, TotalAdd
  <2>3. Total(f, T) \in Nat /\ f[x] \in Nat
    BY <2>1, TotalType DEF Amounts
  <2> QED
    BY <1>0, <1>2, <2>2, <2>3 DEF Multiplies
<1> HIDE DEF Q
<1>3. S \in Q
  BY <1>1, <1>2, SetInduction
<1> QED
  BY <1>0, <1>3 DEF Q, Amounts, Multiplies

LEMMA TotalSame ==
    ASSUME NEW f, NEW g, NEW S, IsFiniteSet(S), Amounts(f, S), \A n \in S : f[n] = g[n]
    PROVE  Amounts(g, S) /\ Total(f, S) = Total(g, S)
<1>1. Units(f, S) = Units(g, S)
  BY DEF Units
<1> QED
  BY <1>1, TotalIsUnits DEF Amounts

LEMMA TotalMonotone ==
    ASSUME NEW f, NEW g, NEW S, NEW T, IsFiniteSet(T), S \subseteq T,
           Amounts(f, S), Amounts(g, T),
           \A n \in S : f[n] <= g[n]
    PROVE  Total(f, S) <= Total(g, T)
<1>1. IsFiniteSet(S) /\ IsFiniteSet(Units(g, T))
  BY FS_Subset, UnitsFinite
<1>2. Units(f, S) \subseteq Units(g, T)
  BY DEF Units, Amounts
<1> QED
  BY <1>1, <1>2, FS_Subset, TotalIsUnits

LEMMA TotalSplit ==
    ASSUME NEW f, NEW S, NEW T, IsFiniteSet(S), IsFiniteSet(T), S \cap T = {},
           Amounts(f, S \cup T)
    PROVE  Total(f, S \cup T) = Total(f, S) + Total(f, T)
<1>1. Amounts(f, S) /\ Amounts(f, T) /\ IsFiniteSet(S \cup T)
  BY FS_Union DEF Amounts
<1>2. IsFiniteSet(Units(f, S)) /\ IsFiniteSet(Units(f, T))
  BY <1>1, UnitsFinite
<1>3. Units(f, S \cup T) = Units(f, S) \cup Units(f, T) /\ Units(f, S) \cap Units(f, T) = {}
  BY DEF Units
<1>4. Cardinality(Units(f, S \cup T)) = Cardinality(Units(f, S)) + Cardinality(Units(f, T)) - 0
  <2>1. Cardinality(Units(f, S) \cap Units(f, T)) = 0
    BY <1>3, FS_EmptySet
  <2> QED
    BY <1>2, <1>3, <2>1, FS_Union
<1>5. Cardinality(Units(f, S)) \in Nat /\ Cardinality(Units(f, T)) \in Nat
  BY <1>2, FS_CardinalityType
<1> QED
  BY <1>1, <1>4, <1>5, TotalIsUnits

LEMMA TotalCount ==
    ASSUME NEW f, NEW S, IsFiniteSet(S), \A n \in S : f[n] \in {0, 1}
    PROVE  Amounts(f, S) /\ Total(f, S) = Cardinality({n \in S : f[n] = 1})
<1> DEFINE ones(T) == {n \in T : f[n] = 1}
           Q == {T \in SUBSET S : Total(f, T) = Cardinality(ones(T))}
<1>1. {} \in Q
  BY TotalEmpty, FS_EmptySet
<1>2. ASSUME NEW T \in SUBSET S, NEW x \in S \ T, T \in Q PROVE T \cup {x} \in Q
  <2>1. IsFiniteSet(T) /\ Amounts(f, T \cup {x}) /\ IsFiniteSet(ones(T))
    BY FS_Subset DEF Amounts
  <2>2. Total(f, T \cup {x}) = f[x] + Total(f, T)
    BY <2>1, TotalAdd
  <2>3. Cardinality(ones(T)) \in Nat
    BY <2>1, FS_CardinalityType
  <2>4. CASE f[x] = 1
    <3>1. ones(T \cup {x}) = ones(T) \cup {x} /\ x \notin ones(T)
      BY <2>4
    <3>2. Total(f, T) = Cardinality(ones(T))
      BY <1>2
    <3> HIDE DEF ones, Q
    <3>3. Cardinality(ones(T \cup {x})) = Cardinality(ones(T)) + 1
      BY <2>1, <3>1, FS_AddElement
    <3>4. Total(f, T \cup {x}) = Cardinality(ones(T \cup {x}))
      BY <2>2, <2>3, <2>4, <3>2, <3>3
    <3> QED
      BY <1>2, <3>4 DEF Q
  <2>5. CASE f[x] = 0
    <3>1. ones(T \cup {x}) = ones(T)
      BY <2>5
    <3> HIDE DEF ones
    <3> QED
      BY <1>2, <2>2, <2>3, <2>5, <3>1
  <2> QED
    BY <2>4, <2>5
<1> HIDE DEF Q
<1>3. S \in Q
  BY <1>1, <1>2, SetInduction
<1> QED
  BY <1>3 DEF Q, Amounts

LEMMA UpTo ==
    ASSUME NEW k \in Nat
    PROVE  IsFiniteSet(0..(k - 1)) /\ Cardinality(0..(k - 1)) = k
<1>1. k - 1 \in Int /\ 0 \in Int
  OBVIOUS
<1>2. /\ IsFiniteSet(0..(k - 1))
      /\ Cardinality(0..(k - 1)) = IF 0 > k - 1 THEN 0 ELSE (k - 1) - 0 + 1
  BY <1>1, FS_Interval
<1> QED
  BY <1>2

\* In a finite linear order, k elements have fewer than k before them.
LEMMA Ranks ==
    ASSUME NEW S, IsFiniteSet(S), NEW before \in [S -> SUBSET S],
           \A n \in S : n \notin before[n],
           \A m, n \in S : m \in before[n] => before[m] \subseteq before[n],
           \A m, n \in S : m # n => m \in before[n] \/ n \in before[m],
           NEW k \in 0..Cardinality(S)
    PROVE  Cardinality({n \in S : Cardinality(before[n]) < k}) = k
<1> DEFINE N == Cardinality(S)
           places == 0..(N - 1)
           rank == [n \in S |-> Cardinality(before[n])]
<1>1. N \in Nat
  BY FS_CardinalityType
<1>2. IsFiniteSet(places) /\ Cardinality(places) = N
  BY <1>1, UpTo
<1>3. \A n \in S : IsFiniteSet(before[n]) /\ Cardinality(before[n]) \in Nat
  BY FS_Subset, FS_CardinalityType
<1>4. ASSUME NEW n \in S PROVE Cardinality(before[n]) \in places
  <2>1. before[n] \subseteq S \ {n}
    OBVIOUS
  <2>2. IsFiniteSet(S \ {n}) /\ Cardinality(S \ {n}) = N - 1
    BY FS_RemoveElement
  <2>3. Cardinality(before[n]) <= N - 1
    BY <2>1, <2>2, FS_Subset
  <2> QED
    BY <1>1, <1>3, <2>3
<1>5. ASSUME NEW m \in S, NEW n \in S, m \in before[n]
      PROVE  Cardinality(before[m]) < Cardinality(before[n])
  <2>1. before[m] \subseteq before[n] /\ before[m] # before[n]
    BY <1>5
  <2>2. /\ Cardinality(before[m]) <= Cardinality(before[n])
        /\ Cardinality(before[m]) # Cardinality(before[n])
    BY <1>3, <2>1, FS_Subset
  <2> QED
    BY <1>3, <2>2
<1>6. rank \in Injection(S, places)
  <2>1. rank \in [S -> places]
    BY <1>4
  <2>2. ASSUME NEW m \in S, NEW n \in S, rank[m] = rank[n] PROVE m = n
    BY <1>3, <1>5, <2>2
  <2> QED
    BY <2>1, <2>2 DEF Injection, IsInjective
<1>7. rank \in Surjection(S, places)
  <2> HIDE DEF rank, places
  <2> QED
    BY <1>2, <1>6, FS_Injection
<1> DEFINE low == {n \in S : Cardinality(before[n]) < k}
           some == 0..(k - 1)
           lows == [n \in low |-> Cardinality(before[n])]
<1>8. lows \in Bijection(low, some)
  <2>1. lows \in [low -> some]
    BY <1>3
  <2>2. ASSUME NEW m \in low, NEW n \in low, lows[m] = lows[n] PROVE m = n
    BY <1>3, <1>5, <2>2
  <2>3. ASSUME NEW i \in some PROVE \E n \in low : lows[n] = i
    <3>1. i \in places
      BY <1>1
    <3>2. PICK n \in S : rank[n] = i
      BY <1>7, <3>1 DEF Surjection
    <3> QED
      BY <3>2
  <2> QED
    BY <2>1, <2>2, <2>3 DEF Bijection, Injection, IsInjective, Surjection
<1>9. IsFiniteSet(some) /\ Cardinality(some) = k
  BY <1>1, UpTo
<1>10. IsFiniteSet(low)
  BY FS_Subset
<1>11. ExistsBijection(low, some)
  BY <1>8 DEF ExistsBijection
<1> HIDE DEF low, some
<1>12. Cardinality(low) = k
  BY <1>9, <1>10, <1>11, FS_Bijection
<1> QED
  BY <1>12 DEF low

LEMMA Division ==
    ASSUME NEW x \in Nat, NEW t \in Nat \ {0}
    PROVE  /\ x \div t \in Nat /\ x % t \in 0..(t - 1)
           /\ x = (t * (x \div t)) + (x % t)
OBVIOUS

LEMMA Products ==
    ASSUME NEW x \in Nat, NEW y \in Nat
    PROVE  /\ x * y \in Nat /\ x * y = y * x /\ x * 0 = 0
           /\ \A z \in Nat : x * (y + z) = x * y + x * z
           /\ \A z \in Nat : y <= z => x * y <= x * z
           /\ \A z \in Nat : x > 0 /\ y < z => x * y < x * z
OBVIOUS

(* Proportional shares of an amount within the sum of what is unmet: none   *)
(* exceeds what is unmet, and together they are the amount.                 *)
THEOREM SharesAreExact ==
    ASSUME NEW S, IsFiniteSet(S), S \subseteq Int, S \subseteq Nodes, NEW unmet,
           Amounts(unmet, S), \A n \in S : unmet[n] > 0,
           NEW a \in Nat, a <= Total(unmet, S), S # {},
           NEW g, \A n \in S : g[n] = Share(unmet, a, S, n)
    PROVE  /\ \A n \in S : g[n] \in 0..unmet[n]
           /\ Total(g, S) = a
<1> DEFINE total == Total(unmet, S)
           floor == [m \in Nodes |-> (a * unmet[m]) \div total]
           rest == [m \in Nodes |-> (a * unmet[m]) % total]
           ahead(n) == {m \in S : rest[m] > rest[n] \/ (rest[m] = rest[n] /\ m < n)}
           left == a - Total(floor, S)
           more == [n \in Nodes |-> IF Cardinality(ahead(n)) < left THEN 1 ELSE 0]
           product == [n \in Nodes |-> a * unmet[n]]
           whole == [n \in Nodes |-> total * floor[n]]
<1>1. total \in Nat /\ total > 0
  <2>1. PICK n \in S : TRUE
    OBVIOUS
  <2>2. {n} \subseteq S /\ Amounts(unmet, {n})
    BY <2>1 DEF Amounts
  <2>3. Total(unmet, {n}) = unmet[n]
    <3>1. {} \cup {n} = {n} /\ n \notin {} /\ IsFiniteSet({})
      BY FS_EmptySet
    <3>2. Total(unmet, {} \cup {n}) = unmet[n] + Total(unmet, {})
      BY <2>2, <3>1, TotalAdd
    <3> QED
      BY <2>1, <3>1, <3>2, TotalEmpty DEF Amounts
  <2>4. Total(unmet, {n}) <= Total(unmet, S)
    <3>1. \A m \in {n} : unmet[m] <= unmet[m]
      BY <2>2 DEF Amounts
    <3> QED
      BY <2>2, <3>1, TotalMonotone
  <2>5. total \in Nat
    BY TotalType
  <2> QED
    BY <2>1, <2>3, <2>4, <2>5 DEF Amounts
<1> HIDE DEF total
<1>2. ASSUME NEW n \in S
      PROVE  /\ floor[n] \in Nat /\ rest[n] \in 0..(total - 1)
             /\ product[n] = whole[n] + rest[n] /\ product[n] = a * unmet[n]
             /\ whole[n] = total * floor[n] /\ whole[n] \in Nat
  <2>1. unmet[n] \in Nat /\ a * unmet[n] \in Nat
    BY Products DEF Amounts
  <2> DEFINE x == a * unmet[n]
  <2>2. x \in Nat
    BY <2>1
  <2> HIDE DEF x
  <2>3. /\ x \div total \in Nat /\ x % total \in 0..(total - 1)
        /\ x = (total * (x \div total)) + (x % total)
    <3>1. total \in Nat \ {0}
      BY <1>1
    <3> QED
      BY <2>2, <3>1, Division
  <2>4. floor[n] = x \div total /\ rest[n] = x % total /\ product[n] = x
    BY DEF x
  <2>5. total * (x \div total) \in Nat
    BY <1>1, <2>3, Products
  <2> QED
    BY <2>3, <2>4, <2>5 DEF x
<1>3. \A n \in S : more[n] \in {0, 1} /\ g[n] = floor[n] + more[n]
  BY DEF Share, total
<1> HIDE DEF floor, rest, product, whole
<1>4. Amounts(floor, S) /\ Amounts(rest, S) /\ Amounts(whole, S) /\ Amounts(product, S)
  BY <1>2 DEF Amounts
<1>5. a * total = (total * Total(floor, S)) + Total(rest, S)
  <2>1. Total(product, S) = a * Total(unmet, S)
    <3>1. Multiplies(product, a, unmet, S)
      BY <1>2 DEF Multiplies
    <3> QED
      BY <3>1, TotalTimes
  <2>2. Total(whole, S) = total * Total(floor, S)
    <3>1. Multiplies(whole, total, floor, S)
      BY <1>2 DEF Multiplies
    <3> QED
      BY <1>1, <1>4, <3>1, TotalTimes
  <2>3. Total(product, S) = Total(whole, S) + Total(rest, S)
    <3>1. Adds(product, whole, rest, S)
      BY <1>2 DEF Adds
    <3> QED
      BY <1>4, <3>1, TotalPlus
  <2> QED
    BY <2>1, <2>2, <2>3 DEF total
<1>6. Total(floor, S) \in Nat /\ Total(rest, S) \in Nat /\ Cardinality(S) \in Nat
  BY <1>4, TotalType, FS_CardinalityType
<1>7. left \in Nat /\ total * left = Total(rest, S)
  <2>1. total * a = (total * Total(floor, S)) + Total(rest, S)
    BY <1>1, <1>5, Products
  <2>2. Total(floor, S) <= a
    <3> SUFFICES ASSUME a < Total(floor, S) PROVE FALSE
      BY <1>6
    <3>1. total * a < total * Total(floor, S)
      BY <1>1, <1>6, Products
    <3>2. total * a \in Nat /\ total * Total(floor, S) \in Nat
      BY <1>1, <1>6, Products
    <3> QED
      BY <1>6, <2>1, <3>1, <3>2
  <2>3. left \in Nat /\ a = Total(floor, S) + left
    BY <1>6, <2>2
  <2>4. total * a = (total * Total(floor, S)) + (total * left)
    <3> HIDE DEF left
    <3> QED
      BY <1>1, <1>6, <2>3, Products
  <2> DEFINE whole1 == total * Total(floor, S)
             rest1 == Total(rest, S)
             left1 == total * left
  <2>5. whole1 \in Nat /\ left1 \in Nat /\ rest1 \in Nat
    <3> HIDE DEF left
    <3> QED
      BY <1>1, <1>6, <2>3, Products
  <2>6. whole1 + rest1 = whole1 + left1
    <3> HIDE DEF left
    <3> QED
      BY <2>1, <2>4
  <2> HIDE DEF whole1, rest1, left1
  <2>7. left1 = rest1
    BY <2>5, <2>6
  <2> QED
    BY <2>3, <2>7 DEF left1, rest1
<1>8. left < Cardinality(S)
  <2> DEFINE one == [n \in S |-> 1]
             most == [n \in S |-> total - 1]
  <2>1. /\ \A n \in S : one[n] \in {0, 1} /\ most[n] = (total - 1) * one[n]
        /\ {n \in S : one[n] = 1} = S /\ \A n \in S : most[n] \in Nat
    BY <1>1
  <2> HIDE DEF one, most
  <2>2. Amounts(one, S) /\ Total(one, S) = Cardinality(S)
    BY <2>1, TotalCount
  <2>3. Amounts(most, S) /\ Total(most, S) = (total - 1) * Cardinality(S)
    <3> DEFINE c == total - 1
    <3>1. c \in Nat /\ Multiplies(most, c, one, S)
      BY <1>1, <2>1 DEF Multiplies
    <3> HIDE DEF c
    <3>2. Amounts(most, S) /\ Total(most, S) = c * Total(one, S)
      BY <2>2, <3>1, TotalTimes
    <3> QED
      BY <2>2, <3>2 DEF c
  <2>4. \A n \in S : rest[n] <= most[n]
    <3>1. \A n \in S : most[n] = total - 1
      BY <1>1, <2>1 DEF most
    <3> QED
      BY <1>1, <1>2, <3>1
  <2>5. Total(rest, S) <= (total - 1) * Cardinality(S)
    BY <1>4, <2>3, <2>4, TotalMonotone
  <2>6. Cardinality(S) > 0
    BY <1>6, FS_EmptySet
  <2>7. (total - 1) * Cardinality(S) < total * Cardinality(S)
    <3>1. Cardinality(S) * (total - 1) < Cardinality(S) * total
      BY <1>1, <1>6, <2>6, Products
    <3> QED
      BY <1>1, <1>6, <3>1, Products
  <2>8. total * left < total * Cardinality(S)
    <3>1. (total - 1) * Cardinality(S) \in Nat /\ total * Cardinality(S) \in Nat
      BY <1>1, <1>6, Products
    <3> QED
      BY <1>6, <1>7, <2>5, <2>7, <3>1
  <2> SUFFICES ASSUME Cardinality(S) <= left PROVE FALSE
    BY <1>6, <1>7
  <2>9. total * Cardinality(S) <= total * left
    BY <1>1, <1>6, <1>7, Products
  <2>10. total * Cardinality(S) \in Nat /\ total * left \in Nat
    BY <1>1, <1>6, <1>7, Products
  <2> QED
    BY <2>8, <2>9, <2>10
<1> HIDE DEF left
<1>9. Cardinality({n \in S : Cardinality(ahead(n)) < left}) = left
  <2> DEFINE before == [n \in S |-> ahead(n)]
  <2>1. before \in [S -> SUBSET S]
    OBVIOUS
  <2>2. \A n \in S : rest[n] \in Int /\ n \in Int
    BY <1>2
  <2>3. \A n \in S : n \notin before[n]
    BY <2>2
  <2>4. \A m, n \in S : m \in before[n] => before[m] \subseteq before[n]
    <3> SUFFICES ASSUME NEW m \in S, NEW n \in S, m \in before[n], NEW k \in before[m]
                 PROVE  k \in before[n]
      OBVIOUS
    <3>1. k \in S /\ (rest[k] > rest[m] \/ (rest[k] = rest[m] /\ k < m))
      OBVIOUS
    <3>2. rest[m] > rest[n] \/ (rest[m] = rest[n] /\ m < n)
      OBVIOUS
    <3>3. rest[k] > rest[n] \/ (rest[k] = rest[n] /\ k < n)
      BY <2>2, <3>1, <3>2
    <3> QED
      BY <3>1, <3>3
  <2>5. \A m, n \in S : m # n => m \in before[n] \/ n \in before[m]
    BY <2>2
  <2>6. left \in 0..Cardinality(S)
    BY <1>6, <1>7, <1>8
  <2>7. {n \in S : Cardinality(ahead(n)) < left} = {n \in S : Cardinality(before[n]) < left}
    OBVIOUS
  <2> HIDE DEF before
  <2>8. Cardinality({n \in S : Cardinality(before[n]) < left}) = left
    BY <2>1, <2>3, <2>4, <2>5, <2>6, Ranks
  <2> QED
    BY <2>7, <2>8
<1>10. Total(g, S) = a
  <2>1. {n \in S : more[n] = 1} = {n \in S : Cardinality(ahead(n)) < left}
    <3>1. \A n \in S : more[n] = 1 <=> Cardinality(ahead(n)) < left
      OBVIOUS
    <3> HIDE DEF more, ahead
    <3> QED
      BY <3>1
  <2> HIDE DEF more
  <2>2. Amounts(more, S) /\ Total(more, S) = left
    BY <1>3, <1>9, <2>1, TotalCount
  <2>3. Total(g, S) = Total(floor, S) + Total(more, S)
    <3>1. Adds(g, floor, more, S)
      BY <1>3 DEF Adds
    <3> QED
      BY <1>4, <2>2, <3>1, TotalPlus
  <2> QED
    BY <1>6, <2>2, <2>3 DEF left
<1>11. ASSUME NEW n \in S PROVE g[n] \in 0..unmet[n]
  <2> DEFINE u == unmet[n]
  <2>1. u \in Nat /\ u > 0 /\ a <= total
    BY DEF Amounts, total
  <2>2. a * u <= total * u
    BY <1>1, <2>1, Products
  <2>3. floor[n] <= u
    <3> SUFFICES ASSUME u < floor[n] PROVE FALSE
      BY <1>2, <2>1
    <3>1. total * u < total * floor[n] /\ total * u \in Nat
      BY <1>1, <1>2, <2>1, Products
    <3> QED
      BY <1>2, <2>2, <3>1
  <2>4. CASE floor[n] < u
    <3>1. more[n] \in {0, 1} /\ g[n] = floor[n] + more[n] /\ floor[n] \in Nat
      BY <1>2, <1>3
    <3> HIDE DEF u, more
    <3> QED
      BY <2>1, <2>4, <3>1 DEF u
  \* The whole sum is shared out: there is no remainder.
  <2>5. CASE floor[n] = u
    <3>1. a = total
      <4> SUFFICES ASSUME a < total PROVE FALSE
        BY <1>1, <2>1
      <4>1. a * u < total * u
        <5>1. u * a < u * total
          BY <1>1, <2>1, Products
        <5> QED
          BY <1>1, <2>1, <5>1, Products
      <4>2. a * u \in Nat /\ total * u \in Nat
        BY <1>1, <2>1, Products
      <4> QED
        BY <1>2, <2>5, <4>1, <4>2
    <3>2. \A m \in S : floor[m] = unmet[m]
      <4> SUFFICES ASSUME NEW m \in S PROVE floor[m] = unmet[m]
        OBVIOUS
      <4>1. total * unmet[m] = (total * floor[m]) + rest[m] /\ unmet[m] \in Nat
        BY <1>2, <3>1 DEF Amounts
      <4>2. total * floor[m] \in Nat /\ total * unmet[m] \in Nat
        BY <1>1, <1>2, <4>1, Products
      <4>3. ~(floor[m] > unmet[m])
        <5> SUFFICES ASSUME unmet[m] < floor[m] PROVE FALSE
          OBVIOUS
        <5>1. total * unmet[m] < total * floor[m]
          BY <1>1, <1>2, <4>1, Products
        <5> QED
          BY <1>2, <4>1, <4>2, <5>1
      <4>4. ~(floor[m] < unmet[m])
        <5> SUFFICES ASSUME floor[m] + 1 <= unmet[m] PROVE FALSE
          BY <1>2, <4>1
        <5>1. total * (floor[m] + 1) <= total * unmet[m]
          BY <1>1, <1>2, <4>1, Products
        <5>2. total * (floor[m] + 1) = (total * floor[m]) + total
          BY <1>1, <1>2, Products
        <5> QED
          BY <1>1, <1>2, <4>1, <4>2, <5>1, <5>2
      <4> QED
        BY <1>2, <4>1, <4>3, <4>4
    <3>3. Total(floor, S) = total
      BY <1>4, <3>2, TotalSame DEF total
    <3>4. left = 0
      BY <1>1, <3>1, <3>3 DEF left
    <3>5. more[n] = 0
      <4>1. IsFiniteSet(ahead(n))
        BY FS_Subset
      <4>2. Cardinality(ahead(n)) \in Nat
        BY <4>1, FS_CardinalityType
      <4> QED
        BY <3>4, <4>2
    <3>6. g[n] = floor[n] + more[n]
      BY <1>3
    <3> HIDE DEF u, more
    <3> QED
      BY <2>1, <2>5, <3>5, <3>6 DEF u
  <2> QED
    BY <1>2, <2>1, <2>3, <2>4, <2>5
<1> QED
  BY <1>10, <1>11

LEMMA TotalZero ==
    ASSUME NEW f, NEW S, IsFiniteSet(S), \A n \in S : f[n] = 0
    PROVE  Amounts(f, S) /\ Total(f, S) = 0
<1>1. (\A n \in S : f[n] \in {0, 1}) /\ {n \in S : f[n] = 1} = {}
  OBVIOUS
<1> QED
  BY <1>1, TotalCount, FS_EmptySet

LEMMA TotalOne ==
    ASSUME NEW f, NEW x, f[x] \in Nat
    PROVE  Amounts(f, {x}) /\ Total(f, {x}) = f[x]
<1>1. {} \cup {x} = {x} /\ x \notin {} /\ IsFiniteSet({}) /\ Amounts(f, {x})
  BY FS_EmptySet DEF Amounts
<1>2. Total(f, {} \cup {x}) = f[x] + Total(f, {})
  BY <1>1, TotalAdd
<1> QED
  BY <1>1, <1>2, TotalEmpty

\* What each node lacks, and the nodes that are served first.
Unmet(p) == [n \in Nodes |-> p.requested[n] - p.minimum[n]]
First(p) == p.synthesis \cap p.gauntlet

Alike(f, S, x) == \A n \in S : f[n] = x

(* What the synthesis takes first is not more than what is available or  *)
(* what it lacks, and less than it lacks only when nothing is left.       *)
LEMMA SynthesisFirst ==
    ASSUME NEW p, Reservable(p), Available(p) \in Nat, Amounts(Unmet(p), First(p))
    PROVE  /\ IsFiniteSet(First(p))
           /\ SynthesisExtra(p) \in 0..Available(p)
           /\ SynthesisExtra(p) <= Total(Unmet(p), First(p))
           /\ SynthesisExtra(p) < Total(Unmet(p), First(p)) => SynthesisExtra(p) = Available(p)
           /\ \A n \in First(p) : SynthesisExtra(p) \in 0..Unmet(p)[n]
           /\ \A e : Alike(e, First(p), SynthesisExtra(p)) =>
                  Amounts(e, First(p)) /\ Total(e, First(p)) = SynthesisExtra(p)
<1> DEFINE A == Available(p)
           X == SynthesisExtra(p)
           u == Unmet(p)
           Y == First(p)
           extra == [n \in Nodes |-> Least(A, p.requested[n] - p.minimum[n])]
<1>1. X = Total(extra, Y)
  BY DEF SynthesisExtra, First
<1>0. X = SynthesisExtra(p) /\ A = Available(p) /\ u = Unmet(p) /\ Y = First(p) /\ A \in Nat
  OBVIOUS
<1>2. CASE Y = {}
  <2> HIDE DEF extra, X, u, Y
  <2>1. X = 0 /\ Total(u, Y) = 0 /\ IsFiniteSet(Y)
    BY <1>1, <1>2, TotalEmpty, FS_EmptySet
  <2>2. \A e : Amounts(e, Y) /\ Total(e, Y) = 0
    BY <1>2, TotalEmpty DEF Amounts
  <2> QED
    BY <1>0, <1>2, <2>1, <2>2
<1>3. CASE Y # {}
  <2>1. PICK s \in Y : TRUE
    BY <1>3
  <2>2. Y = {s} /\ s \in Nodes
    BY <2>1 DEF Reservable, First
  <2>3. u[s] \in Nat
    BY <2>1 DEF Amounts
  <2>4. extra[s] = Least(A, u[s])
    BY <2>2 DEF Unmet
  <2> HIDE DEF extra, A, X, u, Y
  <2>5. extra[s] \in Nat
    BY <1>0, <2>3, <2>4 DEF Least
  <2>6. X = Least(A, u[s])
    BY <1>1, <2>2, <2>4, <2>5, TotalOne
  <2>7. Total(u, Y) = u[s]
    BY <2>2, <2>3, TotalOne
  <2>8. IsFiniteSet(Y)
    BY <2>2, FS_Singleton
  <2>9. X \in 0..A /\ X \in 0..u[s] /\ (X < u[s] => X = A)
    BY <1>0, <2>3, <2>6 DEF Least
  <2>10. ASSUME NEW e, Alike(e, Y, X) PROVE Amounts(e, Y) /\ Total(e, Y) = X
    <3>1. e[s] = X /\ X \in Nat
      BY <2>1, <2>9, <2>10 DEF Alike
    <3> QED
      BY <2>2, <3>1, TotalOne
  <2>11. \A n \in Y : X \in 0..u[n]
    BY <2>2, <2>9
  <2>12. X <= Total(u, Y) /\ (X < Total(u, Y) => X = A)
    BY <2>3, <2>7, <2>9
  <2> QED
    BY <1>0, <2>8, <2>9, <2>10, <2>11, <2>12
<1> QED
  BY <1>2, <1>3

THEOREM GrantsExact ==
    ASSUME IsFiniteSet(Nodes), Nodes \subseteq Int, NEW p, Reservable(p)
    PROVE  GrantsAreExact(p, Grants(p))
<1> DEFINE G == p.gauntlet
           q == p.requested
           m == p.minimum
           u == Unmet(p)
           A == Available(p)
           X == SynthesisExtra(p)
           Y == First(p)
           O == {n \in G \ p.synthesis : u[n] > 0}
           Z == {n \in G \ p.synthesis : u[n] = 0}
           left == A - X
           e == [n \in Nodes |-> IF n \in p.synthesis THEN X
                                 ELSE IF n \in O /\ left > 0 THEN Share(u, left, O, n) ELSE 0]
           g == Grants(p)
<1>1. CASE Rejected(p)
  BY <1>1 DEF GrantsAreExact, Grants
<1>2. CASE ~Rejected(p)
  <2>1. /\ \A n \in G : n \in Nodes /\ q[n] \in Int /\ m[n] \in Nat /\ m[n] <= q[n]
        /\ IsFiniteSet(G) /\ IsFiniteSet(O) /\ IsFiniteSet(Z) /\ p.cap \in Nat
    <3>1. \A n \in G : n \in Nodes /\ q[n] \in Int /\ m[n] \in Nat
      BY DEF Reservable
    <3>2. \A n \in G : ~(q[n] < m[n])
      BY <1>2 DEF Rejected
    <3>3. G \subseteq Nodes /\ p.cap \in Nat
      BY DEF Reservable
    <3>4. IsFiniteSet(G)
      BY <3>3, FS_Subset
    <3>5. IsFiniteSet(O) /\ IsFiniteSet(Z)
      <4>1. O \subseteq G /\ Z \subseteq G
        OBVIOUS
      <4> HIDE DEF O, Z
      <4> QED
        BY <3>4, <4>1, FS_Subset
    <3> QED
      BY <3>1, <3>2, <3>3, <3>4, <3>5
  <2>2. \A n \in G : u[n] = q[n] - m[n] /\ u[n] \in Nat /\ q[n] \in Nat /\ q[n] = m[n] + u[n]
    BY <2>1 DEF Unmet
  <2>3. Amounts(q, G) /\ Amounts(m, G) /\ Amounts(u, G) /\ Adds(q, m, u, G)
    BY <2>1, <2>2 DEF Amounts, Adds
  <2>4. G = Y \cup (O \cup Z) /\ Y \cap (O \cup Z) = {} /\ O \cap Z = {}
    BY <2>2 DEF First
  <2>5. \A n \in O : n \in G /\ n \in Nodes /\ u[n] > 0
    BY <2>1
  <2>6. \A n \in Z : u[n] = 0
    OBVIOUS
  <2>7. \A n \in G : /\ n \in Y => e[n] = X
                     /\ n \in O => e[n] = IF left > 0 THEN Share(u, left, O, n) ELSE 0
                     /\ n \in Z => e[n] = 0
    BY <2>1, <2>4 DEF First
  <2>8. \A n \in G : g[n] = m[n] + e[n]
    BY <1>2, <2>1 DEF Grants, Unmet
  <2> DEFINE MT == Total(m, G)
             QT == Total(q, G)
             UT == Total(u, G)
  <2>10. MT \in Nat /\ QT \in Nat /\ UT \in Nat /\ QT = MT + UT /\ MT <= p.cap
    <3>1. Total(m, G) \in Nat /\ Total(q, G) \in Nat /\ Total(u, G) \in Nat
      BY <2>1, <2>3, TotalType
    <3>2. Total(q, G) = Total(m, G) + Total(u, G)
      BY <2>1, <2>3, TotalPlus
    <3>3. ~(Total(m, G) > p.cap)
      BY <1>2 DEF Rejected
    <3> QED
      BY <2>1, <3>1, <3>2, <3>3
  <2>11. A \in Nat /\ A <= UT /\ MT + A = Least(p.cap, QT)
    <3>1. A = Least(p.cap, QT) - MT
      BY DEF Available
    <3> HIDE DEF A, MT, QT, UT
    <3> QED
      BY <2>1, <2>10, <3>1 DEF Least
  <2> HIDE DEF u, e, g, Y, O, Z
  <2>12. Amounts(u, Y) /\ Amounts(u, O) /\ Amounts(u, Z) /\ Amounts(u, O \cup Z)
    BY <2>3, <2>4 DEF Amounts
  <2>13. /\ IsFiniteSet(Y)
         /\ X \in 0..A /\ X <= Total(u, Y) /\ (X < Total(u, Y) => X = A)
         /\ \A n \in Y : X \in 0..u[n]
         /\ \A f : Alike(f, Y, X) => Amounts(f, Y) /\ Total(f, Y) = X
    <3>1. A \in Nat /\ Amounts(u, Y)
      BY <2>11, <2>12
    <3> QED
      BY <3>1, SynthesisFirst DEF u, Y
  <2> HIDE DEF A, X
  <2>14. UT = Total(u, Y) + Total(u, O) /\ Total(u, Y) \in Nat /\ Total(u, O) \in Nat
    <3>1. Total(u, G) = Total(u, Y) + Total(u, O \cup Z)
      <4>1. IsFiniteSet(O \cup Z)
        BY <2>1, FS_Union
      <4> QED
        BY <2>3, <2>4, <2>13, <4>1, TotalSplit
    <3>2. Total(u, O \cup Z) = Total(u, O) + Total(u, Z)
      BY <2>1, <2>4, <2>12, TotalSplit
    <3>3. Total(u, Z) = 0
      BY <2>1, <2>6, TotalZero
    <3>4. Total(u, Y) \in Nat /\ Total(u, O) \in Nat
      BY <2>1, <2>12, <2>13, TotalType
    <3> QED
      BY <3>1, <3>2, <3>3, <3>4
  <2>15. left \in Nat /\ left <= Total(u, O) /\ X \in Nat /\ X + left = A
    <3> HIDE DEF UT
    <3> QED
      BY <2>10, <2>11, <2>13, <2>14
  <2>16. /\ \A n \in Y : e[n] \in 0..u[n]
         /\ Amounts(e, Y) /\ Total(e, Y) = X
    <3>1. \A n \in Y : n \in G /\ e[n] = X
      BY <2>4, <2>7
    <3>2. Amounts(e, Y) /\ Total(e, Y) = X
      BY <2>13, <3>1 DEF Alike
    <3> QED
      BY <2>13, <3>1, <3>2
  <2>17. Amounts(e, Z) /\ Total(e, Z) = 0 /\ \A n \in Z : e[n] = 0
    <3>1. \A n \in Z : e[n] = 0
      BY <2>4, <2>7
    <3> QED
      BY <2>1, <3>1, TotalZero
  <2> HIDE DEF left
  <2>18. /\ \A n \in O : e[n] \in 0..u[n]
         /\ Amounts(e, O) /\ Total(e, O) = left
    <3>1. CASE left = 0
      <4>1. \A n \in O : e[n] = 0
        BY <2>5, <2>7, <3>1
      <4>2. Amounts(e, O) /\ Total(e, O) = 0
        BY <2>1, <4>1, TotalZero
      <4> QED
        BY <2>12, <3>1, <4>1, <4>2 DEF Amounts
    <3>2. CASE left > 0
      <4>1. \A n \in O : e[n] = Share(u, left, O, n)
        BY <2>5, <2>7, <3>2
      <4>2. O # {}
        BY <2>15, <3>2, TotalEmpty
      <4>3. O \subseteq Nodes /\ O \subseteq Int /\ \A n \in O : u[n] > 0
        BY <2>5
      <4>4. (\A n \in O : e[n] \in 0..u[n]) /\ Total(e, O) = left
        BY <2>1, <2>12, <2>15, <4>1, <4>2, <4>3, SharesAreExact
      <4> QED
        BY <2>12, <4>4 DEF Amounts
    <3> QED
      BY <2>15, <3>1, <3>2
  <2>19. \A n \in G : e[n] \in 0..u[n]
    BY <2>4, <2>6, <2>16, <2>17, <2>18
  <2>20. Amounts(e, G) /\ Total(e, G) = A
    <3>1. Amounts(e, O \cup Z) /\ Amounts(e, Y \cup (O \cup Z))
      BY <2>16, <2>17, <2>18 DEF Amounts
    <3>2. IsFiniteSet(O \cup Z)
      BY <2>1, FS_Union
    <3>3. Total(e, O \cup Z) = Total(e, O) + Total(e, Z)
      BY <2>1, <2>4, <3>1, TotalSplit
    <3>4. Total(e, Y \cup (O \cup Z)) = Total(e, Y) + Total(e, O \cup Z)
      BY <2>4, <2>13, <3>1, <3>2, TotalSplit
    <3> QED
      BY <2>4, <2>15, <2>16, <2>17, <2>18, <3>1, <3>3, <3>4
  <2>21. Total(g, G) = Least(p.cap, QT)
    <3>1. Adds(g, m, e, G)
      BY <2>8 DEF Adds
    <3>2. Total(g, G) = Total(m, G) + Total(e, G)
      BY <2>1, <2>3, <2>20, <3>1, TotalPlus
    <3> QED
      BY <2>11, <2>20, <3>2
  <2>22. \A n \in G : g[n] \in m[n]..q[n]
    <3> SUFFICES ASSUME NEW n \in G PROVE g[n] \in m[n]..q[n]
      OBVIOUS
    <3>1. g[n] = m[n] + e[n] /\ e[n] \in 0..u[n]
      BY <2>8, <2>19
    <3>2. m[n] \in Nat /\ u[n] \in Nat /\ q[n] = m[n] + u[n]
      BY <2>1, <2>2
    <3> HIDE DEF m, q
    <3> QED
      BY <3>1, <3>2
  <2> QED
    BY <1>2, <2>21, <2>22 DEF GrantsAreExact, g
<1> QED
  BY <1>1, <1>2

-----------------------------------------------------------------------------
(* Waves                                                                     *)

\* The nodes of some layer of L.
Laid(L) == {n \in Nodes : \E i \in 1..Len(L) : n \in L[i]}

\* No node is in two layers, and every node comes after its dependencies.
Layered(L, deps) ==
    /\ \A i, j \in 1..Len(L) : \A n \in Nodes : n \in L[i] /\ n \in L[j] => i = j
    /\ \A i \in 1..Len(L) : \A n \in L[i] : \A d \in deps[n] : \E k \in 1..(i - 1) : d \in L[k]

\* M can be laid after L: the same, where a dependency may also be in L.
Follows(M, L, deps) ==
    /\ \A i, j \in 1..Len(M) : \A n \in Nodes : n \in M[i] /\ n \in M[j] => i = j
    /\ \A i \in 1..Len(M) : \A n \in M[i] : n \notin Laid(L) /\ deps[n] \subseteq Laid(L)

LEMMA LaidConcat ==
    ASSUME NEW L \in Seq(SUBSET Nodes), NEW M \in Seq(SUBSET Nodes)
    PROVE  Laid(L \o M) = Laid(L) \cup Laid(M)
<1>1. /\ Len(L) \in Nat /\ Len(M) \in Nat
      /\ Len(L \o M) = Len(L) + Len(M)
      /\ \A i \in 1..(Len(L) + Len(M)) :
            (L \o M)[i] = IF i <= Len(L) THEN L[i] ELSE M[i - Len(L)]
  BY ConcatProperties, LenProperties
<1> DEFINE both == L \o M
<1>2. /\ Len(both) = Len(L) + Len(M)
      /\ \A i \in 1..(Len(L) + Len(M)) :
            both[i] = IF i <= Len(L) THEN L[i] ELSE M[i - Len(L)]
  BY <1>1
<1> HIDE DEF both
<1>3. ASSUME NEW n \in Laid(both) PROVE n \in Laid(L) \cup Laid(M)
  <2>1. PICK i \in 1..Len(both) : n \in both[i]
    BY DEF Laid
  <2>2. CASE i <= Len(L)
    BY <1>1, <1>2, <2>1, <2>2 DEF Laid
  <2>3. CASE i > Len(L)
    <3>1. i - Len(L) \in 1..Len(M) /\ n \in M[i - Len(L)]
      BY <1>1, <1>2, <2>1, <2>3
    <3> QED
      BY <3>1 DEF Laid
  <2> QED
    BY <1>1, <2>1, <2>2, <2>3
<1>4. ASSUME NEW n \in Laid(L) PROVE n \in Laid(both)
  <2>1. PICK i \in 1..Len(L) : n \in L[i]
    BY DEF Laid
  <2>2. i \in 1..Len(both) /\ n \in both[i]
    BY <1>1, <1>2, <2>1
  <2> QED
    BY <2>2 DEF Laid
<1>5. ASSUME NEW n \in Laid(M) PROVE n \in Laid(both)
  <2>1. PICK i \in 1..Len(M) : n \in M[i]
    BY DEF Laid
  <2>2. /\ i + Len(L) \in 1..Len(both) /\ ~(i + Len(L) <= Len(L))
        /\ (i + Len(L)) - Len(L) = i
    BY <1>1, <1>2, <2>1
  <2>3. n \in both[i + Len(L)]
    BY <1>1, <1>2, <2>1, <2>2
  <2> QED
    BY <2>2, <2>3 DEF Laid
<1> QED
  BY <1>3, <1>4, <1>5 DEF both

LEMMA LayeredConcat ==
    ASSUME NEW deps, NEW L \in Seq(SUBSET Nodes), NEW M \in Seq(SUBSET Nodes),
           Layered(L, deps), Follows(M, L, deps)
    PROVE  Layered(L \o M, deps)
<1>1. /\ Len(L) \in Nat /\ Len(M) \in Nat
      /\ Len(L \o M) = Len(L) + Len(M)
      /\ \A i \in 1..(Len(L) + Len(M)) :
            (L \o M)[i] = IF i <= Len(L) THEN L[i] ELSE M[i - Len(L)]
  BY ConcatProperties, LenProperties
<1> DEFINE both == L \o M
<1>2. /\ Len(both) = Len(L) + Len(M)
      /\ \A i \in 1..(Len(L) + Len(M)) :
            both[i] = IF i <= Len(L) THEN L[i] ELSE M[i - Len(L)]
  BY <1>1
<1> HIDE DEF both
<1>3. \A i \in 1..Len(both) :
         IF i <= Len(L) THEN i \in 1..Len(L) /\ both[i] = L[i]
         ELSE i - Len(L) \in 1..Len(M) /\ both[i] = M[i - Len(L)]
  BY <1>1, <1>2
<1>4. ASSUME NEW i \in 1..Len(both), NEW j \in 1..Len(both), NEW n \in Nodes,
             n \in both[i], n \in both[j]
      PROVE  i = j
  <2>1. CASE i <= Len(L) /\ j <= Len(L)
    BY <1>3, <1>4, <2>1 DEF Layered
  <2>2. CASE ~(i <= Len(L)) /\ ~(j <= Len(L))
    <3>1. i - Len(L) = j - Len(L)
      BY <1>3, <1>4, <2>2 DEF Follows
    <3> QED
      BY <1>1, <3>1
  <2>3. CASE i <= Len(L) /\ ~(j <= Len(L))
    BY <1>3, <1>4, <2>3 DEF Follows, Laid
  <2>4. CASE ~(i <= Len(L)) /\ j <= Len(L)
    BY <1>3, <1>4, <2>4 DEF Follows, Laid
  <2> QED
    BY <2>1, <2>2, <2>3, <2>4
<1>5. ASSUME NEW i \in 1..Len(both), NEW n \in both[i], NEW d \in deps[n]
      PROVE  \E k \in 1..(i - 1) : d \in both[k]
  <2>1. CASE i <= Len(L)
    <3>1. PICK k \in 1..(i - 1) : d \in L[k]
      BY <1>3, <2>1 DEF Layered
    <3>2. k \in 1..Len(both) /\ k <= Len(L)
      BY <1>1, <1>2, <2>1
    <3> QED
      BY <1>3, <3>1, <3>2
  <2>2. CASE ~(i <= Len(L))
    <3>1. d \in Laid(L)
      BY <1>3, <2>2 DEF Follows
    <3>2. PICK k \in 1..Len(L) : d \in L[k]
      BY <3>1 DEF Laid
    <3>3. k \in 1..(i - 1) /\ k \in 1..Len(both) /\ k <= Len(L)
      BY <1>1, <1>2, <2>2
    <3> QED
      BY <1>3, <3>2, <3>3
  <2> QED
    BY <2>1, <2>2
<1> QED
  BY <1>4, <1>5 DEF Layered, both

\* A node that is not safe is in a layer of its own.
Alone(L, safe) == \A i \in 1..Len(L) : \A n \in L[i] : L[i] # {n} => n \in safe

LEMMA AloneConcat ==
    ASSUME NEW safe, NEW L \in Seq(SUBSET Nodes), NEW M \in Seq(SUBSET Nodes),
           Alone(L, safe), Alone(M, safe)
    PROVE  Alone(L \o M, safe)
<1>1. /\ Len(L) \in Nat /\ Len(M) \in Nat
      /\ Len(L \o M) = Len(L) + Len(M)
      /\ \A i \in 1..(Len(L) + Len(M)) :
            (L \o M)[i] = IF i <= Len(L) THEN L[i] ELSE M[i - Len(L)]
  BY ConcatProperties, LenProperties
<1> DEFINE both == L \o M
<1>2. /\ Len(both) = Len(L) + Len(M)
      /\ \A i \in 1..(Len(L) + Len(M)) :
            both[i] = IF i <= Len(L) THEN L[i] ELSE M[i - Len(L)]
  BY <1>1
<1> HIDE DEF both
<1>3. \A i \in 1..Len(both) :
         IF i <= Len(L) THEN i \in 1..Len(L) /\ both[i] = L[i]
         ELSE i - Len(L) \in 1..Len(M) /\ both[i] = M[i - Len(L)]
  BY <1>1, <1>2
<1>4. ASSUME NEW i \in 1..Len(both), NEW n \in both[i], both[i] # {n} PROVE n \in safe
  BY <1>3, <1>4 DEF Alone
<1> QED
  BY <1>4 DEF Alone, both

\* A set of numbers, one per place.
LEMMA PlacesDiffer ==
    ASSUME NEW S, IsFiniteSet(S), S \subseteq Nat
    PROVE  /\ \A n \in S : Cardinality({m \in S : m <= n}) \in 1..Cardinality(S)
           /\ \A n, k \in S : Cardinality({m \in S : m <= n}) = Cardinality({m \in S : m <= k})
                                => n = k
<1> DEFINE low(n) == {m \in S : m <= n}
<1>1. \A n \in S : IsFiniteSet(low(n)) /\ Cardinality(low(n)) \in Nat
                    /\ Cardinality(low(n)) <= Cardinality(S) /\ Cardinality(S) \in Nat
  BY FS_Subset, FS_CardinalityType
<1>2. ASSUME NEW n \in S PROVE Cardinality(low(n)) # 0
  <2>1. n \in low(n)
    OBVIOUS
  <2> QED
    BY <1>1, <2>1, FS_EmptySet
<1>3. ASSUME NEW n \in S, NEW k \in S, n < k PROVE Cardinality(low(n)) # Cardinality(low(k))
  <2>1. low(n) \subseteq low(k) /\ k \in low(k) /\ k \notin low(n)
    <3>1. \A m \in S : m \in Nat
      OBVIOUS
    <3>2. \A m \in S : m <= n => m <= k
      BY <1>3, <3>1
    <3>3. k <= k /\ ~(k <= n)
      BY <1>3, <3>1
    <3> QED
      BY <3>2, <3>3
  <2> HIDE DEF low
  <2>2. low(n) # low(k)
    BY <2>1
  <2> QED
    BY <1>1, <2>1, <2>2, FS_Subset
<1>4. ASSUME NEW n \in S, NEW k \in S, Cardinality(low(n)) = Cardinality(low(k)) PROVE n = k
  BY <1>3, <1>4
<1> QED
  BY <1>1, <1>2, <1>4

LEMMA SplitLayer ==
    ASSUME IsFiniteSet(Nodes), Nodes \subseteq Nat, NEW layer \in SUBSET Nodes, NEW safe
    PROVE  /\ Split(layer, safe) \in Seq(SUBSET Nodes)
           /\ Laid(Split(layer, safe)) = layer
           /\ Alone(Split(layer, safe), safe)
           /\ \A i, j \in 1..Len(Split(layer, safe)) : \A n \in Nodes :
                 n \in Split(layer, safe)[i] /\ n \in Split(layer, safe)[j] => i = j
<1> DEFINE alone == layer \ safe
           place(n) == Cardinality({m \in alone : m <= n})
           N == Cardinality(alone)
           first == [i \in 1..N |-> {n \in alone : place(n) = i}]
           rest == IF layer \cap safe = {} THEN <<>> ELSE <<layer \cap safe>>
           M == Split(layer, safe)
<1>1. M = first \o rest
  BY DEF Split
<1>2. IsFiniteSet(alone) /\ N \in Nat
  BY FS_Subset, FS_CardinalityType
<1>3. /\ \A n \in alone : place(n) \in 1..N
      /\ \A n, k \in alone : place(n) = place(k) => n = k
  <2>1. alone \subseteq Nat
    OBVIOUS
  <2> HIDE DEF alone
  <2> QED
    BY <1>2, <2>1, PlacesDiffer
<1>4. alone \subseteq Nodes /\ alone = layer \ safe
  OBVIOUS
<1> HIDE DEF place, N, alone, M
<1>5. first \in Seq(SUBSET Nodes) /\ Len(first) = N
  BY <1>2, <1>4
<1>6. \A i \in 1..N : first[i] = {n \in alone : place(n) = i}
  OBVIOUS
<1> HIDE DEF first
<1>7. Laid(first) = alone
  <2>1. ASSUME NEW n \in Laid(first) PROVE n \in alone
    <3>1. PICK i \in 1..N : n \in first[i]
      BY <1>5 DEF Laid
    <3> QED
      BY <1>6, <3>1
  <2>2. ASSUME NEW n \in alone PROVE n \in Laid(first)
    <3>1. place(n) \in 1..N /\ n \in first[place(n)]
      BY <1>3, <1>6, <2>2
    <3> QED
      BY <1>4, <1>5, <3>1 DEF Laid
  <2> QED
    BY <2>1, <2>2
<1>8. Alone(first, safe)
  BY <1>3, <1>5, <1>6 DEF Alone
<1>9. \A i, j \in 1..Len(first) : \A n \in Nodes : n \in first[i] /\ n \in first[j] => i = j
  BY <1>5, <1>6
<1>10. /\ rest \in Seq(SUBSET Nodes) /\ Alone(rest, safe) /\ Laid(rest) = layer \cap safe
       /\ \A i, j \in 1..Len(rest) : \A n \in Nodes : n \in rest[i] /\ n \in rest[j] => i = j
       /\ \A i \in 1..Len(rest) : \A n \in rest[i] : n \in safe
  <2>1. CASE layer \cap safe = {}
    <3>1. rest = <<>>
      BY <2>1
    <3> HIDE DEF rest
    <3>2. rest \in Seq(SUBSET Nodes) /\ Len(rest) = 0
      BY <3>1
    <3> QED
      BY <2>1, <3>2 DEF Laid, Alone
  <2>2. CASE layer \cap safe # {}
    <3> DEFINE both == layer \cap safe
    <3>1. rest = <<both>> /\ both \in SUBSET Nodes
      BY <2>2
    <3> HIDE DEF rest, both
    <3>2. rest \in Seq(SUBSET Nodes) /\ Len(rest) = 1 /\ rest[1] = both
      BY <3>1
    <3> QED
      BY <3>2 DEF Laid, Alone, both
  <2> QED
    BY <2>1, <2>2
<1> HIDE DEF rest
<1>11. Laid(M) = layer
  BY <1>1, <1>4, <1>5, <1>7, <1>10, LaidConcat
<1>12. Alone(M, safe)
  BY <1>1, <1>5, <1>8, <1>10, AloneConcat
<1>13. M \in Seq(SUBSET Nodes)
  BY <1>1, <1>5, <1>10, ConcatProperties
<1>14. \A i, j \in 1..Len(M) : \A n \in Nodes : n \in M[i] /\ n \in M[j] => i = j
  <2> DEFINE none == [n \in Nodes |-> {}]
  <2>1. Layered(first, none)
    BY <1>5, <1>6, <1>9, <1>4 DEF Layered
  <2>2. Follows(rest, first, none)
    BY <1>4, <1>7, <1>10 DEF Follows, Laid
  <2> HIDE DEF none
  <2>3. Layered(M, none)
    BY <1>1, <1>5, <1>10, <2>1, <2>2, LayeredConcat
  <2> QED
    BY <2>3 DEF Layered
<1> QED
  BY <1>11, <1>12, <1>13, <1>14 DEF M

(* The state after a number of turns: the degrees count the dependencies that *)
(* are not laid; the nodes without one are laid or in the frontier; every     *)
(* turn laid at least one.                                                    *)
Kahn(deps, s) ==
    /\ s.layers \in Seq(SUBSET Nodes)
    /\ Layered(s.layers, deps)
    /\ s.frontier \in SUBSET Nodes
    /\ s.degree = [n \in Nodes |-> Cardinality(deps[n] \ Laid(s.layers))]
    /\ Laid(s.layers) \cap s.frontier = {}
    /\ Laid(s.layers) \cup s.frontier = {n \in Nodes : s.degree[n] = 0}
    /\ Len(s.layers) <= Cardinality(Laid(s.layers))

LEMMA KahnBegins ==
    ASSUME IsFiniteSet(Nodes), NEW deps \in [Nodes -> SUBSET Nodes]
    PROVE  Kahn(deps, KahnStart(deps)) /\ KahnStart(deps).layers = <<>>
<1> DEFINE s == KahnStart(deps)
           degree == [n \in Nodes |-> Cardinality(deps[n])]
<1>1. /\ s.degree = degree /\ s.layers = <<>>
      /\ s.frontier = {n \in Nodes : degree[n] = 0}
  BY DEF KahnStart
<1> HIDE DEF s
<1>2. Len(s.layers) = 0 /\ s.layers \in Seq(SUBSET Nodes)
  BY <1>1
<1>3. Laid(s.layers) = {}
  BY <1>2 DEF Laid
<1>4. Layered(s.layers, deps)
  BY <1>2 DEF Layered
<1>5. s.degree = [n \in Nodes |-> Cardinality(deps[n] \ Laid(s.layers))]
  <2>1. \A n \in Nodes : deps[n] \ Laid(s.layers) = deps[n]
    BY <1>3
  <2> QED
    BY <1>1, <2>1
<1>6. Cardinality(Laid(s.layers)) = 0
  BY <1>3, FS_EmptySet
<1>7. Laid(s.layers) \cup s.frontier = {n \in Nodes : s.degree[n] = 0}
  BY <1>1, <1>3
<1>8. s.frontier \in SUBSET Nodes /\ Laid(s.layers) \cap s.frontier = {}
  BY <1>1, <1>3
<1>9. Kahn(deps, s)
  <2>1. Len(s.layers) <= Cardinality(Laid(s.layers))
    BY <1>2, <1>6
  <2> HIDE DEF degree
  <2> QED
    BY <1>2, <1>4, <1>5, <1>7, <1>8, <2>1, Zenon DEF Kahn
<1> QED
  BY <1>1, <1>9 DEF s

LEMMA KahnTurns ==
    ASSUME IsFiniteSet(Nodes), NEW deps \in [Nodes -> SUBSET Nodes], NEW s, Kahn(deps, s),
           s.frontier # {}
    PROVE  /\ Kahn(deps, Turned(deps, s))
           /\ Len(Turned(deps, s).layers) = Len(s.layers) + 1
<1> DEFINE t == Turned(deps, s)
           P == Laid(s.layers)
           F == s.frontier
           degree == [n \in Nodes |-> s.degree[n] - Cardinality(deps[n] \cap F)]
<1>1. /\ t.degree = degree
      /\ t.frontier = {n \in Nodes : s.degree[n] > 0 /\ degree[n] = 0}
      /\ t.layers = Append(s.layers, F)
  BY DEF Turned, Decreased
<1>2. /\ s.layers \in Seq(SUBSET Nodes) /\ Layered(s.layers, deps) /\ F \in SUBSET Nodes
      /\ s.degree = [n \in Nodes |-> Cardinality(deps[n] \ P)]
      /\ P \cap F = {} /\ P \cup F = {n \in Nodes : s.degree[n] = 0}
      /\ Len(s.layers) <= Cardinality(P)
  BY DEF Kahn
<1>3. P \in SUBSET Nodes /\ IsFiniteSet(P) /\ IsFiniteSet(F)
  <2>1. P \in SUBSET Nodes
    BY DEF Laid
  <2> QED
    BY <1>2, <2>1, FS_Subset
<1> HIDE DEF t, P, F
<1> DEFINE one == <<F>>
<1>4. one \in Seq(SUBSET Nodes) /\ Len(one) = 1 /\ one[1] = F
  BY <1>2
<1>5. t.layers = s.layers \o one
  BY <1>1, <1>2, AppendIsConcat
<1> HIDE DEF one
<1>6. Laid(one) = F
  BY <1>2, <1>4 DEF Laid
<1>7. Laid(t.layers) = P \cup F
  BY <1>2, <1>4, <1>5, <1>6, LaidConcat DEF P
<1>8. \A n \in Nodes : IsFiniteSet(deps[n]) /\ IsFiniteSet(deps[n] \ P)
  BY FS_Subset, FS_Difference
<1>9. \A n \in F : deps[n] \subseteq P
  <2>1. SUFFICES ASSUME NEW n \in F PROVE deps[n] \ P = {}
    OBVIOUS
  <2>2. n \in Nodes /\ Cardinality(deps[n] \ P) = 0
    BY <1>2, <2>1
  <2> QED
    BY <1>8, <2>2, FS_EmptySet
<1>10. Layered(t.layers, deps)
  <2>1. Follows(one, s.layers, deps)
    BY <1>2, <1>4, <1>9 DEF Follows, P
  <2> QED
    BY <1>2, <1>4, <1>5, <2>1, LayeredConcat
<1>11. ASSUME NEW n \in Nodes PROVE degree[n] = Cardinality(deps[n] \ (P \cup F))
  <2> DEFINE A == deps[n] \ P
             B == deps[n] \cap F
             C == deps[n] \ (P \cup F)
  <2>1. A = B \cup C /\ B \cap C = {}
    BY <1>2
  <2>2. IsFiniteSet(A) /\ IsFiniteSet(B) /\ IsFiniteSet(C)
    BY <1>8, FS_Subset
  <2>3. s.degree[n] = Cardinality(A) /\ degree[n] = s.degree[n] - Cardinality(B)
    BY <1>2
  <2> HIDE DEF A, B, C, degree
  <2>4. Cardinality(A) = Cardinality(B) + Cardinality(C) - 0
    <3>1. Cardinality(B \cap C) = 0
      BY <2>1, FS_EmptySet
    <3> QED
      BY <2>1, <2>2, <3>1, FS_Union
  <2>5. Cardinality(B) \in Nat /\ Cardinality(C) \in Nat
    BY <2>2, FS_CardinalityType
  <2>6. degree[n] = Cardinality(C)
    BY <2>3, <2>4, <2>5
  <2> QED
    BY <2>6 DEF C
<1>12. t.degree = [n \in Nodes |-> Cardinality(deps[n] \ Laid(t.layers))]
  BY <1>1, <1>7, <1>11
<1>13. t.frontier \in SUBSET Nodes /\ Laid(t.layers) \cap t.frontier = {}
  <2>1. \A n \in P \cup F : s.degree[n] = 0
    BY <1>2
  <2>2. \A n \in t.frontier : n \in Nodes /\ s.degree[n] > 0
    BY <1>1
  <2> QED
    BY <1>7, <2>1, <2>2
<1>14. Laid(t.layers) \cup t.frontier = {n \in Nodes : t.degree[n] = 0}
  <2>1. \A n \in P \cup F : degree[n] = 0
    <3>1. SUFFICES ASSUME NEW n \in P \cup F PROVE degree[n] = 0
      OBVIOUS
    <3>2. n \in Nodes /\ Cardinality(deps[n] \ P) = 0
      BY <1>2, <3>1
    <3>3. deps[n] \ P = {}
      BY <1>8, <3>2, FS_EmptySet
    <3>4. deps[n] \ (P \cup F) = {}
      BY <3>3
    <3>5. Cardinality(deps[n] \ (P \cup F)) = 0
      BY <3>4, FS_EmptySet
    <3> HIDE DEF degree
    <3> QED
      BY <1>11, <3>2, <3>5
  <2>2. \A n \in Nodes : s.degree[n] \in Nat
    BY <1>2, <1>8, FS_CardinalityType
  <2>3. \A n \in Nodes : n \in P \cup F \/ s.degree[n] > 0
    <3>1. \A n \in Nodes : n \in P \cup F \/ s.degree[n] # 0
      BY <1>2
    <3> QED
      BY <2>2, <3>1
  <2> HIDE DEF degree
  <2> QED
    BY <1>1, <1>2, <1>3, <1>7, <2>1, <2>3
<1>15. Len(t.layers) = Len(s.layers) + 1 /\ t.layers \in Seq(SUBSET Nodes)
  BY <1>1, <1>2, AppendProperties
<1>16. Len(t.layers) <= Cardinality(Laid(t.layers))
  <2>1. Cardinality(P \cup F) = Cardinality(P) + Cardinality(F) - 0
    <3>1. Cardinality(P \cap F) = 0
      BY <1>2, FS_EmptySet
    <3> QED
      BY <1>3, <3>1, FS_Union
  <2>2. Cardinality(P) \in Nat /\ Cardinality(F) \in Nat /\ Cardinality(F) # 0
    BY <1>3, FS_CardinalityType, FS_EmptySet DEF F
  <2>3. Len(s.layers) \in Nat
    BY <1>2, LenProperties
  <2> QED
    BY <1>2, <1>7, <1>15, <2>1, <2>2, <2>3
<1>17. Kahn(deps, t)
  BY <1>10, <1>12, <1>13, <1>14, <1>15, <1>16 DEF Kahn
<1> QED
  BY <1>15, <1>17 DEF t

\* One turn of the loop, and the states after 0..m of them.
Turn(deps, s) == IF s.frontier = {} THEN s ELSE Turned(deps, s)

Turns(f, m, deps) ==
    f = [k \in 0..m |-> IF k = 0 THEN KahnStart(deps) ELSE Turn(deps, f[k - 1])]

LEMMA SomeTurns ==
    ASSUME NEW deps, NEW m \in Nat
    PROVE  \E f : Turns(f, m, deps)
<1> DEFINE Q == {k \in Nat : \E f : Turns(f, k, deps)}
<1>1. 0 \in Q
  <2> DEFINE f == [k \in 0..0 |-> KahnStart(deps)]
  <2>1. Turns(f, 0, deps)
    BY DEF Turns
  <2> QED
    BY <2>1
<1>2. ASSUME NEW n \in Nat, n \in Q PROVE n + 1 \in Q
  <2>1. PICK f : Turns(f, n, deps)
    BY <1>2
  <2> DEFINE g == [k \in 0..(n + 1) |-> IF k <= n THEN f[k] ELSE Turn(deps, f[n])]
  <2>2. /\ f[0] = KahnStart(deps)
        /\ \A k \in 1..n : f[k] = Turn(deps, f[k - 1])
    BY <2>1 DEF Turns
  <2>3. ASSUME NEW k \in 0..(n + 1)
        PROVE  g[k] = IF k = 0 THEN KahnStart(deps) ELSE Turn(deps, g[k - 1])
    <3>1. CASE k = 0
      BY <2>2, <3>1
    <3>2. CASE k \in 1..n
      <4>1. k - 1 \in 0..(n + 1) /\ k - 1 <= n /\ k <= n /\ k # 0
        BY <3>2
      <4> QED
        BY <2>2, <3>2, <4>1
    <3>3. CASE k = n + 1
      <4>1. k - 1 = n /\ n \in 0..(n + 1) /\ ~(k <= n) /\ k # 0 /\ n <= n
        BY <3>3
      <4>2. g[k] = Turn(deps, f[n]) /\ g[n] = f[n]
        BY <4>1
      <4> QED
        BY <4>1, <4>2
    <3> QED
      BY <3>1, <3>2, <3>3
  <2>4. Turns(g, n + 1, deps)
    <3>1. g = [k \in 0..(n + 1) |-> g[k]]
      OBVIOUS
    <3> HIDE DEF g
    <3> QED
      BY <2>3, <3>1 DEF Turns
  <2> HIDE DEF g
  <2> QED
    BY <2>4
<1> HIDE DEF Q
<1>3. m \in Q
  BY <1>1, <1>2, NatInductionSet
<1> QED
  BY <1>3 DEF Q

\* The layers: every node whose dependencies are all laid is laid.
LEMMA LayersOrdered ==
    ASSUME IsFiniteSet(Nodes), NEW deps \in [Nodes -> SUBSET Nodes]
    PROVE  /\ Layers(deps) \in Seq(SUBSET Nodes)
           /\ Layered(Layers(deps), deps)
           /\ \A n \in Nodes : deps[n] \subseteq Laid(Layers(deps)) => n \in Laid(Layers(deps))
<1> DEFINE N == Cardinality(Nodes)
           f == CHOOSE g : Turns(g, N, deps)
<1>1. N \in Nat
  BY FS_CardinalityType
<1>2. Turns(f, N, deps)
  BY <1>1, SomeTurns
<1>3. Layers(deps) = f[N].layers
  BY DEF Layers, Turns, Turn
<1> HIDE DEF N, f
<1>4. f[0] = KahnStart(deps) /\ \A k \in 1..N : f[k] = Turn(deps, f[k - 1])
  BY <1>1, <1>2 DEF Turns
<1> DEFINE Q == {k \in Nat : k <= N => /\ Kahn(deps, f[k])
                                       /\ f[k].frontier = {} \/ Len(f[k].layers) = k}
<1>5. 0 \in Q
  <2>1. Len(<<>>) = 0
    OBVIOUS
  <2> QED
    BY <1>4, <2>1, KahnBegins
<1>6. ASSUME NEW k \in Nat, k \in Q PROVE k + 1 \in Q
  <2>1. SUFFICES ASSUME k + 1 <= N
                 PROVE  /\ Kahn(deps, f[k + 1])
                        /\ f[k + 1].frontier = {} \/ Len(f[k + 1].layers) = k + 1
    OBVIOUS
  <2>2. Kahn(deps, f[k]) /\ (f[k].frontier = {} \/ Len(f[k].layers) = k)
    BY <1>1, <1>6, <2>1
  <2>3. f[k + 1] = Turn(deps, f[k])
    <3>1. k + 1 \in 1..N /\ (k + 1) - 1 = k
      BY <1>1, <2>1
    <3> QED
      BY <1>4, <3>1
  <2>4. CASE f[k].frontier = {}
    BY <2>2, <2>3, <2>4 DEF Turn
  <2>5. CASE f[k].frontier # {}
    <3>1. f[k + 1] = Turned(deps, f[k])
      BY <2>3, <2>5 DEF Turn
    <3>2. Kahn(deps, Turned(deps, f[k])) /\ Len(Turned(deps, f[k]).layers) = k + 1
      BY <2>2, <2>5, KahnTurns
    <3> QED
      BY <3>1, <3>2
  <2> QED
    BY <2>4, <2>5
<1> HIDE DEF Q
<1>7. N \in Q
  BY <1>1, <1>5, <1>6, NatInductionSet
<1> DEFINE s == f[N]
           P == Laid(s.layers)
<1>8. Kahn(deps, s) /\ (s.frontier = {} \/ Len(s.layers) = N)
  BY <1>1, <1>7 DEF Q
<1> HIDE DEF s
<1>9. P \in SUBSET Nodes
  BY DEF Laid
<1>10. s.frontier = {}
  <2>1. SUFFICES ASSUME Len(s.layers) = N PROVE s.frontier = {}
    BY <1>8
  <2>2. N <= Cardinality(P)
    BY <1>8, <2>1 DEF Kahn
  <2>3. IsFiniteSet(P) /\ Cardinality(P) \in Nat /\ Cardinality(P) <= N
    BY <1>9, FS_Subset, FS_CardinalityType DEF N
  <2>4. Cardinality(P) = Cardinality(Nodes)
    BY <1>1, <2>2, <2>3 DEF N
  <2>5. P = Nodes
    BY <1>9, <2>4, FS_Subset
  <2> QED
    BY <1>8, <2>5 DEF Kahn
<1>11. ASSUME NEW n \in Nodes, deps[n] \subseteq P PROVE n \in P
  <2>1. deps[n] \ P = {}
    BY <1>11
  <2>2. Cardinality(deps[n] \ P) = 0
    BY <2>1, FS_EmptySet
  <2> QED
    BY <1>8, <1>10, <2>2 DEF Kahn
<1> QED
  BY <1>3, <1>8, <1>11 DEF Kahn, s

\* The concatenations of the first, the first two, ... of m sequences.
Flattens(f, m, seqs) ==
    f = [i \in 1..m |-> IF i = 1 THEN seqs[i] ELSE f[i - 1] \o seqs[i]]

LEMMA SomeFlatten ==
    ASSUME NEW seqs, NEW m \in Nat
    PROVE  \E f : Flattens(f, m, seqs)
<1> DEFINE Q == {k \in Nat : \E f : Flattens(f, k, seqs)}
<1>1. 0 \in Q
  <2> DEFINE f == [i \in 1..0 |-> seqs[i]]
  <2>1. Flattens(f, 0, seqs)
    BY DEF Flattens
  <2> QED
    BY <2>1
<1>2. ASSUME NEW n \in Nat, n \in Q PROVE n + 1 \in Q
  <2>1. PICK f : Flattens(f, n, seqs)
    BY <1>2
  <2> DEFINE last == IF n + 1 = 1 THEN seqs[n + 1] ELSE f[n] \o seqs[n + 1]
             g == [i \in 1..(n + 1) |-> IF i <= n THEN f[i] ELSE last]
  <2>2. \A i \in 1..n : f[i] = IF i = 1 THEN seqs[i] ELSE f[i - 1] \o seqs[i]
    BY <2>1 DEF Flattens
  <2>3. ASSUME NEW i \in 1..(n + 1)
        PROVE  g[i] = IF i = 1 THEN seqs[i] ELSE g[i - 1] \o seqs[i]
    <3>1. CASE i <= n
      <4>1. i \in 1..n /\ g[i] = f[i]
        BY <3>1
      <4>2. i # 1 => i - 1 \in 1..(n + 1) /\ i - 1 <= n
        BY <4>1
      <4>3. i # 1 => g[i - 1] = f[i - 1]
        BY <4>2
      <4> HIDE DEF g
      <4> QED
        BY <2>2, <4>1, <4>3
    <3>2. CASE ~(i <= n)
      <4>1. i = n + 1 /\ g[i] = last
        BY <3>2
      <4>2. i # 1 => i - 1 \in 1..(n + 1) /\ i - 1 <= n /\ i - 1 = n
        BY <4>1
      <4>3. i # 1 => g[i - 1] = f[n]
        BY <4>2
      <4> HIDE DEF g
      <4> QED
        BY <4>1, <4>3
    <3> QED
      BY <3>1, <3>2
  <2>4. Flattens(g, n + 1, seqs)
    <3>1. g = [i \in 1..(n + 1) |-> g[i]]
      OBVIOUS
    <3> HIDE DEF g
    <3> QED
      BY <2>3, <3>1 DEF Flattens
  <2> HIDE DEF g
  <2> QED
    BY <2>4
<1> HIDE DEF Q
<1>3. m \in Q
  BY <1>1, <1>2, NatInductionSet
<1> QED
  BY <1>3 DEF Q

\* A layer's nodes that were not laid before, with all their dependencies laid, can be split.
LEMMA SplitFollows ==
    ASSUME IsFiniteSet(Nodes), Nodes \subseteq Nat, NEW deps, NEW safe,
           NEW L \in Seq(SUBSET Nodes),
           NEW layer \in SUBSET Nodes,
           \A n \in layer : n \notin Laid(L) /\ deps[n] \subseteq Laid(L)
    PROVE  Follows(Split(layer, safe), L, deps)
<1> DEFINE M == Split(layer, safe)
<1>1. /\ M \in Seq(SUBSET Nodes) /\ Laid(M) = layer
      /\ \A i, j \in 1..Len(M) : \A n \in Nodes : n \in M[i] /\ n \in M[j] => i = j
  BY SplitLayer
<1> HIDE DEF M
<1>2. ASSUME NEW i \in 1..Len(M), NEW n \in M[i] PROVE n \in layer
  <2>1. n \in Nodes
    BY <1>1, ElementOfSeq
  <2> QED
    BY <1>1, <2>1 DEF Laid
<1>3. Follows(M, L, deps)
  BY <1>1, <1>2 DEF Follows
<1> QED
  BY <1>3 DEF M

\* The waves place what the layers place, in their order.
LEMMA WavesAreLayered ==
    ASSUME IsFiniteSet(Nodes), Nodes \subseteq Nat,
           NEW deps \in [Nodes -> SUBSET Nodes], NEW safe
    PROVE  /\ Waves(deps, safe) \in Seq(SUBSET Nodes)
           /\ Layered(Waves(deps, safe), deps)
           /\ Alone(Waves(deps, safe), safe)
           /\ Laid(Waves(deps, safe)) = Laid(Layers(deps))
<1> DEFINE L == Layers(deps)
           N == Len(L)
           seqs == [i \in DOMAIN L |-> Split(L[i], safe)]
           f == CHOOSE g : Flattens(g, N, seqs)
           W == Waves(deps, safe)
<1>1. L \in Seq(SUBSET Nodes) /\ Layered(L, deps)
  BY LayersOrdered
<1> HIDE DEF L
<1>2. N \in Nat /\ DOMAIN L = 1..N /\ \A i \in 1..N : L[i] \in SUBSET Nodes
  BY <1>1, LenProperties, ElementOfSeq
<1>3. /\ seqs \in Seq(Seq(SUBSET Nodes)) /\ Len(seqs) = N
      /\ \A i \in 1..N : seqs[i] = Split(L[i], safe)
  <2>1. \A i \in 1..N : Split(L[i], safe) \in Seq(SUBSET Nodes)
    BY <1>2, SplitLayer
  <2>2. seqs = [i \in 1..N |-> Split(L[i], safe)]
    BY <1>2
  <2> HIDE DEF N
  <2> QED
    BY <1>2, <2>1, <2>2
<1> HIDE DEF seqs
<1>4. W = IF N = 0 THEN seqs ELSE f[N]
  <2>1. W = FlattenSeq(seqs)
    BY DEF Waves, seqs, L
  <2> QED
    BY <1>3, <2>1 DEF FlattenSeq, Flattens
<1>5. Flattens(f, N, seqs)
  BY <1>2, SomeFlatten
<1> HIDE DEF f, N, W
<1>6. \A i \in 1..N : f[i] = IF i = 1 THEN seqs[i] ELSE f[i - 1] \o seqs[i]
  BY <1>5 DEF Flattens
<1> DEFINE Firsts(k) == {n \in Nodes : \E i \in 1..k : n \in L[i]}
           Good(w, k) == /\ w \in Seq(SUBSET Nodes) /\ Layered(w, deps) /\ Alone(w, safe)
                         /\ Laid(w) = Firsts(k)
<1>7. \A i \in 1..N : /\ seqs[i] \in Seq(SUBSET Nodes) /\ Alone(seqs[i], safe)
                      /\ Laid(seqs[i]) = L[i]
  BY <1>2, <1>3, SplitLayer
<1>8. ASSUME NEW k \in 1..N, NEW n \in L[k]
      PROVE  n \notin Firsts(k - 1) /\ deps[n] \subseteq Firsts(k - 1)
  <2>1. n \in Nodes /\ deps[n] \subseteq Nodes
    BY <1>2, <1>8
  <2>2. n \notin Firsts(k - 1)
    <3>1. \A i \in 1..(k - 1) : i \in 1..N /\ i # k
      BY <1>2
    <3> QED
      BY <1>8, <2>1, <3>1, <1>1 DEF Layered, N
  <2>3. deps[n] \subseteq Firsts(k - 1)
    BY <1>1, <1>8, <2>1 DEF Layered, N
  <2> QED
    BY <2>2, <2>3
<1>9. ASSUME NEW k \in 1..N, NEW w, Good(w, k - 1) PROVE Good(w \o seqs[k], k)
  <2>1. Follows(seqs[k], w, deps)
    <3>1. seqs[k] = Split(L[k], safe) /\ L[k] \in SUBSET Nodes
      BY <1>2, <1>3
    <3>2. \A n \in L[k] : n \notin Laid(w) /\ deps[n] \subseteq Laid(w)
      BY <1>8, <1>9
    <3> HIDE DEF Firsts
    <3> QED
      BY <1>9, <3>1, <3>2, SplitFollows
  <2>2. Laid(w \o seqs[k]) = Firsts(k - 1) \cup L[k]
    BY <1>7, <1>9, LaidConcat
  <2>3. Firsts(k - 1) \cup L[k] = Firsts(k)
    <3>1. ASSUME NEW n \in Firsts(k) PROVE n \in Firsts(k - 1) \cup L[k]
      <4>1. PICK i \in 1..k : n \in L[i]
        BY <3>1
      <4>2. i \in 1..(k - 1) \/ i = k
        BY <1>2
      <4> QED
        BY <3>1, <4>1, <4>2
    <3>2. \A i \in 1..(k - 1) : i \in 1..k
      BY <1>2
    <3>3. k \in 1..k /\ L[k] \subseteq Nodes
      BY <1>2
    <3> QED
      BY <3>1, <3>2, <3>3
  <2> HIDE DEF Firsts
  <2>4. w \o seqs[k] \in Seq(SUBSET Nodes)
    BY <1>7, <1>9, ConcatProperties
  <2>5. Layered(w \o seqs[k], deps)
    BY <1>7, <1>9, <2>1, LayeredConcat
  <2>6. Alone(w \o seqs[k], safe)
    BY <1>7, <1>9, AloneConcat
  <2> QED
    BY <2>2, <2>3, <2>4, <2>5, <2>6
<1>10. ASSUME N > 0 PROVE Good(f[1], 1)
  <2>1. 1 \in 1..N
    BY <1>2, <1>10
  <2>2. Good(<<>>, 1 - 1)
    <3>1. <<>> \in Seq(SUBSET Nodes) /\ Len(<<>>) = 0
      OBVIOUS
    <3>2. Firsts(1 - 1) = {}
      OBVIOUS
    <3> HIDE DEF Firsts
    <3> DEFINE e == <<>>
    <3>3. e \in Seq(SUBSET Nodes) /\ Len(e) = 0
      BY <3>1
    <3> HIDE DEF e
    <3>4. Good(e, 1 - 1)
      BY <3>2, <3>3 DEF Layered, Alone, Laid
    <3> QED
      BY <3>4 DEF e
  <2> HIDE DEF Good
  <2>3. Good(<<>> \o seqs[1], 1)
    BY <1>9, <2>1, <2>2
  <2>4. <<>> \o seqs[1] = seqs[1]
    BY <1>7, <2>1, ConcatEmptySeq
  <2> QED
    BY <1>6, <2>1, <2>3, <2>4
<1> DEFINE Q == {k \in Nat : k + 1 <= N => Good(f[k + 1], k + 1)}
<1>11. 0 \in Q
  BY <1>2, <1>10
<1>12. ASSUME NEW k \in Nat, k \in Q PROVE k + 1 \in Q
  <2>1. SUFFICES ASSUME k + 2 <= N PROVE Good(f[k + 2], k + 2)
    <3> HIDE DEF Good
    <3>1. (k + 1) + 1 = k + 2 /\ k + 1 \in Nat
      OBVIOUS
    <3> QED
      BY <3>1
  <2>2. k + 2 \in 1..N /\ (k + 2) - 1 = k + 1 /\ k + 2 # 1 /\ k + 1 <= N
    BY <1>2, <2>1
  <2> HIDE DEF Good
  <2>3. Good(f[k + 1], (k + 2) - 1)
    BY <1>12, <2>2
  <2>4. Good(f[k + 1] \o seqs[k + 2], k + 2)
    BY <1>9, <2>2, <2>3
  <2>5. f[k + 2] = f[k + 1] \o seqs[k + 2]
    BY <1>6, <2>2
  <2> QED
    BY <2>4, <2>5
<1> HIDE DEF Q, Good
<1>13. N > 0 => Good(f[N], N)
  <2>1. SUFFICES ASSUME N > 0 PROVE Good(f[N], N)
    OBVIOUS
  <2>2. N - 1 \in Nat /\ (N - 1) + 1 = N /\ N <= N
    BY <1>2, <2>1
  <2>3. N - 1 \in Q
    BY <1>11, <1>12, <2>2, NatInductionSet
  <2> QED
    BY <2>2, <2>3 DEF Q
<1>14. Good(W, N)
  <2>1. CASE N = 0
    <3>1. W = seqs
      BY <1>4, <2>1
    <3>2. Len(seqs) = 0 /\ seqs = <<>>
      BY <1>3, <2>1, EmptySeq
    <3>3. seqs \in Seq(SUBSET Nodes)
      BY <3>2
    <3>4. Firsts(N) = {}
      BY <2>1
    <3> HIDE DEF Firsts
    <3> QED
      BY <3>1, <3>2, <3>3, <3>4 DEF Good, Layered, Alone, Laid
  <2>2. CASE N # 0
    BY <1>2, <1>4, <1>13, <2>2
  <2> QED
    BY <2>1, <2>2
<1>15. Firsts(N) = Laid(L)
  BY DEF Laid, N
<1> QED
  BY <1>14, <1>15 DEF Good, W, L

(* The waves of a plan: a node is in one wave at most, after all of its      *)
(* dependencies, and alone unless it is parallel safe; what is left out      *)
(* depends on what is left out, so that nothing is unless there is a cycle.  *)
THEOREM WavesOrdered ==
    ASSUME IsFiniteSet(Nodes), Nodes \subseteq Nat, NEW p, p.deps \in [Nodes -> SUBSET Nodes]
    PROVE  /\ Waves(p.deps, p.safe) \in Seq(SUBSET Nodes)
           /\ WavesAreOrdered(p, Waves(p.deps, p.safe))
<1> DEFINE w == Waves(p.deps, p.safe)
           placed == UNION {w[i] : i \in DOMAIN w}
<1>1. /\ w \in Seq(SUBSET Nodes)
      /\ Layered(w, p.deps) /\ Alone(w, p.safe)
      /\ Laid(w) = Laid(Layers(p.deps))
  BY WavesAreLayered
<1> HIDE DEF w
<1>2. DOMAIN w = 1..Len(w) /\ Len(w) \in Nat /\ \A i \in 1..Len(w) : w[i] \subseteq Nodes
  BY <1>1, LenProperties, ElementOfSeq
<1>3. placed = Laid(w)
  BY <1>2 DEF Laid
<1>4. \A i, j \in DOMAIN w : i # j => w[i] \cap w[j] = {}
  BY <1>1, <1>2 DEF Layered
<1>5. ASSUME NEW i \in DOMAIN w, NEW n \in w[i]
      PROVE  /\ p.deps[n] \subseteq UNION {w[k] : k \in 1..(i - 1)}
             /\ w[i] # {n} => n \in p.safe
  BY <1>1, <1>2, <1>5 DEF Layered, Alone
<1>6. \A n \in Nodes \ placed : p.deps[n] \ placed # {}
  <2>1. \A n \in Nodes : p.deps[n] \subseteq Laid(w) => n \in Laid(w)
    BY <1>1, LayersOrdered
  <2> QED
    BY <1>3, <2>1
<1>7. placed \subseteq Nodes
  BY <1>3 DEF Laid
<1> HIDE DEF placed
<1>8. ASSUME Acyclic(p.deps) PROVE placed = Nodes
  <2>1. SUFFICES ASSUME Nodes \ placed # {} PROVE FALSE
    BY <1>7
  <2>2. PICK n \in Nodes \ placed : p.deps[n] \cap (Nodes \ placed) = {}
    BY <1>8, <2>1 DEF Acyclic
  <2> QED
    BY <1>6, <2>2
<1>9. WavesAreOrdered(p, w)
  BY <1>4, <1>5, <1>6, <1>8 DEF WavesAreOrdered, placed
<1> QED
  BY <1>1, <1>9 DEF w
=============================================================================
