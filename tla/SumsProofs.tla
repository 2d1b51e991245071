----------------------------- MODULE SumsProofs -----------------------------
(***************************************************************************)
(* Sums over finite sets.  A sum is the number of pairs of an element and  *)
(* a number up to its summand, so that it is a fact about cardinalities    *)
(* what changing one summand does to it, and no induction is needed.       *)
(***************************************************************************)
EXTENDS Sums, FiniteSetTheorems, TLAPS

(* The numbers from 1 to n, paired with x, are n.                          *)
LEMMA ColumnSize ==
  ASSUME NEW x, NEW n \in Nat
  PROVE  IsFiniteSet({x} \X (1 .. n)) /\ Cardinality({x} \X (1 .. n)) = n
  <1>1. IsFiniteSet(1 .. n) /\ Cardinality(1 .. n) = n
    <2>1. IsFiniteSet(1 .. n) /\ Cardinality(1 .. n) = IF 1 > n THEN 0 ELSE n - 1 + 1
      BY FS_Interval, 1 \in Int, n \in Int
    <2> QED
      BY <2>1
  <1>2. IsFiniteSet({x}) /\ Cardinality({x}) = 1
    BY FS_Singleton
  <1>3. IsFiniteSet({x} \X (1 .. n)) /\ Cardinality({x} \X (1 .. n)) = 1 * n
    BY <1>1, <1>2, FS_Product
  <1> QED
    BY <1>3

(* A sum over a finite set is the number of x and a rest that does not     *)
(* depend on it.                                                           *)
Rest(f, x) == UNION {{y} \X (1 .. f[y]) : y \in DOMAIN f \ {x}}

LEMMA TotalSplit ==
  ASSUME NEW S, IsFiniteSet(S), NEW f \in [S -> Nat], NEW x \in S
  PROVE  /\ Cardinality(Rest(f, x)) \in Nat
         /\ Total(f) = Cardinality(Rest(f, x)) + f[x]
  <1> DEFINE others == S \ {x}
             column == [y \in others |-> {y} \X (1 .. f[y])]
             columns == {{y} \X (1 .. f[y]) : y \in others}
             own == {x} \X (1 .. f[x])
  <1>1. Rest(f, x) = UNION columns
    BY DEF Rest
  <1>2. IsFiniteSet(Rest(f, x))
    <2>1. IsFiniteSet(others)
      BY FS_Subset
    <2>2. column \in Surjection(others, columns)
      BY DEF Surjection
    <2>3. IsFiniteSet(columns)
      <3> HIDE DEF column, columns, others
      <3> QED
        BY <2>1, <2>2, FS_Surjection
    <2>4. \A T \in columns : IsFiniteSet(T)
      <3>1. \A y \in others : f[y] \in Nat
        OBVIOUS
      <3>2. \A y \in others : IsFiniteSet({y} \X (1 .. f[y]))
        BY <3>1, ColumnSize
      <3> QED
        BY <3>2
    <2> QED
      <3> HIDE DEF columns
      <3> QED
        BY <1>1, <2>3, <2>4, FS_UNION
  <1>3. UNION {{y} \X (1 .. f[y]) : y \in DOMAIN f} = Rest(f, x) \cup own
    BY DEF Rest
  <1>4. Rest(f, x) \cap own = {}
    BY DEF Rest
  <1>5. IsFiniteSet(own) /\ Cardinality(own) = f[x]
    BY ColumnSize
  <1>6. Cardinality(Rest(f, x) \cup own) = Cardinality(Rest(f, x)) + f[x] - Cardinality({})
    <2> HIDE DEF own
    <2> QED
      BY <1>2, <1>4, <1>5, FS_Union
  <1>7. Cardinality({}) = 0 /\ Cardinality(Rest(f, x)) \in Nat
    BY <1>2, FS_EmptySet, FS_CardinalityType
  <1> QED
    BY <1>3, <1>6, <1>7 DEF Total

(* What changing one number does to the sum.                               *)
LEMMA TotalUpdate ==
  ASSUME NEW S, IsFiniteSet(S), NEW f \in [S -> Nat], NEW g \in [S -> Nat], NEW x \in S,
         \A y \in S \ {x} : g[y] = f[y]
  PROVE  /\ Total(f) \in Nat /\ Total(f) >= f[x]
         /\ Total(g) = Total(f) - f[x] + g[x]
  <1>1. Rest(g, x) = Rest(f, x)
    BY DEF Rest
  <1>2. Total(f) = Cardinality(Rest(f, x)) + f[x] /\ Cardinality(Rest(f, x)) \in Nat
    BY TotalSplit
  <1>3. Total(g) = Cardinality(Rest(g, x)) + g[x]
    BY TotalSplit
  <1> QED
    BY <1>1, <1>2, <1>3

(* A sum of natural numbers is a natural number, 0 if all of them are.     *)
LEMMA TotalType ==
  ASSUME NEW S, IsFiniteSet(S), NEW f \in [S -> Nat]
  PROVE  Total(f) \in Nat /\ ((\A x \in S : f[x] = 0) => Total(f) = 0)
  <1>1. CASE \A x \in S : f[x] = 0
    <2>1. UNION {{x} \X (1 .. f[x]) : x \in DOMAIN f} = {}
      BY <1>1
    <2> QED
      BY <2>1, FS_EmptySet DEF Total
  <1>2. CASE \E x \in S : f[x] # 0
    BY <1>2, TotalUpdate
  <1> QED
    BY <1>1, <1>2
=============================================================================
