-------------------------- MODULE CollectionProofs --------------------------
(***************************************************************************)
(* Facts about sets of numbers and sums over finite sets.  All of them     *)
(* come from one: a non-empty set of naturals has a least element.  Where  *)
(* a proof goes by induction, it takes the least size of a counterexample. *)
(***************************************************************************)
EXTENDS Integers, FiniteSetsExt, NaturalsInduction, WellFoundedInduction, FiniteSetTheorems, TLAPS

(* Of a non-empty set of naturals there is a least one.                    *)
LEMMA LeastOfNats ==
  ASSUME NEW S \in SUBSET Nat, S # {}
  PROVE  \E i \in S : \A j \in S : i <= j
<1> DEFINE R == {p \in Nat \X Nat : p[1] < p[2]}
<1>1. R = OpToRel(<, Nat)
  BY Zenon DEF OpToRel
<1>2. IsWellFoundedOn(R, Nat)
  BY <1>1, NatLessThanWellFounded, Zenon
<1>3. \A y, z \in Nat : y < z => <<y, z>> \in R
  OBVIOUS
<1> HIDE DEF R
<1>4. PICK x \in S : \A y \in S : <<y, x>> \notin R
  BY <1>2, WFMin
<1>5. \A y \in S : y \in Nat /\ x \in Nat /\ ~(y < x)
  BY <1>3, <1>4, Zenon
<1> QED
  BY <1>5

(* So Min of it is one of its elements.                                    *)
LEMMA MinOfNats ==
  ASSUME NEW S \in SUBSET Nat, S # {}
  PROVE  Min(S) \in S /\ \A j \in S : Min(S) <= j
BY LeastOfNats DEF Min

(* Of a non-empty set of naturals with a bound there is a greatest one.    *)
LEMMA GreatestOfNats ==
  ASSUME NEW S \in SUBSET Nat, S # {}, NEW b \in Nat, \A i \in S : i <= b
  PROVE  \E i \in S : \A j \in S : j <= i
<1> DEFINE T == {b - i : i \in S}
<1>1. T \in SUBSET Nat /\ T # {}
  <2>1. \A i \in S : b - i \in Nat
    OBVIOUS
  <2> QED
    BY <2>1
<1>2. PICK m \in T : \A n \in T : m <= n
  BY <1>1, LeastOfNats
<1>3. PICK i \in S : m = b - i
  BY <1>2
<1>4. \A j \in S : b - i <= b - j
  BY <1>2, <1>3
<1> QED
  BY <1>4

(* The lesser and the greater of two numbers.                              *)
LEMMA OfTwo ==
  ASSUME NEW a \in Int, NEW b \in Int
  PROVE  /\ Min({a, b}) = IF a <= b THEN a ELSE b
         /\ Max({a, b}) = IF a <= b THEN b ELSE a
<1>1. PICK x \in {a, b} : \A y \in {a, b} : x <= y
  OBVIOUS
<1>2. PICK z \in {a, b} : \A y \in {a, b} : z >= y
  OBVIOUS
<1>3. Min({a, b}) \in {a, b} /\ \A y \in {a, b} : Min({a, b}) <= y
  BY <1>1 DEF Min
<1>4. Max({a, b}) \in {a, b} /\ \A y \in {a, b} : Max({a, b}) >= y
  BY <1>2 DEF Max
<1> QED
  BY <1>3, <1>4

----------------------------------------------------------------------------
(* Sums.                                                                   *)

\* The element MapThenSumSet takes next.
Pick(s) == CHOOSE x \in s : TRUE

\* g is what MapThenSumSet computes on the subsets of S.
SumsUp(F, S, g) ==
  g = [s \in SUBSET S |-> IF s = {} THEN 0 ELSE F[Pick(s)] + g[s \ {Pick(s)}]]

\* The sum of the values of F.
Total(F, S) == MapThenSumSet(LAMBDA x : F[x], S)

(* The first element a fold takes is one of the set.                       *)
LEMMA PickOne ==
  ASSUME NEW s, s # {}
  PROVE  Pick(s) \in s
BY DEF Pick

(* The fold of a finite set has a value on each of its subsets.  There is a least
   size of subset on which it had none.                                      *)
LEMMA SumExists ==
  ASSUME NEW S, IsFiniteSet(S), NEW F, \A x \in S : F[x] \in Int
  PROVE  \E g \in [SUBSET S -> Int] : SumsUp(F, S, g)
<1> DEFINE D(n) == {s \in SUBSET S : Cardinality(s) <= n}
           Upto(n, g) ==
             /\ g \in [D(n) -> Int]
             /\ \A s \in D(n) : g[s] = IF s = {} THEN 0 ELSE F[Pick(s)] + g[s \ {Pick(s)}]
           Bad == {n \in Nat : ~\E g : Upto(n, g)}
<1>1. \A s \in SUBSET S : IsFiniteSet(s) /\ Cardinality(s) \in Nat
  BY FS_Subset, FS_CardinalityType
<1>2. ASSUME NEW s \in SUBSET S, s # {}
      PROVE  /\ Pick(s) \in s /\ s \ {Pick(s)} \in SUBSET S
             /\ Cardinality(s \ {Pick(s)}) = Cardinality(s) - 1
  BY <1>1, <1>2, PickOne, FS_RemoveElement
<1>3. Bad = {}
  <2> SUFFICES ASSUME Bad # {} PROVE FALSE
    OBVIOUS
  <2>1. PICK m \in Bad : \A j \in Bad : m <= j
    BY LeastOfNats
  <2>2. CASE m = 0
    <3>1. D(0) = {{}}
      BY <1>1, FS_EmptySet
    <3>2. Upto(0, [s \in D(0) |-> 0])
      BY <3>1
    <3> QED
      BY <2>1, <2>2, <3>2
  <2>3. CASE m # 0
    <3>1. m \in Nat /\ m - 1 \in Nat /\ m - 1 \notin Bad
      <4>1. m \in Nat /\ m - 1 \in Nat /\ ~(m <= m - 1)
        BY <2>1, <2>3
      <4> HIDE DEF Bad
      <4> QED
        BY <2>1, <4>1
    <3>2. PICK g : Upto(m - 1, g)
      BY <3>1
    <3> DEFINE h == [s \in D(m) |-> IF s = {} THEN 0 ELSE F[Pick(s)] + g[s \ {Pick(s)}]]
    <3>3. \A s \in D(m) : s # {} => s \ {Pick(s)} \in D(m - 1)
      BY <1>1, <1>2, <3>1
    <3>4. \A s \in D(m - 1) : s \in D(m) /\ h[s] = g[s]
      BY <1>1, <3>1, <3>2
    <3>5. h \in [D(m) -> Int]
      <4> SUFFICES ASSUME NEW s \in D(m), s # {} PROVE F[Pick(s)] + g[s \ {Pick(s)}] \in Int
        OBVIOUS
      <4>1. g[s \ {Pick(s)}] \in Int
        BY <3>2, <3>3
      <4> QED
        BY <4>1, <1>2
    <3>6. \A s \in D(m) : h[s] = IF s = {} THEN 0 ELSE F[Pick(s)] + h[s \ {Pick(s)}]
      BY <3>3, <3>4
    <3>7. Upto(m, h)
      BY <3>5, <3>6
    <3> QED
      BY <2>1, <3>7
  <2> QED
    BY <2>2, <2>3
<1>4. Cardinality(S) \in Nat /\ D(Cardinality(S)) = SUBSET S
  BY <1>1, FS_Subset
<1>5. PICK g : Upto(Cardinality(S), g)
  BY <1>3, <1>4
<1>6. /\ g \in [SUBSET S -> Int]
      /\ \A s \in SUBSET S : g[s] = IF s = {} THEN 0 ELSE F[Pick(s)] + g[s \ {Pick(s)}]
  BY <1>4, <1>5
<1> QED
  BY <1>6 DEF SumsUp

(* and only one, whichever set the fold was started with.                   *)
LEMMA SumsAgree ==
  ASSUME NEW S, IsFiniteSet(S), NEW F, NEW T \in SUBSET S, NEW g, NEW h,
         SumsUp(F, S, g), SumsUp(F, T, h)
  PROVE  \A s \in SUBSET T : g[s] = h[s]
<1> DEFINE Bad == {n \in Nat : \E s \in SUBSET T : Cardinality(s) = n /\ g[s] # h[s]}
<1>1. \A s \in SUBSET T : s \in SUBSET S /\ IsFiniteSet(s) /\ Cardinality(s) \in Nat
  BY FS_Subset, FS_CardinalityType
<1>2. /\ \A s \in SUBSET S : g[s] = IF s = {} THEN 0 ELSE F[Pick(s)] + g[s \ {Pick(s)}]
      /\ \A s \in SUBSET T : h[s] = IF s = {} THEN 0 ELSE F[Pick(s)] + h[s \ {Pick(s)}]
  BY DEF SumsUp
<1> SUFFICES ASSUME Bad # {} PROVE FALSE
  BY <1>1
<1>3. PICK m \in Bad : \A j \in Bad : m <= j
  BY LeastOfNats
<1>4. PICK s \in SUBSET T : Cardinality(s) = m /\ g[s] # h[s]
  BY <1>3
<1>5. s # {}
  BY <1>1, <1>2, <1>4
<1>6. s \ {Pick(s)} \in SUBSET T /\ Cardinality(s \ {Pick(s)}) = m - 1 /\ m - 1 \in Nat
  <2>1. Pick(s) \in s /\ s \ {Pick(s)} \in SUBSET T
    BY <1>5, PickOne
  <2>2. Cardinality(s \ {Pick(s)}) = Cardinality(s) - 1
    BY <1>1, <2>1, FS_RemoveElement
  <2> QED
    BY <1>1, <1>4, <2>1, <2>2
<1>7. g[s \ {Pick(s)}] = h[s \ {Pick(s)}]
  BY <1>3, <1>6
<1> QED
  BY <1>1, <1>2, <1>4, <1>5, <1>7

(* So MapThenSumSet is that value.                                         *)
LEMMA TotalIs ==
  ASSUME NEW S, IsFiniteSet(S), NEW F, \A x \in S : F[x] \in Int,
         NEW g, SumsUp(F, S, g)
  PROVE  Total(F, S) = g[S]
<1> DEFINE c == CHOOSE iter :
                  iter = [s \in SUBSET S |->
                            IF s = {} THEN 0 ELSE F[Pick(s)] + iter[s \ {Pick(s)}]]
<1>1. Total(F, S) = c[S]
  BY DEF Total, MapThenSumSet, MapThenFoldSet, Pick
<1>2. SumsUp(F, S, c)
  BY SumExists DEF SumsUp
<1>3. c[S] = g[S]
  BY <1>2, SumsAgree
<1> QED
  BY <1>1, <1>3

(* A total is a number, zero of nothing, and takes one element at a time.  *)
LEMMA TotalUnfolds ==
  ASSUME NEW S, IsFiniteSet(S), NEW F, \A x \in S : F[x] \in Int
  PROVE  /\ Total(F, S) \in Int
         /\ S = {} => Total(F, S) = 0
         /\ S # {} => Total(F, S) = F[Pick(S)] + Total(F, S \ {Pick(S)})
<1>1. PICK g \in [SUBSET S -> Int] : SumsUp(F, S, g)
  BY SumExists
<1>2. Total(F, S) = g[S] /\ S \in SUBSET S
  BY <1>1, TotalIs
<1>3. g[S] = IF S = {} THEN 0 ELSE F[Pick(S)] + g[S \ {Pick(S)}]
  BY <1>1, <1>2 DEF SumsUp
<1>4. ASSUME S # {} PROVE Total(F, S \ {Pick(S)}) = g[S \ {Pick(S)}]
  <2> DEFINE T == S \ {Pick(S)}
  <2>1. IsFiniteSet(T) /\ T \in SUBSET S /\ \A x \in T : F[x] \in Int
    BY FS_Subset
  <2> HIDE DEF T
  <2>2. PICK h \in [SUBSET T -> Int] : SumsUp(F, T, h)
    BY <2>1, SumExists
  <2>3. Total(F, T) = h[T]
    BY <2>1, <2>2, TotalIs
  <2>4. g[T] = h[T]
    BY <1>1, <2>1, <2>2, SumsAgree
  <2> QED
    BY <2>3, <2>4 DEF T
<1> QED
  BY <1>1, <1>2, <1>3, <1>4

(* The order does not matter: any element may come first.                  *)
LEMMA TotalAdd ==
  ASSUME NEW S, IsFiniteSet(S), NEW x, x \notin S, NEW F, \A y \in S \union {x} : F[y] \in Int
  PROVE  Total(F, S \union {x}) = F[x] + Total(F, S)
<1> DEFINE Fine(T) == \A y \in S \union {x} :
                        y \notin T => Total(F, T \union {y}) = F[y] + Total(F, T)
           Bad == {n \in Nat : \E T \in SUBSET (S \union {x}) : Cardinality(T) = n /\ ~Fine(T)}
<1>1. \A T \in SUBSET (S \union {x}) :
        /\ IsFiniteSet(T) /\ Cardinality(T) \in Nat /\ (\A y \in T : F[y] \in Int)
        /\ Total(F, T) \in Int
  <2> TAKE T \in SUBSET (S \union {x})
  <2>1. IsFiniteSet(S \union {x})
    BY FS_AddElement
  <2>2. IsFiniteSet(T)
    BY <2>1, FS_Subset
  <2> QED
    BY <2>2, FS_CardinalityType, TotalUnfolds
<1>2. Bad = {}
  <2> SUFFICES ASSUME Bad # {} PROVE FALSE
    OBVIOUS
  <2>1. PICK m \in Bad : \A j \in Bad : m <= j
    BY LeastOfNats
  <2>2. PICK T \in SUBSET (S \union {x}) : Cardinality(T) = m /\ ~Fine(T)
    BY <2>1
  <2>3. PICK y \in S \union {x} : y \notin T /\ Total(F, T \union {y}) # F[y] + Total(F, T)
    BY <2>2
  <2> DEFINE U == T \union {y}
             c == Pick(U)
  <2>4. U \in SUBSET (S \union {x}) /\ U # {} /\ c \in U
    BY PickOne
  <2>5. Total(F, U) = F[c] + Total(F, U \ {c})
    BY <1>1, <2>4, TotalUnfolds
  <2>6. c # y
    <3> SUFFICES ASSUME c = y PROVE FALSE
      OBVIOUS
    <3>1. U \ {c} = T
      BY <2>3
    <3> QED
      BY <2>3, <2>5, <3>1
  <2> HIDE DEF c
  <2>7. c \in T
    BY <2>4, <2>6
  <2> DEFINE V == T \ {c}
  <2>8. /\ V \in SUBSET (S \union {x}) /\ U \ {c} = V \union {y} /\ T = V \union {c}
        /\ y \notin V /\ c \notin V /\ c \in S \union {x}
    BY <2>3, <2>6, <2>7
  <2>9. Cardinality(V) = m - 1 /\ m - 1 \in Nat /\ m \in Nat
    <3>1. Cardinality(V) = Cardinality(T) - 1
      BY <1>1, <2>7, FS_RemoveElement
    <3> QED
      BY <1>1, <2>2, <2>8, <3>1
  <2>10. Fine(V)
    <3>1. ~(m <= m - 1)
      BY <2>9
    <3>2. m - 1 \notin Bad
      BY <2>1, <3>1
    <3> HIDE DEF V, Fine
    <3> QED
      BY <2>8, <2>9, <3>2
  <2>11. Total(F, V \union {y}) = F[y] + Total(F, V) /\ Total(F, V \union {c}) = F[c] + Total(F, V)
    BY <2>8, <2>10
  <2>12. Total(F, V) \in Int /\ F[y] \in Int /\ F[c] \in Int
    BY <1>1, <2>8
  <2>13. Total(F, U) = F[c] + (F[y] + Total(F, V))
    BY <2>5, <2>8, <2>11
  <2>14. Total(F, T) = F[c] + Total(F, V)
    BY <2>8, <2>11
  <2> HIDE DEF V, Bad, Fine
  <2> QED
    BY <2>3, <2>12, <2>13, <2>14
<1>3. S \in SUBSET (S \union {x}) /\ Cardinality(S) \in Nat
  BY <1>1
<1>4. Fine(S)
  <2> HIDE DEF Fine
  <2> QED
    BY <1>2, <1>3
<1> QED
  BY <1>4

(* The total of two disjoint sets.                                         *)
LEMMA TotalUnion ==
  ASSUME NEW S, IsFiniteSet(S), NEW T, IsFiniteSet(T), S \intersect T = {},
         NEW F, \A x \in S \union T : F[x] \in Int
  PROVE  Total(F, S \union T) = Total(F, S) + Total(F, T)
<1> DEFINE Fine(U) == Total(F, S \union U) = Total(F, S) + Total(F, U)
           Bad == {n \in Nat : \E U \in SUBSET T : Cardinality(U) = n /\ ~Fine(U)}
<1>1. \A U \in SUBSET T :
        /\ IsFiniteSet(U) /\ Cardinality(U) \in Nat /\ IsFiniteSet(S \union U)
        /\ \A x \in S \union U : F[x] \in Int
        /\ Total(F, U) \in Int
  <2> TAKE U \in SUBSET T
  <2>1. IsFiniteSet(U)
    BY FS_Subset
  <2> QED
    BY <2>1, FS_CardinalityType, FS_Union, TotalUnfolds
<1>2. Bad = {}
  <2> SUFFICES ASSUME Bad # {} PROVE FALSE
    OBVIOUS
  <2>1. PICK m \in Bad : \A j \in Bad : m <= j
    BY LeastOfNats
  <2>2. PICK U \in SUBSET T : Cardinality(U) = m /\ ~Fine(U)
    BY <2>1
  <2>3. U # {}
    <3> SUFFICES ASSUME U = {} PROVE FALSE
      OBVIOUS
    <3>1. S \union U = S /\ Total(F, U) = 0 /\ Total(F, S) \in Int
      BY <1>1, TotalUnfolds
    <3> QED
      BY <2>2, <3>1
  <2>4. PICK y \in U : TRUE
    BY <2>3
  <2> DEFINE V == U \ {y}
  <2>5. /\ V \in SUBSET T /\ U = V \union {y} /\ y \notin V /\ y \notin S \union V
        /\ S \union U = (S \union V) \union {y}
    BY <2>4
  <2>6. Cardinality(V) = m - 1 /\ m - 1 \in Nat /\ m \in Nat
    <3>1. Cardinality(V) = Cardinality(U) - 1
      BY <1>1, <2>4, FS_RemoveElement
    <3> QED
      BY <1>1, <2>2, <2>5, <3>1
  <2>7. Fine(V)
    <3>1. ~(m <= m - 1)
      BY <2>6
    <3>2. m - 1 \notin Bad
      BY <2>1, <3>1
    <3> HIDE DEF V, Fine
    <3> QED
      BY <2>5, <2>6, <3>2
  <2> HIDE DEF V
  <2>8. \A z \in (S \union V) \union {y} : F[z] \in Int
    BY <1>1, <2>5
  <2>9. Total(F, (S \union V) \union {y}) = F[y] + Total(F, S \union V)
    BY <1>1, <2>5, <2>8, TotalAdd
  <2>10. Total(F, V \union {y}) = F[y] + Total(F, V)
    BY <1>1, <2>5, <2>8, TotalAdd
  <2>11. F[y] \in Int /\ Total(F, V) \in Int /\ Total(F, S) \in Int
    BY <1>1, <2>5, <2>8, TotalUnfolds
  <2> QED
    BY <2>2, <2>5, <2>7, <2>9, <2>10, <2>11
<1>3. Cardinality(T) \in Nat
  BY <1>1
<1>4. Fine(T)
  <2> HIDE DEF Fine
  <2> QED
    BY <1>2, <1>3
<1> QED
  BY <1>4

(* The amounts of a set of rows, as a total.                               *)
LEMMA AmountTotal ==
  ASSUME NEW S, IsFiniteSet(S), \A e \in S : e.amount \in Int,
         NEW F, \A e \in S : F[e] = e.amount
  PROVE  MapThenSumSet(LAMBDA e : e.amount, S) = Total(F, S)
<1> DEFINE A(iter) == [s \in SUBSET S |->
                         IF s = {} THEN 0 ELSE Pick(s).amount + iter[s \ {Pick(s)}]]
           B(iter) == [s \in SUBSET S |->
                         IF s = {} THEN 0 ELSE F[Pick(s)] + iter[s \ {Pick(s)}]]
           c == CHOOSE iter : iter = A(iter)
<1>1. MapThenSumSet(LAMBDA e : e.amount, S) = c[S]
  BY DEF MapThenSumSet, MapThenFoldSet, Pick
<1>2. \A iter : A(iter) = B(iter)
  <2> TAKE iter
  <2>1. \A s \in SUBSET S : s # {} => Pick(s).amount = F[Pick(s)]
    BY PickOne
  <2> QED
    BY <2>1
<1>3. PICK g : g = B(g)
  <2>1. \A e \in S : F[e] \in Int
    OBVIOUS
  <2>2. PICK g : SumsUp(F, S, g)
    BY <2>1, SumExists
  <2> QED
    BY <2>2 DEF SumsUp
<1>4. c = A(c)
  <2> HIDE DEF A, B
  <2>1. g = A(g)
    BY <1>2, <1>3
  <2> QED
    BY <2>1
<1>5. SumsUp(F, S, c)
  <2> HIDE DEF c
  <2> QED
    BY <1>2, <1>4 DEF SumsUp
<1>6. Total(F, S) = c[S]
  <2> HIDE DEF c
  <2> QED
    BY <1>5, TotalIs
<1> QED
  BY <1>1, <1>6

(* The third components of a set of triples, as a total.                   *)
LEMMA ThirdTotal ==
  ASSUME NEW S, IsFiniteSet(S), \A l \in S : l[3] \in Int,
         NEW F, \A l \in S : F[l] = l[3]
  PROVE  MapThenSumSet(LAMBDA l : l[3], S) = Total(F, S)
<1> DEFINE A(iter) == [s \in SUBSET S |->
                         IF s = {} THEN 0 ELSE Pick(s)[3] + iter[s \ {Pick(s)}]]
           B(iter) == [s \in SUBSET S |->
                         IF s = {} THEN 0 ELSE F[Pick(s)] + iter[s \ {Pick(s)}]]
           c == CHOOSE iter : iter = A(iter)
<1>1. MapThenSumSet(LAMBDA l : l[3], S) = c[S]
  BY DEF MapThenSumSet, MapThenFoldSet, Pick
<1>2. \A iter : A(iter) = B(iter)
  <2> TAKE iter
  <2>1. \A s \in SUBSET S : s # {} => Pick(s)[3] = F[Pick(s)]
    BY PickOne
  <2> QED
    BY <2>1
<1>3. PICK g : g = B(g)
  <2>1. \A l \in S : F[l] \in Int
    OBVIOUS
  <2>2. PICK g : SumsUp(F, S, g)
    BY <2>1, SumExists
  <2> QED
    BY <2>2 DEF SumsUp
<1>4. c = A(c)
  <2> HIDE DEF A, B
  <2>1. g = A(g)
    BY <1>2, <1>3
  <2> QED
    BY <2>1
<1>5. SumsUp(F, S, c)
  <2> HIDE DEF c
  <2> QED
    BY <1>2, <1>4 DEF SumsUp
<1>6. Total(F, S) = c[S]
  <2> HIDE DEF c
  <2> QED
    BY <1>5, TotalIs
<1> QED
  BY <1>1, <1>6

(* A set that is renamed one to one keeps its total.                       *)
LEMMA TotalImage ==
  ASSUME NEW S, IsFiniteSet(S), NEW F, \A x \in S : F[x] \in Int,
         NEW h, \A x, y \in S : h[x] = h[y] => x = y,
         NEW G, \A x \in S : G[h[x]] = F[x]
  PROVE  Total(G, {h[x] : x \in S}) = Total(F, S)
<1> DEFINE Im(U) == {h[x] : x \in U}
           Fine(U) == Total(G, Im(U)) = Total(F, U)
           Bad == {n \in Nat : \E U \in SUBSET S : Cardinality(U) = n /\ ~Fine(U)}
<1>1. \A U \in SUBSET S :
        /\ IsFiniteSet(U) /\ Cardinality(U) \in Nat /\ IsFiniteSet(Im(U))
        /\ (\A x \in U : F[x] \in Int) /\ \A z \in Im(U) : G[z] \in Int
  <2> TAKE U \in SUBSET S
  <2>1. IsFiniteSet(U) /\ Cardinality(U) \in Nat
    BY FS_Subset, FS_CardinalityType
  <2>2. IsFiniteSet(Im(U))
    <3>1. [x \in U |-> h[x]] \in Surjection(U, Im(U))
      BY DEF Surjection
    <3> QED
      BY <2>1, <3>1, FS_Surjection
  <2> QED
    BY <2>1, <2>2
<1>2. Bad = {}
  <2> SUFFICES ASSUME Bad # {} PROVE FALSE
    OBVIOUS
  <2>1. PICK m \in Bad : \A j \in Bad : m <= j
    BY LeastOfNats
  <2>2. PICK U \in SUBSET S : Cardinality(U) = m /\ ~Fine(U)
    BY <2>1
  <2>3. U # {}
    <3> SUFFICES ASSUME U = {} PROVE FALSE
      OBVIOUS
    <3>1. Im(U) = {}
      OBVIOUS
    <3>2. Total(G, {}) = 0 /\ Total(F, {}) = 0
      BY FS_EmptySet, TotalUnfolds
    <3> QED
      BY <2>2, <3>1, <3>2
  <2>4. PICK y \in U : TRUE
    BY <2>3
  <2>5. PICK V : V = U \ {y}
    OBVIOUS
  <2>6. /\ V \in SUBSET S /\ U = V \union {y} /\ y \notin V
        /\ Im(U) = Im(V) \union {h[y]} /\ h[y] \notin Im(V)
    BY <2>4, <2>5
  <2>7. Cardinality(V) = m - 1 /\ m - 1 \in Nat /\ m \in Nat
    <3>1. Cardinality(V) = Cardinality(U) - 1
      BY <1>1, <2>4, <2>5, FS_RemoveElement
    <3> QED
      BY <1>1, <2>2, <2>6, <3>1
  <2>8. Fine(V)
    <3>1. ~(m <= m - 1)
      BY <2>7
    <3>2. m - 1 \notin Bad
      BY <2>1, <3>1
    <3> HIDE DEF Fine
    <3> QED
      BY <2>6, <2>7, <3>2
  <2>9. PICK T : T = Im(V)
    OBVIOUS
  <2>10. /\ IsFiniteSet(V) /\ IsFiniteSet(T) /\ h[y] \notin T
         /\ (\A x \in V \union {y} : F[x] \in Int) /\ \A z \in T \union {h[y]} : G[z] \in Int
    BY <1>1, <2>6, <2>9
  <2>11. Total(F, V \union {y}) = F[y] + Total(F, V)
    BY <2>6, <2>10, TotalAdd
  <2>12. Total(G, T \union {h[y]}) = G[h[y]] + Total(G, T)
    BY <2>10, TotalAdd
  <2>13. G[h[y]] = F[y]
    BY <2>4
  <2> QED
    BY <2>2, <2>6, <2>8, <2>9, <2>11, <2>12, <2>13
<1>3. Cardinality(S) \in Nat
  BY <1>1
<1>4. Fine(S)
  <2> HIDE DEF Fine
  <2> QED
    BY <1>2, <1>3
<1> QED
  BY <1>4

----------------------------------------------------------------------------
(* Induction, with the set of what is proved in the place of a predicate.  *)

(* A set that has 0 and with each number the next has every number.        *)
LEMMA EveryNat ==
  ASSUME NEW G, 0 \in G, \A n \in Nat : n \in G => n + 1 \in G
  PROVE  Nat \subseteq G
<1> SUFFICES ASSUME Nat \ G # {} PROVE FALSE
  OBVIOUS
<1>1. PICK m \in Nat \ G : \A j \in Nat \ G : m <= j
  BY LeastOfNats
<1>2. m # 0 /\ m - 1 \in Nat /\ ~(m <= m - 1)
  BY <1>1
<1>3. m - 1 \in G
  BY <1>1, <1>2
<1> QED
  BY <1>1, <1>2, <1>3

(* A set of sets that has the empty set and with each set those of one element more has
   every finite set.                                                         *)
LEMMA EveryFiniteSet ==
  ASSUME NEW S, IsFiniteSet(S), NEW G, {} \in G,
         \A U \in SUBSET S : U \in G => \A x \in S \ U : U \union {x} \in G
  PROVE  S \in G
<1> DEFINE Sizes == {n \in Nat : \A U \in SUBSET S : Cardinality(U) = n => U \in G}
<1>1. \A U \in SUBSET S : IsFiniteSet(U) /\ Cardinality(U) \in Nat
  BY FS_Subset, FS_CardinalityType
<1>2. 0 \in Sizes
  BY <1>1, FS_EmptySet
<1>3. ASSUME NEW n \in Nat, n \in Sizes PROVE n + 1 \in Sizes
  <2> SUFFICES ASSUME NEW U \in SUBSET S, Cardinality(U) = n + 1 PROVE U \in G
    OBVIOUS
  <2>1. PICK x \in U : TRUE
    BY <1>1, FS_EmptySet
  <2>2. PICK V : V = U \ {x}
    OBVIOUS
  <2>3. V \in SUBSET S /\ x \in S \ V /\ U = V \union {x}
    BY <2>1, <2>2
  <2>5. Cardinality(V) = Cardinality(U) - 1
    BY <1>1, <2>1, <2>2, FS_RemoveElement
  <2>6. Cardinality(V) = n
    BY <2>5
  <2>4. V \in G
    BY <1>3, <2>3, <2>6
  <2> QED
    BY <2>3, <2>4
<1> HIDE DEF Sizes
<1>4. Nat \subseteq Sizes
  BY <1>2, <1>3, EveryNat
<1> QED
  BY <1>1, <1>4 DEF Sizes

(* A total of naturals is a natural.                                       *)
LEMMA TotalNat ==
  ASSUME NEW S, IsFiniteSet(S), NEW F, \A x \in S : F[x] \in Nat
  PROVE  Total(F, S) \in Nat
<1> DEFINE G == {U \in SUBSET S : Total(F, U) \in Nat}
<1>1. {} \in G
  <2>1. Total(F, {}) = 0
    BY FS_EmptySet, TotalUnfolds
  <2> QED
    BY <2>1
<1>2. ASSUME NEW U \in SUBSET S, U \in G, NEW x \in S \ U PROVE U \union {x} \in G
  <2>1. IsFiniteSet(U) /\ \A y \in U \union {x} : F[y] \in Int
    BY FS_Subset
  <2>2. Total(F, U \union {x}) = F[x] + Total(F, U)
    BY <2>1, TotalAdd
  <2> QED
    BY <1>2, <2>2
<1> HIDE DEF G
<1>3. S \in G
  BY <1>1, <1>2, EveryFiniteSet
<1> QED
  BY <1>3 DEF G

(* More elements do not make a total of naturals smaller.                  *)
LEMMA TotalGrows ==
  ASSUME NEW T, IsFiniteSet(T), NEW S \in SUBSET T, NEW F, \A x \in T : F[x] \in Nat
  PROVE  Total(F, S) <= Total(F, T)
<1>1. PICK D : D = T \ S
  OBVIOUS
<1>2. IsFiniteSet(S) /\ IsFiniteSet(D) /\ S \intersect D = {} /\ T = S \union D
  BY <1>1, FS_Subset
<1>3. Total(F, T) = Total(F, S) + Total(F, D)
  BY <1>2, TotalUnion
<1>4. Total(F, S) \in Nat /\ Total(F, D) \in Nat
  BY <1>1, <1>2, TotalNat
<1> QED
  BY <1>3, <1>4

(* A total depends on the values in the set only.                          *)
LEMMA TotalSame ==
  ASSUME NEW S, IsFiniteSet(S), NEW F, \A x \in S : F[x] \in Int,
         NEW G, \A x \in S : G[x] = F[x]
  PROVE  Total(G, S) = Total(F, S)
<1> DEFINE h == [x \in S |-> x]
<1>1. {h[x] : x \in S} = S
  OBVIOUS
<1>2. \A x \in S : G[h[x]] = F[x]
  OBVIOUS
<1>3. \A x, y \in S : h[x] = h[y] => x = y
  OBVIOUS
<1> HIDE DEF h
<1>4. Total(G, {h[x] : x \in S}) = Total(F, S)
  BY <1>2, <1>3, TotalImage
<1> QED
  BY <1>1, <1>4

----------------------------------------------------------------------------
(* Ranks.                                                                  *)

\* The elements of S that K puts before e.
Lesser(K, S, e) == {f \in S : K[f] < K[e]}

(* The elements of a finite set, put in order by different integers, have the ranks from
   zero to one less than there are, each once.                               *)
LEMMA Ranked ==
  ASSUME NEW S, IsFiniteSet(S), NEW K, \A e \in S : K[e] \in Int,
         \A e, f \in S : K[e] = K[f] => e = f
  PROVE  /\ \A e \in S : Cardinality(Lesser(K, S, e)) \in 0..(Cardinality(S) - 1)
         /\ \A e, g \in S : K[e] < K[g] <=>
              Cardinality(Lesser(K, S, e)) < Cardinality(Lesser(K, S, g))
         /\ \A e, g \in S : Cardinality(Lesser(K, S, e)) = Cardinality(Lesser(K, S, g)) => e = g
         /\ \A i \in 1..Cardinality(S) : \E e \in S : Cardinality(Lesser(K, S, e)) = i - 1
<1> DEFINE rank == [e \in S |-> Cardinality(Lesser(K, S, e))]
<1>1. PICK n \in Nat : n = Cardinality(S)
  BY FS_CardinalityType
<1>2. \A e \in S : IsFiniteSet(Lesser(K, S, e)) /\ Cardinality(Lesser(K, S, e)) \in 0..(n - 1)
  <2> TAKE e \in S
  <2>1. Lesser(K, S, e) \in SUBSET S /\ e \in S \ Lesser(K, S, e)
    BY DEF Lesser
  <2>2. /\ IsFiniteSet(Lesser(K, S, e))
        /\ Cardinality(Lesser(K, S, e)) <= n /\ Cardinality(Lesser(K, S, e)) # n
    BY <1>1, <2>1, FS_Subset
  <2>3. Cardinality(Lesser(K, S, e)) \in Nat
    BY <2>2, FS_CardinalityType
  <2> QED
    BY <2>2, <2>3
<1>3. ASSUME NEW e \in S, NEW g \in S, K[e] < K[g]
      PROVE  Cardinality(Lesser(K, S, e)) < Cardinality(Lesser(K, S, g))
  <2>1. Lesser(K, S, e) \in SUBSET Lesser(K, S, g) /\ Lesser(K, S, e) # Lesser(K, S, g)
    <3>1. \A f \in S : K[f] < K[e] => K[f] < K[g]
      BY <1>3
    <3>2. e \in Lesser(K, S, g) /\ e \notin Lesser(K, S, e)
      BY <1>3 DEF Lesser
    <3> QED
      BY <3>1, <3>2 DEF Lesser
  <2>2. /\ Cardinality(Lesser(K, S, e)) <= Cardinality(Lesser(K, S, g))
        /\ Cardinality(Lesser(K, S, e)) # Cardinality(Lesser(K, S, g))
    BY <1>2, <2>1, FS_Subset
  <2>3. Cardinality(Lesser(K, S, e)) \in Int /\ Cardinality(Lesser(K, S, g)) \in Int
    BY <1>2
  <2> QED
    BY <2>2, <2>3
<1>4. \A e, g \in S : /\ K[e] < K[g] <=> Cardinality(Lesser(K, S, e)) < Cardinality(Lesser(K, S, g))
                      /\ Cardinality(Lesser(K, S, e)) = Cardinality(Lesser(K, S, g)) => e = g
  <2> TAKE e, g \in S
  <2>1. K[e] < K[g] \/ K[g] < K[e] \/ K[e] = K[g]
    OBVIOUS
  <2>2. Cardinality(Lesser(K, S, e)) \in Int /\ Cardinality(Lesser(K, S, g)) \in Int
    BY <1>2
  <2> QED
    BY <1>3, <2>1, <2>2
<1>5. rank \in Injection(S, 0..(n - 1))
  BY <1>2, <1>4 DEF Injection, IsInjective
<1>6. IsFiniteSet(0..(n - 1)) /\ Cardinality(0..(n - 1)) = n
  BY FS_Interval
<1>7. rank \in Surjection(S, 0..(n - 1))
  BY <1>1, <1>5, <1>6, FS_Injection
<1>8. \A i \in 1..n : \E e \in S : Cardinality(Lesser(K, S, e)) = i - 1
  <2> TAKE i \in 1..n
  <2>1. i - 1 \in 0..(n - 1)
    OBVIOUS
  <2>2. \A k \in 0..(n - 1) : \E e \in S : rank[e] = k
    <3> HIDE DEF rank
    <3> QED
      BY <1>7 DEF Surjection
  <2>3. PICK e \in S : rank[e] = i - 1
    BY <2>1, <2>2
  <2> QED
    BY <2>3
<1> QED
  BY <1>1, <1>2, <1>4, <1>8

(* A sum of negated values.                                                *)
LEMMA TotalNegated ==
  ASSUME NEW S, IsFiniteSet(S), NEW F, \A x \in S : F[x] \in Int,
         NEW G, \A x \in S : G[x] = -F[x]
  PROVE  Total(G, S) = -Total(F, S)
<1> DEFINE N == {U \in SUBSET S : Total(G, U) = -Total(F, U)}
<1>1. {} \in N
  <2>1. Total(F, {}) = 0 /\ Total(G, {}) = 0
    BY FS_EmptySet, TotalUnfolds
  <2> QED
    BY <2>1
<1>2. ASSUME NEW U \in SUBSET S, U \in N, NEW x \in S \ U PROVE U \union {x} \in N
  <2>1. /\ IsFiniteSet(U)
        /\ \A y \in U \union {x} : F[y] \in Int
        /\ \A y \in U \union {x} : G[y] \in Int
    BY FS_Subset
  <2>2. Total(F, U \union {x}) = F[x] + Total(F, U)
    BY <2>1, TotalAdd
  <2>3. Total(G, U \union {x}) = G[x] + Total(G, U)
    BY <2>1, TotalAdd
  <2>4. Total(F, U) \in Int /\ F[x] \in Int /\ G[x] = -F[x]
    BY <2>1, TotalUnfolds
  <2> QED
    BY <1>2, <2>2, <2>3, <2>4
<1> HIDE DEF N
<1>3. S \in N
  BY <1>1, <1>2, EveryFiniteSet
<1> QED
  BY <1>3 DEF N
=============================================================================
