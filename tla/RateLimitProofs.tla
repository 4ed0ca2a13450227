-------------------------- MODULE RateLimitProofs --------------------------
(***************************************************************************)
(* Proofs about the rate limiters, for any limits, windows, keys and wait  *)
(* for the lock.  The events of a key are kept by their age; the invariant *)
(* bounds, for each bucket and each counter, how many are younger than the *)
(* start of its window and how many are older.                             *)
(***************************************************************************)
EXTENDS RateLimit, CollectionProofs

\* Events not older than n.
UpTo(n)     == {age \in Ages : age <= n}
SumTo(A, n) == Total(A, UpTo(n))

\* What of the events a bucket has counted may have been admitted.
Spent(n, limit) == IF n <= limit THEN n ELSE limit

\* The events a bucket has counted are the recent ones.  Those before its window are at
\* most the limit; a bucket that is open, or closed for no longer than a caller may wait,
\* has admitted as many as it has counted.
BucketOK(b, A, window, limit) ==
  IF b = NoBucket THEN SumTo(A, window - MaxLag) <= limit
  ELSE /\ b.count >= 1 /\ b.left <= window
       /\ SumTo(A, window - MaxLag) <= limit + Spent(b.count, limit)
       /\ SumTo(A, window - b.left - MaxLag - 1) <= Spent(b.count, limit)
       /\ b.left >= -MaxLag => SumTo(A, window - b.left) >= Spent(b.count, limit)

\* A counter has counted what was admitted since it was set, and maybe more.
CounterOK(c, A, window, limit) ==
  IF c = NoCounter THEN SumTo(A, window) <= limit /\ SumTo(A, 0) = 0
  ELSE /\ c.n >= 1 /\ c.ttl \in 1..window
       /\ SumTo(A, window) <= limit + Spent(c.n, limit)
       /\ SumTo(A, window - c.ttl) <= Spent(c.n, limit)

TypeOK ==
  /\ backend \in Backends
  /\ buckets \in [Limiters -> [Keys -> [count : Nat, left : Int]]]
  /\ gcAge \in [Limiters -> Nat]
  /\ counters \in [Keys -> [n : Nat, ttl : Int]]
  /\ upFor \in 0..MaxLag
  /\ admitted \in [Limiters -> [Keys -> [Ages -> Nat]]]

BucketsOK ==
  backend = "memory" =>
    \A l \in Limiters, k \in Keys : BucketOK(buckets[l][k], admitted[l][k], Window[l], Limit[l])

\* Limiters that may meet in a counter of Redis have the same window.  The settings of
\* config.go do (15m at login, register and refresh, 1m at transfer and money); its
\* Validate does not ask for it.
SharedWindows ==
  \A l, m \in Limiters : KeysOf(l) \intersect KeysOf(m) # {} => Window[l] = Window[m]

CountersOK ==
  backend = "redis" /\ SharedWindows =>
    \A l \in Limiters : \A k \in KeysOf(l) :
      CounterOK(counters[k], admitted[l][k], Window[l], Limit[l])

\* No bucket has been closed for longer than gc was last run.
StaleOK ==
  \A l \in Limiters, k \in Keys : buckets[l][k].left >= -gcAge[l]

\* No caller waits for the lock longer than a window.
ShortLag == \A l \in Limiters : MaxLag <= Window[l]

----------------------------------------------------------------------------
(* The bounds of the model are numbers.                                    *)

(* A setting of the limiters has a greatest value (newLimiters makes at most five).   *)
LEMMA GreatestSetting ==
  ASSUME NEW F \in [Limiters -> Nat]
  PROVE  /\ Max({F[l] : l \in Limiters}) \in Nat
         /\ \A l \in Limiters : F[l] <= Max({F[m] : m \in Limiters})
<1> DEFINE S == {F[l] : l \in Limiters}
           at(l) == IF l \in Limiters THEN F[l] ELSE 0
<1>1. S \in SUBSET Nat /\ S # {}
  BY RateLimitAssumption
<1>2. PICK b \in Nat : b = at("login") + at("register") + at("refresh") + at("transfer") + at("money")
  OBVIOUS
<1>3. \A i \in S : i <= b
  BY <1>2, RateLimitAssumption
<1>4. \E i \in S : \A j \in S : j <= i
  <2> HIDE DEF S
  <2> QED
    BY <1>1, <1>3, GreatestOfNats
<1>5. Max(S) \in S /\ \A j \in S : Max(S) >= j
  <2> HIDE DEF S
  <2> QED
    BY <1>1, <1>4 DEF Max
<1> QED
  BY <1>1, <1>5

LEMMA Bounds ==
  /\ MaxLag \in Nat /\ Past \in Nat /\ Past > 0 /\ MaxCount \in Nat
  /\ \A l \in Limiters :
       /\ Window[l] \in Nat /\ Window[l] > 0 /\ Window[l] + MaxLag < Past
       /\ Limit[l] \in Nat /\ Limit[l] < MaxCount
<1>1. /\ MaxLag \in Nat /\ Limit \in [Limiters -> Nat] /\ Window \in [Limiters -> Nat]
      /\ \A l \in Limiters : Window[l] > 0
  BY RateLimitAssumption
<1>2. MaxWindow \in Nat /\ \A l \in Limiters : Window[l] <= MaxWindow
  BY <1>1, GreatestSetting DEF MaxWindow
<1>3. PICK n \in Nat : n = Max({Limit[l] : l \in Limiters}) /\ \A l \in Limiters : Limit[l] <= n
  BY <1>1, GreatestSetting
<1>4. MaxCount = n + 1
  BY <1>3 DEF MaxCount
<1> QED
  BY <1>1, <1>2, <1>3, <1>4 DEF Past

\* A count is kept up to its bound.
LEMMA Counted ==
  ASSUME NEW n \in Nat
  PROVE  Count(n) = (IF n <= MaxCount THEN n ELSE MaxCount) /\ Count(n) \in Nat
BY Bounds, OfTwo DEF Count

LEMMA KeysAreKeys ==
  ASSUME NEW l \in Limiters
  PROVE  KeysOf(l) \subseteq Keys
BY RateLimitAssumption DEF KeysOf, Keys

----------------------------------------------------------------------------
(* What was admitted, by age.                                              *)

LEMMA AgesAreFinite ==
  /\ IsFiniteSet(Ages) /\ 0 \in Ages
  /\ \A x : x \in Ages <=> x \in Nat /\ x < Past
  /\ \A n : IsFiniteSet(UpTo(n)) /\ UpTo(n) \subseteq Ages
<1>1. IsFiniteSet(Ages)
  BY Bounds, FS_Interval DEF Ages
<1>2. 0 \in Ages /\ \A x : x \in Ages <=> x \in Nat /\ x < Past
  BY Bounds DEF Ages
<1>3. \A n : UpTo(n) \subseteq Ages
  BY DEF UpTo
<1>4. \A n : IsFiniteSet(UpTo(n))
  BY <1>1, <1>3, FS_Subset
<1> QED
  BY <1>1, <1>2, <1>3, <1>4

LEMMA SumNat ==
  ASSUME NEW A \in [Ages -> Nat], NEW n \in Int
  PROVE  SumTo(A, n) \in Nat /\ (n < 0 => SumTo(A, n) = 0)
<1>1. SumTo(A, n) \in Nat
  <2>1. IsFiniteSet(UpTo(n)) /\ \A x \in UpTo(n) : A[x] \in Nat
    BY AgesAreFinite
  <2> QED
    BY <2>1, TotalNat DEF SumTo
<1>2. ASSUME n < 0 PROVE SumTo(A, n) = 0
  <2>1. UpTo(n) = {}
    BY <1>2, AgesAreFinite DEF UpTo
  <2>2. Total(A, {}) = 0
    BY FS_EmptySet, TotalUnfolds
  <2> QED
    BY <2>1, <2>2 DEF SumTo
<1> QED
  BY <1>1, <1>2

LEMMA SumGrows ==
  ASSUME NEW A \in [Ages -> Nat], NEW m \in Int, NEW n \in Int, m <= n
  PROVE  SumTo(A, m) <= SumTo(A, n)
<1>1. UpTo(m) \in SUBSET UpTo(n)
  <2>1. \A x \in Ages : x \in Nat
    BY AgesAreFinite
  <2>2. \A x \in Ages : x <= m => x <= n
    BY <2>1
  <2> QED
    BY <2>2 DEF UpTo
<1>2. IsFiniteSet(UpTo(n)) /\ \A x \in UpTo(n) : A[x] \in Nat
  BY AgesAreFinite
<1> QED
  BY <1>1, <1>2, TotalGrows DEF SumTo

\* The ages a property names are all there.
LEMMA SumIsRecent ==
  ASSUME NEW A \in [Ages -> Nat], NEW n \in Int, n < Past
  PROVE  SumTo(A, n) = Total(A, 0..n)
<1>1. UpTo(n) = 0..n
  BY Bounds DEF UpTo, Ages
<1> QED
  BY <1>1 DEF SumTo

\* One event more now.
LEMMA SumAdmitted ==
  ASSUME NEW A \in [Ages -> Nat], NEW n \in Int
  PROVE  SumTo([A EXCEPT ![0] = @ + 1], n) = SumTo(A, n) + IF n >= 0 THEN 1 ELSE 0
<1>1. PICK B : B = [A EXCEPT ![0] = @ + 1]
  OBVIOUS
<1>2. 0 \in Ages /\ B \in [Ages -> Nat] /\ B[0] = A[0] + 1 /\ \A x \in Ages \ {0} : B[x] = A[x]
  <2>1. 0 \in Ages
    BY AgesAreFinite
  <2> QED
    BY <1>1, <2>1
<1>3. CASE n < 0
  <2>1. SumTo(A, n) = 0 /\ SumTo(B, n) = 0
    BY <1>2, <1>3, SumNat
  <2> QED
    BY <1>1, <1>3, <2>1
<1>4. CASE n >= 0
  <2>1. PICK T : T = UpTo(n) \ {0}
    OBVIOUS
  <2>2. T \subseteq Ages /\ 0 \notin T /\ UpTo(n) = T \union {0}
    BY <1>2, <1>4, <2>1, AgesAreFinite DEF UpTo
  <2>3. IsFiniteSet(T)
    BY <2>1, AgesAreFinite, FS_Subset
  <2>4. (\A x \in T \union {0} : A[x] \in Int /\ B[x] \in Int) /\ \A x \in T : B[x] = A[x]
    BY <1>2, <2>2
  <2>5. Total(B, T) = Total(A, T) /\ Total(A, T) \in Int
    BY <2>3, <2>4, TotalSame, TotalUnfolds
  <2>6. Total(B, T \union {0}) = B[0] + Total(B, T)
    BY <2>2, <2>3, <2>4, TotalAdd
  <2>7. Total(A, T \union {0}) = A[0] + Total(A, T)
    BY <2>2, <2>3, <2>4, TotalAdd
  <2>8. A[0] \in Int
    BY <2>4
  <2> QED
    BY <1>1, <1>2, <1>4, <2>2, <2>5, <2>6, <2>7, <2>8 DEF SumTo
<1> QED
  BY <1>3, <1>4

\* All events a tick older.
Older(A) == [age \in Ages |-> IF age = 0 THEN 0 ELSE A[age - 1]]

LEMMA SumOlder ==
  ASSUME NEW A \in [Ages -> Nat], NEW n \in Int
  PROVE  /\ Older(A) \in [Ages -> Nat]
         /\ SumTo(Older(A), n) <= SumTo(A, n - 1)
         /\ n < Past => SumTo(Older(A), n) = SumTo(A, n - 1)
<1>1. PICK B : B = Older(A)
  OBVIOUS
<1>2. /\ B \in [Ages -> Nat] /\ 0 \in Ages /\ B[0] = 0
      /\ \A x \in Ages : x + 1 \in Ages => B[x + 1] = A[x]
  <2>1. 0 \in Ages /\ \A x \in Ages : x \in Nat /\ x < Past
    BY AgesAreFinite
  <2>2. \A x \in Ages : x # 0 => x - 1 \in Ages
    BY Bounds DEF Ages
  <2>3. \A x \in Ages : x + 1 # 0 /\ (x + 1) - 1 = x
    BY <2>1
  <2> QED
    BY <1>1, <2>1, <2>2, <2>3 DEF Older
<1>3. CASE n < 0
  <2>1. SumTo(B, n) = 0 /\ SumTo(A, n - 1) = 0
    BY <1>2, <1>3, SumNat
  <2> QED
    BY <1>1, <1>2, <2>1
<1>4. CASE n >= 0
  <2> DEFINE h == [x \in Ages |-> x + 1]
  <2>1. PICK S : S = {x \in UpTo(n - 1) : x + 1 \in Ages}
    OBVIOUS
  <2>2. S \in SUBSET UpTo(n - 1) /\ S \subseteq Ages
    BY <2>1 DEF UpTo
  <2>3. IsFiniteSet(S) /\ (\A x \in S : A[x] \in Int)
    <3>1. IsFiniteSet(UpTo(n - 1))
      BY AgesAreFinite
    <3> QED
      BY <2>2, <3>1, FS_Subset
  <2>4. \A x \in S : B[h[x]] = A[x]
    BY <1>2, <2>1, <2>2
  <2>5. \A x, y \in S : h[x] = h[y] => x = y
    <3>1. S \subseteq Nat
      BY <2>2, AgesAreFinite
    <3> QED
      BY <2>2, <3>1
  <2>6. PICK T : T = {h[x] : x \in S}
    OBVIOUS
  <2>7. Total(B, T) = Total(A, S)
    <3> HIDE DEF h
    <3> QED
      BY <2>3, <2>4, <2>5, <2>6, TotalImage
  <2>8. T \subseteq Ages /\ 0 \notin T /\ UpTo(n) = T \union {0}
    <3>1. T \subseteq Ages /\ 0 \notin T
      <4>1. \A x \in S : x \in Ages /\ x + 1 \in Ages
        BY <2>1, <2>2
      <4>2. \A x \in S : h[x] = x + 1
        BY <4>1
      <4>3. \A x \in S : x + 1 # 0
        BY <4>1, AgesAreFinite
      <4> HIDE DEF h
      <4> QED
        BY <2>6, <4>1, <4>2, <4>3
    <3>2. \A x \in S : x + 1 <= n
      BY <2>1, AgesAreFinite DEF UpTo
    <3>3. T \union {0} \subseteq UpTo(n)
      BY <1>2, <1>4, <2>2, <2>6, <3>1, <3>2 DEF UpTo
    <3>4. ASSUME NEW x \in UpTo(n), x # 0 PROVE x \in T
      <4>1. x \in Ages /\ x \in Nat /\ x <= n /\ x < Past
        BY Bounds DEF UpTo, Ages
      <4>2. x - 1 \in Ages /\ x - 1 <= n - 1 /\ (x - 1) + 1 = x
        BY <3>4, <4>1, Bounds DEF Ages
      <4>3. x - 1 \in S
        BY <2>1, <4>1, <4>2 DEF UpTo
      <4> QED
        BY <2>2, <2>6, <4>2, <4>3
    <3> QED
      BY <3>1, <3>3, <3>4
  <2>9. IsFiniteSet(T) /\ \A x \in T \union {0} : B[x] \in Int
    BY <1>2, <2>8, AgesAreFinite, FS_Subset
  <2>10. Total(B, T \union {0}) = B[0] + Total(B, T)
    BY <2>8, <2>9, TotalAdd
  <2>11. Total(A, S) \in Int
    BY <2>3, TotalUnfolds
  <2>12. SumTo(B, n) = Total(A, S)
    BY <1>2, <2>7, <2>8, <2>10, <2>11 DEF SumTo
  <2>13. Total(A, S) <= SumTo(A, n - 1)
    <3>1. IsFiniteSet(UpTo(n - 1)) /\ \A x \in UpTo(n - 1) : A[x] \in Nat
      BY AgesAreFinite
    <3> QED
      BY <2>2, <3>1, TotalGrows DEF SumTo
  <2>14. ASSUME n < Past PROVE S = UpTo(n - 1)
    <3>1. \A x \in UpTo(n - 1) : x + 1 \in Ages
      BY <2>14, Bounds DEF UpTo, Ages
    <3> QED
      BY <2>1, <3>1
  <2> QED
    BY <1>1, <1>2, <2>12, <2>13, <2>14 DEF SumTo
<1> QED
  BY <1>3, <1>4

----------------------------------------------------------------------------
(* A bucket, through gc, a call and a tick.                                *)

Buckets == [count : Nat, left : Int]
Events  == [Ages -> Nat]
OneMore(A) == [A EXCEPT ![0] = @ + 1]

LEMMA OneMoreEvents ==
  ASSUME NEW A \in Events
  PROVE  OneMore(A) \in Events /\ \A n \in Int : SumTo(OneMore(A), n) = SumTo(A, n) + IF n >= 0 THEN 1 ELSE 0
<1>1. OneMore(A) \in Events
  BY AgesAreFinite DEF Events, OneMore
<1>2. \A n \in Int : SumTo(OneMore(A), n) = SumTo(A, n) + IF n >= 0 THEN 1 ELSE 0
  BY SumAdmitted DEF Events, OneMore
<1> QED
  BY <1>1, <1>2

\* A bucket that is over for one caller may be deleted, or started again.
LEMMA BucketOver ==
  ASSUME NEW l \in Limiters, NEW b \in Buckets, NEW A \in Events, NEW lag \in 0..MaxLag,
         BucketOK(b, A, Window[l], Limit[l]), b = NoBucket \/ After(b.left, lag)
  PROVE  SumTo(A, Window[l] - MaxLag) <= Limit[l]
<1>1. PICK W \in Nat, L \in Nat, M \in Nat : W = Window[l] /\ L = Limit[l] /\ M = MaxLag
  BY Bounds
<1>2. CASE b = NoBucket
  BY <1>2 DEF BucketOK
<1>3. CASE b # NoBucket
  <2>1. PICK t \in Int : t = b.left /\ t + lag < 0
    BY <1>3 DEF After, Buckets
  <2>2. SumTo(A, W - t - M - 1) <= Spent(b.count, L)
    BY <1>1, <1>3, <2>1 DEF BucketOK
  <2>3. Spent(b.count, L) <= L /\ Spent(b.count, L) \in Nat
    BY DEF Spent, Buckets
  <2>4. W - M \in Int /\ W - t - M - 1 \in Int /\ W - M <= W - t - M - 1
    BY <1>1, <2>1
  <2>5. SumTo(A, W - M) <= SumTo(A, W - t - M - 1)
    BY <2>4, SumGrows DEF Events
  <2>6. SumTo(A, W - M) \in Nat /\ SumTo(A, W - t - M - 1) \in Nat
    BY <2>4, SumNat DEF Events
  <2> QED
    BY <1>1, <2>2, <2>3, <2>5, <2>6
<1> QED
  BY <1>2, <1>3

(* The invariant of a bucket is kept by a call: an event is admitted exactly when the
   bucket has counted no more than the limit.  A call is refused when the limit was
   admitted in the window.                                                   *)
LEMMA BucketCalled ==
  ASSUME NEW l \in Limiters, NEW b \in Buckets, NEW A \in Events, NEW lag \in 0..MaxLag,
         BucketOK(b, A, Window[l], Limit[l]),
         NEW c, c = BucketAfter(l, b, lag)
  PROVE  /\ c \in Buckets
         /\ c.count <= Limit[l] => BucketOK(c, OneMore(A), Window[l], Limit[l])
         /\ ~(c.count <= Limit[l]) => /\ BucketOK(c, A, Window[l], Limit[l])
                                      /\ SumTo(A, Window[l] + MaxLag) >= Limit[l]
         /\ c.left = Window[l] - lag \/ c.left = b.left
<1>1. PICK W \in Nat, L \in Nat, M \in Nat :
        W = Window[l] /\ L = Limit[l] /\ M = MaxLag /\ L < MaxCount /\ W > 0
  BY Bounds
<1> DEFINE B == IF c.count <= L THEN OneMore(A) ELSE A
           d == IF c.count <= L THEN 1 ELSE 0
<1>2. /\ B \in Events
      /\ \A n \in Int : SumTo(B, n) = SumTo(A, n) + IF n >= 0 THEN d ELSE 0
  <2>1. \A n \in Int : SumTo(A, n) \in Nat
    BY SumNat DEF Events
  <2> QED
    BY <2>1, OneMoreEvents
<1>3. \A n \in Int : SumTo(A, n) \in Nat /\ (n < 0 => SumTo(A, n) = 0)
  BY SumNat DEF Events
<1>4. lag \in Int /\ 0 <= lag /\ lag <= M
  BY <1>1
<1>5. ASSUME b = NoBucket \/ After(b.left, lag)
      PROVE  /\ c \in Buckets /\ BucketOK(c, B, W, L) /\ c.left = W - lag
             /\ ~(c.count <= L) => SumTo(A, W + M) >= L
  <2>1. c = [count |-> 1, left |-> W - lag]
    BY <1>1, <1>5 DEF BucketAfter
  <2>2. c \in Buckets /\ c # NoBucket /\ c.count = 1 /\ c.left = W - lag
    <3>1. c.count = 1
      BY <2>1
    <3>2. NoBucket.count = 0
      BY DEF NoBucket
    <3> QED
      BY <2>1, <3>1, <3>2, <1>4 DEF Buckets
  <2>3. SumTo(A, W - M) <= L
    BY <1>1, <1>5, BucketOver
  <2>4. Spent(1, L) = d
    BY <2>2 DEF Spent
  <2>5. SumTo(B, W - M) <= L + d
    BY <1>2, <1>3, <2>3
  <2>6. SumTo(B, W - (W - lag) - M - 1) <= d
    <3>1. PICK n \in Int : n = W - (W - lag) - M - 1 /\ n < 0
      BY <1>4
    <3>2. SumTo(B, n) = 0
      BY <1>2, <1>3, <3>1
    <3> QED
      BY <3>1, <3>2
  <2>7. SumTo(B, W - (W - lag)) >= d
    <3>1. PICK n \in Int : n = W - (W - lag) /\ n >= 0
      BY <1>4
    <3>2. SumTo(B, n) = SumTo(A, n) + d /\ SumTo(A, n) \in Nat
      BY <1>2, <1>3, <3>1
    <3> QED
      BY <3>1, <3>2
  <2>8. W - lag <= W
    BY <1>4
  <2>9. BucketOK(c, B, W, L)
    <3> HIDE DEF d, B
    <3> QED
      BY <2>2, <2>4, <2>5, <2>6, <2>7, <2>8, <1>1 DEF BucketOK
  <2>10. ~(c.count <= L) => L = 0
    BY <2>2
  <2>11. SumTo(A, W + M) \in Nat
    BY <1>3
  <2> QED
    BY <2>2, <2>9, <2>10, <2>11
<1>6. ASSUME ~(b = NoBucket \/ After(b.left, lag))
      PROVE  /\ c \in Buckets /\ BucketOK(c, B, W, L) /\ c.left = b.left
             /\ ~(c.count <= L) => SumTo(A, W + M) >= L
  <2>1. PICK n \in Nat, t \in Int : n = b.count /\ t = b.left /\ t >= -M
    BY <1>4, <1>6 DEF After, Buckets
  <2>2. c = [b EXCEPT !.count = Count(@ + 1)]
    BY <1>6 DEF BucketAfter
  <2>3. c.count = (IF n + 1 <= MaxCount THEN n + 1 ELSE MaxCount) /\ c.left = t /\ c \in Buckets
    BY <2>1, <2>2, Counted DEF Buckets
  <2>4. /\ n >= 1 /\ t <= W
        /\ SumTo(A, W - M) <= L + Spent(n, L)
        /\ SumTo(A, W - t - M - 1) <= Spent(n, L)
        /\ SumTo(A, W - t) >= Spent(n, L)
    BY <1>1, <1>6, <2>1 DEF BucketOK
  <2>5. MaxCount \in Nat
    BY Bounds
  <2>6. Spent(c.count, L) = Spent(n, L) + d /\ Spent(n, L) \in Nat /\ c.count >= 1 /\ d \in 0..1
    <3>1. PICK m \in Nat : m = c.count
      BY <2>3 DEF Buckets
    <3>2. m = IF n + 1 <= MaxCount THEN n + 1 ELSE MaxCount
      BY <2>3, <3>1
    <3>3. CASE n + 1 <= L
      <4>1. m = n + 1 /\ m <= L /\ n <= L
        BY <1>1, <2>5, <3>2, <3>3
      <4> QED
        BY <2>4, <3>1, <4>1 DEF Spent
    <3>4. CASE ~(n + 1 <= L)
      <4>1. ~(m <= L) /\ n >= L /\ m >= 1
        BY <1>1, <2>5, <3>2, <3>4
      <4>2. Spent(n, L) = L /\ Spent(m, L) = L
        BY <4>1 DEF Spent
      <4> QED
        BY <3>1, <4>1, <4>2
    <3> QED
      BY <3>3, <3>4
  <2>7. c # NoBucket
    <3>1. NoBucket.count = 0
      BY DEF NoBucket
    <3> QED
      BY <2>6, <3>1
  <2>8. SumTo(B, W - M) <= L + (Spent(n, L) + d)
    <3>1. PICK i \in Int : i = W - M
      OBVIOUS
    <3>2. SumTo(B, i) = SumTo(A, i) + (IF i >= 0 THEN d ELSE 0) /\ SumTo(A, i) \in Nat
      BY <1>2, <1>3
    <3> HIDE DEF d, B
    <3> QED
      BY <2>4, <2>6, <3>1, <3>2
  <2>9. SumTo(B, W - t - M - 1) <= Spent(n, L) + d
    <3>1. PICK i \in Int : i = W - t - M - 1
      OBVIOUS
    <3>2. SumTo(B, i) = SumTo(A, i) + (IF i >= 0 THEN d ELSE 0) /\ SumTo(A, i) \in Nat
      BY <1>2, <1>3
    <3> HIDE DEF d, B
    <3> QED
      BY <2>4, <2>6, <3>1, <3>2
  <2>10. SumTo(B, W - t) >= Spent(n, L) + d
    <3>1. PICK i \in Int : i = W - t /\ i >= 0
      BY <2>4
    <3>2. SumTo(B, i) = SumTo(A, i) + d /\ SumTo(A, i) \in Nat
      BY <1>2, <1>3, <3>1
    <3> HIDE DEF d, B
    <3> QED
      BY <2>4, <2>6, <3>1, <3>2
  <2>11. BucketOK(c, B, W, L)
    <3> HIDE DEF d, B
    <3> QED
      BY <1>1, <2>3, <2>4, <2>6, <2>7, <2>8, <2>9, <2>10 DEF BucketOK
  <2>12. ~(c.count <= L) => SumTo(A, W + M) >= L
    <3>1. W - t <= W + M /\ W - t \in Int /\ W + M \in Int
      BY <2>1
    <3>2. SumTo(A, W - t) <= SumTo(A, W + M)
      BY <3>1, SumGrows DEF Events
    <3>3. ~(c.count <= L) => Spent(n, L) = L
      BY <1>1, <2>3, <2>5 DEF Spent
    <3>4. SumTo(A, W - t) \in Nat /\ SumTo(A, W + M) \in Nat
      BY <1>3, <3>1
    <3> QED
      BY <2>4, <3>2, <3>3, <3>4
  <2> QED
    BY <2>1, <2>3, <2>11, <2>12
<1> QED
  BY <1>1, <1>5, <1>6

\* The bucket a tick leaves.
AgedBucket(b) == IF b = NoBucket THEN NoBucket ELSE [b EXCEPT !.left = Max({@ - 1, -Past})]

LEMMA BucketOlder ==
  ASSUME NEW l \in Limiters, NEW b \in Buckets, NEW A \in Events,
         BucketOK(b, A, Window[l], Limit[l])
  PROVE  /\ AgedBucket(b) \in Buckets /\ Older(A) \in Events
         /\ BucketOK(AgedBucket(b), Older(A), Window[l], Limit[l])
<1>1. PICK W \in Nat, L \in Nat, M \in Nat, P \in Nat :
        W = Window[l] /\ L = Limit[l] /\ M = MaxLag /\ P = Past /\ W + M < P
  BY Bounds
<1>2. PICK B \in Events : B = Older(A)
  BY SumOlder DEF Events
<1>3. \A n \in Int : SumTo(B, n) \in Nat /\ SumTo(A, n) \in Nat
  BY SumNat DEF Events
<1>4. \A n \in Int : SumTo(B, n) <= SumTo(A, n - 1) /\ (n < P => SumTo(B, n) = SumTo(A, n - 1))
  BY <1>1, <1>2, SumOlder DEF Events
<1>5. \A m, n \in Int : m - 1 <= n => SumTo(B, m) <= SumTo(A, n)
  <2> SUFFICES ASSUME NEW m \in Int, NEW n \in Int, m - 1 <= n
               PROVE  SumTo(B, m) <= SumTo(A, n)
    OBVIOUS
  <2>1. PICK i \in Int : i = m - 1
    OBVIOUS
  <2>2. SumTo(A, i) <= SumTo(A, n)
    BY <2>1, SumGrows DEF Events
  <2>3. SumTo(B, m) <= SumTo(A, i)
    BY <1>4, <2>1
  <2>4. SumTo(B, m) \in Nat /\ SumTo(A, i) \in Nat /\ SumTo(A, n) \in Nat
    BY <1>3
  <2> QED
    BY <2>2, <2>3, <2>4
<1>6. CASE b = NoBucket
  <2>1. SumTo(A, W - M) <= L
    BY <1>1, <1>6 DEF BucketOK
  <2>2. SumTo(B, W - M) <= SumTo(A, W - M)
    BY <1>5
  <2>3. SumTo(B, W - M) <= L
    BY <1>3, <2>1, <2>2
  <2>4. AgedBucket(b) = NoBucket /\ NoBucket \in Buckets
    BY <1>6 DEF AgedBucket, NoBucket, Buckets
  <2> QED
    BY <1>1, <1>2, <2>3, <2>4 DEF BucketOK
<1>7. CASE b # NoBucket
  <2>1. PICK n \in Nat, t \in Int : n = b.count /\ t = b.left
    BY DEF Buckets
  <2>2. /\ n >= 1 /\ t <= W
        /\ SumTo(A, W - M) <= L + Spent(n, L)
        /\ SumTo(A, W - t - M - 1) <= Spent(n, L)
        /\ t >= -M => SumTo(A, W - t) >= Spent(n, L)
    BY <1>1, <1>7, <2>1 DEF BucketOK
  <2>3. PICK u \in Int : u = Max({t - 1, -P}) /\ u = IF t - 1 <= -P THEN -P ELSE t - 1
    BY OfTwo
  <2>4. PICK c : c = AgedBucket(b)
    OBVIOUS
  <2>5. c = [b EXCEPT !.left = u]
    BY <1>1, <1>7, <2>1, <2>3, <2>4 DEF AgedBucket
  <2>6. c \in Buckets /\ c.count = n /\ c.left = u /\ c # NoBucket
    <3>1. c \in Buckets /\ c.count = n /\ c.left = u
      BY <2>1, <2>5 DEF Buckets
    <3>2. NoBucket.count = 0
      BY DEF NoBucket
    <3> QED
      BY <2>2, <3>1, <3>2
  <2>7. Spent(n, L) \in Nat
    BY DEF Spent
  <2>8. SumTo(B, W - M) <= L + Spent(n, L)
    <3>1. SumTo(B, W - M) <= SumTo(A, W - M)
      BY <1>5
    <3> QED
      BY <1>3, <2>2, <2>7, <3>1
  <2>9. SumTo(B, W - u - M - 1) <= Spent(n, L)
    <3>1. (W - u - M - 1) - 1 <= W - t - M - 1
      BY <2>3
    <3>2. W - u - M - 1 \in Int /\ W - t - M - 1 \in Int
      OBVIOUS
    <3>3. SumTo(B, W - u - M - 1) <= SumTo(A, W - t - M - 1)
      BY <1>5, <3>1, <3>2
    <3>4. SumTo(B, W - u - M - 1) \in Nat /\ SumTo(A, W - t - M - 1) \in Nat
      BY <1>3, <3>2
    <3> QED
      BY <2>2, <2>7, <3>3, <3>4
  <2>10. u <= W
    BY <2>2, <2>3
  <2>11. ASSUME u >= -M PROVE SumTo(B, W - u) >= Spent(n, L)
    <3>1. u = t - 1 /\ t >= -M /\ W - u < P
      BY <1>1, <2>3, <2>11
    <3>2. PICK i \in Int : i = W - u /\ i - 1 = W - t
      BY <3>1
    <3>3. SumTo(B, i) = SumTo(A, i - 1)
      BY <1>4, <3>1, <3>2
    <3> QED
      BY <2>2, <3>1, <3>2, <3>3
  <2> QED
    BY <1>1, <1>2, <2>4, <2>6, <2>8, <2>9, <2>10, <2>11, <2>2 DEF BucketOK
<1> QED
  BY <1>6, <1>7

----------------------------------------------------------------------------
(* A counter of Redis, through a call and a tick.                          *)

Counters == [n : Nat, ttl : Int]

\* The script counts every run, up to the bound, and sets the time to live once.
LEMMA ScriptCounts ==
  ASSUME NEW l \in Limiters, NEW c \in Counters, NEW times \in 1..MaxTries,
         NEW e, e = ScriptTimes(l, c, times)
  PROVE  /\ e \in Counters /\ e.n >= 1
         /\ e.ttl = IF c = NoCounter THEN Window[l] ELSE c.ttl
         /\ \A L \in Nat : L < MaxCount => /\ Spent(e.n, L) >= Spent(c.n, L)
                                           /\ e.n <= L => e.n >= c.n + 1
<1>1. PICK K \in Nat : K = MaxCount /\ K >= 1
  <2>1. "login" \in Limiters
    BY RateLimitAssumption
  <2> QED
    BY <2>1, Bounds
<1>2. PICK t \in Nat : t = times /\ t >= 1 /\ times # 0
  BY RateLimitAssumption
<1>3. PICK n \in Nat : n = c.n
  BY DEF Counters
<1>4. PICK f : f = Script(l, c)
  OBVIOUS
<1>5. f \in Counters /\ (f.n = IF n + 1 <= K THEN n + 1 ELSE K) /\ (f.ttl = IF c = NoCounter THEN Window[l] ELSE c.ttl)
  <2>1. CASE c = NoCounter
    <3>1. f = [n |-> 1, ttl |-> Window[l]]
      BY <1>4, <2>1 DEF Script
    <3>2. n = 0
      BY <1>3, <2>1 DEF NoCounter
    <3>3. Window[l] \in Int
      BY Bounds
    <3> QED
      BY <1>1, <2>1, <3>1, <3>2, <3>3 DEF Counters
  <2>2. CASE c # NoCounter
    <3>1. f = [c EXCEPT !.n = Count(@ + 1)]
      BY <1>4, <2>2 DEF Script
    <3>2. Count(n + 1) = (IF n + 1 <= K THEN n + 1 ELSE K)
      BY <1>1, Counted
    <3> QED
      BY <1>1, <1>3, <2>2, <3>1, <3>2 DEF Counters
  <2> QED
    BY <2>1, <2>2
<1>6. PICK m \in Nat : m = f.n /\ m >= 1
  BY <1>1, <1>5
<1>7. e = [f EXCEPT !.n = Count(@ + t - 1)]
  BY <1>2, <1>4 DEF ScriptTimes
<1>8. m + t - 1 \in Nat
  BY <1>2, <1>6
<1>9. PICK q \in Nat : q = Count(m + t - 1) /\ q = IF m + t - 1 <= K THEN m + t - 1 ELSE K
  BY <1>1, <1>8, Counted
<1>10. e \in Counters /\ e.n = q /\ e.ttl = f.ttl
  BY <1>5, <1>6, <1>7, <1>9 DEF Counters
<1>11. q >= 1
  BY <1>1, <1>2, <1>6, <1>9
<1>12. ASSUME NEW L \in Nat, L < K PROVE Spent(q, L) >= Spent(n, L) /\ (q <= L => q >= n + 1)
  <2>1. m = IF n + 1 <= K THEN n + 1 ELSE K
    BY <1>5, <1>6
  <2>2. CASE q <= L
    <3>1. q = m + t - 1 /\ m <= q /\ m < K
      BY <1>2, <1>9, <1>12, <2>2
    <3>2. m = n + 1
      BY <2>1, <3>1
    <3> QED
      BY <2>2, <3>1, <3>2 DEF Spent
  <2>3. CASE ~(q <= L)
    BY <2>3 DEF Spent
  <2> QED
    BY <2>2, <2>3
<1> QED
  BY <1>1, <1>3, <1>5, <1>10, <1>11, <1>12

(* A call keeps the invariant of its counter for every limiter with the same window that
   counts there, whether it admits an event of that limiter or not.          *)
LEMMA CounterCalled ==
  ASSUME NEW l \in Limiters, NEW m \in Limiters, Window[l] = Window[m],
         NEW c \in Counters, NEW A \in Events, CounterOK(c, A, Window[m], Limit[m]),
         NEW times \in 1..MaxTries, NEW e, e = ScriptTimes(l, c, times),
         NEW B, B = A \/ (e.n <= Limit[m] /\ B = OneMore(A))
  PROVE  CounterOK(e, B, Window[m], Limit[m])
<1>1. PICK W \in Nat, L \in Nat : W = Window[m] /\ L = Limit[m] /\ L < MaxCount /\ W > 0
  BY Bounds
<1>2. PICK d \in 0..1 :
        /\ d = 1 => e.n <= L
        /\ \A i \in Int : i >= 0 => SumTo(B, i) = SumTo(A, i) + d
  <2>1. \A i \in Int : SumTo(A, i) \in Nat
    BY SumNat DEF Events
  <2>2. CASE B = A
    BY <2>1, <2>2
  <2>3. CASE e.n <= Limit[m] /\ B = OneMore(A)
    BY <1>1, <2>1, <2>3, OneMoreEvents
  <2> QED
    BY <2>2, <2>3
<1>3. \A i \in Int : SumTo(A, i) \in Nat
  BY SumNat DEF Events
<1>4. PICK n \in Nat, q \in Nat : n = c.n /\ q = e.n /\ q >= 1
  BY ScriptCounts DEF Counters
<1>5. Spent(q, L) >= Spent(n, L) /\ (q <= L => q >= n + 1)
  BY <1>1, <1>4, ScriptCounts
<1>6. Spent(q, L) >= Spent(n, L) + d
  BY <1>2, <1>4, <1>5 DEF Spent
<1>7. Spent(q, L) \in Nat /\ Spent(n, L) \in Nat
  BY DEF Spent
<1>8. e # NoCounter
  <2>1. NoCounter.n = 0
    BY DEF NoCounter
  <2> QED
    BY <1>4, <2>1
<1>9. CASE c = NoCounter
  <2>1. SumTo(A, W) <= L /\ SumTo(A, 0) = 0
    BY <1>1, <1>9 DEF CounterOK
  <2>2. e.ttl = W /\ n = 0
    BY <1>1, <1>4, <1>9, ScriptCounts DEF NoCounter
  <2>3. Spent(n, L) = 0
    BY <2>2 DEF Spent
  <2>4. SumTo(B, W) <= L + Spent(q, L)
    BY <1>2, <1>3, <1>6, <1>7, <2>1, <2>3
  <2>5. W - W = 0 /\ SumTo(B, 0) <= Spent(q, L)
    BY <1>2, <1>6, <2>1, <2>3
  <2> QED
    BY <1>1, <1>4, <1>8, <2>2, <2>4, <2>5 DEF CounterOK
<1>10. CASE c # NoCounter
  <2>1. PICK t \in 1..W : t = c.ttl /\ t = e.ttl
    BY <1>1, <1>10, ScriptCounts DEF CounterOK
  <2>2. SumTo(A, W) <= L + Spent(n, L) /\ SumTo(A, W - t) <= Spent(n, L)
    BY <1>1, <1>4, <1>10, <2>1 DEF CounterOK
  <2>3. SumTo(B, W) <= L + Spent(q, L)
    BY <1>2, <1>3, <1>6, <1>7, <2>2
  <2>4. SumTo(B, W - t) <= Spent(q, L)
    <3>1. PICK i \in Int : i = W - t /\ i >= 0
      OBVIOUS
    <3>2. SumTo(B, i) = SumTo(A, i) + d /\ SumTo(A, i) \in Nat
      BY <1>2, <1>3, <3>1
    <3> QED
      BY <1>6, <1>7, <2>2, <3>1, <3>2
  <2> QED
    BY <1>1, <1>4, <1>8, <2>1, <2>3, <2>4 DEF CounterOK
<1> QED
  BY <1>9, <1>10

LEMMA CounterOlder ==
  ASSUME NEW l \in Limiters, NEW c \in Counters, NEW A \in Events,
         CounterOK(c, A, Window[l], Limit[l])
  PROVE  CounterOK(Aged(c), Older(A), Window[l], Limit[l])
<1>1. PICK W \in Nat, L \in Nat : W = Window[l] /\ L = Limit[l] /\ W > 0
  BY Bounds
<1>2. PICK B \in Events : B = Older(A)
  BY SumOlder DEF Events
<1>3. \A n \in Int : SumTo(B, n) \in Nat /\ SumTo(A, n) \in Nat
  BY SumNat DEF Events
<1>4. \A n \in Int : SumTo(B, n) <= SumTo(A, n - 1)
  BY <1>2, SumOlder DEF Events
<1>5. SumTo(B, W) <= SumTo(A, W)
  <2>1. PICK i \in Int : i = W - 1 /\ i <= W
    OBVIOUS
  <2>2. SumTo(A, i) <= SumTo(A, W)
    BY <2>1, SumGrows DEF Events
  <2>3. SumTo(B, W) <= SumTo(A, i)
    BY <1>4, <2>1
  <2> QED
    BY <1>3, <2>2, <2>3
<1>6. SumTo(B, 0) = 0
  <2>1. PICK i \in Int : i = 0 - 1 /\ i < 0
    OBVIOUS
  <2>2. SumTo(A, i) = 0
    BY <2>1, SumNat DEF Events
  <2> QED
    BY <1>3, <1>4, <2>1, <2>2
<1>7. CASE c = NoCounter
  <2>1. Aged(c) = NoCounter
    BY <1>7 DEF Aged, NoCounter
  <2>2. SumTo(A, W) <= L
    BY <1>1, <1>7 DEF CounterOK
  <2> QED
    BY <1>1, <1>2, <1>3, <1>5, <1>6, <2>1, <2>2 DEF CounterOK
<1>8. CASE c # NoCounter
  <2>1. PICK t \in 1..W, n \in Nat : t = c.ttl /\ n = c.n /\ n >= 1
    BY <1>1, <1>8 DEF CounterOK, Counters
  <2>2. /\ SumTo(A, W) <= L + Spent(n, L) /\ SumTo(A, W - t) <= Spent(n, L)
        /\ Spent(n, L) \in Nat /\ Spent(n, L) <= L
    BY <1>1, <1>8, <2>1 DEF CounterOK, Spent
  <2>3. CASE t = 1
    <3>1. Aged(c) = NoCounter
      BY <2>1, <2>3 DEF Aged
    <3>2. PICK i \in Int : i = W - 1
      OBVIOUS
    <3>3. SumTo(B, W) <= SumTo(A, i) /\ SumTo(A, i) <= Spent(n, L)
      BY <1>4, <2>2, <2>3, <3>2
    <3>4. SumTo(B, W) <= L
      BY <1>3, <2>2, <3>3
    <3> QED
      BY <1>1, <1>2, <1>6, <3>1, <3>4 DEF CounterOK
  <2>4. CASE t # 1
    <3>1. PICK e : e = Aged(c)
      OBVIOUS
    <3>2. e = [c EXCEPT !.ttl = t - 1]
      BY <2>1, <2>4, <3>1 DEF Aged
    <3>3. e.n = n /\ e.ttl = t - 1 /\ t - 1 \in 1..W
      BY <2>1, <2>4, <3>2 DEF Counters
    <3>4. e # NoCounter
      <4>1. NoCounter.n = 0
        BY DEF NoCounter
      <4> QED
        BY <2>1, <3>3, <4>1
    <3>5. SumTo(B, W) <= L + Spent(n, L)
      BY <1>3, <1>5, <2>2
    <3>6. SumTo(B, W - (t - 1)) <= Spent(n, L)
      <4>1. PICK i \in Int : i = W - (t - 1) /\ i - 1 = W - t
        OBVIOUS
      <4>2. SumTo(B, i) <= SumTo(A, i - 1)
        BY <1>4
      <4>3. SumTo(B, i) \in Nat /\ SumTo(A, i - 1) \in Nat
        BY <1>3
      <4> QED
        BY <2>2, <4>1, <4>2, <4>3
    <3> QED
      BY <1>1, <1>2, <2>1, <3>1, <3>3, <3>4, <3>5, <3>6 DEF CounterOK
  <2> QED
    BY <2>3, <2>4
<1> QED
  BY <1>7, <1>8

----------------------------------------------------------------------------
(* The invariant.                                                          *)

IInv == TypeOK /\ BucketsOK /\ CountersOK

LEMMA TypeOKFacts ==
  ASSUME TypeOK
  PROVE  /\ backend \in {"memory", "redis"} /\ backend \in Backends /\ Traffic[backend] \subseteq Limiters
         /\ upFor \in 0..MaxLag /\ (0..upFor) \subseteq 0..MaxLag
         /\ \A l \in Limiters, k \in Keys : buckets[l][k] \in Buckets /\ admitted[l][k] \in Events
         /\ \A k \in Keys : counters[k] \in Counters
<1>1. backend \in Backends /\ upFor \in 0..MaxLag /\ MaxLag \in Nat
  BY Bounds DEF TypeOK
<1>2. Backends \subseteq {"memory", "redis"} /\ Traffic[backend] \subseteq Limiters
  BY <1>1, RateLimitAssumption
<1>3. (0..upFor) \subseteq 0..MaxLag
  BY <1>1
<1>4. /\ \A l \in Limiters, k \in Keys : buckets[l][k] \in Buckets /\ admitted[l][k] \in Events
      /\ \A k \in Keys : counters[k] \in Counters
  BY DEF TypeOK, Buckets, Events, Counters
<1> QED
  BY <1>1, <1>2, <1>3, <1>4

LEMMA InitInvariant == Init => IInv
<1> SUFFICES ASSUME Init PROVE IInv
  OBVIOUS
<1>1. PICK z : z = [age \in Ages |-> 0]
  OBVIOUS
<1>2. z \in [Ages -> Nat] /\ \A n \in Int : SumTo(z, n) = 0
  <2>1. z \in [Ages -> Nat] /\ \A x \in Ages : z[x] = 0
    BY <1>1
  <2>2. ASSUME NEW n \in Int PROVE SumTo(z, n) = 0
    <3> DEFINE G == {U \in SUBSET UpTo(n) : Total(z, U) = 0}
    <3>1. {} \in G
      <4>1. Total(z, {}) = 0
        BY FS_EmptySet, TotalUnfolds
      <4> QED
        BY <4>1
    <3>2. ASSUME NEW U \in SUBSET UpTo(n), U \in G, NEW x \in UpTo(n) \ U PROVE U \union {x} \in G
      <4>1. IsFiniteSet(U) /\ U \union {x} \in SUBSET UpTo(n) /\ UpTo(n) \subseteq Ages
        BY AgesAreFinite, FS_Subset
      <4>2. \A y \in U \union {x} : z[y] = 0
        BY <2>1, <4>1
      <4>3. \A y \in U \union {x} : z[y] \in Int
        BY <4>2
      <4>4. x \notin U /\ IsFiniteSet(U)
        BY <4>1
      <4>5. Total(z, U \union {x}) = z[x] + Total(z, U)
        BY <4>3, <4>4, TotalAdd
      <4> QED
        BY <3>2, <4>1, <4>2, <4>5
    <3>3. IsFiniteSet(UpTo(n))
      BY AgesAreFinite
    <3> HIDE DEF G
    <3>4. UpTo(n) \in G
      BY <3>1, <3>2, <3>3, EveryFiniteSet
    <3> QED
      BY <3>4 DEF G, SumTo
  <2> QED
    BY <2>1, <2>2
<1>3. \A l \in Limiters, k \in Keys :
        buckets[l][k] = NoBucket /\ counters[k] = NoCounter /\ admitted[l][k] = z
  BY <1>1 DEF Init, NoBuckets, NoCounters, NoneYet
<1>4. TypeOK
  BY <1>1, <1>2, Bounds DEF Init, TypeOK, NoBuckets, NoCounters, NoneYet, NeverGC, NoBucket, NoCounter
<1>5. \A l \in Limiters : Window[l] \in Int /\ Window[l] - MaxLag \in Int /\ 0 <= Limit[l]
  BY Bounds
<1>6. BucketsOK
  BY <1>2, <1>3, <1>5 DEF BucketsOK, BucketOK
<1>7. CountersOK
  BY <1>2, <1>3, <1>5, KeysAreKeys DEF CountersOK, CounterOK
<1> QED
  BY <1>4, <1>6, <1>7 DEF IInv

\* What a call of the memory limiter does to the buckets of its limiter.
LEMMA CollectedOK ==
  ASSUME IInv, backend = "memory", NEW l \in Limiters, NEW lag \in 0..MaxLag
  PROVE  \A k \in Keys : /\ Collected(l, lag)[k] \in Buckets
                         /\ BucketOK(Collected(l, lag)[k], admitted[l][k], Window[l], Limit[l])
<1> SUFFICES ASSUME NEW k \in Keys
             PROVE  /\ Collected(l, lag)[k] \in Buckets
                    /\ BucketOK(Collected(l, lag)[k], admitted[l][k], Window[l], Limit[l])
  OBVIOUS
<1>1. PICK b \in Buckets, A \in Events : b = buckets[l][k] /\ A = admitted[l][k]
  BY TypeOKFacts DEF IInv
<1>2. BucketOK(b, A, Window[l], Limit[l])
  BY <1>1 DEF IInv, BucketsOK
<1>3. Collected(l, lag)[k] = b \/ (Collected(l, lag)[k] = NoBucket /\ After(b.left, lag))
  BY <1>1 DEF Collected
<1>4. NoBucket \in Buckets
  BY DEF NoBucket, Buckets
<1>5. After(b.left, lag) => BucketOK(NoBucket, A, Window[l], Limit[l])
  BY <1>2, BucketOver DEF BucketOK
<1> QED
  BY <1>1, <1>2, <1>3, <1>4, <1>5

LEMMA AllowMemoryKeeps ==
  ASSUME IInv, backend = "memory", NEW l \in Limiters, NEW k \in KeysOf(l), NEW v,
         NEW lag \in 0..upFor, AllowMemory(l, k, lag, v),
         IF v = "admit" THEN Admit(l, k) ELSE UNCHANGED admitted, UNCHANGED <<backend, upFor>>
  PROVE  IInv' /\ (v = "refuse" => SumTo(admitted[l][k], Window[l] + MaxLag) >= Limit[l])
<1>1. lag \in 0..MaxLag /\ k \in Keys /\ lag \in Nat
  BY TypeOKFacts, KeysAreKeys, Bounds DEF IInv
<1>2. PICK kept : kept = Collected(l, lag)
  OBVIOUS
<1>3. \A j \in Keys : kept[j] \in Buckets /\ BucketOK(kept[j], admitted[l][j], Window[l], Limit[l])
  BY <1>1, <1>2, CollectedOK
<1>4. PICK A \in Events : A = admitted[l][k]
  BY <1>1, TypeOKFacts DEF IInv
<1>5. PICK b : b = BucketAfter(l, kept[k], lag)
  OBVIOUS
<1>6. /\ b \in Buckets
      /\ b.count <= Limit[l] => BucketOK(b, OneMore(A), Window[l], Limit[l])
      /\ ~(b.count <= Limit[l]) => /\ BucketOK(b, A, Window[l], Limit[l])
                                   /\ SumTo(A, Window[l] + MaxLag) >= Limit[l]
  BY <1>1, <1>3, <1>4, <1>5, BucketCalled
<1>7. /\ buckets' = [buckets EXCEPT ![l] = [kept EXCEPT ![k] = b]]
      /\ gcAge' = gcAge \/ gcAge' = [gcAge EXCEPT ![l] = lag]
      /\ v = IF b.count <= Limit[l] THEN "admit" ELSE "refuse"
      /\ counters' = counters
  BY <1>2, <1>5 DEF AllowMemory
<1>8. kept \in [Keys -> Buckets]
  <2>1. kept = [j \in Keys |-> kept[j]]
    BY <1>2 DEF Collected
  <2> QED
    BY <1>3, <2>1
<1>9. PICK B : B = IF b.count <= Limit[l] THEN OneMore(A) ELSE A
  OBVIOUS
<1>10. B \in Events /\ BucketOK(b, B, Window[l], Limit[l])
  BY <1>6, <1>9, OneMoreEvents
<1>11. admitted \in [Limiters -> [Keys -> Events]] /\ buckets \in [Limiters -> [Keys -> Buckets]]
  BY DEF IInv, TypeOK, Events, Buckets
<1>12. admitted' = [admitted EXCEPT ![l][k] = B]
  <2>1. CASE b.count <= Limit[l]
    BY <1>4, <1>7, <1>9, <2>1 DEF Admit, OneMore
  <2>2. CASE ~(b.count <= Limit[l])
    BY <1>1, <1>4, <1>7, <1>9, <1>11, <2>2
  <2> QED
    BY <2>1, <2>2
<1>13. TypeOK'
  <2>1. admitted' \in [Limiters -> [Keys -> Events]] /\ buckets' \in [Limiters -> [Keys -> Buckets]]
    BY <1>1, <1>6, <1>7, <1>8, <1>10, <1>11, <1>12
  <2>2. gcAge' \in [Limiters -> Nat]
    BY <1>1, <1>7 DEF IInv, TypeOK
  <2> QED
    BY <1>7, <2>1, <2>2 DEF IInv, TypeOK, Events, Buckets
<1>14. \A m \in Limiters, j \in Keys :
         /\ buckets'[m][j] = IF m = l THEN IF j = k THEN b ELSE kept[j] ELSE buckets[m][j]
         /\ admitted'[m][j] = IF m = l /\ j = k THEN B ELSE admitted[m][j]
  BY <1>1, <1>7, <1>8, <1>11, <1>12
<1>15. \A m \in Limiters, j \in Keys : BucketOK(buckets[m][j], admitted[m][j], Window[m], Limit[m])
  BY DEF IInv, BucketsOK
<1>16. \A m \in Limiters, j \in Keys : BucketOK(buckets'[m][j], admitted'[m][j], Window[m], Limit[m])
  BY <1>3, <1>10, <1>14, <1>15
<1>17. backend' = "memory"
  OBVIOUS
<1> QED
  BY <1>4, <1>6, <1>7, <1>13, <1>16, <1>17 DEF IInv, BucketsOK, CountersOK

LEMMA AllowRedisKeeps ==
  ASSUME IInv, backend = "redis", NEW l \in Limiters, NEW k \in KeysOf(l), NEW v,
         NEW times \in 0..MaxTries, NEW heard \in BOOLEAN, AllowRedis(l, k, times, heard, v),
         IF v = "admit" THEN Admit(l, k) ELSE UNCHANGED admitted, UNCHANGED <<backend, upFor>>
  PROVE  IInv'
<1>1. k \in Keys /\ backend' = "redis"
  BY KeysAreKeys
<1>2. PICK c \in Counters, A \in Events : c = counters[k] /\ A = admitted[l][k]
  BY <1>1, TypeOKFacts DEF IInv
<1>3. PICK e : e = ScriptTimes(l, c, times)
  OBVIOUS
<1>4. /\ heard => times > 0
      /\ counters' = [counters EXCEPT ![k] = e]
      /\ v = IF ~heard THEN "error" ELSE IF e.n <= Limit[l] THEN "admit" ELSE "refuse"
      /\ buckets' = buckets /\ gcAge' = gcAge
  BY <1>2, <1>3, RateLimitAssumption DEF AllowRedis
<1>5. e \in Counters /\ (times = 0 => e = c) /\ (times # 0 => times \in 1..MaxTries)
  <2>1. MaxTries \in Nat
    BY RateLimitAssumption
  <2>2. CASE times = 0
    BY <1>3, <2>2 DEF ScriptTimes
  <2>3. CASE times # 0
    <3>1. times \in 1..MaxTries
      BY <2>1, <2>3
    <3> QED
      BY <1>3, <2>3, <3>1, ScriptCounts
  <2> QED
    BY <2>2, <2>3
<1>6. admitted \in [Limiters -> [Keys -> Events]] /\ counters \in [Keys -> Counters]
  BY DEF IInv, TypeOK, Events, Counters
<1>7. PICK B : B = IF v = "admit" THEN OneMore(A) ELSE A
  OBVIOUS
<1>8. B \in Events /\ admitted' = [admitted EXCEPT ![l][k] = B]
  <2>1. CASE v = "admit"
    BY <1>2, <1>7, <2>1, OneMoreEvents DEF Admit, OneMore
  <2>2. CASE v # "admit"
    BY <1>1, <1>2, <1>6, <1>7, <2>2
  <2> QED
    BY <2>1, <2>2
<1>9. TypeOK'
  <2>1. admitted' \in [Limiters -> [Keys -> Events]] /\ counters' \in [Keys -> Counters]
    BY <1>1, <1>4, <1>5, <1>6, <1>8
  <2> QED
    BY <1>4, <2>1 DEF IInv, TypeOK, Events, Counters
<1>10. SharedWindows => \A m \in Limiters : \A j \in KeysOf(m) :
         /\ j \in Keys /\ CounterOK(counters[j], admitted[m][j], Window[m], Limit[m])
         /\ admitted[m][j] \in Events
  BY KeysAreKeys, TypeOKFacts DEF IInv, CountersOK
<1>11. \A m \in Limiters, j \in Keys :
         /\ counters'[j] = IF j = k THEN e ELSE counters[j]
         /\ admitted'[m][j] = IF m = l /\ j = k THEN B ELSE admitted[m][j]
  BY <1>1, <1>4, <1>6, <1>8
<1>12. ASSUME SharedWindows, NEW m \in Limiters, k \in KeysOf(m)
       PROVE  CounterOK(e, admitted'[m][k], Window[m], Limit[m])
  <2>1. Window[l] = Window[m]
    BY <1>12 DEF SharedWindows
  <2>2. PICK C \in Events : C = admitted[m][k] /\ CounterOK(c, C, Window[m], Limit[m])
    BY <1>2, <1>10, <1>12
  <2>3. PICK D : D = admitted'[m][k] /\ (D = C \/ (v = "admit" /\ m = l /\ D = OneMore(C)))
    BY <1>1, <1>2, <1>7, <1>11, <2>2
  <2>4. v = "admit" => times # 0 /\ e.n <= Limit[l]
    BY <1>4
  <2>5. CASE times = 0
    BY <1>5, <2>2, <2>3, <2>4, <2>5
  <2>6. CASE times # 0
    <3>1. D = C \/ (e.n <= Limit[m] /\ D = OneMore(C))
      BY <2>3, <2>4
    <3> QED
      BY <1>3, <1>5, <2>1, <2>2, <2>3, <2>6, <3>1, CounterCalled
  <2> QED
    BY <2>5, <2>6
<1>13. SharedWindows => \A m \in Limiters : \A j \in KeysOf(m) :
         CounterOK(counters'[j], admitted'[m][j], Window[m], Limit[m])
  BY <1>10, <1>11, <1>12
<1> QED
  BY <1>1, <1>9, <1>13 DEF IInv, BucketsOK, CountersOK

LEMMA AllowKeeps ==
  ASSUME IInv, NEW l \in Limiters, NEW k \in KeysOf(l), NEW v, Allow(l, k, v), UNCHANGED <<backend, upFor>>
  PROVE  IInv'
<1>1. IF v = "admit" THEN Admit(l, k) ELSE UNCHANGED admitted
  BY DEF Allow
<1>2. ASSUME backend = "memory", NEW lag \in 0..upFor, AllowMemory(l, k, lag, v) PROVE IInv'
  BY <1>1, <1>2, AllowMemoryKeeps
<1>3. ASSUME backend = "redis", NEW times \in 0..MaxTries, NEW heard \in BOOLEAN,
             AllowRedis(l, k, times, heard, v)
      PROVE  IInv'
  BY <1>1, <1>3, AllowRedisKeeps
<1> QED
  BY <1>2, <1>3 DEF Allow

LEMMA TickKeeps ==
  ASSUME IInv, Tick
  PROVE  IInv'
<1>1. \A l \in Limiters, k \in Keys :
        /\ buckets'[l][k] = AgedBucket(buckets[l][k])
        /\ counters'[k] = Aged(counters[k])
        /\ admitted'[l][k] = Older(admitted[l][k])
  BY DEF Tick, AgedBucket, Older
<1>2. \A l \in Limiters, k \in Keys :
        buckets[l][k] \in Buckets /\ admitted[l][k] \in Events /\ counters[k] \in Counters
  BY TypeOKFacts DEF IInv
<1>3. backend' = backend
  BY DEF Tick
<1>4. TypeOK'
  <2>1. \A l \in Limiters, k \in Keys : admitted'[l][k] \in Events
    BY <1>1, <1>2, SumOlder DEF Events
  <2>2. \A l \in Limiters, k \in Keys : buckets'[l][k] \in Buckets
    <3> SUFFICES ASSUME NEW l \in Limiters, NEW k \in Keys PROVE buckets'[l][k] \in Buckets
      OBVIOUS
    <3>1. PICK b \in Buckets : b = buckets[l][k] /\ buckets'[l][k] = AgedBucket(b)
      BY <1>1, <1>2
    <3>2. Max({b.left - 1, -Past}) \in Int
      <4>1. PICK t \in Int, p \in Int : t = b.left - 1 /\ p = -Past
        BY Bounds DEF Buckets
      <4>2. Max({t, p}) \in Int
        BY OfTwo
      <4> QED
        BY <4>1, <4>2
    <3>3. AgedBucket(b) \in Buckets
      BY <3>1, <3>2 DEF AgedBucket, Buckets
    <3> QED
      BY <3>1, <3>3
  <2>3. \A k \in Keys : counters'[k] \in Counters
    <3>1. \A c \in Counters : Aged(c) \in Counters
      BY DEF Aged, Counters, NoCounter
    <3>2. counters' = [k \in Keys |-> Aged(counters[k])] /\ \A k \in Keys : counters[k] \in Counters
      BY TypeOKFacts DEF Tick, IInv
    <3> QED
      BY <3>1, <3>2
  <2>4. gcAge' \in [Limiters -> Nat]
    <3>1. \A i \in Nat, p \in Nat : Min({i, p}) \in Nat
      BY OfTwo
    <3>2. Past \in Nat /\ \A l \in Limiters : gcAge[l] + 1 \in Nat
      BY Bounds DEF IInv, TypeOK
    <3>3. \A l \in Limiters : Min({gcAge[l] + 1, Past}) \in Nat
      BY <3>1, <3>2
    <3> QED
      BY <3>3 DEF Tick
  <2>5. upFor' \in 0..MaxLag
    <3>1. PICK i \in Nat, p \in Nat : i = upFor + 1 /\ p = MaxLag
      BY Bounds DEF IInv, TypeOK
    <3>2. Min({i, p}) \in 0..p
      BY OfTwo
    <3> QED
      BY <3>1, <3>2 DEF Tick
  <2>6. admitted' \in [Limiters -> [Keys -> Events]]
    <3>1. admitted' = [l \in Limiters |-> [k \in Keys |-> admitted'[l][k]]]
      BY DEF Tick
    <3> QED
      BY <2>1, <3>1
  <2>7. buckets' \in [Limiters -> [Keys -> Buckets]]
    <3>1. buckets' = [l \in Limiters |-> [k \in Keys |-> buckets'[l][k]]]
      BY DEF Tick
    <3> QED
      BY <2>2, <3>1
  <2>8. counters' \in [Keys -> Counters]
    <3>1. counters' = [k \in Keys |-> counters'[k]]
      BY DEF Tick
    <3> QED
      BY <2>3, <3>1
  <2> QED
    BY <1>3, <2>4, <2>5, <2>6, <2>7, <2>8 DEF IInv, TypeOK, Events, Buckets, Counters
<1>5. BucketsOK'
  <2> SUFFICES ASSUME backend = "memory", NEW l \in Limiters, NEW k \in Keys
               PROVE  BucketOK(buckets'[l][k], admitted'[l][k], Window[l], Limit[l])
    BY <1>3 DEF BucketsOK
  <2>1. BucketOK(buckets[l][k], admitted[l][k], Window[l], Limit[l])
    BY DEF IInv, BucketsOK
  <2> QED
    BY <1>1, <1>2, <2>1, BucketOlder
<1>6. CountersOK'
  <2> SUFFICES ASSUME backend = "redis", SharedWindows, NEW l \in Limiters, NEW k \in KeysOf(l)
               PROVE  CounterOK(counters'[k], admitted'[l][k], Window[l], Limit[l])
    BY <1>3 DEF CountersOK
  <2>1. CounterOK(counters[k], admitted[l][k], Window[l], Limit[l]) /\ k \in Keys
    BY KeysAreKeys DEF IInv, CountersOK
  <2> QED
    BY <1>1, <1>2, <2>1, CounterOlder
<1> QED
  BY <1>4, <1>5, <1>6 DEF IInv

\* Whoever calls, it is one of the limiters with one of its keys.
LEMMA Callers ==
  ASSUME TypeOK, NEW v,
         \/ \E l \in Traffic[backend] : \E k \in KeysOf(l) : Request(l, k, v)
         \/ \E e \in Emails, a \in Addresses : LoginEmail(e, a, v)
         \/ \E a \in Addresses : LoginAddress(a, v)
  PROVE  UNCHANGED <<backend, upFor>> /\ \E l \in Limiters : \E k \in KeysOf(l) : Allow(l, k, v)
<1>1. "login" \in Limiters /\ KeysOf("login") = Emails \union Addresses
  BY RateLimitAssumption DEF KeysOf
<1>2. CASE \E l \in Traffic[backend] : \E k \in KeysOf(l) : Request(l, k, v)
  BY <1>2, TypeOKFacts DEF Request
<1>3. CASE \E e \in Emails, a \in Addresses : LoginEmail(e, a, v)
  BY <1>1, <1>3 DEF LoginEmail
<1>4. CASE \E a \in Addresses : LoginAddress(a, v)
  BY <1>1, <1>4 DEF LoginAddress
<1> QED
  BY <1>2, <1>3, <1>4

LEMMA NextKeeps ==
  ASSUME IInv, [Next]_vars
  PROVE  IInv'
<1>1. ASSUME NEW v \in Verdicts,
             \/ \E l \in Traffic[backend] : \E k \in KeysOf(l) : Request(l, k, v)
             \/ \E e \in Emails, a \in Addresses : LoginEmail(e, a, v)
             \/ \E a \in Addresses : LoginAddress(a, v)
      PROVE  IInv'
  <2>1. UNCHANGED <<backend, upFor>> /\ \E l \in Limiters : \E k \in KeysOf(l) : Allow(l, k, v)
    BY <1>1, Callers DEF IInv
  <2> QED
    BY <2>1, AllowKeeps
<1>2. CASE Tick
  BY <1>2, TickKeeps
<1>3. CASE Restart
  <2>1. Init'
    BY <1>3 DEF Restart, Init, IInv, TypeOK
  <2> QED
    BY <2>1, InitInvariant, PTL
<1>4. CASE UNCHANGED vars
  BY <1>4 DEF vars, IInv, TypeOK, BucketsOK, CountersOK
<1> QED
  BY <1>1, <1>2, <1>3, <1>4 DEF Next

(* Every run keeps the invariant.                                          *)
THEOREM InvariantHolds == Spec => []IInv
<1>1. IInv /\ [Next]_vars => IInv'
  BY NextKeeps
<1> QED
  BY InitInvariant, <1>1, PTL DEF Spec

(* Within a window, less the wait for the lock, no endpoint admits a key more than twice its
   limit, whichever backend counts, however calls interleave and whenever gc runs.  In
   Redis this needs one window for all limiters that meet in a counter.      *)
THEOREM AtMostTwiceTheLimitHolds ==
  ASSUME "redis" \in Backends => SharedWindows
  PROVE  Spec => []AtMostTwiceTheLimit
<1>1. ASSUME IInv PROVE AtMostTwiceTheLimit
  <2> SUFFICES ASSUME NEW l \in Limiters, NEW k \in KeysOf(l)
               PROVE  Recent(l, k, 0..(Window[l] - MaxLag)) <= 2 * Limit[l]
    BY DEF AtMostTwiceTheLimit
  <2>1. PICK W \in Nat, L \in Nat, M \in Nat :
          W = Window[l] /\ L = Limit[l] /\ M = MaxLag /\ W + M < Past /\ Past \in Nat
    BY Bounds
  <2>2. PICK A \in Events : A = admitted[l][k] /\ k \in Keys
    BY <1>1, KeysAreKeys, TypeOKFacts DEF IInv
  <2>3. Recent(l, k, 0..(W - M)) = SumTo(A, W - M)
    <3>1. PICK n \in Int : n = W - M /\ n < Past
      BY <2>1
    <3>2. SumTo(A, n) = Total(A, 0..n)
      BY <3>1, SumIsRecent DEF Events
    <3>3. Recent(l, k, 0..n) = Total(admitted[l][k], 0..n)
      BY DEF Recent, Total
    <3> QED
      BY <2>2, <3>1, <3>2, <3>3
  <2>4. /\ SumTo(A, W - M) \in Nat /\ SumTo(A, W) \in Nat /\ SumTo(A, W - M) <= SumTo(A, W)
        /\ \A n \in Nat : Spent(n, L) \in Nat /\ Spent(n, L) <= L
    <3>1. W - M \in Int /\ W \in Int /\ W - M <= W
      OBVIOUS
    <3>2. SumTo(A, W - M) \in Nat /\ SumTo(A, W) \in Nat /\ SumTo(A, W - M) <= SumTo(A, W)
      BY <3>1, SumNat, SumGrows DEF Events
    <3>3. \A n \in Nat : Spent(n, L) \in Nat /\ Spent(n, L) <= L
      BY DEF Spent
    <3> QED
      BY <3>2, <3>3
  <2>5. CASE backend = "memory"
    <3>1. PICK b \in Buckets : BucketOK(b, A, W, L)
      BY <1>1, <2>1, <2>2, <2>5, TypeOKFacts DEF IInv, BucketsOK
    <3>2. b.count \in Nat
      BY DEF Buckets
    <3>3. SumTo(A, W - M) <= L \/ SumTo(A, W - M) <= L + Spent(b.count, L)
      BY <2>1, <3>1 DEF BucketOK
    <3> QED
      BY <2>1, <2>3, <2>4, <3>2, <3>3
  <2>6. backend = "redis" => SharedWindows
    BY <1>1, TypeOKFacts DEF IInv
  <2>7. CASE backend = "redis"
    <3>1. PICK c \in Counters : CounterOK(c, A, W, L)
      BY <1>1, <2>1, <2>2, <2>6, <2>7, TypeOKFacts DEF IInv, CountersOK
    <3>2. c.n \in Nat
      BY DEF Counters
    <3>3. SumTo(A, W) <= L \/ SumTo(A, W) <= L + Spent(c.n, L)
      BY <3>1 DEF CounterOK
    <3>4. PICK p \in Nat : p = Spent(c.n, L) /\ p <= L
      BY <2>4, <3>2
    <3>5. PICK i \in Nat, j \in Nat : i = SumTo(A, W - M) /\ j = SumTo(A, W) /\ i <= j
      BY <2>4
    <3>6. i <= 2 * L
      BY <3>3, <3>4, <3>5
    <3> QED
      BY <2>1, <2>3, <3>5, <3>6
  <2> QED
    BY <1>1, <2>5, <2>7, TypeOKFacts DEF IInv
<1> QED
  BY InvariantHolds, <1>1, PTL

(* In memory a call of a limiter is refused only when this limiter admitted the limit of
   that key since the bucket was opened, for any windows.                    *)
THEOREM RefusalIsOwnHolds == Spec => RefusalIsOwn
<1>1. ASSUME IInv, NEW l \in Limiters, NEW k \in KeysOf(l), backend = "memory", Refused(l, k),
             [Next]_vars
      PROVE  UsedUp(l, k)
  <2>1. UNCHANGED <<backend, upFor>> /\ Allow(l, k, "refuse")
    BY <1>1 DEF Refused, Request, LoginEmail, LoginAddress
  <2>2. PICK lag \in 0..upFor : AllowMemory(l, k, lag, "refuse")
    BY <1>1, <2>1 DEF Allow
  <2>3. UNCHANGED admitted
    BY <2>1 DEF Allow
  <2>4. SumTo(admitted[l][k], Window[l] + MaxLag) >= Limit[l]
    BY <1>1, <2>1, <2>2, <2>3, AllowMemoryKeeps
  <2>5. PICK n \in Int : n = Window[l] + MaxLag /\ n < Past
    BY Bounds
  <2>6. PICK A \in Events : A = admitted[l][k]
    BY <1>1, KeysAreKeys, TypeOKFacts DEF IInv
  <2>7. SumTo(A, n) = Total(A, 0..n)
    BY <2>5, SumIsRecent DEF Events
  <2>8. Recent(l, k, 0..n) = Total(admitted[l][k], 0..n)
    BY DEF Recent, Total
  <2> QED
    BY <2>4, <2>5, <2>6, <2>7, <2>8 DEF UsedUp
<1>2. IInv /\ [Next]_vars =>
        [\A l \in Limiters : \A k \in KeysOf(l) :
           backend = "memory" /\ Refused(l, k) => UsedUp(l, k)]_vars
  BY <1>1
<1> QED
  BY InvariantHolds, <1>2, PTL DEF Spec, RefusalIsOwn

----------------------------------------------------------------------------
(* gc.                                                                     *)

LEMMA StaleKept ==
  ASSUME ShortLag, TypeOK, StaleOK, [Next]_vars
  PROVE  StaleOK'
<1>1. ASSUME NEW l \in Limiters, NEW k \in KeysOf(l), NEW v, NEW lag \in 0..upFor,
             AllowMemory(l, k, lag, v)
      PROVE  StaleOK'
  <2>1. PICK W \in Nat, t \in Nat, g \in Nat :
          W = Window[l] /\ t = lag /\ t <= W /\ g = gcAge[l]
    <3>1. lag \in 0..MaxLag /\ MaxLag \in Nat /\ MaxLag <= Window[l] /\ Window[l] \in Nat
      BY <1>1, Bounds, TypeOKFacts DEF ShortLag
    <3>2. gcAge[l] \in Nat
      BY DEF TypeOK
    <3> QED
      BY <3>1, <3>2
  <2>2. k \in Keys
    BY <1>1, KeysAreKeys
  <2>3. PICK b : b = BucketAfter(l, Collected(l, lag)[k], lag)
    OBVIOUS
  <2>4. \A j \in Keys : buckets'[l][j] = IF j = k THEN b ELSE Collected(l, lag)[j]
    BY <1>1, <2>2, <2>3 DEF AllowMemory, TypeOK, Collected
  <2>5. \A m \in Limiters, j \in Keys : m # l => buckets'[m][j] = buckets[m][j]
    BY <1>1 DEF AllowMemory, TypeOK
  <2>6. gcAge'[l] = (IF GcDue(l, lag) THEN t ELSE g) /\ \A m \in Limiters : m # l => gcAge'[m] = gcAge[m]
    BY <1>1, <2>1 DEF AllowMemory, TypeOK
  <2>7. PICK h \in Nat : h = gcAge'[l] /\ (GcDue(l, lag) => h = t) /\ (~GcDue(l, lag) => h = g)
    BY <2>1, <2>6
  <2>8. \A j \in Keys : Collected(l, lag)[j] \in Buckets /\ Collected(l, lag)[j].left >= -h
    <3> SUFFICES ASSUME NEW j \in Keys
                 PROVE  Collected(l, lag)[j] \in Buckets /\ Collected(l, lag)[j].left >= -h
      OBVIOUS
    <3>1. PICK c \in Buckets, i \in Int : c = buckets[l][j] /\ i = c.left /\ i >= -g
      BY <2>1, TypeOKFacts DEF StaleOK, Buckets
    <3>2. NoBucket \in Buckets /\ NoBucket.left = 0
      BY DEF NoBucket, Buckets
    <3>3. CASE GcDue(l, lag) /\ After(i, lag)
      <4>1. Collected(l, lag)[j] = NoBucket
        BY <3>1, <3>3 DEF Collected
      <4>2. 0 >= -h
        OBVIOUS
      <4> QED
        BY <3>2, <4>1, <4>2
    <3>4. CASE ~(GcDue(l, lag) /\ After(i, lag))
      <4>1. Collected(l, lag)[j] = c
        BY <3>1, <3>4 DEF Collected
      <4>2. i >= -h
        BY <2>1, <2>7, <3>1, <3>4 DEF After
      <4> QED
        BY <3>1, <4>1, <4>2
    <3> QED
      BY <3>3, <3>4
  <2>9. b.left >= -h
    <3>1. PICK c \in Buckets : c = Collected(l, lag)[k] /\ c.left >= -h
      BY <2>2, <2>8
    <3>2. CASE c = NoBucket \/ After(c.left, lag)
      <4>1. b.left = W - t
        BY <2>1, <2>3, <3>1, <3>2 DEF BucketAfter
      <4> QED
        BY <2>1, <4>1
    <3>3. CASE ~(c = NoBucket \/ After(c.left, lag))
      <4>1. b = [c EXCEPT !.count = Count(@ + 1)]
        BY <2>3, <3>1, <3>3 DEF BucketAfter
      <4> QED
        BY <3>1, <4>1 DEF Buckets
    <3> QED
      BY <3>2, <3>3
  <2>10. ASSUME NEW m \in Limiters, NEW j \in Keys PROVE buckets'[m][j].left >= -gcAge'[m]
    <3>1. CASE m = l
      BY <2>4, <2>7, <2>8, <2>9, <3>1
    <3>2. CASE m # l
      BY <2>5, <2>6, <3>2 DEF StaleOK
    <3> QED
      BY <3>1, <3>2
  <2> QED
    BY <2>10 DEF StaleOK
<1>2. ASSUME NEW v \in Verdicts,
             \/ \E l \in Traffic[backend] : \E k \in KeysOf(l) : Request(l, k, v)
             \/ \E e \in Emails, a \in Addresses : LoginEmail(e, a, v)
             \/ \E a \in Addresses : LoginAddress(a, v)
      PROVE  StaleOK'
  <2>1. PICK l \in Limiters : \E k \in KeysOf(l) : Allow(l, k, v)
    BY <1>2, Callers
  <2>2. PICK k \in KeysOf(l) : Allow(l, k, v)
    BY <2>1
  <2>3. CASE \E lag \in 0..upFor : AllowMemory(l, k, lag, v)
    BY <1>1, <2>3
  <2>4. CASE UNCHANGED <<buckets, gcAge>>
    BY <2>4 DEF StaleOK
  <2> QED
    BY <2>2, <2>3, <2>4 DEF Allow, AllowRedis
<1>3. CASE Tick
  <2> SUFFICES ASSUME NEW l \in Limiters, NEW k \in Keys PROVE buckets'[l][k].left >= -gcAge'[l]
    BY DEF StaleOK
  <2>1. PICK b \in Buckets, g \in Nat, P \in Nat :
          b = buckets[l][k] /\ g = gcAge[l] /\ P = Past /\ b.left >= -g
    BY TypeOKFacts, Bounds DEF StaleOK, TypeOK
  <2>2. PICK h \in Nat : h = gcAge'[l] /\ h = IF g + 1 <= P THEN g + 1 ELSE P
    <3>1. Min({g + 1, P}) = IF g + 1 <= P THEN g + 1 ELSE P
      BY OfTwo
    <3> QED
      BY <1>3, <2>1, <3>1 DEF Tick
  <2>3. CASE b = NoBucket
    <3>1. buckets'[l][k] = NoBucket /\ NoBucket.left = 0
      BY <1>3, <2>1, <2>3 DEF Tick, NoBucket
    <3>2. 0 >= -h
      OBVIOUS
    <3> QED
      BY <2>2, <3>1, <3>2
  <2>4. CASE b # NoBucket
    <3>1. PICK i \in Int : i = b.left
      BY DEF Buckets
    <3>2. PICK u \in Int : u = Max({i - 1, -P}) /\ u = IF i - 1 <= -P THEN -P ELSE i - 1
      <4>1. PICK x \in Int, y \in Int : x = i - 1 /\ y = -P
        OBVIOUS
      <4>2. Max({x, y}) = IF x <= y THEN y ELSE x
        BY OfTwo
      <4> QED
        BY <4>1, <4>2
    <3>3. buckets'[l][k] = [b EXCEPT !.left = u]
      BY <1>3, <2>1, <2>4, <3>1, <3>2 DEF Tick
    <3>4. buckets'[l][k].left = u
      BY <3>3 DEF Buckets
    <3>5. i >= -g
      BY <2>1, <3>1
    <3>6. u >= -h
      BY <2>2, <3>2, <3>5
    <3> QED
      BY <2>2, <3>4, <3>6
  <2> QED
    BY <2>3, <2>4
<1>4. CASE Restart
  <2>1. \A l \in Limiters, k \in Keys : buckets'[l][k].left = 0 /\ gcAge'[l] = Past
    BY <1>4 DEF Restart, NoBuckets, NeverGC, NoBucket
  <2>2. 0 >= -Past
    BY Bounds
  <2> QED
    BY <2>1, <2>2 DEF StaleOK
<1>5. CASE UNCHANGED vars
  BY <1>5 DEF vars, StaleOK
<1> QED
  BY <1>2, <1>3, <1>4, <1>5 DEF Next

(* A call of the memory limiter leaves no bucket that was closed for longer than a window
   and the wait for the lock, as long as nobody waits longer than a window: a caller that
   did could put a bucket of the past after the gc it missed.                *)
THEOREM StaleBucketsAreCollectedHolds ==
  ASSUME ShortLag
  PROVE  Spec => StaleBucketsAreCollected
<1>1. Init => StaleOK
  <2>1. 0 >= -Past
    BY Bounds
  <2> QED
    BY <2>1 DEF Init, StaleOK, NoBuckets, NeverGC, NoBucket
<1>2. TypeOK /\ StaleOK /\ [Next]_vars => StaleOK'
  BY StaleKept
<1>3. IInv => TypeOK
  BY DEF IInv
<1>4. Spec => [](TypeOK /\ StaleOK)
  BY InvariantHolds, <1>1, <1>2, <1>3, PTL DEF Spec
<1>5. ASSUME TypeOK, StaleOK, NEW l \in Limiters, CalledInMemory(l), NEW j \in Keys
      PROVE  buckets'[l][j].left >= -(Window[l] + MaxLag)
  <2>1. PICK k \in KeysOf(l), lag \in 0..upFor, v \in Verdicts : AllowMemory(l, k, lag, v)
    BY <1>5 DEF CalledInMemory
  <2>2. PICK W \in Nat, M \in Nat, t \in Nat, g \in Nat :
          W = Window[l] /\ M = MaxLag /\ t = lag /\ t <= M /\ g = gcAge[l]
    <3>1. lag \in 0..MaxLag
      BY <1>5, <2>1, TypeOKFacts
    <3>3. lag \in Nat /\ lag <= MaxLag /\ MaxLag \in Nat /\ Window[l] \in Nat
      BY <3>1, Bounds
    <3>2. gcAge[l] \in Nat
      BY <1>5 DEF TypeOK
    <3> QED
      BY <3>2, <3>3
  <2>3. PICK b : b = BucketAfter(l, Collected(l, lag)[k], lag)
    OBVIOUS
  <2>4. buckets'[l][j] = IF j = k THEN b ELSE Collected(l, lag)[j]
    BY <1>5, <2>1, <2>3, KeysAreKeys DEF AllowMemory, TypeOK, Collected
  <2>5. ASSUME NEW i \in Keys
        PROVE  Collected(l, lag)[i] \in Buckets /\ Collected(l, lag)[i].left >= -(W + M)
    <3>1. PICK c \in Buckets, n \in Int : c = buckets[l][i] /\ n = c.left /\ n >= -g
      BY <1>5, <2>2, TypeOKFacts DEF StaleOK, Buckets
    <3>2. NoBucket \in Buckets /\ NoBucket.left = 0
      BY DEF NoBucket, Buckets
    <3>3. CASE GcDue(l, lag) /\ After(n, lag)
      <4>1. Collected(l, lag)[i] = NoBucket
        BY <3>1, <3>3 DEF Collected
      <4>2. 0 >= -(W + M)
        OBVIOUS
      <4> QED
        BY <3>2, <4>1, <4>2
    <3>4. CASE ~(GcDue(l, lag) /\ After(n, lag))
      <4>1. Collected(l, lag)[i] = c
        BY <3>1, <3>4 DEF Collected
      <4>2. n >= -(W + M)
        BY <2>2, <3>1, <3>4 DEF After, GcDue
      <4> QED
        BY <3>1, <4>1, <4>2
    <3> QED
      BY <3>3, <3>4
  <2>6. b.left >= -(W + M)
    <3>1. PICK c \in Buckets : c = Collected(l, lag)[k] /\ c.left >= -(W + M)
      BY <2>5, KeysAreKeys
    <3>2. CASE c = NoBucket \/ After(c.left, lag)
      <4>1. b.left = W - t
        BY <2>2, <2>3, <3>1, <3>2 DEF BucketAfter
      <4> QED
        BY <2>2, <4>1
    <3>3. CASE ~(c = NoBucket \/ After(c.left, lag))
      <4>1. b = [c EXCEPT !.count = Count(@ + 1)]
        BY <2>3, <3>1, <3>3 DEF BucketAfter
      <4> QED
        BY <3>1, <4>1 DEF Buckets
    <3> QED
      BY <3>2, <3>3
  <2> QED
    BY <2>2, <2>4, <2>5, <2>6
<1>6. TypeOK /\ StaleOK =>
        [\A l \in Limiters : CalledInMemory(l) =>
           \A k \in Keys : buckets'[l][k].left >= -(Window[l] + MaxLag)]_vars
  BY <1>5
<1> QED
  BY <1>4, <1>6, PTL DEF StaleBucketsAreCollected
=============================================================================
