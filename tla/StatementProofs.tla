-------------------------- MODULE StatementProofs --------------------------
(***************************************************************************)
(* The account statement, for any page limits and any posts between two    *)
(* pages: what has been shown is a run of the wallet's rows without a gap, *)
(* each page begins below the last row shown, and new rows come before the *)
(* first.                                                                  *)
(***************************************************************************)
EXTENDS Statement, LedgerStoreProofs

Shown(q) == {q[i] : i \in 1..Len(q)}

Descends(q) == \A i, j \in 1..Len(q) : i < j => q[i].id > q[j].id

\* What is given to the client of rows that are one more than the page, if there are.
Cut(q, limit) == IF Len(q) > limit THEN SubSeq(q, 1, limit) ELSE q

\* The page is the first limit of q, down to its last row, or all of R.
PageEnds(page, q, limit, R) ==
  IF Len(q) > limit
  THEN /\ Len(page) = limit /\ page[limit] = q[limit]
       /\ Shown(page) = {e \in R : e.id >= page[limit].id}
  ELSE Shown(page) = R

\* Every row of R that is not below the i-th of q is among the first i.
Complete(q, R) ==
  \A e \in R, i \in 1..Len(q) : e.id >= q[i].id => \E j \in 1..i : q[j] = e

\* The rows of the wallet from the first of q down to one with the id oldest.
Covers(q, oldest) ==
  Len(q) > 0 => Shown(q) = {e \in RowsOf(Mine) : e.id <= q[1].id /\ e.id >= oldest}

Oldest == IF reading = "done" THEN 0 ELSE shown[Len(shown)].id

\* What the client holds when it asks for a page.
ReaderOK ==
  /\ reading \in {"new", "more", "done"}
  /\ shown \in Seq(RowTypes) /\ Shown(shown) \subseteq RowsOf(Mine)
  /\ reading = "new" => shown = <<>> /\ cursor = NoCursor
  /\ reading = "more" => Len(shown) > 0 /\ cursor = EncodeCursor(shown[Len(shown)].id)
  /\ Descends(shown)
  /\ Covers(shown, Oldest)

----------------------------------------------------------------------------
(* A page.                                                                 *)

LEMMA MyRows ==
  ASSUME IInv, RowIdsOK
  PROVE  /\ IsFiniteSet(RowsOf(Mine)) /\ RowsOf(Mine) \subseteq RowTypes
         /\ \A e \in RowsOf(Mine) : e.id \in Nat /\ e.id >= 1 /\ e.account = Mine
         /\ \A e, f \in RowsOf(Mine) : e.id = f.id => e = f
<1>1. RowsOf(Mine) \in SUBSET entries /\ \A e \in RowsOf(Mine) : e.account = Mine
  BY DEF RowsOf
<1>2. IsFiniteSet(RowsOf(Mine)) /\ \A e, f \in RowsOf(Mine) : e.id = f.id => e = f
  BY <1>1, FS_Subset DEF RowIdsOK
<1>3. RowsOf(Mine) \subseteq RowTypes
  BY <1>1 DEF IInv, TypeOK
<1>4. \A e \in RowTypes : e.id \in Nat /\ e.id >= 1
  BY StoreAssumption DEF RowTypes
<1> QED
  BY <1>1, <1>2, <1>3, <1>4

LEMMA LimitIsPositive ==
  ASSUME NEW n \in Int
  PROVE  NormalizeLimit(n) \in Nat /\ NormalizeLimit(n) >= 1
BY StatementAssumption DEF NormalizeLimit

(* ORDER BY id DESC LIMIT limit + 1: the first rows of those below the cursor, the newest
   first, and none left out between two of them.                             *)
LEMMA ListedRows ==
  ASSUME IInv, RowIdsOK, NEW before \in Nat, NEW limit \in Nat,
         NEW q, q = ListEntries(before, limit), NEW R, R = Below(before)
  PROVE  /\ R = {e \in RowsOf(Mine) : before = 0 \/ e.id < before}
         /\ q \in Seq(R) /\ Len(q) <= limit + 1
         /\ Descends(q)
         /\ Complete(q, R)
         /\ Len(q) <= limit => Shown(q) = R
<1> DEFINE K == [e \in R |-> -e.id]
           Over(e) == {f \in R : f.id > e.id}
<1>1. R = {e \in RowsOf(Mine) : before = 0 \/ e.id < before}
  BY DEF Below, RowsOf
<1>2. /\ IsFiniteSet(R) /\ (\A e \in R : e.id \in Nat) /\ \A e, f \in R : e.id = f.id => e = f
  <2>1. R \in SUBSET RowsOf(Mine)
    BY <1>1
  <2> QED
    BY <2>1, MyRows, FS_Subset
<1>3. PICK n \in Nat : n = Cardinality(R)
  BY <1>2, FS_CardinalityType
<1>4. PICK m \in Nat : m = Min({limit + 1, n}) /\ m = IF limit + 1 <= n THEN limit + 1 ELSE n
  BY OfTwo
<1>5. (\A e \in R : K[e] \in Int) /\ (\A e, f \in R : K[e] = K[f] => e = f)
      /\ \A e, f \in R : K[e] < K[f] <=> f.id < e.id
  BY <1>2
<1>6. \A e \in R : Lesser(K, R, e) = Over(e)
  BY <1>5 DEF Lesser
<1> HIDE DEF K
<1>7. /\ \A e \in R : Cardinality(Over(e)) \in 0..(n - 1)
      /\ \A e, g \in R : g.id < e.id <=> Cardinality(Over(e)) < Cardinality(Over(g))
      /\ \A e, g \in R : Cardinality(Over(e)) = Cardinality(Over(g)) => e = g
      /\ \A i \in 1..n : \E e \in R : Cardinality(Over(e)) = i - 1
  <2>1. /\ \A e \in R : Cardinality(Lesser(K, R, e)) \in 0..(n - 1)
        /\ \A e, g \in R : K[e] < K[g] <=>
             Cardinality(Lesser(K, R, e)) < Cardinality(Lesser(K, R, g))
        /\ \A e, g \in R : Cardinality(Lesser(K, R, e)) = Cardinality(Lesser(K, R, g)) => e = g
        /\ \A i \in 1..n : \E e \in R : Cardinality(Lesser(K, R, e)) = i - 1
    BY <1>2, <1>3, <1>5, Ranked
  <2> HIDE DEF Over
  <2> QED
    BY <1>5, <1>6, <2>1
<1>8. q = [i \in 1..m |-> CHOOSE e \in R : Cardinality({f \in R : f.id > e.id}) = i - 1]
  <2> DEFINE First(S) == [i \in 1..Min({limit + 1, Cardinality(S)}) |->
                            CHOOSE e \in S : Cardinality({f \in S : f.id > e.id}) = i - 1]
  <2>1. ListEntries(before, limit) = First(Below(before))
    BY Zenon DEF ListEntries
  <2>2. q = First(R)
    <3> HIDE DEF First
    <3> QED
      BY <2>1, Zenon
  <2> QED
    BY <1>3, <1>4, <2>2, Zenon
<1>9. \A i \in 1..m : q[i] \in R /\ Cardinality(Over(q[i])) = i - 1
  <2> SUFFICES ASSUME NEW i \in 1..m PROVE q[i] \in R /\ Cardinality(Over(q[i])) = i - 1
    OBVIOUS
  <2> DEFINE e0 == CHOOSE e \in R : Cardinality(Over(e)) = i - 1
  <2>1. i \in 1..n
    BY <1>4
  <2>2. q[i] = e0
    BY <1>8, Zenon
  <2>3. \E e \in R : Cardinality(Over(e)) = i - 1
    <3> HIDE DEF Over, e0
    <3> QED
      BY <1>7, <2>1
  <2>4. e0 \in R /\ Cardinality(Over(e0)) = i - 1
    <3> HIDE DEF Over
    <3> QED
      BY <2>3, Zenon
  <2> QED
    BY <2>2, <2>4, Zenon
<1>10. q \in Seq(R) /\ Len(q) = m
  <2>1. q \in [1..m -> R] /\ DOMAIN q = 1..m
    BY <1>8, <1>9
  <2>2. q \in Seq(R)
    BY <2>1, SeqDef
  <2> QED
    BY <2>1, <2>2, LenProperties
<1> HIDE DEF Over
<1>11. Descends(q)
  <2> SUFFICES ASSUME NEW i \in 1..m, NEW j \in 1..m, i < j PROVE q[i].id > q[j].id
    BY <1>10 DEF Descends
  <2>1. Cardinality(Over(q[i])) < Cardinality(Over(q[j]))
    BY <1>9
  <2>2. q[j].id < q[i].id
    BY <1>7, <1>9, <2>1
  <2> QED
    BY <1>2, <1>9, <2>2
<1>12. ASSUME NEW e \in R, NEW i \in 1..m, e.id >= q[i].id PROVE \E j \in 1..i : q[j] = e
  <2>1. PICK r \in 0..(n - 1) : r = Cardinality(Over(e))
    BY <1>7
  <2>2. ~(Cardinality(Over(q[i])) < r)
    <3>1. ~(e.id < q[i].id)
      BY <1>2, <1>9, <1>12
    <3> QED
      BY <1>7, <1>9, <2>1, <3>1
  <2>3. r + 1 \in 1..i /\ r + 1 \in 1..m /\ (r + 1) - 1 = r
    BY <1>9, <2>2
  <2>4. PICK j \in 1..i : j \in 1..m /\ j - 1 = r
    BY <2>3
  <2>5. q[j] = e
    BY <1>7, <1>9, <2>1, <2>4
  <2> QED
    BY <2>5
<1>13. ASSUME m <= limit PROVE Shown(q) = R
  <2>1. m = n
    BY <1>4, <1>13
  <2>2. ASSUME NEW e \in R PROVE \E j \in 1..m : q[j] = e
    <3>1. PICK r \in 0..(n - 1) : r = Cardinality(Over(e))
      BY <1>7
    <3>2. r + 1 \in 1..m /\ (r + 1) - 1 = r
      BY <2>1
    <3>3. PICK j \in 1..m : j - 1 = r
      BY <3>2
    <3>4. q[j] = e
      BY <1>7, <1>9, <3>1, <3>3
    <3> QED
      BY <3>4
  <2> QED
    BY <1>9, <1>10, <2>2 DEF Shown
<1>14. m <= limit + 1
  BY <1>4
<1>15. Complete(q, R)
  BY <1>10, <1>12 DEF Complete
<1> QED
  BY <1>1, <1>10, <1>11, <1>13, <1>14, <1>15

LEMMA WiderSeq ==
  ASSUME NEW S, NEW T, S \subseteq T, NEW q \in Seq(S)
  PROVE  q \in Seq(T)
<1>1. PICK n \in Nat : n = Len(q) /\ q \in [1..n -> S]
  BY LenProperties
<1>2. q \in [1..n -> T]
  BY <1>1
<1> QED
  BY <1>2, SeqDef

(* Two runs of rows, the second below the first.                           *)
LEMMA JoinPages ==
  ASSUME NEW a \in Seq(RowTypes), NEW b \in Seq(RowTypes), Descends(a), Descends(b),
         \A i \in 1..Len(a), j \in 1..Len(b) : b[j].id < a[i].id
  PROVE  /\ a \o b \in Seq(RowTypes) /\ Len(a \o b) = Len(a) + Len(b)
         /\ Shown(a \o b) = Shown(a) \union Shown(b)
         /\ Descends(a \o b)
         /\ Len(a) > 0 => (a \o b)[1] = a[1]
         /\ Len(b) > 0 => (a \o b)[Len(a \o b)] = b[Len(b)]
         /\ Len(b) = 0 => a \o b = a
         /\ Len(a) = 0 => a \o b = b
<1>1. PICK m \in Nat, n \in Nat : m = Len(a) /\ n = Len(b)
  BY LenProperties
<1>2. PICK c : c = a \o b
  OBVIOUS
<1>3. /\ c \in Seq(RowTypes) /\ Len(c) = m + n
      /\ \A i \in 1..(m + n) : c[i] = IF i <= m THEN a[i] ELSE b[i - m]
  BY <1>1, <1>2, ConcatProperties
<1>4. (\A i \in 1..m : c[i] = a[i]) /\ \A j \in 1..n : c[m + j] = b[j]
  BY <1>3
<1>5. Shown(c) = Shown(a) \union Shown(b)
  <2>1. ASSUME NEW i \in 1..(m + n) PROVE c[i] \in Shown(a) \union Shown(b)
    <3>1. CASE i <= m
      <4>1. i \in 1..m
        BY <3>1
      <4> QED
        BY <1>1, <1>4, <4>1 DEF Shown
    <3>2. CASE ~(i <= m)
      <4>1. i - m \in 1..n
        BY <3>2
      <4> QED
        BY <1>1, <1>3, <3>2, <4>1 DEF Shown
    <3> QED
      BY <3>1, <3>2
  <2>2. (\A i \in 1..m : i \in 1..(m + n)) /\ \A j \in 1..n : m + j \in 1..(m + n)
    OBVIOUS
  <2>3. ASSUME NEW x \in Shown(a) \union Shown(b) PROVE x \in Shown(c)
    BY <1>1, <1>3, <1>4, <2>2 DEF Shown
  <2> QED
    BY <1>3, <2>1, <2>3 DEF Shown
<1>6. Descends(c)
  <2> SUFFICES ASSUME NEW i \in 1..(m + n), NEW j \in 1..(m + n), i < j PROVE c[i].id > c[j].id
    BY <1>3 DEF Descends
  <2>1. CASE j <= m
    <3>1. i \in 1..m /\ j \in 1..m
      BY <2>1
    <3> QED
      BY <1>1, <1>3, <2>1, <3>1 DEF Descends
  <2>2. CASE i <= m /\ ~(j <= m)
    <3>1. PICK k \in 1..n : k = j - m
      BY <2>2
    <3>2. c[i] = a[i] /\ c[j] = b[k] /\ i \in 1..m
      BY <1>3, <2>2, <3>1
    <3>3. b[k].id < a[i].id
      BY <1>1, <3>2
    <3>4. a[i] \in RowTypes /\ b[k] \in RowTypes
      BY <1>1, <3>2, ElementOfSeq
    <3>5. a[i].id \in Int /\ b[k].id \in Int
      BY <3>4 DEF RowTypes
    <3> QED
      BY <3>2, <3>3, <3>5
  <2>3. CASE ~(i <= m)
    <3>1. PICK k \in 1..n, l \in 1..n : k = i - m /\ l = j - m /\ k < l
      BY <2>3
    <3>2. c[i] = b[k] /\ c[j] = b[l]
      BY <1>3, <2>3, <3>1
    <3> QED
      BY <1>1, <3>1, <3>2 DEF Descends
  <2> QED
    BY <2>1, <2>2, <2>3
<1>7. m > 0 => c[1] = a[1]
  BY <1>3
<1>8. n > 0 => c[m + n] = b[n]
  BY <1>4
<1>9. (n = 0 => b = <<>>) /\ (m = 0 => a = <<>>)
  BY <1>1, EmptySeq
<1>10. (b = <<>> => c = a) /\ (a = <<>> => c = b)
  BY <1>2, ConcatEmptySeq
<1> QED
  BY <1>1, <1>2, <1>3, <1>5, <1>6, <1>7, <1>8, <1>9, <1>10

(* A page with its cursor: the rows below the old cursor, down to the new one or to the
   wallet's first row.                                                       *)
LEMMA PageRows ==
  ASSUME IInv, RowIdsOK, NEW before \in Nat,
         NEW limit \in Nat, limit >= 1, NEW q, q = ListEntries(before, limit),
         NEW page, page = Cut(q, limit),
         NEW R, R = Below(before)
  PROVE  page \in Seq(RowTypes) /\ Descends(page) /\ PageEnds(page, q, limit, R)
<1>1. R = {e \in RowsOf(Mine) : before = 0 \/ e.id < before} /\ R = Below(before)
  BY ListedRows
<1>2. PICK m \in Nat : m = Len(q) /\ m <= limit + 1
  <2>1. q \in Seq(R) /\ Len(q) <= limit + 1
    BY <1>1, ListedRows
  <2> QED
    BY <2>1, LenProperties
<1>3. /\ q \in Seq(R) /\ Descends(q)
      /\ \A e \in R, i \in 1..m : e.id >= q[i].id => \E j \in 1..i : q[j] = e
      /\ m <= limit => Shown(q) = R
  <2>1. q \in Seq(R) /\ Descends(q)
    BY <1>1, ListedRows
  <2>2. Complete(q, R)
    BY <1>1, ListedRows
  <2>3. Len(q) <= limit => Shown(q) = R
    BY <1>1, ListedRows
  <2> QED
    BY <1>2, <2>1, <2>2, <2>3 DEF Complete
<1>4. R \subseteq RowTypes /\ (\A e \in R : e.id \in Nat) /\ \A i \in 1..m : q[i] \in R
  BY <1>1, <1>2, <1>3, MyRows, ElementOfSeq
<1>5. CASE m > limit
  <2>1. page = SubSeq(q, 1, limit) /\ limit \in 1..m
    BY <1>2, <1>5 DEF Cut
  <2>2. /\ page \in Seq(R) /\ Len(page) = limit /\ \A i \in 1..limit : page[i] = q[i]
    <3>1. \A i \in 1..limit : q[i] \in R
      BY <1>4, <2>1
    <3>2. /\ SubSeq(q, 1, limit) \in Seq(R)
          /\ Len(SubSeq(q, 1, limit)) = IF 1 <= limit THEN limit - 1 + 1 ELSE 0
          /\ \A i \in 1..(limit - 1 + 1) : SubSeq(q, 1, limit)[i] = q[1 + i - 1]
      BY <3>1, SubSeqProperties
    <3>3. limit - 1 + 1 = limit /\ \A i \in 1..limit : 1 + i - 1 = i
      OBVIOUS
    <3> QED
      BY <2>1, <3>2, <3>3
  <2>3. Descends(page)
    <3>1. \A i \in 1..limit : i \in 1..m
      BY <2>1
    <3> QED
      BY <1>2, <1>3, <2>2, <3>1 DEF Descends
  <2>4. Shown(page) = {e \in R : e.id >= q[limit].id}
    <3>1. ASSUME NEW i \in 1..limit PROVE page[i] \in R /\ page[i].id >= q[limit].id
      <4>1. i \in 1..m /\ (i = limit \/ i < limit)
        BY <2>1
      <4>2. q[i].id > q[limit].id \/ q[i] = q[limit]
        BY <1>2, <1>3, <2>1, <4>1 DEF Descends
      <4>3. q[i].id \in Nat /\ q[limit].id \in Nat /\ q[i] \in R
        BY <1>4, <2>1, <4>1
      <4> QED
        BY <2>2, <4>2, <4>3
    <3>2. ASSUME NEW e \in R, e.id >= q[limit].id PROVE e \in Shown(page)
      <4>1. PICK j \in 1..limit : q[j] = e
        BY <1>3, <2>1, <3>2
      <4> QED
        BY <2>2, <4>1 DEF Shown
    <3>3. \A e \in Shown(page) : \E i \in 1..limit : e = page[i]
      BY <2>2 DEF Shown
    <3>4. \A e \in Shown(page) : e \in R /\ e.id >= q[limit].id
      BY <3>1, <3>3
    <3> QED
      BY <3>2, <3>4
  <2>5. page \in Seq(RowTypes)
    BY <1>4, <2>2, WiderSeq
  <2> QED
    BY <1>1, <1>2, <1>5, <2>1, <2>2, <2>3, <2>4, <2>5 DEF PageEnds
<1>6. CASE ~(m > limit)
  <2>1. page = q /\ Shown(q) = R
    BY <1>2, <1>3, <1>6 DEF Cut
  <2>2. q \in Seq(RowTypes)
    BY <1>3, <1>4, WiderSeq
  <2> QED
    BY <1>1, <1>2, <1>3, <1>6, <2>1, <2>2 DEF PageEnds
<1> QED
  BY <1>5, <1>6

(* In a falling run the first row has the largest id and the last one the smallest. *)
LEMMA TopDown ==
  ASSUME NEW q \in Seq(RowTypes), Descends(q), NEW i \in 1..Len(q)
  PROVE  /\ q[i] \in RowTypes /\ q[i].id \in Nat /\ q[i].id >= 1
         /\ q[i].id <= q[1].id /\ q[Len(q)].id <= q[i].id
         /\ Len(q) \in Nat /\ 1 \in 1..Len(q) /\ Len(q) \in 1..Len(q)
<1>1. PICK m \in Nat : m = Len(q)
  BY LenProperties
<1>2. 1 \in 1..m /\ m \in 1..m /\ i \in 1..m
  BY <1>1
<1>3. \A j \in 1..m : q[j] \in RowTypes /\ q[j].id \in Nat /\ q[j].id >= 1
  <2>1. \A j \in 1..m : q[j] \in RowTypes
    BY <1>1, ElementOfSeq
  <2>2. \A e \in RowTypes : e.id \in Nat /\ e.id >= 1
    BY StoreAssumption DEF RowTypes
  <2> QED
    BY <2>1, <2>2
<1>4. i = 1 \/ q[1].id > q[i].id
  BY <1>1, <1>2 DEF Descends
<1>5. i = m \/ q[i].id > q[m].id
  BY <1>1, <1>2 DEF Descends
<1> QED
  BY <1>1, <1>2, <1>3, <1>4, <1>5

(* Asking for a page keeps what the client holds in order: the page begins right below
   the last row shown, and its cursor is its own last row.                   *)
LEMMA PageKeeps ==
  ASSUME IInv, RowIdsOK, ReaderOK, NEW n \in Limits, Page(n)
  PROVE  ReaderOK'
<1>1. PICK limit \in Nat : limit = NormalizeLimit(n) /\ limit >= 1
  BY LimitIsPositive, StatementAssumption
<1>2. PICK before \in Nat : before = DecodeCursor(cursor).val
                            /\ (reading = "new" => before = 0)
                            /\ (reading = "more" => before = shown[Len(shown)].id /\ before >= 1)
  <2>1. CASE reading = "new"
    BY <2>1 DEF ReaderOK, DecodeCursor, NoCursor, Value
  <2>2. CASE reading = "more"
    <3>1. shown[Len(shown)].id \in Nat /\ shown[Len(shown)].id >= 1
      <4>1. Len(shown) \in Nat /\ Len(shown) > 0
        BY <2>2, LenProperties DEF ReaderOK
      <4>2. Len(shown) \in 1..Len(shown)
        BY <4>1
      <4>3. shown \in Seq(RowTypes) /\ Descends(shown)
        BY DEF ReaderOK
      <4> QED
        BY <4>2, <4>3, TopDown
    <3>2. cursor = <<"base64", shown[Len(shown)].id>> /\ cursor # <<>>
      <4>1. \A x : <<"base64", x>> # <<>>
        OBVIOUS
      <4>2. cursor = <<"base64", shown[Len(shown)].id>>
        BY <2>2 DEF ReaderOK, EncodeCursor
      <4> QED
        BY <4>1, <4>2
    <3>3. DecodeCursor(cursor).val = shown[Len(shown)].id
      BY <3>1, <3>2 DEF DecodeCursor, NoCursor, Value
    <3> QED
      BY <2>2, <3>1, <3>3
  <2> QED
    BY <2>1, <2>2 DEF Page, ReaderOK
<1>3. PICK q : q = ListEntries(before, limit)
  OBVIOUS
<1>4. PICK page : page = Cut(q, limit)
  OBVIOUS
<1> DEFINE more == Len(q) > limit
<1>6. /\ shown' = shown \o page
      /\ cursor' = IF more THEN EncodeCursor(q[limit].id) ELSE NoCursor
      /\ reading' = IF more THEN "more" ELSE "done"
      /\ entries' = entries /\ reading \in {"new", "more"}
  <2>1. reading \in {"new", "more"}
    BY DEF Page, ReaderOK
  <2>2. entries' = entries
    BY DEF Page, vars, tables
  <2> QED
    BY <1>1, <1>2, <1>3, <1>4, <2>1, <2>2, Zenon DEF Page, NextCursor, Cut
<1>7. PICK M : M = RowsOf(Mine) /\ M = RowsOf(Mine)'
  BY <1>6 DEF RowsOf
<1>8. M \subseteq RowTypes /\ \A e \in M : e.id \in Nat /\ e.id >= 1
  BY <1>7, MyRows
<1>9. PICK R : R = Below(before) /\ R = {e \in M : before = 0 \/ e.id < before}
  BY <1>7 DEF Below, RowsOf
<1>10. /\ page \in Seq(RowTypes) /\ Descends(page)
       /\ more => Len(page) = limit /\ page[limit] = q[limit]
                  /\ Shown(page) = {e \in R : e.id >= page[limit].id}
       /\ ~more => Shown(page) = R
  <2>1. R = Below(before)
    BY <1>9
  <2>2. limit >= 1
    BY <1>1
  <2>3. page \in Seq(RowTypes) /\ Descends(page) /\ PageEnds(page, q, limit, R)
    BY <1>3, <1>4, <2>1, <2>2, PageRows
  <2> QED
    BY <2>3 DEF PageEnds
<1>11. PICK k \in Nat, p \in Nat : k = Len(shown) /\ p = Len(page)
  BY <1>10, LenProperties DEF ReaderOK
<1>12. Shown(page) \subseteq R
  BY <1>10
<1>13. /\ shown \in Seq(RowTypes) /\ Descends(shown) /\ Shown(shown) \subseteq M
       /\ reading = "new" => shown = <<>> /\ k = 0
       /\ reading = "more" => k > 0 /\ before = shown[k].id /\ before >= 1
                              /\ Shown(shown) = {e \in M : e.id <= shown[1].id /\ e.id >= before}
  <2>1. reading = "new" => shown = <<>> /\ Len(shown) = 0
    BY EmptySeq DEF ReaderOK
  <2>2. ASSUME reading = "more"
        PROVE  Len(shown) > 0 /\ Shown(shown) = {e \in M : e.id <= shown[1].id /\ e.id >= before}
    BY <1>2, <1>7, <2>2 DEF ReaderOK, Covers, Oldest
  <2> QED
    BY <1>2, <1>7, <1>11, <2>1, <2>2 DEF ReaderOK
<1>14. \A i \in 1..k, j \in 1..p : page[j].id < shown[i].id
  <2> SUFFICES ASSUME NEW i \in 1..k, NEW j \in 1..p PROVE page[j].id < shown[i].id
    OBVIOUS
  <2>1. reading = "more" /\ before = shown[k].id /\ before >= 1
    BY <1>6, <1>13
  <2>2. page[j] \in R
    BY <1>11, <1>12 DEF Shown
  <2>3. page[j].id < before /\ page[j].id \in Nat
    BY <1>8, <1>9, <2>1, <2>2
  <2>4. before <= shown[i].id /\ shown[i].id \in Nat
    BY <1>11, <1>13, <2>1, TopDown
  <2> QED
    BY <2>3, <2>4
<1>15. /\ shown' \in Seq(RowTypes) /\ Len(shown') = k + p
       /\ Shown(shown') = Shown(shown) \union Shown(page)
       /\ Descends(shown')
       /\ k > 0 => shown'[1] = shown[1]
       /\ p > 0 => shown'[k + p] = page[p]
       /\ k = 0 => shown' = page
  <2>1. \A i \in 1..Len(shown), j \in 1..Len(page) : page[j].id < shown[i].id
    BY <1>11, <1>14
  <2>2. PICK c : c = shown \o page
    OBVIOUS
  <2>3. /\ c \in Seq(RowTypes) /\ Len(c) = Len(shown) + Len(page)
        /\ Shown(c) = Shown(shown) \union Shown(page)
        /\ Descends(c)
        /\ Len(shown) > 0 => c[1] = shown[1]
        /\ Len(page) > 0 => c[Len(c)] = page[Len(page)]
        /\ Len(shown) = 0 => c = page
    BY <1>10, <1>13, <2>1, <2>2, JoinPages
  <2>4. shown' = c
    BY <1>6, <2>2
  <2> QED
    BY <1>11, <2>3, <2>4
<1>16. Shown(shown') \subseteq M
  BY <1>9, <1>12, <1>13, <1>15
<1>17. more => p = limit /\ p > 0 /\ k + p > 0 /\ shown'[k + p] = page[limit]
               /\ cursor' = EncodeCursor(shown'[k + p].id)
  BY <1>1, <1>6, <1>10, <1>11, <1>15
<1>18. PICK o \in Nat : o = IF more THEN page[limit].id ELSE 0
  <2>1. CASE more
    <3>1. limit \in 1..Len(page)
      BY <1>11, <1>17, <2>1
    <3> QED
      BY <1>10, <2>1, <3>1, TopDown
  <2> QED
    BY <2>1
<1>19. Shown(page) = {e \in R : e.id >= o}
  BY <1>8, <1>9, <1>10, <1>18
<1>20. ASSUME k + p > 0 PROVE Shown(shown') = {e \in M : e.id <= shown'[1].id /\ e.id >= o}
  <2>1. ASSUME NEW e \in Shown(shown') PROVE e \in M /\ e.id <= shown'[1].id
    <3>1. PICK i \in 1..Len(shown') : e = shown'[i]
      BY <2>1 DEF Shown
    <3> QED
      BY <1>15, <1>16, <2>1, <3>1, TopDown
  <2>2. CASE k = 0
    <3>1. R = M /\ shown' = page
      BY <1>6, <1>2, <1>9, <1>13, <1>15, <2>2
    <3> QED
      BY <1>19, <2>1, <3>1
  <2>3. CASE k > 0
    <3>1. /\ reading = "more" /\ shown'[1] = shown[1] /\ before >= 1
          /\ Shown(shown) = {e \in M : e.id <= shown[1].id /\ e.id >= before}
          /\ Shown(page) = {e \in M : e.id < before /\ e.id >= o}
      <4>1. reading = "more" /\ before >= 1
        BY <1>6, <1>13, <2>3
      <4>2. before # 0
        BY <4>1
      <4>3. Shown(page) = {e \in M : e.id < before /\ e.id >= o}
        BY <1>9, <1>19, <4>2
      <4>4. shown'[1] = shown[1]
        BY <1>15, <2>3
      <4> QED
        BY <1>13, <4>1, <4>3, <4>4
    <3>2. before <= shown[1].id /\ shown[1].id \in Nat
      <4>1. k \in 1..Len(shown) /\ 1 \in 1..Len(shown)
        BY <1>11, <2>3
      <4> QED
        BY <1>11, <1>13, <3>1, <4>1, TopDown
    <3>3. o <= before
      <4>1. CASE more
        <5>1. p \in 1..p /\ k \in 1..k
          BY <1>17, <2>3, <4>1
        <5>2. page[p].id < shown[k].id /\ o = page[p].id /\ before = shown[k].id
          BY <1>13, <1>14, <1>17, <1>18, <3>1, <4>1, <5>1
        <5> QED
          BY <5>2
      <4>2. CASE ~more
        BY <1>18, <4>2
      <4> QED
        BY <4>1, <4>2
    <3>4. ASSUME NEW e \in M, e.id <= shown[1].id, e.id >= o PROVE e \in Shown(shown')
      <4>1. e.id >= before \/ e.id < before
        BY <1>8
      <4> QED
        BY <1>15, <3>1, <3>4, <4>1
    <3>5. ASSUME NEW e \in Shown(shown') PROVE e.id >= o
      <4>1. e \in M /\ (e.id >= before \/ e.id >= o)
        BY <1>15, <3>1, <3>5
      <4> QED
        BY <1>8, <3>3, <4>1
    <3> QED
      BY <2>1, <3>1, <3>4, <3>5
  <2> QED
    BY <1>20, <2>2, <2>3
<1>21. k + p > 0 => o = Oldest'
  <2>1. CASE more
    BY <1>6, <1>15, <1>17, <1>18, <2>1 DEF Oldest
  <2>2. CASE ~more
    BY <1>6, <1>18, <2>2 DEF Oldest
  <2> QED
    BY <2>1, <2>2
<1>22. Covers(shown, Oldest)'
  BY <1>7, <1>15, <1>20, <1>21 DEF Covers
<1>23. (reading = "more")' => Len(shown') > 0 /\ cursor' = EncodeCursor(shown'[Len(shown')].id)
  BY <1>6, <1>15, <1>17
<1>24. (Shown(shown) \subseteq RowsOf(Mine))' /\ Descends(shown)'
  BY <1>7, <1>15, <1>16
<1>25. (reading \in {"new", "more", "done"})' /\ reading' # "new"
  BY <1>6
<1> QED
  BY <1>15, <1>22, <1>23, <1>24, <1>25 DEF ReaderOK

(* What commits between two pages comes before the first row shown.        *)
LEMMA StoreKeeps ==
  ASSUME IInv, ReaderOK, [Next]_vars, UNCHANGED rvars
  PROVE  ReaderOK'
<1>1. shown' = shown /\ cursor' = cursor /\ reading' = reading
  BY DEF rvars
<1>2. /\ RowsOf(Mine) \subseteq RowsOf(Mine)'
      /\ \A e \in RowsOf(Mine)' : e \in RowsOf(Mine) \/ \A f \in RowsOf(Mine) : f.id < e.id
  BY NextGrows DEF RowsOf
<1>3. ASSUME Len(shown) > 0
      PROVE  Shown(shown) = {e \in RowsOf(Mine)' : e.id <= shown[1].id /\ e.id >= Oldest}
  <2>1. PICK m \in Nat : m = Len(shown)
    BY LenProperties DEF ReaderOK
  <2>2. 1 \in 1..Len(shown) /\ shown[1] \in RowsOf(Mine)
    BY <1>3, <2>1 DEF ReaderOK, Shown
  <2>3. Shown(shown) = {e \in RowsOf(Mine) : e.id <= shown[1].id /\ e.id >= Oldest}
    BY <1>3 DEF ReaderOK, Covers
  <2>4. \A e \in RowsOf(Mine)' : e.id \in Nat
    <3>1. TypeOK'
      BY NextOK DEF IInv
    <3>2. entries' \subseteq RowTypes /\ \A e \in RowTypes : e.id \in Nat
      BY <3>1, StoreAssumption DEF TypeOK, RowTypes
    <3> QED
      BY <3>2 DEF RowsOf
  <2>5. shown[1].id \in Nat
    BY <1>2, <2>2, <2>4
  <2>6. ASSUME NEW e \in RowsOf(Mine)', e.id <= shown[1].id PROVE e \in RowsOf(Mine)
    BY <1>2, <2>2, <2>4, <2>5, <2>6
  <2> QED
    BY <1>2, <2>3, <2>6
<1>4. Covers(shown, Oldest)'
  BY <1>1, <1>3 DEF Covers, Oldest, Shown
<1> QED
  BY <1>1, <1>2, <1>4 DEF ReaderOK, Shown, Descends

(* Rows shown without a gap follow from each other: what was posted before a row is
   what is shown after it.                                                   *)
LEMMA ShownAddUp ==
  ASSUME IInv, RowIdsOK, RunningBalance, ReaderOK
  PROVE  LET n == Len(shown)
         IN  /\ \A i \in 1..(n - 1) : shown[i].after = shown[i + 1].after + Delta(shown[i])
             /\ n > 0 /\ reading = "done" => shown[n].after = Delta(shown[n])
<1>1. PICK n \in Nat : n = Len(shown)
  BY LenProperties DEF ReaderOK
<1>2. /\ shown \in Seq(RowTypes) /\ Descends(shown) /\ Shown(shown) \subseteq RowsOf(Mine)
      /\ n > 0 => Shown(shown) = {e \in RowsOf(Mine) : e.id <= shown[1].id /\ e.id >= Oldest}
  BY <1>1 DEF ReaderOK, Covers
<1>3. \A i \in 1..n : /\ shown[i] \in RowsOf(Mine) /\ shown[i].id \in Nat
                      /\ shown[i].account = Mine /\ shown[i] \in entries
                      /\ shown[i].id <= shown[1].id /\ shown[n].id <= shown[i].id
  <2> SUFFICES ASSUME NEW i \in 1..n
               PROVE  /\ shown[i] \in RowsOf(Mine) /\ shown[i].id \in Nat
                      /\ shown[i].account = Mine /\ shown[i] \in entries
                      /\ shown[i].id <= shown[1].id /\ shown[n].id <= shown[i].id
    OBVIOUS
  <2>1. shown[i] \in RowsOf(Mine)
    BY <1>1, <1>2 DEF Shown
  <2>2. shown[i].account = Mine /\ shown[i] \in entries
    BY <2>1 DEF RowsOf
  <2> QED
    BY <1>1, <1>2, <2>1, <2>2, TopDown
<1>4. \A e \in RowsOf(Mine) : e.id \in Nat /\ e.id >= 1
  BY MyRows
<1>5. \A i \in 1..n : /\ shown[i].after = After(Before(shown[i])) + Delta(shown[i])
                      /\ Before(shown[i]) = {e \in RowsOf(Mine) : e.id < shown[i].id}
  BY <1>3 DEF RunningBalance, Before, RowsOf
<1>6. ASSUME NEW i \in 1..n, NEW e \in RowsOf(Mine), e.id < shown[i].id, e.id >= Oldest
      PROVE  \E k \in 1..n : e = shown[k] /\ i < k
  <2>1. e.id <= shown[1].id
    <3>1. 1 \in 1..n
      BY <1>1
    <3> QED
      BY <1>3, <1>4, <1>6, <3>1
  <2>2. PICK k \in 1..n : e = shown[k]
    BY <1>1, <1>2, <1>6, <2>1 DEF Shown
  <2>3. ~(k < i) /\ k # i
    BY <1>1, <1>2, <1>3, <1>6, <2>2 DEF Descends
  <2> QED
    BY <2>2, <2>3
<1>7. ASSUME NEW i \in 1..(n - 1) PROVE shown[i].after = shown[i + 1].after + Delta(shown[i])
  <2>1. i \in 1..n /\ i + 1 \in 1..n /\ i < i + 1 /\ n \in 1..n /\ n > 0
    BY <1>1
  <2>2. shown[i + 1].id < shown[i].id /\ shown[i + 1] \in Before(shown[i])
    BY <1>1, <1>2, <1>3, <1>5, <2>1 DEF Descends
  <2>3. Oldest <= shown[i + 1].id
    BY <1>1, <1>3, <2>1 DEF Oldest
  <2>4. ASSUME NEW e \in Before(shown[i]) PROVE e.id <= shown[i + 1].id
    <3>1. e \in RowsOf(Mine) /\ e.id < shown[i].id /\ e.id \in Nat
      BY <1>4, <1>5, <2>1, <2>4
    <3>2. CASE e.id >= Oldest
      <4>1. PICK k \in 1..n : e = shown[k] /\ i < k
        BY <1>6, <2>1, <3>1, <3>2
      <4>2. k = i + 1 \/ i + 1 < k
        BY <4>1
      <4>3. k = i + 1 \/ shown[k].id < shown[i + 1].id
        BY <1>1, <1>2, <2>1, <4>2 DEF Descends
      <4> QED
        BY <1>3, <2>1, <4>1, <4>3
    <3>3. CASE ~(e.id >= Oldest)
      BY <1>1, <1>3, <2>1, <2>3, <3>1, <3>3 DEF Oldest
    <3> QED
      BY <3>2, <3>3
  <2>5. \A e \in Before(shown[i]) : e.id \in Nat /\ (e.id = shown[i + 1].id => e = shown[i + 1])
    BY <1>3, <1>4, <1>5, <2>1, MyRows
  <2>6. Latest(Before(shown[i])) = shown[i + 1]
    BY <1>3, <2>1, <2>2, <2>4, <2>5 DEF Latest
  <2> QED
    BY <1>5, <2>1, <2>2, <2>6 DEF After
<1>8. ASSUME n > 0, reading = "done" PROVE shown[n].after = Delta(shown[n])
  <2>1. n \in 1..n /\ Oldest = 0
    BY <1>8 DEF Oldest
  <2>2. Before(shown[n]) = {}
    <3> SUFFICES ASSUME NEW e \in Before(shown[n]) PROVE FALSE
      OBVIOUS
    <3>1. e \in RowsOf(Mine) /\ e.id < shown[n].id /\ e.id >= Oldest
      BY <1>4, <1>5, <2>1
    <3> QED
      BY <1>6, <2>1, <3>1
  <2>3. entries \subseteq RowTypes /\ shown[n] \in RowTypes
    BY <1>3, <2>1 DEF IInv, TypeOK
  <2>4. shown[n].after \in Int /\ After(Before(shown[n])) = 0
    BY <2>2, <2>3 DEF RowTypes, Int64, After
  <2>5. Delta(shown[n]) \in Int
    BY <2>3 DEF Delta, BalanceDelta, RowTypes, Int64
  <2> QED
    BY <1>5, <2>1, <2>4, <2>5
<1> QED
  BY <1>1, <1>7, <1>8

(* Whatever is posted between two pages, and whatever limits the client asks for, its
   pages join up into the wallet's rows from the newest it was shown down to the oldest,
   once each, every balance_after following from the next, and the last page ends at the
   wallet's first row (service/ledger.go MyEntries, account_repo.go ListEntries,
   ledger_repo.go Post).                                                     *)
THEOREM PagesAreSeamlessHolds == StmtSpec => []PagesAreSeamless
<1>1. StmtInit => Init /\ ReaderOK
  <2>1. <<>> \in Seq(RowTypes) /\ Len(<<>>) = 0
    BY EmptySeq
  <2> QED
    BY <2>1 DEF StmtInit, ReaderOK, Shown, Descends, Covers
<1>2. ASSUME [StmtNext]_<<vars, rvars>>
      PROVE  [Next]_vars /\ (UNCHANGED rvars \/ \E n \in Limits : Page(n))
  <2>1. CASE \E n \in Limits : Page(n)
    BY <2>1 DEF Page
  <2>2. CASE UNCHANGED <<vars, rvars>>
    BY <2>2
  <2>3. CASE /\ \E s \in Sessions : \/ \E p \in Posts : Post(s, p[1], p[2], p[3])
                                    \/ Step(s) \/ CommitLost(s) \/ Abort(s) \/ Release(s)
             /\ UNCHANGED rvars
    <3>1. PICK s \in Sessions : \/ \E p \in Posts : Post(s, p[1], p[2], p[3])
                                \/ Step(s) \/ CommitLost(s) \/ Abort(s) \/ Release(s)
      BY <2>3
    <3>2. CASE \E p \in Posts : Post(s, p[1], p[2], p[3])
      <4>1. PICK p \in Posts : Post(s, p[1], p[2], p[3])
        BY <3>2
      <4>2. p[1] \in Orders /\ p[2] \in ClaimKeys /\ p[3] \in Hashes
        BY StatementAssumption
      <4> QED
        BY <2>3, <4>1, <4>2 DEF Next
    <3>3. CASE Step(s) \/ CommitLost(s) \/ Abort(s) \/ Release(s)
      BY <2>3, <3>3 DEF Next
    <3> QED
      BY <3>1, <3>2, <3>3
  <2> QED
    BY <1>2, <2>1, <2>2, <2>3 DEF StmtNext
<1>3. StmtSpec => Spec
  <2>1. StmtInit => Init
    BY <1>1
  <2>2. [StmtNext]_<<vars, rvars>> => [Next]_vars
    BY <1>2
  <2> QED
    BY <2>1, <2>2, PTL DEF StmtSpec, Spec
<1>4. (IInv /\ TInv /\ RowIdsOK) /\ ReaderOK /\ [StmtNext]_<<vars, rvars>> => ReaderOK'
  BY <1>2, PageKeeps, StoreKeeps
<1>5. (IInv /\ TInv /\ RowIdsOK) /\ RunningBalance /\ ReaderOK => PagesAreSeamless
  <2> SUFFICES ASSUME IInv, RowIdsOK, RunningBalance, ReaderOK PROVE PagesAreSeamless
    OBVIOUS
  <2>1. Len(shown) > 0 => {shown[i] : i \in 1..Len(shown)} =
          {e \in RowsOf(Mine) : e.id <= shown[1].id /\ e.id >= Oldest}
    BY DEF ReaderOK, Covers, Shown
  <2>2. PICK n \in Nat : n = Len(shown)
    BY LenProperties DEF ReaderOK
  <2>3. \A i \in 1..(n - 1) : shown[i].id > shown[i + 1].id
    <3>1. \A i \in 1..(n - 1) : i \in 1..n /\ i + 1 \in 1..n /\ i < i + 1
      OBVIOUS
    <3> QED
      BY <2>2, <3>1 DEF ReaderOK, Descends
  <2> QED
    BY <2>1, <2>2, <2>3, ShownAddUp DEF PagesAreSeamless, Oldest
<1> QED
  BY <1>1, <1>3, <1>4, <1>5, TablesInvariance, StatementsAddUp, PTL DEF StmtSpec
=============================================================================
