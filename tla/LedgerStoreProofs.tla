-------------------------- MODULE LedgerStoreProofs --------------------------
(***************************************************************************)
(* LedgerStore for any number of accounts, sessions, keys and transactions *)
(* and machine integers of any width.  Two inductive invariants carry the  *)
(* theorems: IInv, what a session knows at each statement of Post, and     *)
(* TInv, what the committed tables say to each other.                      *)
(* The drafts, which no session has posted yet, come last.                 *)
(***************************************************************************)
EXTENDS LedgerRefinement, Drafts, CollectionProofs, SequenceTheorems

Writing(s) == pc[s] \in {"entry", "commit"}

\* No two entries on one account.
Distinct(t) ==
  \A i, j \in 1..Len(t.entries) : t.entries[i].account = t.entries[j].account => i = j

\* What a session has established when it has come to a statement.
SessionOK(s) ==
  /\ pc[s] \in InTxn => call[s] \in Calls /\ Distinct(call[s].txn)
  /\ pc[s] \in {"idle", "claim", "return"} => held[s] = {}
  /\ pc[s] \in {"mark", "header", "entry", "commit"} =>
       /\ held[s] = AccountIDs(call[s].txn)
       /\ \A a \in held[s] : IsActive(snap[s][a])
  /\ pc[s] \in InTxn \ {"entry", "commit"} => posted[s] = <<>>
  /\ pc[s] = "idle" => posted[s] = <<>>
  /\ Writing(s) => tid[s] \in TxnIds /\ Len(posted[s]) <= Len(call[s].txn.entries)

\* The rows a session has written and not committed, against the committed ones.
WrittenOK(s) ==
  Writing(s) =>
    \A i \in 1..Len(posted[s]) :
      /\ posted[s][i].account = call[s].txn.entries[i].account
      /\ IsWallet(posted[s][i].account) => posted[s][i].after >= 0
      /\ posted[s][i].id <= entrySeq
      /\ \A e \in entries : e.account = posted[s][i].account => e.id < posted[s][i].id

IdsBounded == \A e \in entries : e.id <= entrySeq

IInv ==
  /\ TypeOK
  /\ \A s \in Sessions : SessionOK(s) /\ WrittenOK(s)
  /\ LockDiscipline
  /\ IdsBounded
  /\ WalletNonNegative
  /\ NoOptimisticConflict

----------------------------------------------------------------------------
(* Facts about the operators.                                              *)

(* Money.Add answers the exact sum when it is representable and ErrAmountOverflow when
   it is not, for any width of the integer (domain/money.go Add).            *)
THEOREM AddIsAlwaysExact ==
  \A m, o \in Int64 : AddIsExact(m, o)
<1> SUFFICES ASSUME NEW m \in Int64, NEW o \in Int64
             PROVE  AddIsExact(m, o)
  OBVIOUS
<1>1. HalfRange \in Nat
  BY MoneyAssumption
<1>2. CASE m + o >= HalfRange
  <2>1. Wrap(m + o) = m + o - 2 * HalfRange /\ Wrap(m + o) < m /\ o > 0
    BY <1>1, <1>2 DEF Wrap, Int64
  <2> QED
    BY <1>1, <1>2, <2>1 DEF AddIsExact, Add, Overflows, Int64
<1>3. CASE m + o < -HalfRange
  <2>1. Wrap(m + o) = m + o + 2 * HalfRange /\ Wrap(m + o) > m /\ o < 0
    BY <1>1, <1>3 DEF Wrap, Int64
  <2> QED
    BY <1>1, <1>3, <2>1 DEF AddIsExact, Add, Overflows, Int64
<1>4. CASE m + o < HalfRange /\ m + o >= -HalfRange
  BY <1>1, <1>4 DEF AddIsExact, Add, Overflows, Wrap, Int64
<1> QED
  BY <1>1, <1>2, <1>3, <1>4 DEF Int64

(* An addition that reports no error has the exact sum, and one whose sum fits reports
   none (domain/money.go Add).                                               *)
LEMMA AddIsNil ==
  ASSUME NEW m \in Int64, NEW o \in Int64
  PROVE  /\ Add(m, o).err = "nil" <=> m + o \in Int64
         /\ Add(m, o).err = "nil" => Add(m, o).val = m + o
         /\ Add(m, o).err \in {"nil", "ErrAmountOverflow"}
<1>1. AddIsExact(m, o)
  BY AddIsAlwaysExact
<1> QED
  BY <1>1 DEF AddIsExact, Value, Error

(* Money.Sub answers the exact difference or an error, the subtrahend without a
   negation included (domain/money.go Sub).                                  *)
THEOREM SubIsAlwaysExact ==
  \A m, o \in Int64 : SubIsExact(m, o)
<1> SUFFICES ASSUME NEW m \in Int64, NEW o \in Int64
             PROVE  SubIsExact(m, o)
  OBVIOUS
<1>1. HalfRange \in Nat
  BY MoneyAssumption
<1>2. CASE o = -HalfRange
  BY <1>2 DEF SubIsExact, Sub
<1>3. CASE o # -HalfRange
  <2>1. -o \in Int64 /\ Wrap(-o) = -o /\ m + (-o) = m - o
    BY <1>1, <1>3 DEF Wrap, Int64
  <2>2. AddIsExact(m, -o)
    BY <2>1, AddIsAlwaysExact
  <2> QED
    BY <1>3, <2>1, <2>2 DEF SubIsExact, Sub, AddIsExact
<1> QED
  BY <1>2, <1>3

(* What Validate checks, without the order in which it does (domain/transaction.go
   Validate).                                                                *)
LEMMA ValidateIsNil ==
  ASSUME NEW t, NEW n \in Nat, n = Len(t.entries)
  PROVE  Validate(t) = "nil" <=>
           /\ n >= 2 /\ ~t.longDesc
           /\ \A i \in 1..n : EntryFault(t, i) = "nil"
           /\ RunningTotal(t, DirectionDebit)[n] = RunningTotal(t, DirectionCredit)[n]
           /\ t.type = "REVERSAL" <=> t.reverses # NoTxn
<1>1. Faults(t) = {} <=> \A i \in 1..n : EntryFault(t, i) = "nil"
  BY DEF Faults
<1>2. ASSUME Faults(t) # {} PROVE Validate(t) # "nil"
  <2>1. Faults(t) \in SUBSET Nat
    BY DEF Faults
  <2>2. Min(Faults(t)) \in Faults(t)
    BY <1>2, <2>1, MinOfNats
  <2>3. EntryFault(t, Min(Faults(t))) # "nil"
    BY <2>2 DEF Faults
  <2> QED
    BY <1>2, <2>3 DEF Validate
<1>3. ASSUME Faults(t) = {}
      PROVE  Validate(t) = "nil" <=>
               /\ ~(n < 2) /\ ~t.longDesc
               /\ RunningTotal(t, DirectionDebit)[n] = RunningTotal(t, DirectionCredit)[n]
               /\ ~((t.type = "REVERSAL") # (t.reverses # NoTxn))
  BY <1>3 DEF Validate
<1> QED
  BY <1>1, <1>2, <1>3

(* A transaction that Validate accepts has one entry on each of its accounts
   (domain/transaction.go Validate).                                         *)
LEMMA ValidIsDistinct ==
  ASSUME NEW t \in Transactions, Validate(t) = "nil"
  PROVE  Distinct(t)
<1>1. Len(t.entries) \in Nat
  BY DEF Transactions
<1>2. ASSUME NEW i \in 1..Len(t.entries) PROVE ~Seen(t, i)
  <2>1. EntryFault(t, i) = "nil"
    BY <1>1, ValidateIsNil
  <2> QED
    BY <2>1 DEF EntryFault
<1> QED
  BY <1>1, <1>2 DEF Distinct, Seen

(* Each running total of Validate starts at zero and takes one line at a time
   (domain/transaction.go Validate).                                         *)
LEMMA RunningTotalIs ==
  ASSUME NEW t, NEW d, NEW n \in Nat, n = Len(t.entries)
  PROVE  /\ RunningTotal(t, d)[0] = 0
         /\ \A i \in 1..n :
              RunningTotal(t, d)[i] =
                IF t.entries[i].direction = d
                THEN Add(RunningTotal(t, d)[i - 1], t.entries[i].amount).val
                ELSE RunningTotal(t, d)[i - 1]
<1> DEFINE Plus(v, i) == IF t.entries[i].direction = d THEN Add(v, t.entries[i].amount).val ELSE v
           Body(f, m) == [i \in 0..m |-> IF i = 0 THEN 0 ELSE Plus(f[i - 1], i)]
           G == {m \in Nat : \E f : f = Body(f, m)}
           total == CHOOSE f : f = Body(f, n)
<1>1. RunningTotal(t, d) = total
  BY DEF RunningTotal
<1> HIDE DEF Plus
<1>2. 0 \in G
  <2> DEFINE f == [i \in 0..0 |-> 0]
  <2>1. f = Body(f, 0)
    OBVIOUS
  <2> QED
    BY <2>1
<1>3. ASSUME NEW m \in Nat, m \in G PROVE m + 1 \in G
  <2>1. PICK f : f = Body(f, m)
    BY <1>3
  <2> DEFINE g == [i \in 0..(m + 1) |-> IF i <= m THEN f[i] ELSE Plus(f[m], m + 1)]
  <2>2. ASSUME NEW i \in 0..(m + 1)
        PROVE  g[i] = IF i = 0 THEN 0 ELSE Plus(g[i - 1], i)
    <3>1. CASE i = 0
      <4>1. f[0] = 0
        BY <2>1
      <4> QED
        BY <3>1, <4>1
    <3>2. CASE i # 0 /\ i <= m
      <4>1. i \in 0..m /\ f[i] = Plus(f[i - 1], i)
        BY <2>1, <3>2
      <4>2. g[i] = f[i] /\ g[i - 1] = f[i - 1]
        BY <3>2
      <4> QED
        BY <3>2, <4>1, <4>2
    <3>3. CASE i = m + 1
      <4>1. g[i] = Plus(f[m], m + 1) /\ g[i - 1] = f[m]
        BY <3>3
      <4> QED
        BY <3>3, <4>1
    <3> QED
      BY <3>1, <3>2, <3>3
  <2>3. g = Body(g, m + 1)
    <3> HIDE DEF g
    <3>1. g = [i \in 0..(m + 1) |-> g[i]]
      BY DEF g
    <3> QED
      BY <2>2, <3>1
  <2> HIDE DEF g, Body
  <2> QED
    BY <2>3
<1>4. n \in G
  <2> HIDE DEF G
  <2> QED
    BY <1>2, <1>3, EveryNat
<1>5. total = Body(total, n)
  <2> HIDE DEF Body
  <2> QED
    BY <1>4
<1> HIDE DEF total
<1> QED
  BY <1>1, <1>5 DEF Plus

\* The places up to i of the lines on side d, and what each line adds to its side.
UpTo(t, d, i) == {j \in 1..i : t.entries[j].direction = d}
AmountsOf(t)  == [i \in 1..Len(t.entries) |-> t.entries[i].amount]

(* As long as no addition overflows, the running total of a side is the exact total of
   its lines so far (domain/transaction.go Validate).                        *)
LEMMA RunningTotalIsExact ==
  ASSUME NEW t, NEW d, NEW n \in Nat, n = Len(t.entries),
         \A i \in 1..n : t.entries[i].amount \in Int64,
         \A i \in 1..n : t.entries[i].direction = d =>
           \/ Add(RunningTotal(t, d)[i - 1], t.entries[i].amount).err = "nil"
           \/ Total(AmountsOf(t), UpTo(t, d, i)) \in Int64
  PROVE  \A i \in 0..n : /\ RunningTotal(t, d)[i] = Total(AmountsOf(t), UpTo(t, d, i))
                         /\ RunningTotal(t, d)[i] \in Int64
<1> DEFINE R(i) == RunningTotal(t, d)[i]
           T(i) == Total(AmountsOf(t), UpTo(t, d, i))
           G == {m \in Nat : m <= n => R(m) = T(m) /\ R(m) \in Int64}
<1>1. /\ R(0) = 0
      /\ \A i \in 1..n : R(i) = IF t.entries[i].direction = d
                                THEN Add(R(i - 1), t.entries[i].amount).val ELSE R(i - 1)
  BY RunningTotalIs
<1>2. 0 \in Int64 /\ Int64 \subseteq Int
  BY MoneyAssumption DEF Int64
<1>3. \A i \in 1..n : AmountsOf(t)[i] = t.entries[i].amount /\ AmountsOf(t)[i] \in Int
  BY <1>2 DEF AmountsOf
<1>4. 0 \in G
  <2>1. UpTo(t, d, 0) = {}
    BY DEF UpTo
  <2>2. T(0) = 0
    BY <2>1, FS_EmptySet, TotalUnfolds
  <2> QED
    BY <1>1, <1>2, <2>2
<1>5. ASSUME NEW m \in Nat, m \in G PROVE m + 1 \in G
  <2> SUFFICES ASSUME m + 1 <= n PROVE R(m + 1) = T(m + 1) /\ R(m + 1) \in Int64
    OBVIOUS
  <2>1. m + 1 \in 1..n /\ R(m) = T(m) /\ R(m) \in Int64
    BY <1>5
  <2>2. PICK a \in Int64 : a = t.entries[m + 1].amount /\ a = AmountsOf(t)[m + 1]
    BY <1>3, <2>1
  <2>3. CASE t.entries[m + 1].direction = d
    <3>1. UpTo(t, d, m + 1) = UpTo(t, d, m) \union {m + 1} /\ m + 1 \notin UpTo(t, d, m)
      BY <2>3 DEF UpTo
    <3>2. IsFiniteSet(UpTo(t, d, m)) /\ UpTo(t, d, m) \subseteq 1..n
      <4>1. UpTo(t, d, m) \in SUBSET (1..m)
        BY DEF UpTo
      <4>2. IsFiniteSet(1..m)
        BY FS_Interval
      <4> QED
        BY <2>1, <4>1, <4>2, FS_Subset
    <3>3. T(m + 1) = a + T(m)
      <4> DEFINE U == UpTo(t, d, m)
                 F == AmountsOf(t)
      <4>1. \A y \in U \union {m + 1} : F[y] \in Int
        BY <1>3, <2>1, <3>2
      <4> HIDE DEF U, F
      <4>2. Total(F, U \union {m + 1}) = F[m + 1] + Total(F, U)
        BY <3>1, <3>2, <4>1, TotalAdd DEF U
      <4> QED
        BY <2>2, <3>1, <4>2 DEF U, F
    <3>4. PICK r \in Int64 : r = R(m) /\ r = T(m) /\ r = RunningTotal(t, d)[(m + 1) - 1]
      <4>1. (m + 1) - 1 = m
        OBVIOUS
      <4> QED
        BY <2>1, <4>1
    <3>5. R(m + 1) = Add(r, a).val
      BY <1>1, <2>1, <2>2, <2>3, <3>4
    <3>6. Add(r, a).err = "nil" \/ T(m + 1) \in Int64
      BY <2>1, <2>2, <2>3, <3>4
    <3>7. T(m + 1) = r + a
      BY <1>2, <3>3, <3>4
    <3> HIDE DEF R, T
    <3> QED
      BY <3>5, <3>6, <3>7, AddIsNil
  <2>4. CASE t.entries[m + 1].direction # d
    <3>1. UpTo(t, d, m + 1) = UpTo(t, d, m)
      BY <2>4 DEF UpTo
    <3>2. R(m + 1) = R(m)
      BY <1>1, <2>1, <2>4
    <3> QED
      BY <2>1, <3>1, <3>2
  <2> QED
    BY <2>3, <2>4
<1>6. Nat \subseteq G
  <2> HIDE DEF G
  <2> QED
    BY <1>4, <1>5, EveryNat
<1> QED
  BY <1>6

(* What Validate accepts is balanced in exact arithmetic: no overflow hides a difference
   (domain/transaction.go Validate).                                         *)
LEMMA ValidIsBalanced ==
  ASSUME NEW t \in Transactions, Validate(t) = "nil", NEW n \in Nat, n = Len(t.entries)
  PROVE  Total(AmountsOf(t), UpTo(t, DirectionDebit, n)) =
           Total(AmountsOf(t), UpTo(t, DirectionCredit, n))
<1>1. /\ \A i \in 1..n : EntryFault(t, i) = "nil"
      /\ RunningTotal(t, DirectionDebit)[n] = RunningTotal(t, DirectionCredit)[n]
  BY ValidateIsNil
<1>2. \A i \in 1..n : t.entries[i].amount \in Int64
  <2>1. t.entries \in Seq(EntryTypes)
    BY DEF Transactions
  <2>2. \A i \in 1..n : t.entries[i] \in EntryTypes
    BY <2>1, ElementOfSeq
  <2>3. \A e \in EntryTypes : e.amount \in Int64
    BY DEF EntryTypes
  <2> QED
    BY <2>2, <2>3
<1>3. \A i \in 1..n : Add(RunningTotal(t, t.entries[i].direction)[i - 1], t.entries[i].amount).err = "nil"
  BY <1>1 DEF EntryFault
<1>4. ASSUME NEW d
      PROVE  RunningTotal(t, d)[n] = Total(AmountsOf(t), UpTo(t, d, n))
  <2>1. \A i \in 1..n : t.entries[i].direction = d =>
          Add(RunningTotal(t, d)[i - 1], t.entries[i].amount).err = "nil"
    BY <1>3
  <2>2. \A i \in 0..n : RunningTotal(t, d)[i] = Total(AmountsOf(t), UpTo(t, d, i))
    BY <1>2, <2>1, RunningTotalIsExact
  <2> QED
    BY <2>2
<1> QED
  BY <1>1, <1>4

(* Validate has no concurrency error to give (domain/transaction.go Validate). *)
LEMMA ValidateIsLocal ==
  ASSUME NEW t
  PROVE  Validate(t) # "ErrConcurrentModification"
<1>1. \A m, o : Add(m, o).err # "ErrConcurrentModification"
  BY DEF Add, Value, Error
<1>2. \A i : EntryFault(t, i) # "ErrConcurrentModification"
  BY <1>1 DEF EntryFault
<1> QED
  BY <1>2 DEF Validate

----------------------------------------------------------------------------
(* Initially, and steps that change nothing.                               *)

(* The empty values have their types.                                      *)
LEMMA EmptyValues ==
  /\ NoAccount \in AccountRows
  /\ <<>> \in Seq(RowTypes)
  /\ 0 \in 0..MaxEntryId
BY MoneyAssumption, StoreAssumption
   DEF NoAccount, AccountRows, Int64, AccountStatuses

(* The empty database and its idle sessions satisfy the invariant.         *)
LEMMA InitOK == Init => IInv
<1> SUFFICES ASSUME Init PROVE IInv
  OBVIOUS
<1>1. TypeOK
  BY EmptyValues, MoneyAssumption, StoreAssumption
     DEF Init, TypeOK, AccountRows, AccountStatuses, Int64, NoRow, TxnRows
<1>2. \A s \in Sessions : SessionOK(s) /\ WrittenOK(s)
  BY DEF Init, SessionOK, WrittenOK, Writing, InTxn
<1>3. LockDiscipline /\ IdsBounded /\ WalletNonNegative /\ NoOptimisticConflict
  BY DEF Init, LockDiscipline, IdsBounded, WalletNonNegative, NoOptimisticConflict
<1> QED
  BY <1>1, <1>2, <1>3 DEF IInv

(* A stuttering step preserves the invariant.                              *)
LEMMA StutterOK == IInv /\ UNCHANGED vars => IInv'
BY DEF IInv, TypeOK, SessionOK, WrittenOK, Writing, LockDiscipline, IdsBounded,
       WalletNonNegative, NoOptimisticConflict, vars, tables, session

----------------------------------------------------------------------------
(* One lemma for each way a step ends.                                     *)

(* The deferred Rollback leaves a session that has done nothing.           *)
LEMMA RollbackOK ==
  ASSUME IInv, NEW s \in Sessions, NEW err, err # "ErrConcurrentModification",
         Rollback(s, err), UNCHANGED entrySeq
  PROVE  IInv'
<1> USE DEF Rollback, Return
<1>1. TypeOK'
  BY EmptyValues DEF IInv, TypeOK, tables
<1>2. \A r \in Sessions : SessionOK(r)' /\ WrittenOK(r)'
  BY DEF IInv, TypeOK, SessionOK, WrittenOK, Writing, InTxn, tables
<1>3. LockDiscipline'
  BY DEF IInv, TypeOK, LockDiscipline, tables
<1>4. IdsBounded' /\ WalletNonNegative'
  BY DEF IInv, IdsBounded, WalletNonNegative, tables
<1>5. NoOptimisticConflict'
  BY DEF IInv, TypeOK, NoOptimisticConflict
<1> QED
  BY <1>1, <1>2, <1>3, <1>4, <1>5 DEF IInv

(* A statement that only moves on, with nothing new to be known of the session but
   what is assumed here.                                                     *)
LEMMA MoveOnOK ==
  ASSUME IInv, NEW s \in Sessions, NEW l \in InTxn, Goto(s, l),
         UNCHANGED <<tables, entrySeq, call, held, snap, tid, posted, reply>>,
         SessionOK(s)', WrittenOK(s)'
  PROVE  IInv'
<1> USE DEF Goto, tables
<1>1. TypeOK'
  BY DEF IInv, TypeOK
<1>2. \A r \in Sessions \ {s} : SessionOK(r)' /\ WrittenOK(r)'
  BY DEF IInv, TypeOK, SessionOK, WrittenOK, Writing
<1>3. LockDiscipline' /\ IdsBounded' /\ WalletNonNegative' /\ NoOptimisticConflict'
  BY DEF IInv, LockDiscipline, IdsBounded, WalletNonNegative, NoOptimisticConflict
<1> QED
  BY <1>1, <1>2, <1>3 DEF IInv

----------------------------------------------------------------------------
(* The actions.                                                            *)

(* Post starts with a transaction that Validate accepts, or returns.       *)
LEMMA PostOK ==
  ASSUME IInv, NEW s \in Sessions, NEW t, NEW k \in ClaimKeys, NEW h \in Hashes,
         Post(s, t, k, h)
  PROVE  IInv'
<1> USE DEF Post, Goto, tables
<1>1. TypeOK'
  BY DEF IInv, TypeOK, InTxn, Calls
<1>2. \A r \in Sessions \ {s} : SessionOK(r)' /\ WrittenOK(r)'
  <2> TAKE r \in Sessions \ {s}
  <2>1. pc'[r] = pc[r] /\ call'[r] = call[r]
    BY DEF IInv, TypeOK
  <2> QED
    BY <2>1 DEF IInv, SessionOK, WrittenOK, Writing
<1>3. SessionOK(s)' /\ WrittenOK(s)'
  <2>1. Validate(t) = "nil" => Distinct(t)
    BY ValidIsDistinct
  <2>2. call'[s].txn = t /\ call'[s] \in Calls
    BY DEF IInv, TypeOK, Calls
  <2>3. held[s] = {} /\ posted[s] = <<>>
    BY DEF IInv, SessionOK
  <2> QED
    BY <2>1, <2>2, <2>3 DEF IInv, TypeOK, SessionOK, WrittenOK, Writing, InTxn
<1>4. LockDiscipline' /\ IdsBounded' /\ WalletNonNegative'
  BY DEF IInv, LockDiscipline, IdsBounded, WalletNonNegative
<1>5. NoOptimisticConflict'
  BY ValidateIsLocal DEF IInv, TypeOK, NoOptimisticConflict
<1> QED
  BY <1>1, <1>2, <1>3, <1>4, <1>5 DEF IInv

(* The connection goes back to the pool with nothing held.                 *)
LEMMA ReleaseOK ==
  ASSUME IInv, NEW s \in Sessions, Release(s)
  PROVE  IInv'
<1> USE DEF Release, Goto, tables
<1>1. TypeOK'
  BY EmptyValues DEF IInv, TypeOK
<1>2. \A r \in Sessions : SessionOK(r)' /\ WrittenOK(r)'
  BY DEF IInv, TypeOK, SessionOK, WrittenOK, Writing, InTxn
<1>3. LockDiscipline' /\ IdsBounded' /\ WalletNonNegative'
  BY DEF IInv, LockDiscipline, IdsBounded, WalletNonNegative
<1>4. NoOptimisticConflict'
  BY DEF IInv, TypeOK, NoOptimisticConflict
<1> QED
  BY <1>1, <1>2, <1>3, <1>4 DEF IInv

(* The claim is taken, or another transaction has it.                      *)
LEMMA ClaimOK ==
  ASSUME IInv, NEW s \in Sessions, Claim(s)
  PROVE  IInv'
<1>1. CASE Claimed(call[s].key)
  BY <1>1, RollbackOK DEF Claim
<1>2. CASE ~Claimed(call[s].key)
  <2>1. SessionOK(s)' /\ WrittenOK(s)'
    BY <1>2 DEF Claim, Goto, IInv, TypeOK, SessionOK, WrittenOK, Writing, InTxn
  <2> QED
    BY <1>2, <2>1, MoveOnOK DEF Claim, InTxn
<1> QED
  BY <1>1, <1>2

(* A row that is locked is held by nobody else and read as it is.          *)
LEMMA LockRowOK ==
  ASSUME IInv, NEW s \in Sessions, LockRow(s)
  PROVE  IInv'
<1>1. PICK a \in ToLock(s) : /\ IsNext(s, a)
                             /\ held' = [held EXCEPT ![s] = @ \union {a}]
                             /\ snap' = [snap EXCEPT ![s][a] = accounts[a]]
  BY DEF LockRow
<1>2. a \in Accounts
  BY DEF ToLock
<1>3. \A r \in Sessions \ {s} : a \notin held[r]
  BY <1>1 DEF LockRow, WaitsFor
<1> USE DEF tables
<1>4. TypeOK'
  BY <1>1, <1>2 DEF LockRow, IInv, TypeOK
<1>5. \A r \in Sessions : SessionOK(r)' /\ WrittenOK(r)'
  BY <1>1 DEF LockRow, IInv, TypeOK, SessionOK, WrittenOK, Writing
<1>6. LockDiscipline'
  BY <1>1, <1>2, <1>3 DEF LockRow, IInv, TypeOK, LockDiscipline
<1>7. IdsBounded' /\ WalletNonNegative' /\ NoOptimisticConflict'
  BY DEF LockRow, IInv, IdsBounded, WalletNonNegative, NoOptimisticConflict
<1> QED
  BY <1>4, <1>5, <1>6, <1>7 DEF IInv

(* Past the checks every account of the transaction is held, and was ACTIVE. *)
LEMMA CheckLockedOK ==
  ASSUME IInv, NEW s \in Sessions, CheckLocked(s)
  PROVE  IInv'
<1>1. CASE CheckError(s) # "nil"
  <2>1. CheckError(s) # "ErrConcurrentModification"
    BY DEF CheckError
  <2> QED
    BY <1>1, <2>1, RollbackOK DEF CheckLocked
<1>2. CASE CheckError(s) = "nil"
  <2>1. held[s] = AccountIDs(call[s].txn) /\ \A a \in held[s] : IsActive(snap[s][a])
    BY <1>2 DEF CheckError
  <2>2. pc'[s] \in {"mark", "header"}
    BY <1>2 DEF CheckLocked, Goto, IInv, TypeOK
  <2>3. SessionOK(s)' /\ WrittenOK(s)'
    BY <1>2, <2>1, <2>2
       DEF CheckLocked, IInv, TypeOK, SessionOK, WrittenOK, Writing, InTxn
  <2> QED
    BY <1>2, <2>2, <2>3, MoveOnOK DEF CheckLocked, InTxn
<1> QED
  BY <1>1, <1>2

(* Marking the original changes nothing the invariant speaks of.           *)
LEMMA MarkOK ==
  ASSUME IInv, NEW s \in Sessions, Mark(s)
  PROVE  IInv'
<1>1. CASE ~Markable(call[s].txn.reverses)
  BY <1>1, RollbackOK DEF Mark
<1>2. CASE Markable(call[s].txn.reverses)
  <2>1. SessionOK(s)' /\ WrittenOK(s)'
    BY <1>2 DEF Mark, Goto, IInv, TypeOK, SessionOK, WrittenOK, Writing, InTxn
  <2> QED
    BY <1>2, <2>1, MoveOnOK DEF Mark, InTxn
<1> QED
  BY <1>1, <1>2

(* Saving the result changes nothing the invariant speaks of.              *)
LEMMA SaveResultOK ==
  ASSUME IInv, NEW s \in Sessions, SaveResult(s)
  PROVE  IInv'
<1>1. SessionOK(s)' /\ WrittenOK(s)'
  BY DEF SaveResult, Goto, IInv, TypeOK, SessionOK, WrittenOK, Writing, InTxn, tables
<1> QED
  BY <1>1, MoveOnOK DEF SaveResult, InTxn

(* The header gets a fresh id.                                             *)
LEMMA InsertHeaderOK ==
  ASSUME IInv, NEW s \in Sessions, InsertHeader(s)
  PROVE  IInv'
<1>1. CASE HeaderError(s) # "nil"
  <2>1. HeaderError(s) # "ErrConcurrentModification"
    BY DEF HeaderError
  <2> QED
    BY <1>1, <2>1, RollbackOK DEF InsertHeader
<1>2. CASE HeaderError(s) = "nil"
  <2> USE <1>2 DEF InsertHeader, Goto, tables
  <2>1. tid'[s] \in TxnIds
    BY DEF FreshTxnIds, IInv, TypeOK
  <2>2. TypeOK'
    <3>1. tid' \in [Sessions -> TxnIds \union {NoTxn}]
      BY <2>1 DEF IInv, TypeOK
    <3>2. pc' \in [Sessions -> InTxn \union {"idle", "return"}]
      BY DEF IInv, TypeOK, InTxn
    <3>3. UNCHANGED <<accounts, transactions, entries, idem, outbox, entrySeq,
                      call, held, snap, posted, reply>>
      OBVIOUS
    <3> QED
      BY <3>1, <3>2, <3>3, Zenon DEF IInv, TypeOK
  <2>3. \A r \in Sessions \ {s} : SessionOK(r)' /\ WrittenOK(r)'
    BY DEF IInv, TypeOK, SessionOK, WrittenOK, Writing
  <2>4. SessionOK(s)' /\ WrittenOK(s)'
    <3>1. posted[s] = <<>> /\ call[s] \in Calls /\ Distinct(call[s].txn)
      BY DEF IInv, SessionOK, InTxn
    <3>2. Len(call[s].txn.entries) \in Nat
      BY <3>1 DEF Calls, Transactions
    <3>3. /\ pc[s] = "header" /\ pc'[s] = "entry"
          /\ UNCHANGED <<accounts, entries, entrySeq, call, held, snap, posted, reply>>
      BY DEF IInv, TypeOK
    <3>4. tid'[s] \in TxnIds /\ SessionOK(s) /\ WrittenOK(s)
      BY <2>1 DEF IInv
    <3> QED
      BY <3>1, <3>2, <3>3, <3>4 DEF SessionOK, WrittenOK, Writing, InTxn
  <2>5. LockDiscipline' /\ IdsBounded' /\ WalletNonNegative' /\ NoOptimisticConflict'
    BY DEF IInv, LockDiscipline, IdsBounded, WalletNonNegative, NoOptimisticConflict
  <2> QED
    BY <2>2, <2>3, <2>4, <2>5 DEF IInv
<1> QED
  BY <1>1, <1>2

(* The row an entry updates is the row that was read: the session has not touched it
   yet, and nobody else could.                                               *)
LEMMA EntryIsFresh ==
  ASSUME IInv, NEW s \in Sessions, pc[s] = "entry",
         Len(posted[s]) < Len(call[s].txn.entries)
  PROVE  LET e == ThisEntry(s)
         IN  /\ e \in [account : Accounts, direction : STRING, amount : Int64]
             /\ ~Wrote(s, e.account)
             /\ Current(s, e.account) = snap[s][e.account]
             /\ IsActive(snap[s][e.account])
<1> DEFINE t == call[s].txn
           n == Len(posted[s]) + 1
           e == ThisEntry(s)
<1>1. /\ t \in Transactions /\ Distinct(t) /\ posted[s] \in Seq(RowTypes)
      /\ held[s] = AccountIDs(t) /\ \A a \in held[s] : IsActive(snap[s][a])
  BY DEF IInv, TypeOK, SessionOK, InTxn, Calls
<1>2. n \in 1..Len(t.entries) /\ e = t.entries[n]
  BY <1>1 DEF ThisEntry, Transactions
<1>3. e \in EntryTypes
  <2>1. t.entries \in Seq(EntryTypes)
    BY <1>1 DEF Transactions
  <2> QED
    BY <1>2, <2>1, ElementOfSeq
<1>4. e.account \in held[s]
  BY <1>1, <1>2 DEF AccountIDs
<1>5. e.account \in Accounts
  BY <1>4 DEF IInv, TypeOK
<1>6. ~Wrote(s, e.account)
  <2> SUFFICES ASSUME NEW i \in 1..Len(posted[s]), posted[s][i].account = e.account
               PROVE  FALSE
    BY DEF Wrote
  <2>1. posted[s][i].account = t.entries[i].account
    BY DEF IInv, WrittenOK, Writing
  <2>2. i \in 1..Len(t.entries) /\ i # n
    BY <1>1, <1>2 DEF Transactions
  <2> QED
    BY <1>1, <1>2, <2>1, <2>2 DEF Distinct
<1>7. Current(s, e.account) = snap[s][e.account]
  BY <1>4, <1>6 DEF Current, IInv, LockDiscipline
<1> QED
  BY <1>1, <1>3, <1>4, <1>5, <1>6, <1>7 DEF EntryTypes

(* An entry is written from the row under the lock, with the next id.      *)
LEMMA PostEntryOK ==
  ASSUME IInv, NEW s \in Sessions, PostEntry(s)
  PROVE  IInv'
<1> DEFINE e == ThisEntry(s)
           row == EntryRow(s, e)
<1>1. /\ e \in [account : Accounts, direction : STRING, amount : Int64]
      /\ ~Wrote(s, e.account)
      /\ Current(s, e.account) = snap[s][e.account]
      /\ IsActive(snap[s][e.account])
  BY EntryIsFresh DEF PostEntry
<1>2. CASE EntryError(s, e) # "nil"
  <2>1. \A m, o : Add(m, o).err # "ErrConcurrentModification"
    BY DEF Add, Value, Error
  <2>2. EntryError(s, e) # "ErrConcurrentModification"
    BY <1>1, <2>1 DEF EntryError
  <2> QED
    BY <1>2, <2>2, RollbackOK DEF PostEntry
<1>3. CASE EntryError(s, e) = "nil"
  <2>1. /\ BalanceAfter(s, e) \in Int64
        /\ IsWallet(e.account) => ~(BalanceAfter(s, e) < 0)
        /\ entrySeq # MaxEntryId
    BY <1>3 DEF EntryError, BalanceAfter
  <2>2. /\ posted' = [posted EXCEPT ![s] = Append(@, row)]
        /\ entrySeq' = entrySeq + 1
        /\ UNCHANGED <<tables, pc, call, held, snap, tid, reply>>
    BY <1>3 DEF PostEntry
  <2>3. /\ row \in RowTypes /\ row.account = e.account /\ row.id = entrySeq + 1
        /\ IsWallet(row.account) => row.after >= 0
    <3>1. tid[s] \in TxnIds /\ entrySeq \in 0..MaxEntryId
      BY DEF PostEntry, IInv, TypeOK, SessionOK, Writing
    <3> QED
      BY <1>1, <2>1, <3>1, MoneyAssumption, StoreAssumption
         DEF EntryRow, RowTypes, Int64
  <2>4. posted[s] \in Seq(RowTypes)
    BY DEF IInv, TypeOK
  <2>5. posted'[s] = Append(posted[s], row)
    BY <2>2 DEF IInv, TypeOK
  <2>6. TypeOK'
    <3>1. posted' \in [Sessions -> Seq(RowTypes)]
      BY <2>2, <2>3, <2>4 DEF IInv, TypeOK
    <3>2. entrySeq' \in 0..MaxEntryId
      BY <2>1, <2>2, StoreAssumption DEF IInv, TypeOK
    <3> QED
      BY <2>2, <3>1, <3>2 DEF IInv, TypeOK, tables
  <2>7. \A r \in Sessions : SessionOK(r)'
    <3>1. SessionOK(s)'
      <4>1. call[s] \in Calls /\ pc[s] = "entry" /\ SessionOK(s)
        BY DEF PostEntry, IInv, SessionOK, InTxn
      <4>2. Len(call[s].txn.entries) \in Nat /\ Len(posted[s]) < Len(call[s].txn.entries)
        BY <4>1 DEF PostEntry, Calls, Transactions
      <4>3. Len(posted'[s]) = Len(posted[s]) + 1 /\ Len(posted[s]) \in Nat
        BY <2>3, <2>4, <2>5
      <4>4. Len(posted'[s]) <= Len(call[s].txn.entries)
        BY <4>2, <4>3
      <4> QED
        BY <2>2, <4>1, <4>4 DEF SessionOK, Writing, InTxn
    <3>2. \A r \in Sessions \ {s} : SessionOK(r)'
      BY <2>2 DEF IInv, TypeOK, SessionOK, Writing
    <3> QED
      BY <3>1, <3>2
  <2>8. \A r \in Sessions \ {s} : WrittenOK(r)'
    <3> TAKE r \in Sessions \ {s}
    <3>1. WrittenOK(r) /\ posted'[r] = posted[r] /\ posted[r] \in Seq(RowTypes)
      BY <2>2 DEF IInv, TypeOK
    <3>2. \A i \in 1..Len(posted[r]) : posted[r][i].id \in Nat
      <4> TAKE i \in 1..Len(posted[r])
      <4>1. posted[r][i] \in RowTypes
        BY <3>1, ElementOfSeq
      <4> QED
        BY <4>1 DEF RowTypes
    <3>3. entrySeq \in Nat
      BY DEF IInv, TypeOK
    <3> QED
      BY <2>2, <3>1, <3>2, <3>3 DEF WrittenOK, Writing, tables
  <2>9. WrittenOK(s)'
    <3> SUFFICES ASSUME NEW i \in 1..Len(posted'[s])
                 PROVE  /\ posted'[s][i].account = call[s].txn.entries[i].account
                        /\ IsWallet(posted'[s][i].account) => posted'[s][i].after >= 0
                        /\ posted'[s][i].id <= entrySeq + 1
                        /\ \A f \in entries : f.account = posted'[s][i].account
                                              => f.id < posted'[s][i].id
      BY <2>2 DEF WrittenOK, tables
    <3>1. Len(posted'[s]) = Len(posted[s]) + 1 /\ Len(posted[s]) \in Nat
      BY <2>3, <2>4, <2>5
    <3>2. CASE i = Len(posted[s]) + 1
      <4>1. posted'[s][i] = row
        BY <2>3, <2>4, <2>5, <3>2
      <4>2. e = call[s].txn.entries[i]
        BY <3>2 DEF ThisEntry
      <4>3. \A f \in entries : f.id < row.id
        BY <2>3 DEF IInv, TypeOK, IdsBounded, RowTypes
      <4> QED
        BY <2>3, <4>1, <4>2, <4>3 DEF IInv, TypeOK
    <3>3. CASE i \in 1..Len(posted[s])
      <4>1. posted'[s][i] = posted[s][i] /\ posted[s][i] \in RowTypes
        BY <2>3, <2>4, <2>5, <3>3
      <4>2. WrittenOK(s) /\ Writing(s)
        BY DEF PostEntry, IInv, Writing
      <4> QED
        BY <3>3, <4>1, <4>2 DEF WrittenOK, IInv, TypeOK, RowTypes
    <3> QED
      BY <3>1, <3>2, <3>3
  <2>10. LockDiscipline' /\ WalletNonNegative' /\ NoOptimisticConflict'
    BY <2>2 DEF IInv, LockDiscipline, WalletNonNegative, NoOptimisticConflict, tables
  <2>11. IdsBounded'
    BY <2>2 DEF IInv, TypeOK, IdsBounded, tables, RowTypes
  <2> QED
    BY <2>6, <2>7, <2>8, <2>9, <2>10, <2>11 DEF IInv
<1> QED
  BY <1>2, <1>3

(* The version of an account a committing session leaves: unchanged if the session has
   no row on it, and else the one of that row.                               *)
LEMMA CurrentOK ==
  ASSUME IInv, NEW s \in Sessions, Writing(s), NEW a \in Accounts
  PROVE  /\ Current(s, a) \in AccountRows
         /\ IsWallet(a) => Current(s, a).balance >= 0
         /\ a \notin held[s] => Current(s, a) = accounts[a]
<1>1. CASE ~Wrote(s, a)
  BY <1>1 DEF Current, IInv, TypeOK, WalletNonNegative, IsWallet
<1>2. CASE Wrote(s, a)
  <2> DEFINE i == CHOOSE i \in 1..Len(posted[s]) : posted[s][i].account = a
  <2>1. i \in 1..Len(posted[s]) /\ posted[s][i].account = a
    BY <1>2 DEF Wrote
  <2> HIDE DEF i
  <2>2. Current(s, a) = [balance |-> posted[s][i].after, version |-> accounts[a].version + 1,
                         status |-> accounts[a].status]
    BY <1>2, Zenon DEF Current, i
  <2>3. posted[s][i] \in RowTypes
    BY <2>1, ElementOfSeq DEF IInv, TypeOK
  <2>4. posted[s][i].after \in Int64 /\ (IsWallet(a) => posted[s][i].after >= 0)
    BY <2>1, <2>3 DEF RowTypes, IInv, WrittenOK
  <2>5. a \in held[s]
    <3>1. /\ a = call[s].txn.entries[i].account /\ held[s] = AccountIDs(call[s].txn)
          /\ Len(posted[s]) <= Len(call[s].txn.entries)
          /\ call[s] \in Calls /\ posted[s] \in Seq(RowTypes)
      BY <2>1 DEF IInv, TypeOK, SessionOK, WrittenOK, Writing, InTxn
    <3>2. i \in 1..Len(call[s].txn.entries)
      BY <2>1, <3>1 DEF Calls, Transactions
    <3> QED
      BY <3>1, <3>2 DEF AccountIDs
  <2>6. accounts[a] \in AccountRows
    BY DEF IInv, TypeOK
  <2> QED
    BY <2>2, <2>4, <2>5, <2>6 DEF AccountRows
<1> QED
  BY <1>1, <1>2

(* The rows a session commits.                                             *)
LEMMA CommittedRows ==
  ASSUME IInv, NEW s \in Sessions, Writing(s), NEW i \in 1..Len(posted[s])
  PROVE  /\ posted[s][i] \in RowTypes
         /\ posted[s][i].account \in held[s]
         /\ accounts[posted[s][i].account].status = "ACTIVE"
         /\ IsWallet(posted[s][i].account) => posted[s][i].after >= 0
         /\ posted[s][i].id <= entrySeq
         /\ \A f \in entries : f.account = posted[s][i].account => f.id < posted[s][i].id
<1>1. posted[s] \in Seq(RowTypes) /\ SessionOK(s) /\ WrittenOK(s)
  BY DEF IInv, TypeOK
<1>2. posted[s][i] \in RowTypes
  BY <1>1, ElementOfSeq
<1>3. posted[s][i].account \in held[s] /\ IsActive(snap[s][posted[s][i].account])
  <2>1. /\ posted[s][i].account = call[s].txn.entries[i].account
        /\ held[s] = AccountIDs(call[s].txn)
        /\ \A a \in held[s] : IsActive(snap[s][a])
        /\ Len(posted[s]) <= Len(call[s].txn.entries)
        /\ call[s] \in Calls
    BY <1>1 DEF SessionOK, WrittenOK, Writing, InTxn
  <2>2. i \in 1..Len(call[s].txn.entries)
    BY <1>1, <2>1 DEF Calls, Transactions
  <2> QED
    BY <2>1, <2>2 DEF AccountIDs
<1>4. accounts[posted[s][i].account].status = "ACTIVE"
  BY <1>3 DEF IInv, LockDiscipline, IsActive
<1> QED
  BY <1>1, <1>2, <1>3, <1>4 DEF WrittenOK

(* COMMIT makes visible what the session wrote under its locks; the other sessions
   hold other rows.                                                          *)
LEMMA ApplyOK ==
  ASSUME IInv, NEW s \in Sessions, pc[s] = "commit", Apply(s),
         NEW err, err # "ErrConcurrentModification", Return(s, err),
         \/ UNCHANGED <<tid, posted>>
         \/ /\ tid' = [tid EXCEPT ![s] = NoTxn]
            /\ posted' = [posted EXCEPT ![s] = <<>>],
         UNCHANGED <<entrySeq, call>>
  PROVE  IInv'
<1>1. Writing(s)
  BY DEF Writing
<1>2. /\ call[s] \in Calls /\ call[s].txn \in Transactions
      /\ tid[s] \in TxnIds /\ posted[s] \in Seq(RowTypes)
  BY <1>1 DEF IInv, TypeOK, SessionOK, InTxn, Calls
<1>3. Stored(s) \in Bodies
  BY <1>2 DEF Stored, Bodies, Transactions
<1>4. \A a \in Accounts :
        /\ accounts'[a] = Current(s, a) /\ Current(s, a) \in AccountRows
        /\ IsWallet(a) => Current(s, a).balance >= 0
        /\ a \notin held[s] => Current(s, a) = accounts[a]
  BY <1>1, CurrentOK DEF Apply
<1>5. TypeOK'
  <2>1. accounts' \in [Accounts -> AccountRows]
    BY <1>4 DEF Apply
  <2>2. transactions' \in [TxnIds -> TxnRows]
    <3>1. HeaderRow(s) \in TxnRows
      BY <1>2 DEF HeaderRow, Transactions, TxnRows, TxnStatuses
    <3>2. \A row \in TxnRows : [row EXCEPT !.status = "REVERSED"] \in TxnRows
      BY DEF TxnRows, TxnStatuses
    <3>3. \A x \in TxnIds : transactions[x] \in TxnRows
      BY DEF IInv, TypeOK
    <3> QED
      BY <3>1, <3>2, <3>3 DEF Apply, TransactionsAfter
  <2>3. entries' \subseteq RowTypes
    BY <1>1, CommittedRows DEF Apply, Written, IInv, TypeOK
  <2>4. idem' \in [ClaimKeys -> [code : {201}, hash : Hashes, txn : TxnIds, body : Bodies]
                                \union {NoClaim}]
    BY <1>2, <1>3 DEF Apply, ClaimRow, Calls, IInv, TypeOK
  <2>5. outbox' \subseteq [aggregate : TxnIds, payload : Bodies]
    BY <1>2, <1>3 DEF Apply, OutboxAfter, IInv, TypeOK
  <2>6. tid' \in [Sessions -> TxnIds \union {NoTxn}] /\ posted' \in [Sessions -> Seq(RowTypes)]
    <3>1. tid' \in [Sessions -> TxnIds \union {NoTxn}]
      BY DEF IInv, TypeOK
    <3>2. posted' \in [Sessions -> Seq(RowTypes)]
      BY EmptyValues DEF IInv, TypeOK
    <3> QED
      BY <3>1, <3>2
  <2>7. /\ pc' \in [Sessions -> InTxn \union {"idle", "return"}]
        /\ held' \in [Sessions -> SUBSET Accounts]
        /\ snap' \in [Sessions -> [Accounts -> AccountRows]]
        /\ reply' = [r \in Sessions |-> reply'[r]]
    BY EmptyValues DEF Return, IInv, TypeOK
  <2> QED
    BY <2>1, <2>2, <2>3, <2>4, <2>5, <2>6, <2>7 DEF IInv, TypeOK
<1>6. \A r \in Sessions \ {s} :
        /\ pc'[r] = pc[r] /\ held'[r] = held[r] /\ snap'[r] = snap[r]
        /\ tid'[r] = tid[r] /\ posted'[r] = posted[r] /\ reply'[r] = reply[r]
  BY DEF Return, IInv, TypeOK
<1>7. pc'[s] = "return" /\ held'[s] = {} /\ reply'[s] = err
  BY DEF Return, IInv, TypeOK
<1>8. \A r \in Sessions : SessionOK(r)'
  <2>1. SessionOK(s)'
    BY <1>7 DEF SessionOK, Writing, InTxn
  <2>2. \A r \in Sessions \ {s} : SessionOK(r)'
    BY <1>6 DEF IInv, SessionOK, Writing
  <2> QED
    BY <2>1, <2>2
<1>9. \A r \in Sessions : WrittenOK(r)'
  <2>1. WrittenOK(s)'
    BY <1>7 DEF WrittenOK, Writing
  <2>2. ASSUME NEW r \in Sessions \ {s}, Writing(r), NEW i \in 1..Len(posted[r]),
               NEW f \in entries', f.account = posted[r][i].account
        PROVE  f.id < posted[r][i].id
    <3>1. posted[r][i].account \in held[r] /\ (f \in entries => f.id < posted[r][i].id)
      BY <2>2, CommittedRows
    <3>2. CASE f \in entries
      BY <3>1, <3>2
    <3>3. CASE \E j \in 1..Len(posted[s]) : f = posted[s][j]
      BY <1>1, <2>2, <3>1, <3>3, CommittedRows DEF IInv, LockDiscipline
    <3> QED
      BY <3>2, <3>3 DEF Apply, Written
  <2>3. \A r \in Sessions \ {s} : WrittenOK(r)'
    BY <1>6, <2>2 DEF IInv, WrittenOK, Writing
  <2> QED
    BY <2>1, <2>3
<1>10. LockDiscipline'
  <2>1. \A q, r \in Sessions : q # r => held'[q] \intersect held'[r] = {}
    BY <1>6, <1>7 DEF IInv, LockDiscipline
  <2>2. ASSUME NEW r \in Sessions, NEW a \in held'[r]
        PROVE  snap'[r][a] = accounts'[a]
    <3>1. r # s /\ a \in held[r] /\ a \in Accounts
      BY <1>6, <1>7 DEF IInv, TypeOK
    <3>2. a \notin held[s] /\ snap[r][a] = accounts[a]
      BY <3>1 DEF IInv, LockDiscipline
    <3> QED
      BY <1>4, <1>6, <3>1, <3>2
  <2> QED
    BY <2>1, <2>2 DEF LockDiscipline
<1>11. IdsBounded'
  BY <1>1, CommittedRows DEF Apply, Written, IInv, IdsBounded
<1>12. WalletNonNegative'
  BY <1>1, <1>4, CommittedRows DEF Apply, Written, IInv, WalletNonNegative, IsWallet
<1>13. NoOptimisticConflict'
  BY <1>6, <1>7 DEF IInv, NoOptimisticConflict
<1> QED
  BY <1>5, <1>8, <1>9, <1>10, <1>11, <1>12, <1>13 DEF IInv

(* Commit succeeds, fails at the deferred trigger, or succeeds unheard.    *)
LEMMA CommitOK ==
  ASSUME IInv, NEW s \in Sessions, Commit(s) \/ CommitLost(s)
  PROVE  IInv'
<1>1. CASE Commit(s) /\ CommitError(s) = "nil"
  BY <1>1, ApplyOK DEF Commit
<1>2. CASE Commit(s) /\ CommitError(s) # "nil"
  <2>1. CommitError(s) # "ErrConcurrentModification"
    BY DEF CommitError
  <2> QED
    BY <1>2, <2>1, RollbackOK DEF Commit
<1>3. CASE CommitLost(s)
  BY <1>3, ApplyOK DEF CommitLost
<1> QED
  BY <1>1, <1>2, <1>3

(* An operator changes a row that nobody holds.                            *)
LEMMA SetStatusOK ==
  ASSUME IInv, NEW a \in Freezable, SetStatus(a)
  PROVE  IInv'
<1>1. PICK st \in {"ACTIVE", "FROZEN"} : accounts' = [accounts EXCEPT ![a].status = st]
  BY DEF SetStatus
<1>2. a \in Accounts
  BY StoreAssumption
<1>3. accounts' \in [Accounts -> AccountRows]
  <2>1. accounts \in [Accounts -> AccountRows]
    BY DEF IInv, TypeOK
  <2>2. [accounts[a] EXCEPT !.status = st] \in AccountRows
    BY <1>2, <2>1 DEF AccountRows, AccountStatuses
  <2> QED
    BY <1>1, <2>1, <2>2
<1>4. /\ \A b \in Accounts : accounts'[b].balance = accounts[b].balance
      /\ \A b \in Accounts \ {a} : accounts'[b] = accounts[b]
  BY <1>1, <1>2 DEF IInv, TypeOK, AccountRows
<1> USE DEF SetStatus, session
<1>5. TypeOK'
  BY <1>3 DEF IInv, TypeOK
<1>6. \A s \in Sessions : SessionOK(s)' /\ WrittenOK(s)'
  BY DEF IInv, SessionOK, WrittenOK, Writing
<1>7. LockDiscipline'
  BY <1>4 DEF IInv, TypeOK, LockDiscipline
<1>8. IdsBounded' /\ NoOptimisticConflict'
  BY DEF IInv, IdsBounded, NoOptimisticConflict
<1>9. WalletNonNegative'
  BY <1>4 DEF IInv, WalletNonNegative
<1> QED
  BY <1>5, <1>6, <1>7, <1>8, <1>9 DEF IInv

----------------------------------------------------------------------------
(* The theorems.                                                           *)

(* Every step of every session and of the operator preserves the invariant. *)
LEMMA NextOK == IInv /\ [Next]_vars => IInv'
<1> SUFFICES ASSUME IInv, [Next]_vars PROVE IInv'
  OBVIOUS
<1>1. ASSUME NEW s \in Sessions, NEW k \in ClaimKeys, NEW h \in Hashes,
             NEW t, Post(s, t, k, h)
      PROVE  IInv'
  BY <1>1, PostOK
<1>2. ASSUME NEW s \in Sessions, Step(s) \/ CommitLost(s) \/ Abort(s) \/ Release(s)
      PROVE  IInv'
  <2>1. CASE Abort(s)
    BY <2>1, RollbackOK DEF Abort
  <2> QED
    BY <1>2, <2>1, ReleaseOK, ClaimOK, LockRowOK, CheckLockedOK, MarkOK, InsertHeaderOK,
       PostEntryOK, SaveResultOK, CommitOK DEF Step
<1>3. ASSUME NEW a \in Freezable, SetStatus(a)
      PROVE  IInv'
  BY <1>3, SetStatusOK
<1>4. CASE UNCHANGED vars
  BY <1>4, StutterOK
<1> QED
  BY <1>1, <1>2, <1>3, <1>4 DEF Next

(* The invariant holds in every state of every behaviour.                  *)
THEOREM Invariance == Spec => []IInv
<1>1. Init => IInv
  BY InitOK
<1>2. IInv /\ [Next]_vars => IInv'
  BY NextOK
<1> QED
  BY <1>1, <1>2, PTL DEF Spec

(* The tables and the variables of Post keep their types (ledger_repo.go Post).  *)
THEOREM TypeCorrect == Spec => []TypeOK
<1>1. IInv => TypeOK
  BY DEF IInv
<1> QED
  BY <1>1, Invariance, PTL

(* No wallet is ever below zero, now or in its history, however many posts interleave
   and wherever they fail (ledger_repo.go Post step 5).                      *)
THEOREM WalletsNeverOverdrawn == Spec => []WalletNonNegative
<1>1. IInv => WalletNonNegative
  BY DEF IInv
<1> QED
  BY <1>1, Invariance, PTL

(* What is read FOR UPDATE stays true until the commit, and no two sessions hold a row
   (ledger_repo.go Post step 2).                                             *)
THEOREM LocksProtectReads == Spec => []LockDiscipline
<1>1. IInv => LockDiscipline
  BY DEF IInv
<1> QED
  BY <1>1, Invariance, PTL

(* Only a commit adds rows, and it adds those its session has written.     *)
LEMMA NewRows ==
  ASSUME IInv, [Next]_vars, entries' # entries
  PROVE  \E s \in Sessions :
           /\ Writing(s)
           /\ entries' = entries \union Written(s)
<1> USE DEF tables
<1>1. ASSUME NEW s \in Sessions, Commit(s) \/ CommitLost(s)
      PROVE  Writing(s) /\ entries' = entries \union Written(s)
  BY <1>1 DEF Commit, CommitLost, Rollback, Apply, Writing
<1>2. ASSUME NEW s \in Sessions, Claim(s) \/ LockRow(s) \/ CheckLocked(s) \/ Mark(s)
                                 \/ InsertHeader(s) \/ PostEntry(s) \/ SaveResult(s)
                                 \/ Abort(s) \/ Release(s)
      PROVE  FALSE
  BY <1>2 DEF Claim, LockRow, CheckLocked, Mark, InsertHeader, PostEntry, SaveResult,
              Abort, Release, Rollback
<1>3. ASSUME NEW s, NEW t, NEW k, NEW h, Post(s, t, k, h) PROVE FALSE
  BY <1>3 DEF Post
<1>4. ASSUME NEW a, SetStatus(a) PROVE FALSE
  BY <1>4 DEF SetStatus
<1>5. CASE UNCHANGED vars
  BY <1>5 DEF vars
<1> QED
  BY <1>1, <1>2, <1>3, <1>4, <1>5 DEF Next, Step

(* An account that is not ACTIVE gets no new row, however the operator's UPDATE and the
   posts interleave (ledger_repo.go Post steps 2 and 5).                     *)
THEOREM FreezeIsImmediate == Spec => FrozenUntouched
<1>1. ASSUME IInv, [Next]_vars
      PROVE  [\A e \in entries' \ entries : accounts[e.account].status = "ACTIVE"]_vars
  <2>1. CASE entries' = entries
    BY <2>1
  <2>2. CASE entries' # entries
    <3>1. PICK s \in Sessions :
            /\ Writing(s)
            /\ entries' = entries \union Written(s)
      BY <1>1, <2>2, NewRows
    <3> QED
      BY <1>1, <3>1, CommittedRows DEF Written
  <2> QED
    BY <2>1, <2>2
<1> QED
  BY <1>1, Invariance, PTL DEF Spec, FrozenUntouched

(* Every step keeps the rows there are, and adds later ones only.          *)
LEMMA NextGrows ==
  ASSUME IInv, [Next]_vars
  PROVE  /\ entries \subseteq entries'
         /\ \A e \in entries' \ entries, f \in entries : f.account = e.account => f.id < e.id
<1>1. CASE entries' = entries
  BY <1>1
<1>2. CASE entries' # entries
  <2>1. PICK s \in Sessions : Writing(s) /\ entries' = entries \union Written(s)
    BY <1>2, NewRows
  <2> QED
    BY <2>1, CommittedRows DEF Written
<1> QED
  BY <1>1, <1>2

(* A row that becomes visible sorts after every visible row of its account, so paging
   by id misses nothing (ledger_repo.go Post, account_repo.go ListEntries).  *)
THEOREM StatementsOnlyGrow == Spec => NewRowsSortLast
<1>1. ASSUME IInv, [Next]_vars
      PROVE  [/\ entries \subseteq entries'
              /\ \A e \in entries' \ entries, f \in entries :
                   f.account = e.account => f.id < e.id]_vars
  BY <1>1, NextGrows
<1> QED
  BY <1>1, Invariance, PTL DEF Spec, NewRowsSortLast
----------------------------------------------------------------------------
(* Deadlock.                                                               *)

\* A scan holds only rows before those it has still to lock.
OrderOK == \A s \in Sessions : pc[s] = "lock" => \A a \in held[s], b \in ToLock(s) : a < b

(* A session that stays where it is keeps its order.                       *)
LEMMA OrderKeeps ==
  ASSUME OrderOK, NEW r \in Sessions, pc'[r] = pc[r], call'[r] = call[r], held'[r] = held[r]
  PROVE  pc'[r] = "lock" => \A a \in held'[r], b \in ToLock(r)' : a < b
BY DEF OrderOK, ToLock

(* Every step keeps the order: the next row is the least of those left.    *)
LEMMA NextOrder ==
  ASSUME IInv, OrderOK, [Next]_vars
  PROVE  OrderOK'
<1>1. ASSUME NEW s \in Sessions, pc'[s] # "lock",
             \A r \in Sessions \ {s} : pc'[r] = pc[r] /\ call'[r] = call[r] /\ held'[r] = held[r]
      PROVE  OrderOK'
  BY <1>1, OrderKeeps DEF OrderOK
<1>2. ASSUME NEW s \in Sessions, NEW err, Rollback(s, err)
      PROVE  OrderOK'
  BY <1>1, <1>2 DEF Rollback, Return, IInv, TypeOK
<1>3. ASSUME NEW s \in Sessions, NEW k \in ClaimKeys, NEW h \in Hashes, NEW t, Post(s, t, k, h)
      PROVE  OrderOK'
  BY <1>1, <1>3 DEF Post, Goto, IInv, TypeOK
<1>4. ASSUME NEW s \in Sessions, Claim(s)
      PROVE  OrderOK'
  <2>1. CASE Claimed(call[s].key)
    BY <1>2, <1>4, <2>1 DEF Claim
  <2>2. CASE ~Claimed(call[s].key)
    <3>1. UNCHANGED <<call, held>> /\ held[s] = {} /\ \A r \in Sessions \ {s} : pc'[r] = pc[r]
      BY <1>4, <2>2 DEF Claim, Goto, IInv, TypeOK, SessionOK
    <3> QED
      BY <3>1, OrderKeeps DEF OrderOK
  <2> QED
    BY <2>1, <2>2
<1>5. ASSUME NEW s \in Sessions, LockRow(s)
      PROVE  OrderOK'
  <2>1. PICK a \in ToLock(s) : IsNext(s, a) /\ held' = [held EXCEPT ![s] = @ \union {a}]
    BY <1>5 DEF LockRow
  <2>2. /\ UNCHANGED <<pc, call>> /\ held'[s] = held[s] \union {a} /\ pc[s] = "lock"
        /\ \A r \in Sessions \ {s} : held'[r] = held[r]
    BY <1>5, <2>1 DEF LockRow, IInv, TypeOK
  <2>3. ToLock(s) \subseteq Nat /\ ToLock(s)' = ToLock(s) \ {a}
    <3>1. Accounts \subseteq Nat
      BY StoreAssumption, MoneyAssumption
    <3> QED
      BY <2>2, <3>1 DEF ToLock
  <2>4. \A b \in ToLock(s)' : a < b
    BY <2>1, <2>3 DEF IsNext
  <2>5. \A c \in held[s], b \in ToLock(s)' : c < b
    BY <2>2, <2>3 DEF OrderOK
  <2>6. \A c \in held'[s], b \in ToLock(s)' : c < b
    BY <2>2, <2>4, <2>5
  <2> QED
    BY <2>2, <2>6, OrderKeeps DEF OrderOK
<1>6. ASSUME NEW s \in Sessions, CheckLocked(s) \/ Mark(s)
      PROVE  OrderOK'
  <2>1. CASE \E err : Rollback(s, err)
    BY <1>2, <2>1
  <2>2. CASE ~\E err : Rollback(s, err)
    <3>1. PICK l \in {"header", "mark"} : Goto(s, l)
      BY <1>6, <2>2 DEF CheckLocked, Mark
    <3> QED
      BY <1>1, <1>6, <2>2, <3>1 DEF CheckLocked, Mark, Goto, IInv, TypeOK
  <2> QED
    BY <2>1, <2>2
<1>7. ASSUME NEW s \in Sessions, InsertHeader(s) \/ SaveResult(s)
      PROVE  OrderOK'
  BY <1>1, <1>2, <1>7 DEF InsertHeader, SaveResult, Goto, IInv, TypeOK
<1>8. ASSUME NEW s \in Sessions, PostEntry(s)
      PROVE  OrderOK'
  <2>1. CASE EntryError(s, ThisEntry(s)) # "nil"
    BY <1>2, <1>8, <2>1 DEF PostEntry
  <2>2. CASE EntryError(s, ThisEntry(s)) = "nil"
    BY <1>1, <1>8, <2>2 DEF PostEntry
  <2> QED
    BY <2>1, <2>2
<1>9. ASSUME NEW s \in Sessions, Commit(s) \/ CommitLost(s)
      PROVE  OrderOK'
  BY <1>1, <1>2, <1>9 DEF Commit, CommitLost, Return, IInv, TypeOK
<1>10. ASSUME NEW s \in Sessions, Abort(s) \/ Release(s)
       PROVE  OrderOK'
  BY <1>1, <1>2, <1>10 DEF Abort, Release, Goto, IInv, TypeOK
<1>11. ASSUME NEW a, SetStatus(a) PROVE OrderOK'
  BY <1>11, OrderKeeps DEF SetStatus, session, OrderOK
<1>12. CASE UNCHANGED vars
  BY <1>12, OrderKeeps DEF vars, session, OrderOK
<1> QED
  BY <1>3, <1>4, <1>5, <1>6, <1>7, <1>8, <1>9, <1>10, <1>11, <1>12 DEF Next, Step

(* Of sessions that all wait for a row, the one that is furthest in the order of ids
   waits for none of them.                                                   *)
LEMMA FurthestGoesOn ==
  ASSUME IInv, OrderOK, NEW S \in SUBSET Sessions,
         \A s \in S : pc[s] \in {"claim", "lock"}, \E s \in S : pc[s] = "lock"
  PROVE  \E s \in S : WaitsFor(s) \intersect S = {}
<1>1. \A s \in S : pc[s] = "claim" => held[s] = {}
  BY DEF IInv, SessionOK
<1>2. CASE \E s \in S : pc[s] = "lock" /\ ToLock(s) = {}
  BY <1>2 DEF WaitsFor, IsNext
<1>3. CASE \A s \in S : pc[s] = "lock" => ToLock(s) # {}
  <2> DEFINE N == {a \in Nat : \E s \in S : pc[s] = "lock" /\ IsNext(s, a)}
  <2>1. \A s \in S : ToLock(s) \in SUBSET Nat /\ \A a \in ToLock(s) : a <= HalfRange
    <3>1. \A a \in Accounts : a \in Nat /\ a <= HalfRange
      BY StoreAssumption, MoneyAssumption
    <3> QED
      BY <3>1 DEF ToLock
  <2>2. ASSUME NEW s \in S, pc[s] = "lock" PROVE \E a \in N : IsNext(s, a)
    <3>1. PICK a \in ToLock(s) : \A b \in ToLock(s) : a <= b
      BY <1>3, <2>1, <2>2, LeastOfNats
    <3> QED
      BY <2>1, <2>2, <3>1 DEF IsNext
  <2>3. \A a \in N : a <= HalfRange
    BY <2>1 DEF IsNext
  <2>4. N # {} /\ N \in SUBSET Nat /\ HalfRange \in Nat
    BY <2>2, MoneyAssumption
  <2> HIDE DEF N
  <2>5. PICK m \in N : \A j \in N : j <= m
    BY <2>3, <2>4, GreatestOfNats
  <2>6. PICK s \in S : pc[s] = "lock" /\ IsNext(s, m)
    BY <2>5 DEF N
  <2>7. ASSUME NEW r \in S, r \in WaitsFor(s) PROVE FALSE
    <3>1. PICK a \in held[r] : IsNext(s, a)
      BY <2>6, <2>7 DEF WaitsFor
    <3>2. a = m
      BY <2>1, <2>6, <3>1 DEF IsNext
    <3>3. pc[r] = "lock"
      BY <1>1, <3>1
    <3>4. PICK b \in N : IsNext(r, b)
      BY <2>2, <3>3
    <3>5. a < b /\ b <= m
      BY <2>5, <3>1, <3>3, <3>4 DEF OrderOK, IsNext
    <3> QED
      BY <2>4, <3>2, <3>5
  <2> QED
    BY <2>7
<1> QED
  BY <1>2, <1>3

(* However many sessions there are, none of them ever waits in a circle: keys are taken
   before rows, rows in the order of their ids, and originals last (ledger_repo.go Post
   steps 1 to 3).                                                            *)
THEOREM DeadlockFree == Spec => []NoDeadlock
<1>1. Init => OrderOK
  BY DEF Init, OrderOK
<1>2. IInv /\ OrderOK /\ [Next]_vars => OrderOK'
  BY NextOrder
<1>3. ASSUME IInv, OrderOK, NEW S \in (SUBSET Sessions) \ {{}}
      PROVE  \E s \in S : WaitsFor(s) \intersect S = {}
  <2>1. CASE \E s \in S : pc[s] \notin {"claim", "lock", "mark"}
    BY <2>1 DEF WaitsFor
  <2>2. CASE /\ \A s \in S : pc[s] \in {"claim", "lock", "mark"}
             /\ \E s \in S : pc[s] = "mark"
    BY <2>2 DEF WaitsFor, MarkHeld
  <2>3. CASE /\ \A s \in S : pc[s] \in {"claim", "lock"}
             /\ \E s \in S : pc[s] = "lock"
    <3>1. S \in SUBSET Sessions
      OBVIOUS
    <3> QED
      BY <1>3, <2>3, <3>1, FurthestGoesOn
  <2>4. CASE \A s \in S : pc[s] = "claim"
    <3>1. \A r \in S : ~ClaimHeld(r)
      BY <2>4 DEF ClaimHeld
    <3>2. PICK s \in S : pc[s] = "claim"
      BY <2>4
    <3>3. \A r \in WaitsFor(s) : ClaimHeld(r)
      BY <3>2 DEF WaitsFor, Contends
    <3> QED
      BY <3>1, <3>3
  <2> QED
    BY <2>1, <2>2, <2>3, <2>4
<1>4. IInv /\ OrderOK => NoDeadlock
  BY <1>3 DEF NoDeadlock
<1> QED
  BY <1>1, <1>2, <1>4, Invariance, PTL DEF Spec

----------------------------------------------------------------------------
(***************************************************************************)
(* What the committed tables say to each other: claims, headers, rows,     *)
(* events and balances.                                                    *)
(***************************************************************************)

LineOf(e)   == <<e.account, e.direction, e.amount>>
MirrorOf(e) == <<e.account, Opposite(e.direction), e.amount>>

\* A reversal names a committed transaction that is none itself, and its lines mirror
\* the rows of that one.
ReversalFits(t) ==
  t.reverses # NoTxn =>
    /\ Exists(t.reverses)
    /\ transactions[t.reverses].type # "REVERSAL"
    /\ {LineOf(t.entries[i]) : i \in 1..Len(t.entries)} =
       {MirrorOf(e) : e \in RowsOfTxn(t.reverses)}

\* What Validate has made sure of.
WellFormed(t) ==
  /\ Len(t.entries) >= 2
  /\ \A i \in 1..Len(t.entries) : t.entries[i].direction \in Directions /\ t.entries[i].amount > 0
  /\ t.reverses # NoTxn => t.type = "REVERSAL"

\* A row a session has written, against the call, the header and the account.
RowFits(s, i) ==
  /\ posted[s][i].txn = tid[s]
  /\ LineOf(posted[s][i]) = LineOf(call[s].txn.entries[i])
  /\ posted[s][i].after = accounts[posted[s][i].account].balance + Delta(posted[s][i])

\* What no other session can take from one that is in its transaction.
DraftOK(s) ==
  /\ ClaimHeld(s) => ~Claimed(call[s].key)
  /\ pc[s] \in InTxn => ReversalFits(call[s].txn) /\ WellFormed(call[s].txn)
  /\ MarkHeld(s) => Markable(call[s].txn.reverses)
  /\ Writing(s) => ~Exists(tid[s]) /\ \A i \in 1..Len(posted[s]) : RowFits(s, i)
  /\ pc[s] = "commit" => Len(posted[s]) = Len(call[s].txn.entries)

\* Two sessions never have the same key, id or original.
Apart(s, r) ==
  /\ ClaimHeld(s) /\ ClaimHeld(r) => call[s].key # call[r].key
  /\ Writing(s) \/ Writing(r) => tid[s] # tid[r]
  /\ MarkHeld(s) /\ MarkHeld(r) => call[s].txn.reverses # call[r].txn.reverses

DraftsOK ==
  /\ \A s \in Sessions : DraftOK(s)
  /\ \A s, r \in Sessions : s # r => Apart(s, r)

\* Rows have headers, what is not there is empty, and only reversals have an original.
HeadersOK ==
  /\ \A e \in entries : Exists(e.txn)
  /\ \A x \in TxnIds : ~Exists(x) => transactions[x] = NoRow
  /\ \A x \in TxnIds : transactions[x].reverses # NoTxn => transactions[x].type = "REVERSAL"

TInv == DraftsOK /\ HeadersOK /\ ExactlyOnce /\ ReversedOnce

----------------------------------------------------------------------------
(* Steps that commit nothing.                                              *)

\* The sessions other than s stay where they are.
OthersKeep(s) ==
  \A r \in Sessions \ {s} :
    /\ pc'[r] = pc[r] /\ call'[r] = call[r] /\ tid'[r] = tid[r]
    /\ posted'[r] = posted[r] /\ held'[r] = held[r]

BalancesKeep == \A a \in Accounts : accounts'[a].balance = accounts[a].balance

(* A session that stays where it is keeps what it has, if the tables do.   *)
LEMMA DraftKeeps ==
  ASSUME IInv, NEW r \in Sessions, DraftOK(r), BalancesKeep,
         UNCHANGED <<transactions, entries, idem>>,
         pc'[r] = pc[r], call'[r] = call[r], tid'[r] = tid[r], posted'[r] = posted[r]
  PROVE  DraftOK(r)'
<1>1. ReversalFits(call[r].txn)' <=> ReversalFits(call[r].txn)
  BY DEF ReversalFits, Exists, RowsOfTxn
<1>2. Writing(r) => \A i \in 1..Len(posted[r]) : RowFits(r, i) => RowFits(r, i)'
  <2> SUFFICES ASSUME Writing(r), NEW i \in 1..Len(posted[r]), RowFits(r, i)
               PROVE  RowFits(r, i)'
    OBVIOUS
  <2>1. posted[r][i].account \in Accounts
    BY CommittedRows DEF RowTypes
  <2> QED
    BY <2>1 DEF RowFits, BalancesKeep
<1>3. ClaimHeld(r)' = ClaimHeld(r) /\ MarkHeld(r)' = MarkHeld(r) /\ Writing(r)' = Writing(r)
  BY DEF ClaimHeld, MarkHeld, Writing
<1> QED
  BY <1>1, <1>2, <1>3 DEF DraftOK, Exists, Claimed, Markable

(* A step that commits nothing and leaves its session in order.            *)
LEMMA QuietStep ==
  ASSUME IInv, TInv, NEW s \in Sessions, OthersKeep(s), BalancesKeep,
         UNCHANGED <<transactions, entries, idem, outbox>>,
         DraftOK(s)', \A r \in Sessions \ {s} : Apart(s, r)'
  PROVE  TInv'
<1>1. \A r \in Sessions \ {s} : DraftOK(r)'
  BY DraftKeeps DEF TInv, DraftsOK, OthersKeep
<1>2. ASSUME NEW q \in Sessions, NEW r \in Sessions, q # r
      PROVE  Apart(q, r)'
  <2>1. CASE q = s
    BY <1>2, <2>1
  <2>2. CASE r = s
    <3>1. Apart(s, q)'
      BY <1>2, <2>2
    <3> QED
      BY <2>2, <3>1 DEF Apart
  <2>3. CASE q # s /\ r # s
    BY <1>2, <2>3 DEF TInv, DraftsOK, OthersKeep, Apart, ClaimHeld, MarkHeld, Writing
  <2> QED
    BY <2>1, <2>2, <2>3
<1>3. HeadersOK' /\ ExactlyOnce' /\ ReversedOnce'
  BY DEF TInv, HeadersOK, ExactlyOnce, ReversedOnce, Exists, Claimed, RowsOfTxn, ReversalsOf
<1> QED
  BY <1>1, <1>2, <1>3 DEF TInv, DraftsOK

(* A transaction Validate accepts has two lines or more, each with a side and a positive
   amount, and if it names an original it is a reversal (domain/transaction.go Validate).  *)
LEMMA ValidIsWellFormed ==
  ASSUME NEW t \in Transactions, Validate(t) = "nil"
  PROVE  WellFormed(t)
<1>1. PICK n \in Nat : n = Len(t.entries) /\ t.entries \in Seq(EntryTypes)
  BY DEF Transactions
<1>2. /\ n >= 2 /\ (\A i \in 1..n : EntryFault(t, i) = "nil")
      /\ t.reverses # NoTxn => t.type = "REVERSAL"
  BY <1>1, ValidateIsNil
<1>3. ASSUME NEW i \in 1..n
      PROVE  t.entries[i].direction \in Directions /\ t.entries[i].amount > 0
  <2>1. ~(t.entries[i].amount <= 0) /\ t.entries[i].direction \in Directions
    BY <1>2 DEF EntryFault
  <2>2. t.entries[i].amount \in Int
    <3>1. t.entries[i] \in EntryTypes
      BY <1>1, ElementOfSeq
    <3> QED
      BY <3>1, MoneyAssumption DEF EntryTypes, Int64
  <2> QED
    BY <2>1, <2>2
<1> QED
  BY <1>1, <1>2, <1>3 DEF WellFormed

(* The deferred Rollback.                                                  *)
LEMMA RollbackTables ==
  ASSUME IInv, TInv, NEW s \in Sessions, NEW err, Rollback(s, err)
  PROVE  TInv'
<1>1. OthersKeep(s) /\ BalancesKeep /\ UNCHANGED <<transactions, entries, idem, outbox>>
  BY DEF Rollback, Return, OthersKeep, BalancesKeep, IInv, TypeOK, tables
<1>2. pc'[s] = "return" /\ tid'[s] = NoTxn
  BY DEF Rollback, Return, IInv, TypeOK
<1>3. DraftOK(s)'
  BY <1>2 DEF DraftOK, ClaimHeld, MarkHeld, Writing, InTxn
<1>4. ASSUME NEW r \in Sessions \ {s} PROVE Apart(s, r)'
  <2>1. Writing(r) => tid'[r] \in TxnIds
    BY <1>1 DEF OthersKeep, IInv, SessionOK
  <2>2. Writing(r)' = Writing(r)
    BY <1>1 DEF OthersKeep, Writing
  <2> QED
    BY <1>2, <2>1, <2>2, StoreAssumption DEF Apart, ClaimHeld, MarkHeld, Writing, InTxn
<1> QED
  BY <1>1, <1>3, <1>4, QuietStep

(* The connection goes back to the pool.                                   *)
LEMMA ReleaseTables ==
  ASSUME IInv, TInv, NEW s \in Sessions, Release(s)
  PROVE  TInv'
<1>1. OthersKeep(s) /\ BalancesKeep /\ UNCHANGED <<transactions, entries, idem, outbox>>
  BY DEF Release, Goto, OthersKeep, BalancesKeep, IInv, TypeOK, tables
<1>2. pc'[s] = "idle" /\ tid'[s] = NoTxn
  BY DEF Release, Goto, IInv, TypeOK
<1>3. DraftOK(s)'
  BY <1>2 DEF DraftOK, ClaimHeld, MarkHeld, Writing, InTxn
<1>4. ASSUME NEW r \in Sessions \ {s} PROVE Apart(s, r)'
  <2>1. Writing(r) => tid'[r] \in TxnIds
    BY <1>1 DEF OthersKeep, IInv, SessionOK
  <2>2. Writing(r)' = Writing(r)
    BY <1>1 DEF OthersKeep, Writing
  <2> QED
    BY <1>2, <2>1, <2>2, StoreAssumption DEF Apart, ClaimHeld, MarkHeld, Writing, InTxn
<1> QED
  BY <1>1, <1>3, <1>4, QuietStep

(* Post begins, with a reversal of something that can be reversed if with one.  *)
LEMMA PostTables ==
  ASSUME IInv, TInv, NEW s \in Sessions, NEW t, NEW k \in ClaimKeys, NEW h \in Hashes,
         ReversalFits(t), Post(s, t, k, h)
  PROVE  TInv'
<1>1. OthersKeep(s) /\ BalancesKeep /\ UNCHANGED <<transactions, entries, idem, outbox>>
  BY DEF Post, Goto, OthersKeep, BalancesKeep, IInv, TypeOK, tables
<1>2. /\ pc[s] = "idle" /\ call'[s].txn = t /\ tid'[s] = tid[s] /\ posted'[s] = posted[s]
      /\ pc'[s] = "return" \/ (pc'[s] = "claim" /\ Validate(t) = "nil" /\ t \in Transactions)
  BY DEF Post, Goto, IInv, TypeOK
<1>3. ReversalFits(t)'
  BY <1>1 DEF ReversalFits, Exists, RowsOfTxn
<1>4. DraftOK(s)'
  BY <1>2, <1>3, ValidIsWellFormed DEF DraftOK, ClaimHeld, MarkHeld, Writing, InTxn, ReversalFits, WellFormed
<1>5. ASSUME NEW r \in Sessions \ {s} PROVE Apart(s, r)'
  <2>1. Apart(s, r)
    BY DEF TInv, DraftsOK
  <2> QED
    BY <1>1, <1>2, <2>1 DEF OthersKeep, Apart, ClaimHeld, MarkHeld, Writing, InTxn
<1> QED
  BY <1>1, <1>4, <1>5, QuietStep

(* A statement that moves on, with what it has found out.                  *)
LEMMA MoveOnTables ==
  ASSUME IInv, TInv, NEW s \in Sessions, pc[s] \in InTxn, NEW l \in InTxn \ {"claim"}, Goto(s, l),
         UNCHANGED <<tables, call, held, tid, posted>>,
         ~Claimed(call[s].key),
         \A r \in Sessions \ {s} : ClaimHeld(r) => call[s].key # call[r].key,
         (l \in {"header", "entry", "commit"} /\ call[s].txn.reverses # NoTxn) =>
           /\ Markable(call[s].txn.reverses)
           /\ \A r \in Sessions \ {s} :
                MarkHeld(r) => call[s].txn.reverses # call[r].txn.reverses,
         l \in {"entry", "commit"} => Writing(s),
         l = "commit" => Len(posted[s]) = Len(call[s].txn.entries)
  PROVE  TInv'
<1>1. OthersKeep(s) /\ BalancesKeep /\ UNCHANGED <<transactions, entries, idem, outbox, accounts>>
  BY DEF Goto, OthersKeep, BalancesKeep, IInv, TypeOK, tables
<1>2. pc'[s] = l
  BY DEF Goto, IInv, TypeOK
<1>3. /\ ReversalFits(call[s].txn) /\ WellFormed(call[s].txn)
      /\ Writing(s) => ~Exists(tid[s]) /\ \A i \in 1..Len(posted[s]) : RowFits(s, i)
  BY DEF TInv, DraftsOK, DraftOK
<1>4. DraftOK(s)'
  <2>1. ReversalFits(call[s].txn)' /\ WellFormed(call[s].txn)'
    BY <1>1, <1>3 DEF ReversalFits, Exists, RowsOfTxn, WellFormed
  <2>2. Writing(s)' => (~Exists(tid[s]))' /\ \A i \in 1..Len(posted'[s]) : RowFits(s, i)'
    BY <1>1, <1>2, <1>3 DEF Writing, Exists, RowFits
  <2>3. ClaimHeld(s)' => ~Claimed(call[s].key)'
    BY <1>1 DEF Claimed
  <2>4. MarkHeld(s)' => Markable(call[s].txn.reverses)'
    BY <1>1, <1>2 DEF MarkHeld, Markable
  <2> QED
    BY <1>2, <2>1, <2>2, <2>3, <2>4 DEF DraftOK
<1>5. ASSUME NEW r \in Sessions \ {s} PROVE Apart(s, r)'
  <2>1. Apart(s, r)
    BY DEF TInv, DraftsOK
  <2> QED
    BY <1>1, <1>2, <2>1 DEF OthersKeep, Apart, ClaimHeld, MarkHeld, Writing, InTxn
<1> QED
  BY <1>1, <1>4, <1>5, QuietStep

(* What a session past its claim knows, and so keeps.                      *)
LEMMA ClaimKept ==
  ASSUME TInv, NEW s \in Sessions, ClaimHeld(s)
  PROVE  /\ ~Claimed(call[s].key)
         /\ \A r \in Sessions \ {s} : ClaimHeld(r) => call[s].key # call[r].key
         /\ MarkHeld(s) =>
              /\ Markable(call[s].txn.reverses)
              /\ \A r \in Sessions \ {s} :
                   MarkHeld(r) => call[s].txn.reverses # call[r].txn.reverses
BY DEF TInv, DraftsOK, DraftOK, Apart

(* The claim: nobody else has the key, in the table or in a transaction.   *)
LEMMA ClaimTables ==
  ASSUME IInv, TInv, NEW s \in Sessions, Claim(s)
  PROVE  TInv'
<1>1. CASE Claimed(call[s].key)
  BY <1>1, RollbackTables DEF Claim
<1>2. CASE ~Claimed(call[s].key)
  <2>1. \A r \in Sessions \ {s} : ClaimHeld(r) => call[s].key # call[r].key
    BY DEF Claim, WaitsFor, Contends
  <2> QED
    BY <1>2, <2>1, MoveOnTables DEF Claim, InTxn
<1> QED
  BY <1>1, <1>2

(* Locking a row changes no table.                                         *)
LEMMA LockRowTables ==
  ASSUME IInv, TInv, NEW s \in Sessions, LockRow(s)
  PROVE  TInv'
<1>1. UNCHANGED <<tables, pc, call, tid, posted>> /\ \A r \in Sessions \ {s} : held'[r] = held[r]
  BY DEF LockRow, IInv, TypeOK
<1>2. OthersKeep(s) /\ BalancesKeep /\ UNCHANGED <<transactions, entries, idem, outbox>>
  BY <1>1 DEF OthersKeep, BalancesKeep, tables
<1>3. DraftOK(s)'
  BY <1>1, <1>2, DraftKeeps DEF TInv, DraftsOK
<1>4. \A r \in Sessions \ {s} : Apart(s, r)'
  BY <1>1 DEF TInv, DraftsOK, Apart, ClaimHeld, MarkHeld, Writing
<1> QED
  BY <1>2, <1>3, <1>4, QuietStep

(* Without an original there is no mark to take.                           *)
LEMMA CheckLockedTables ==
  ASSUME IInv, TInv, NEW s \in Sessions, CheckLocked(s)
  PROVE  TInv'
<1>1. CASE CheckError(s) # "nil"
  BY <1>1, RollbackTables DEF CheckLocked
<1>2. CASE CheckError(s) = "nil"
  <2>1. PICK l \in {"header", "mark"} :
          Goto(s, l) /\ (l = "header" => call[s].txn.reverses = NoTxn)
    BY <1>2 DEF CheckLocked
  <2>2. pc[s] = "lock" /\ ClaimHeld(s) /\ UNCHANGED <<tables, call, held, tid, posted>>
    BY <1>2 DEF CheckLocked, ClaimHeld, InTxn
  <2> QED
    BY <2>1, <2>2, ClaimKept, MoveOnTables DEF InTxn
<1> QED
  BY <1>1, <1>2

(* The mark: the original is POSTED, and nobody else has marked it.        *)
LEMMA MarkTables ==
  ASSUME IInv, TInv, NEW s \in Sessions, Mark(s)
  PROVE  TInv'
<1>1. CASE ~Markable(call[s].txn.reverses)
  BY <1>1, RollbackTables DEF Mark
<1>2. CASE Markable(call[s].txn.reverses)
  <2>1. /\ pc[s] = "mark" /\ ClaimHeld(s) /\ UNCHANGED <<tables, call, held, tid, posted>>
        /\ Goto(s, "header")
    BY <1>2 DEF Mark, ClaimHeld, InTxn
  <2>2. call[s].txn.reverses # NoTxn =>
          \A r \in Sessions \ {s} : MarkHeld(r) => call[s].txn.reverses # call[r].txn.reverses
    BY <2>1 DEF Mark, WaitsFor
  <2> QED
    BY <1>2, <2>1, <2>2, ClaimKept, MoveOnTables DEF InTxn
<1> QED
  BY <1>1, <1>2

(* All entries are written.                                                *)
LEMMA SaveResultTables ==
  ASSUME IInv, TInv, NEW s \in Sessions, SaveResult(s)
  PROVE  TInv'
<1>1. /\ pc[s] = "entry" /\ ClaimHeld(s) /\ Writing(s) /\ Goto(s, "commit")
      /\ UNCHANGED <<tables, call, held, tid, posted>>
      /\ Len(posted[s]) = Len(call[s].txn.entries)
  BY DEF SaveResult, ClaimHeld, InTxn, Writing
<1>2. call[s].txn.reverses # NoTxn => MarkHeld(s)
  BY <1>1 DEF MarkHeld
<1> QED
  BY <1>1, <1>2, ClaimKept, MoveOnTables DEF InTxn

(* The header gets an id that no header has and no other session.          *)
LEMMA InsertHeaderTables ==
  ASSUME IInv, TInv, NEW s \in Sessions, InsertHeader(s)
  PROVE  TInv'
<1>1. CASE HeaderError(s) # "nil"
  BY <1>1, RollbackTables DEF InsertHeader
<1>2. CASE HeaderError(s) = "nil"
  <2>1. PICK x \in FreshTxnIds : tid' = [tid EXCEPT ![s] = x]
    BY <1>2 DEF InsertHeader
  <2>2. /\ UNCHANGED <<tables, call, held, posted>> /\ pc[s] = "header"
        /\ pc' = [pc EXCEPT ![s] = "entry"]
    BY <1>2 DEF InsertHeader, Goto
  <2>3. OthersKeep(s) /\ BalancesKeep /\ UNCHANGED <<transactions, entries, idem, outbox>>
    BY <2>1, <2>2 DEF OthersKeep, BalancesKeep, IInv, TypeOK, tables
  <2>4. pc'[s] = "entry" /\ tid'[s] = x
    BY <2>1, <2>2 DEF IInv, TypeOK
  <2>5. ~Exists(x) /\ \A r \in Sessions : tid[r] # x
    BY DEF FreshTxnIds
  <2>6. posted[s] = <<>>
    BY <2>2 DEF IInv, SessionOK, InTxn
  <2>7. DraftOK(s)'
    <3>1. ReversalFits(call[s].txn) /\ WellFormed(call[s].txn)
      BY <2>2 DEF TInv, DraftsOK, DraftOK, InTxn
    <3>2. ReversalFits(call[s].txn)' /\ WellFormed(call[s].txn)'
      BY <2>2, <2>3, <3>1 DEF ReversalFits, Exists, RowsOfTxn, WellFormed
    <3>3. ~Claimed(call[s].key) /\ (call[s].txn.reverses # NoTxn => Markable(call[s].txn.reverses))
      BY <2>2, ClaimKept DEF ClaimHeld, MarkHeld, InTxn
    <3>4. ~Claimed(call[s].key)' /\ (call'[s].txn.reverses # NoTxn => Markable(call[s].txn.reverses)')
      BY <2>2, <2>3, <3>3 DEF Claimed, Markable
    <3>5. (~Exists(tid[s]))' /\ \A i \in 1..Len(posted'[s]) : RowFits(s, i)'
      BY <2>2, <2>3, <2>4, <2>5, <2>6 DEF Exists
    <3> QED
      BY <2>4, <3>2, <3>4, <3>5 DEF DraftOK, MarkHeld
  <2>8. ASSUME NEW r \in Sessions \ {s} PROVE Apart(s, r)'
    <3>1. Apart(s, r)
      BY DEF TInv, DraftsOK
    <3> QED
      BY <2>2, <2>3, <2>4, <2>5, <3>1 DEF OthersKeep, Apart, ClaimHeld, MarkHeld, Writing, InTxn
  <2> QED
    BY <2>3, <2>7, <2>8, QuietStep
<1> QED
  BY <1>1, <1>2

(* An entry becomes a row with its line, and with the balance it leaves.   *)
LEMMA PostEntryTables ==
  ASSUME IInv, TInv, NEW s \in Sessions, PostEntry(s)
  PROVE  TInv'
<1>1. PICK e : e = ThisEntry(s)
  OBVIOUS
<1>2. CASE EntryError(s, e) # "nil"
  BY <1>1, <1>2, RollbackTables DEF PostEntry
<1>3. CASE EntryError(s, e) = "nil"
  <2>1. PICK row : row = EntryRow(s, e)
    OBVIOUS
  <2>2. /\ posted' = [posted EXCEPT ![s] = Append(posted[s], row)]
        /\ UNCHANGED <<tables, pc, call, held, tid>> /\ pc[s] = "entry"
    BY <1>1, <1>3, <2>1 DEF PostEntry
  <2>3. OthersKeep(s) /\ BalancesKeep /\ UNCHANGED <<transactions, entries, idem, outbox, accounts>>
    BY <2>2 DEF OthersKeep, BalancesKeep, IInv, TypeOK, tables
  <2>4. posted[s] \in Seq(RowTypes) /\ posted'[s] = Append(posted[s], row)
    BY <2>2 DEF IInv, TypeOK
  <2>5. PICK n \in Nat : /\ n = Len(posted[s]) /\ Len(posted'[s]) = n + 1
                         /\ \A i \in 1..n : posted'[s][i] = posted[s][i]
                         /\ posted'[s][n + 1] = row
    BY <2>4, AppendProperties
  <2>6. Current(s, e.account) = accounts[e.account]
    BY <1>1, EntryIsFresh DEF PostEntry, Current
  <2>7. /\ LineOf(row) = LineOf(e) /\ row.txn = tid[s] /\ row.account = e.account
        /\ Delta(row) = Delta(e) /\ row.after = accounts[e.account].balance + Delta(e)
    BY <2>1, <2>6 DEF EntryRow, BalanceAfter, LineOf, Delta, BalanceDelta
  <2>8. RowFits(s, n + 1)'
    BY <1>1, <2>2, <2>3, <2>5, <2>7 DEF RowFits, ThisEntry
  <2>9. \A i \in 1..Len(posted'[s]) : RowFits(s, i)'
    <3>1. \A i \in 1..n : RowFits(s, i)
      BY <2>2, <2>5 DEF TInv, DraftsOK, DraftOK, Writing
    <3>2. \A i \in 1..n : RowFits(s, i)'
      BY <2>2, <2>3, <2>5, <3>1 DEF RowFits
    <3>3. \A i \in 1..(n + 1) : i \in 1..n \/ i = n + 1
      OBVIOUS
    <3> QED
      BY <2>5, <2>8, <3>2, <3>3
  <2>10. DraftOK(s)'
    <3>1. /\ ReversalFits(call[s].txn) /\ WellFormed(call[s].txn) /\ ~Exists(tid[s])
          /\ ~Claimed(call[s].key) /\ (MarkHeld(s) => Markable(call[s].txn.reverses))
      BY <2>2 DEF TInv, DraftsOK, DraftOK, InTxn, Writing, ClaimHeld
    <3>2. ReversalFits(call[s].txn)' /\ WellFormed(call[s].txn)' /\ (~Exists(tid[s]))'
      BY <2>2, <2>3, <3>1 DEF ReversalFits, Exists, RowsOfTxn, WellFormed
    <3>3. ~Claimed(call[s].key)' /\ (MarkHeld(s)' => Markable(call[s].txn.reverses)')
      BY <2>2, <2>3, <3>1 DEF MarkHeld, Claimed, Markable
    <3>4. pc'[s] = "entry"
      BY <2>2
    <3> QED
      BY <2>9, <3>2, <3>3, <3>4 DEF DraftOK
  <2>11. ASSUME NEW r \in Sessions \ {s} PROVE Apart(s, r)'
    <3>1. Apart(s, r)
      BY DEF TInv, DraftsOK
    <3> QED
      BY <2>2, <3>1 DEF Apart, ClaimHeld, MarkHeld, Writing
  <2> QED
    BY <2>3, <2>10, <2>11, QuietStep
<1> QED
  BY <1>2, <1>3

----------------------------------------------------------------------------
(* COMMIT.  x0 is the id of the new header, rev its original and key its claim.  *)

Commits(s, x0, rev, key) ==
  /\ pc[s] = "commit" /\ Apply(s)
  /\ x0 = tid[s] /\ rev = call[s].txn.reverses /\ key = call[s].key

\* What it finds and what it does to the headers, the rows and the claims.
CommitEffect(s, x0, rev, key) ==
  /\ x0 \in TxnIds /\ ~Exists(x0) /\ x0 # NoTxn
  /\ transactions'[x0] = HeaderRow(s)
  /\ rev # NoTxn => /\ rev \in TxnIds /\ rev # x0 /\ transactions[rev].status = "POSTED"
                    /\ transactions'[rev] = [transactions[rev] EXCEPT !.status = "REVERSED"]
  /\ \A x \in TxnIds : x # x0 /\ x # rev => transactions'[x] = transactions[x]
  /\ \A x \in TxnIds : Exists(x)' <=> (Exists(x) \/ x = x0)
  /\ RowsOfTxn(x0)' = Written(s) /\ \A x \in TxnIds \ {x0} : RowsOfTxn(x)' = RowsOfTxn(x)
  /\ key \in ClaimKeys /\ ~Claimed(key)
  /\ idem'[key] = ClaimRow(s)
  /\ \A k \in ClaimKeys \ {key} : idem'[k] = idem[k]

(* What a commit does to each table.                                       *)
LEMMA CommitFacts ==
  ASSUME IInv, TInv, NEW s \in Sessions, NEW x0, NEW rev, NEW key, Commits(s, x0, rev, key)
  PROVE  CommitEffect(s, x0, rev, key)
<1>1. Writing(s) /\ ClaimHeld(s) /\ (rev # NoTxn => MarkHeld(s))
  BY DEF Commits, Writing, ClaimHeld, MarkHeld, InTxn
<1>2. /\ x0 \in TxnIds /\ call[s] \in Calls /\ rev \in TxnIds \union {NoTxn} /\ key \in ClaimKeys
      /\ transactions \in [TxnIds -> TxnRows]
  BY <1>1 DEF Commits, IInv, TypeOK, SessionOK, InTxn, Calls, Transactions
<1>3. ~Exists(x0) /\ ~Claimed(key) /\ (rev # NoTxn => transactions[rev].status = "POSTED")
  BY <1>1 DEF Commits, TInv, DraftsOK, DraftOK, Markable
<1>4. x0 # NoTxn
  BY <1>2, StoreAssumption
<1>5. rev # NoTxn => rev # x0 /\ rev \in TxnIds
  BY <1>2, <1>3 DEF Exists
<1>6. \A x \in TxnIds : transactions'[x] =
        IF x = x0 THEN HeaderRow(s)
        ELSE IF x = rev THEN [transactions[x] EXCEPT !.status = "REVERSED"] ELSE transactions[x]
  BY DEF Commits, Apply, TransactionsAfter
<1>7. \A x \in TxnIds : Exists(x)' <=> (Exists(x) \/ x = x0)
  <2> TAKE x \in TxnIds
  <2>1. CASE x = x0
    <3>1. transactions'[x] = HeaderRow(s)
      BY <1>6, <2>1
    <3>2. HeaderRow(s).status = "POSTED"
      BY DEF HeaderRow
    <3> QED
      BY <2>1, <3>1, <3>2 DEF Exists
  <2>2. CASE x # x0 /\ x = rev
    <3>1. rev # NoTxn
      BY <2>2, StoreAssumption
    <3>2. transactions[x] \in TxnRows
      BY <1>2
    <3>3. transactions'[x].status = "REVERSED"
      BY <1>6, <2>2, <3>2 DEF TxnRows
    <3> QED
      BY <1>3, <2>2, <3>1, <3>3 DEF Exists
  <2>3. CASE x # x0 /\ x # rev
    BY <1>6, <2>3 DEF Exists
  <2> QED
    BY <2>1, <2>2, <2>3
<1>8. RowsOfTxn(x0)' = Written(s) /\ \A x \in TxnIds \ {x0} : RowsOfTxn(x)' = RowsOfTxn(x)
  <2>1. \A e \in Written(s) : e.txn = x0
    <3>1. \A i \in 1..Len(posted[s]) : posted[s][i].txn = x0
      BY <1>1 DEF Commits, TInv, DraftsOK, DraftOK, RowFits
    <3> QED
      BY <3>1 DEF Written
  <2>2. \A e \in entries : e.txn # x0
    <3>1. \A e \in entries : Exists(e.txn)
      BY DEF TInv, HeadersOK
    <3> QED
      BY <1>3, <3>1 DEF Exists
  <2>3. entries' = entries \union Written(s)
    BY DEF Commits, Apply
  <2> QED
    BY <2>1, <2>2, <2>3 DEF RowsOfTxn
<1>9. idem'[key] = ClaimRow(s) /\ \A k \in ClaimKeys \ {key} : idem'[k] = idem[k]
  BY <1>2 DEF Commits, Apply, IInv, TypeOK
<1> QED
  BY <1>2, <1>3, <1>4, <1>5, <1>6, <1>7, <1>8, <1>9 DEF CommitEffect

(* The new header, its claim and its event.                                *)
LEMMA CommitExactlyOnce ==
  ASSUME IInv, TInv, NEW s \in Sessions, NEW x0, NEW rev, NEW key, Commits(s, x0, rev, key)
  PROVE  ExactlyOnce'
<1>0. CommitEffect(s, x0, rev, key)
  BY CommitFacts
<1>1. /\ x0 \in TxnIds /\ ~Exists(x0)
      /\ \A x \in TxnIds : Exists(x)' <=> (Exists(x) \/ x = x0)
      /\ RowsOfTxn(x0)' = Written(s) /\ \A x \in TxnIds \ {x0} : RowsOfTxn(x)' = RowsOfTxn(x)
      /\ key \in ClaimKeys /\ ~Claimed(key)
      /\ idem'[key] = ClaimRow(s)
      /\ \A k \in ClaimKeys \ {key} : idem'[k] = idem[k]
  BY <1>0 DEF CommitEffect
<1>2. PICK b : b = Stored(s)
  OBVIOUS
<1>3. outbox' = outbox \union {[aggregate |-> x0, payload |-> b]}
  BY <1>2 DEF Commits, Apply, OutboxAfter
<1>4. /\ idem'[key].code = 201 /\ idem'[key].txn = x0 /\ idem'[key].body = b
      /\ {b.entries[i] : i \in 1..Len(b.entries)} = Written(s)
  <2>1. ClaimRow(s).code = 201 /\ ClaimRow(s).txn = x0 /\ ClaimRow(s).body = b
    BY <1>2 DEF Commits, ClaimRow
  <2>2. b.entries = posted[s]
    BY <1>2 DEF Stored
  <2> QED
    BY <1>1, <2>1, <2>2 DEF Written
<1>5. \A ev \in outbox : ev.aggregate # x0
  <2>1. \A ev \in outbox : Exists(ev.aggregate)
    BY DEF TInv, ExactlyOnce
  <2> QED
    BY <1>1, <2>1 DEF Exists
<1>6. ASSUME NEW k \in ClaimKeys, k # key, idem[k] # NoClaim
      PROVE  idem[k].txn \in TxnIds /\ idem[k].txn # x0 /\ Exists(idem[k].txn)
  <2>1. Exists(idem[k].txn)
    BY <1>6 DEF TInv, ExactlyOnce
  <2>2. idem[k].txn \in TxnIds
    BY <1>6 DEF IInv, TypeOK
  <2> QED
    BY <1>1, <2>1, <2>2
<1>7. ASSUME NEW k \in ClaimKeys, idem'[k] # NoClaim
      PROVE  /\ idem'[k].code = 201
             /\ Exists(idem[k].txn)'
             /\ {idem'[k].body.entries[i] : i \in 1..Len(idem'[k].body.entries)} = RowsOfTxn(idem[k].txn)'
             /\ {ev \in outbox' : ev.aggregate = idem'[k].txn} =
                  {[aggregate |-> idem'[k].txn, payload |-> idem'[k].body]}
  <2>1. CASE k = key
    <3>1. RowsOfTxn(x0)' = Written(s) /\ Exists(x0)'
      BY <1>1
    <3>2. {ev \in outbox' : ev.aggregate = x0} = {[aggregate |-> x0, payload |-> b]}
      BY <1>3, <1>5
    <3>3. Exists(idem[k].txn)' /\ RowsOfTxn(idem[k].txn)' = Written(s)
      BY <1>4, <2>1, <3>1 DEF Exists, RowsOfTxn
    <3> QED
      BY <1>4, <2>1, <3>2, <3>3
  <2>2. CASE k # key
    <3>1. idem'[k] = idem[k]
      BY <1>1, <2>2
    <3>2. PICK x \in TxnIds : x = idem[k].txn /\ x # x0 /\ Exists(x)
      BY <1>6, <1>7, <2>2, <3>1
    <3>3. RowsOfTxn(x)' = RowsOfTxn(x) /\ Exists(x)'
      BY <1>1, <3>2
    <3>4. {ev \in outbox' : ev.aggregate = x} = {ev \in outbox : ev.aggregate = x}
      BY <1>3, <3>2
    <3>5. /\ idem[k].code = 201
          /\ {idem[k].body.entries[i] : i \in 1..Len(idem[k].body.entries)} = RowsOfTxn(x)
          /\ {ev \in outbox : ev.aggregate = x} = {[aggregate |-> x, payload |-> idem[k].body]}
      <4>1. idem[k] # NoClaim
        BY <1>7, <3>1
      <4>2. /\ idem[k].code = 201
            /\ {idem[k].body.entries[i] : i \in 1..Len(idem[k].body.entries)} = RowsOfTxn(idem[k].txn)
            /\ {ev \in outbox : ev.aggregate = idem[k].txn} =
                 {[aggregate |-> idem[k].txn, payload |-> idem[k].body]}
        BY <4>1, Zenon DEF TInv, ExactlyOnce
      <4> QED
        BY <3>2, <4>2
    <3>6. Exists(idem[k].txn)' /\ RowsOfTxn(idem[k].txn)' = RowsOfTxn(x)
      BY <3>1, <3>2, <3>3 DEF Exists, RowsOfTxn
    <3> QED
      BY <3>1, <3>2, <3>4, <3>5, <3>6
  <2> QED
    BY <2>1, <2>2
<1>8. \A k \in ClaimKeys : Claimed(k)' <=> (Claimed(k) \/ k = key)
  BY <1>1, <1>4 DEF Claimed
<1>9. ASSUME NEW x \in TxnIds
      PROVE  Exists(x)' <=> \E k \in ClaimKeys : Claimed(k)' /\ idem'[k].txn = x
  <2>1. Exists(x) <=> \E k \in ClaimKeys : Claimed(k) /\ idem[k].txn = x
    BY DEF TInv, ExactlyOnce
  <2>2. CASE x = x0
    BY <1>1, <1>4, <1>8, <2>2
  <2>3. CASE x # x0
    <3>1. Exists(x)' <=> Exists(x)
      BY <1>1, <2>3
    <3>2. \A k \in ClaimKeys : (Claimed(k)' /\ idem'[k].txn = x) <=> (Claimed(k) /\ idem[k].txn = x)
      <4> TAKE k \in ClaimKeys
      <4>1. CASE k = key
        BY <1>1, <1>4, <2>3, <4>1
      <4>2. CASE k # key
        BY <1>1, <1>8, <4>2
      <4> QED
        BY <4>1, <4>2
    <3> QED
      BY <2>1, <3>1, <3>2
  <2> QED
    BY <2>2, <2>3
<1>10. ASSUME NEW k \in ClaimKeys, NEW l \in ClaimKeys, Claimed(k)', Claimed(l)', idem'[k].txn = idem'[l].txn
       PROVE  k = l
  <2>1. \A m \in ClaimKeys : m # key /\ Claimed(m) => idem[m].txn # x0
    <3>1. \A m \in ClaimKeys : Claimed(m) => idem[m] # NoClaim
      <4>1. NoClaim.code = 0
        BY DEF NoClaim
      <4> QED
        BY <4>1 DEF Claimed
    <3> QED
      BY <1>6, <3>1
  <2>2. \A m, n \in ClaimKeys : (Claimed(m) /\ Claimed(n) /\ idem[m].txn = idem[n].txn) => m = n
    BY DEF TInv, ExactlyOnce
  <2> QED
    BY <1>1, <1>4, <1>8, <1>10, <2>1, <2>2
<1>11. \A ev \in outbox' : Exists(ev.aggregate)'
  <2>1. \A ev \in outbox : ev.aggregate \in TxnIds /\ Exists(ev.aggregate)
    BY DEF TInv, ExactlyOnce, IInv, TypeOK
  <2> QED
    BY <1>1, <1>3, <2>1
<1> QED
  BY <1>7, <1>9, <1>10, <1>11 DEF ExactlyOnce

(* Every row has its header.                                               *)
LEMMA CommitHeaders ==
  ASSUME IInv, TInv, NEW s \in Sessions, NEW x0, NEW rev, NEW key, Commits(s, x0, rev, key)
  PROVE  HeadersOK'
<1>0. CommitEffect(s, x0, rev, key)
  BY CommitFacts
<1>1. /\ x0 \in TxnIds /\ \A x \in TxnIds : Exists(x)' <=> (Exists(x) \/ x = x0)
      /\ rev # NoTxn => Exists(rev)
      /\ \A x \in TxnIds : x # x0 /\ x # rev => transactions'[x] = transactions[x]
  BY <1>0 DEF CommitEffect, Exists
<1>2. \A e \in Written(s) : e.txn = x0
  <2>1. \A i \in 1..Len(posted[s]) : posted[s][i].txn = x0
    BY DEF Commits, TInv, DraftsOK, DraftOK, RowFits, Writing
  <2> QED
    BY <2>1 DEF Written
<1>3. \A e \in entries : Exists(e.txn) /\ e.txn \in TxnIds
  BY DEF TInv, HeadersOK, IInv, TypeOK, RowTypes
<1>4. \A e \in entries' : Exists(e.txn)'
  <2>1. entries' = entries \union Written(s)
    BY DEF Commits, Apply
  <2> QED
    BY <1>1, <1>2, <1>3, <2>1
<1>5. ASSUME NEW x \in TxnIds, ~Exists(x)' PROVE transactions'[x] = NoRow
  <2>1. ~Exists(x) /\ x # x0 /\ x # rev
    BY <1>1, <1>5, StoreAssumption
  <2>2. transactions[x] = NoRow
    BY <2>1 DEF TInv, HeadersOK
  <2> QED
    BY <1>1, <2>1, <2>2
<1>6. ASSUME NEW x \in TxnIds, transactions'[x].reverses # NoTxn
      PROVE  transactions'[x].type = "REVERSAL"
  <2>1. transactions[x].reverses # NoTxn => transactions[x].type = "REVERSAL"
    BY DEF TInv, HeadersOK
  <2>2. CASE x = x0
    <3>1. WellFormed(call[s].txn)
      BY DEF Commits, TInv, DraftsOK, DraftOK, InTxn
    <3>2. transactions'[x] = HeaderRow(s)
      BY <1>0, <2>2 DEF CommitEffect
    <3>3. /\ HeaderRow(s).reverses = call[s].txn.reverses
          /\ HeaderRow(s).type = call[s].txn.type
      BY DEF HeaderRow
    <3> QED
      BY <1>6, <3>1, <3>2, <3>3 DEF WellFormed
  <2>3. CASE x # x0 /\ x = rev
    <3>1. transactions'[x] = [transactions[x] EXCEPT !.status = "REVERSED"]
      BY <1>0, <2>3, StoreAssumption DEF CommitEffect
    <3>2. transactions[x] \in TxnRows
      BY DEF IInv, TypeOK
    <3> QED
      BY <1>6, <2>1, <3>1, <3>2 DEF TxnRows
  <2>4. CASE x # x0 /\ x # rev
    BY <1>1, <1>6, <2>1, <2>4
  <2> QED
    BY <2>2, <2>3, <2>4
<1> QED
  BY <1>4, <1>5, <1>6 DEF HeadersOK

(* The rows a committing session has written are the lines of its call.    *)
LEMMA CommitLines ==
  ASSUME IInv, TInv, NEW s \in Sessions, pc[s] = "commit"
  PROVE  /\ {LineOf(e) : e \in Written(s)} =
            {LineOf(call[s].txn.entries[i]) : i \in 1..Len(call[s].txn.entries)}
         /\ \A i \in 1..Len(posted[s]) : LineOf(posted[s][i]) = LineOf(call[s].txn.entries[i])
<1>1. Len(posted[s]) = Len(call[s].txn.entries)
  BY DEF TInv, DraftsOK, DraftOK
<1>2. \A i \in 1..Len(posted[s]) : LineOf(posted[s][i]) = LineOf(call[s].txn.entries[i])
  BY DEF TInv, DraftsOK, DraftOK, RowFits, Writing
<1> QED
  BY <1>1, <1>2 DEF Written

(* A reversal that commits is the only one of its original, which it marks.  *)
LEMMA CommitReversedOnce ==
  ASSUME IInv, TInv, NEW s \in Sessions, NEW x0, NEW rev, NEW key, Commits(s, x0, rev, key)
  PROVE  ReversedOnce'
<1>0. CommitEffect(s, x0, rev, key)
  BY CommitFacts
<1>1. /\ x0 \in TxnIds /\ ~Exists(x0) /\ x0 # NoTxn
      /\ transactions'[x0] = HeaderRow(s)
      /\ rev # NoTxn => /\ rev \in TxnIds /\ rev # x0 /\ transactions[rev].status = "POSTED"
                        /\ transactions'[rev] = [transactions[rev] EXCEPT !.status = "REVERSED"]
      /\ \A x \in TxnIds : x # x0 /\ x # rev => transactions'[x] = transactions[x]
      /\ RowsOfTxn(x0)' = Written(s) /\ \A x \in TxnIds \ {x0} : RowsOfTxn(x)' = RowsOfTxn(x)
  BY <1>0 DEF CommitEffect
<1>2. transactions'[x0].status = "POSTED" /\ transactions'[x0].reverses = rev
  <2>1. HeaderRow(s).status = "POSTED" /\ HeaderRow(s).reverses = rev
    BY DEF HeaderRow, Commits
  <2> QED
    BY <1>1, <2>1
<1>3. transactions[x0].reverses = NoTxn /\ transactions[x0].status = "NONE"
  <2>1. transactions[x0] = NoRow
    BY <1>1 DEF TInv, HeadersOK
  <2>2. NoRow.reverses = NoTxn /\ NoRow.status = "NONE"
    BY DEF NoRow
  <2> QED
    BY <2>1, <2>2
<1>4. rev # NoTxn => /\ transactions'[rev].status = "REVERSED"
                     /\ transactions'[rev].type = transactions[rev].type
                     /\ transactions'[rev].reverses = transactions[rev].reverses
  <2>1. \A x \in TxnIds : transactions[x] \in TxnRows
    BY DEF IInv, TypeOK
  <2> QED
    BY <1>1, <2>1 DEF TxnRows
<1>5. \A y \in TxnIds : transactions'[y].reverses =
                          IF y = x0 THEN rev ELSE transactions[y].reverses
  BY <1>1, <1>2, <1>4, StoreAssumption
<1>6. \A x \in TxnIds : /\ x = rev => ReversalsOf(x)' = ReversalsOf(x) \union {x0}
                        /\ x # rev => ReversalsOf(x)' = ReversalsOf(x)
  BY <1>1, <1>3, <1>5, StoreAssumption DEF ReversalsOf
<1>7. \A x \in TxnIds : transactions[x].status = "REVERSED" <=> ReversalsOf(x) # {}
  BY DEF TInv, ReversedOnce
<1>8. ASSUME NEW x \in TxnIds
      PROVE  /\ transactions'[x].status = "REVERSED" <=> ReversalsOf(x)' # {}
             /\ \A y \in ReversalsOf(x)' :
                  /\ ReversalsOf(x)' = {y}
                  /\ transactions'[x].type # "REVERSAL"
                  /\ {<<e.account, e.direction, e.amount>> : e \in RowsOfTxn(y)'} =
                     {<<e.account, Opposite(e.direction), e.amount>> : e \in RowsOfTxn(x)'}
  <2>1. CASE x = rev
    <3>1. rev # NoTxn /\ rev # x0
      BY <1>1, <2>1, StoreAssumption
    <3>2. ReversalsOf(x)' = {x0}
      BY <1>1, <1>6, <1>7, <2>1, <3>1
    <3>3. ReversalFits(call[s].txn) /\ call[s].txn.reverses = rev
      BY DEF Commits, TInv, DraftsOK, DraftOK, InTxn
    <3>4. /\ transactions[rev].type # "REVERSAL"
          /\ {LineOf(call[s].txn.entries[i]) : i \in 1..Len(call[s].txn.entries)} =
             {MirrorOf(e) : e \in RowsOfTxn(rev)}
      BY <3>1, <3>3 DEF ReversalFits
    <3>5. {LineOf(e) : e \in Written(s)} = {MirrorOf(e) : e \in RowsOfTxn(rev)}
      BY <3>4, CommitLines DEF Commits
    <3>6. {<<e.account, e.direction, e.amount>> : e \in RowsOfTxn(x0)'} =
          {<<e.account, Opposite(e.direction), e.amount>> : e \in RowsOfTxn(x)'}
      BY <1>1, <2>1, <3>1, <3>5 DEF LineOf, MirrorOf
    <3> QED
      BY <1>4, <2>1, <3>1, <3>2, <3>4, <3>6
  <2>2. CASE x = x0
    <3>1. ReversalsOf(x0) = {} /\ x0 # rev
      BY <1>1, <1>3, <1>7, StoreAssumption
    <3> QED
      BY <1>1, <1>2, <1>6, <2>2, <3>1
  <2>3. CASE x # x0 /\ x # rev
    <3>1. transactions'[x] = transactions[x] /\ ReversalsOf(x)' = ReversalsOf(x)
          /\ RowsOfTxn(x)' = RowsOfTxn(x)
      BY <1>1, <1>6, <2>3
    <3>2. \A y \in ReversalsOf(x) : y \in TxnIds /\ y # x0
      BY <1>3, StoreAssumption DEF ReversalsOf
    <3>3. \A y \in ReversalsOf(x) : RowsOfTxn(y)' = RowsOfTxn(y)
      BY <1>1, <3>2
    <3>4. \A y \in ReversalsOf(x) :
            /\ ReversalsOf(x) = {y}
            /\ transactions[x].type # "REVERSAL"
            /\ {<<e.account, e.direction, e.amount>> : e \in RowsOfTxn(y)} =
               {<<e.account, Opposite(e.direction), e.amount>> : e \in RowsOfTxn(x)}
      BY Zenon DEF TInv, ReversedOnce
    <3> QED
      BY <1>7, <3>1, <3>3, <3>4
  <2> QED
    BY <2>1, <2>2, <2>3
<1> QED
  BY <1>8, Zenon DEF ReversedOnce

(* The other sessions hold other accounts, and have other keys, ids and originals.  *)
LEMMA CommitDrafts ==
  ASSUME IInv, TInv, NEW s \in Sessions, NEW x0, NEW rev, NEW key, Commits(s, x0, rev, key),
         NEW r \in Sessions \ {s},
         pc'[r] = pc[r], call'[r] = call[r], tid'[r] = tid[r], posted'[r] = posted[r]
  PROVE  DraftOK(r)'
<1>0. CommitEffect(s, x0, rev, key)
  BY CommitFacts
<1>1. /\ x0 \in TxnIds /\ ~Exists(x0)
      /\ \A x \in TxnIds : x # x0 /\ x # rev => transactions'[x] = transactions[x]
      /\ rev # NoTxn => transactions'[rev] = [transactions[rev] EXCEPT !.status = "REVERSED"]
      /\ \A x \in TxnIds : Exists(x)' <=> (Exists(x) \/ x = x0)
      /\ \A x \in TxnIds \ {x0} : RowsOfTxn(x)' = RowsOfTxn(x)
      /\ \A k \in ClaimKeys \ {key} : idem'[k] = idem[k]
  BY <1>0 DEF CommitEffect
<1>2. Apart(s, r) /\ DraftOK(r) /\ SessionOK(r)
  BY DEF TInv, DraftsOK, IInv
<1>3. pc[r] \in InTxn => call[r] \in Calls
  BY <1>2 DEF SessionOK
<1>4. ClaimHeld(r) => ~Claimed(call[r].key)'
  <2> SUFFICES ASSUME ClaimHeld(r) PROVE ~Claimed(call[r].key)'
    OBVIOUS
  <2>1. call[r].key # key /\ call[r].key \in ClaimKeys /\ ~Claimed(call[r].key)
    BY <1>2, <1>3 DEF Commits, Apart, ClaimHeld, DraftOK, InTxn, Calls
  <2> QED
    BY <1>1, <2>1 DEF Claimed
<1>5. pc[r] \in InTxn => ReversalFits(call[r].txn)' /\ WellFormed(call[r].txn)'
  <2> SUFFICES ASSUME pc[r] \in InTxn PROVE ReversalFits(call[r].txn)' /\ WellFormed(call[r].txn)'
    OBVIOUS
  <2>1. ReversalFits(call[r].txn) /\ WellFormed(call[r].txn)
    BY <1>2 DEF DraftOK
  <2>2. PICK x : x = call[r].txn.reverses
    OBVIOUS
  <2>3. CASE x = NoTxn
    BY <2>1, <2>2, <2>3 DEF ReversalFits, WellFormed
  <2>4. CASE x # NoTxn
    <3>1. /\ x \in TxnIds /\ Exists(x) /\ transactions[x].type # "REVERSAL"
          /\ {LineOf(call[r].txn.entries[i]) : i \in 1..Len(call[r].txn.entries)} =
             {MirrorOf(e) : e \in RowsOfTxn(x)}
      BY <1>3, <2>1, <2>2, <2>4 DEF Calls, Transactions, ReversalFits
    <3>2. x # x0 /\ Exists(x)' /\ RowsOfTxn(x)' = RowsOfTxn(x)
      BY <1>1, <3>1
    <3>3. transactions'[x].type = transactions[x].type
      <4>1. transactions[x] \in TxnRows
        BY <3>1 DEF IInv, TypeOK
      <4> QED
        BY <1>1, <2>4, <3>1, <3>2, <4>1 DEF TxnRows
    <3>4. call'[r].txn.reverses = x
      BY <2>2
    <3>5. Exists(call[r].txn.reverses)' /\ RowsOfTxn(call[r].txn.reverses)' = RowsOfTxn(x)
      BY <3>2, <3>4 DEF Exists, RowsOfTxn
    <3>6. ReversalFits(call[r].txn)'
      BY <3>1, <3>3, <3>4, <3>5 DEF ReversalFits
    <3> QED
      BY <2>1, <3>6 DEF WellFormed
  <2> QED
    BY <2>3, <2>4
<1>6. MarkHeld(r) => Markable(call[r].txn.reverses)'
  <2> SUFFICES ASSUME MarkHeld(r) PROVE Markable(call[r].txn.reverses)'
    OBVIOUS
  <2>1. PICK x : x = call[r].txn.reverses
    OBVIOUS
  <2>2. x \in TxnIds /\ x # NoTxn /\ transactions[x].status = "POSTED"
    BY <1>2, <1>3, <2>1 DEF MarkHeld, InTxn, Calls, Transactions, DraftOK, Markable
  <2>3. x # rev
    BY <1>2, <2>1, <2>2 DEF Apart, MarkHeld, Commits
  <2>4. x # x0
    BY <1>1, <2>2 DEF Exists
  <2> QED
    BY <1>1, <2>1, <2>2, <2>3, <2>4 DEF Markable
<1>7. Writing(r) => (~Exists(tid[r]))' /\ \A i \in 1..Len(posted[r]) : RowFits(r, i)'
  <2> SUFFICES ASSUME Writing(r)
               PROVE  (~Exists(tid[r]))' /\ \A i \in 1..Len(posted[r]) : RowFits(r, i)'
    OBVIOUS
  <2>1. PICK x \in TxnIds : x = tid[r] /\ x # x0 /\ ~Exists(x)
    BY <1>2 DEF SessionOK, Apart, DraftOK, Commits
  <2>2. (~Exists(tid[r]))'
    BY <1>1, <2>1 DEF Exists
  <2>3. ASSUME NEW i \in 1..Len(posted[r]) PROVE RowFits(r, i)'
    <3>1. posted[r][i].account \in held[r] /\ posted[r][i].account \in Accounts
      BY CommittedRows DEF RowTypes
    <3>2. posted[r][i].account \notin held[s]
      BY <3>1 DEF IInv, LockDiscipline
    <3>3. accounts'[posted[r][i].account] = accounts[posted[r][i].account]
      BY <3>1, <3>2, CurrentOK DEF Commits, Apply, Writing
    <3>4. RowFits(r, i)
      BY <1>2 DEF DraftOK
    <3> QED
      BY <3>3, <3>4 DEF RowFits
  <2> QED
    BY <2>2, <2>3
<1>8. /\ ClaimHeld(r)' = ClaimHeld(r) /\ MarkHeld(r)' = MarkHeld(r) /\ Writing(r)' = Writing(r)
      /\ pc[r] = "commit" => Len(posted[r]) = Len(call[r].txn.entries)
  BY <1>2 DEF ClaimHeld, MarkHeld, Writing, DraftOK
<1> QED
  BY <1>4, <1>5, <1>6, <1>7, <1>8 DEF DraftOK

(* COMMIT keeps the tables and the drafts in order.                        *)
LEMMA ApplyTables ==
  ASSUME IInv, TInv, NEW s \in Sessions, pc[s] = "commit", Apply(s), NEW err, Return(s, err),
         UNCHANGED call,
         \/ UNCHANGED <<tid, posted>>
         \/ /\ tid' = [tid EXCEPT ![s] = NoTxn]
            /\ posted' = [posted EXCEPT ![s] = <<>>]
  PROVE  TInv'
<1>1. PICK x0, rev, key : Commits(s, x0, rev, key)
  BY DEF Commits
<1>2. ExactlyOnce' /\ HeadersOK' /\ ReversedOnce'
  BY <1>1, CommitExactlyOnce, CommitHeaders, CommitReversedOnce
<1>3. OthersKeep(s) /\ pc'[s] = "return" /\ tid'[s] \in {tid[s], NoTxn}
  BY DEF OthersKeep, Return, IInv, TypeOK
<1>4. \A r \in Sessions \ {s} : DraftOK(r)'
  BY <1>1, <1>3, CommitDrafts DEF OthersKeep
<1>5. DraftOK(s)'
  BY <1>3 DEF DraftOK, ClaimHeld, MarkHeld, Writing, InTxn
<1>6. \A r \in Sessions \ {s} : Apart(s, r)' /\ Apart(r, s)'
  <2> TAKE r \in Sessions \ {s}
  <2>1. Apart(s, r) /\ (Writing(r) => tid[r] \in TxnIds)
    BY DEF TInv, DraftsOK, IInv, SessionOK
  <2>2. Writing(r)' => tid'[s] # tid'[r]
    BY <1>3, <2>1, StoreAssumption DEF OthersKeep, Apart, Writing
  <2> QED
    BY <1>3, <2>2 DEF Apart, ClaimHeld, MarkHeld, Writing, InTxn
<1>7. \A q, r \in Sessions \ {s} : q # r => Apart(q, r)'
  BY <1>3 DEF TInv, DraftsOK, OthersKeep, Apart, ClaimHeld, MarkHeld, Writing
<1>8. DraftsOK'
  BY <1>4, <1>5, <1>6, <1>7 DEF DraftsOK
<1> QED
  BY <1>2, <1>8 DEF TInv

(* Commit succeeds, fails at the deferred trigger, or succeeds unheard.    *)
LEMMA CommitTables ==
  ASSUME IInv, TInv, NEW s \in Sessions, Commit(s) \/ CommitLost(s)
  PROVE  TInv'
<1>1. CASE Commit(s) /\ CommitError(s) = "nil"
  BY <1>1, ApplyTables DEF Commit
<1>2. CASE Commit(s) /\ CommitError(s) # "nil"
  BY <1>2, RollbackTables DEF Commit
<1>3. CASE CommitLost(s)
  BY <1>3, ApplyTables DEF CommitLost
<1> QED
  BY <1>1, <1>2, <1>3

(* An operator's UPDATE leaves the balances alone.                         *)
LEMMA SetStatusTables ==
  ASSUME IInv, TInv, NEW a \in Freezable, SetStatus(a)
  PROVE  TInv'
<1>1. BalancesKeep
  BY StoreAssumption DEF SetStatus, BalancesKeep, IInv, TypeOK, AccountRows
<1>2. UNCHANGED <<transactions, entries, idem, outbox, pc, call, tid, posted, held>>
  BY DEF SetStatus, session
<1>3. \A r \in Sessions : DraftOK(r)'
  BY <1>1, <1>2, DraftKeeps DEF TInv, DraftsOK
<1>4. \A q, r \in Sessions : q # r => Apart(q, r)'
  BY <1>2 DEF TInv, DraftsOK, Apart, ClaimHeld, MarkHeld, Writing
<1>5. HeadersOK' /\ ExactlyOnce' /\ ReversedOnce'
  BY <1>2 DEF TInv, HeadersOK, ExactlyOnce, ReversedOnce, Exists, Claimed, RowsOfTxn, ReversalsOf
<1> QED
  BY <1>3, <1>4, <1>5 DEF TInv, DraftsOK
----------------------------------------------------------------------------
(* The ids of rows.                                                        *)

\* No id is given twice, to a committed row or to one that a session has written.
RowIdsOK ==
  /\ IsFiniteSet(entries)
  /\ \A e, f \in entries : e.id = f.id => e = f
  /\ \A s \in Sessions : Writing(s) =>
       \A i \in 1..Len(posted[s]) : \A e \in entries : e.id # posted[s][i].id
  /\ \A s, r \in Sessions : Writing(s) /\ Writing(r) =>
       \A i \in 1..Len(posted[s]), j \in 1..Len(posted[r]) :
         posted[s][i].id = posted[r][j].id => s = r /\ i = j

(* A step that commits nothing and writes no row.                          *)
LEMMA QuietIds ==
  ASSUME RowIdsOK, entries' = entries,
         \A r \in Sessions : Writing(r)' =>
           (Writing(r) /\ posted'[r] = posted[r]) \/ posted'[r] = <<>>
  PROVE  RowIdsOK'
<1>1. \A r \in Sessions : Writing(r)' =>
        \/ Writing(r) /\ posted'[r] = posted[r]
        \/ 1..Len(posted'[r]) = {}
  OBVIOUS
<1>2. \A s \in Sessions : Writing(s)' =>
        \A i \in 1..Len(posted'[s]) : \A e \in entries : e.id # posted'[s][i].id
  BY <1>1 DEF RowIdsOK
<1>3. \A s, r \in Sessions : Writing(s)' /\ Writing(r)' =>
        \A i \in 1..Len(posted'[s]), j \in 1..Len(posted'[r]) :
          posted'[s][i].id = posted'[r][j].id => s = r /\ i = j
  BY <1>1 DEF RowIdsOK
<1> QED
  BY <1>2, <1>3 DEF RowIdsOK

(* A session's rows are finitely many.                                     *)
LEMMA WrittenFinite ==
  ASSUME IInv, NEW s \in Sessions
  PROVE  IsFiniteSet(Written(s))
<1>1. PICK n \in Nat : n = Len(posted[s])
  <2>1. posted[s] \in Seq(RowTypes)
    BY DEF IInv, TypeOK
  <2> QED
    BY <2>1
<1> DEFINE f == [i \in 1..n |-> posted[s][i]]
<1>2. IsFiniteSet(1..n)
  BY FS_Interval
<1>3. f \in Surjection(1..n, Written(s))
  BY <1>1 DEF Written, Surjection
<1> HIDE DEF f
<1> QED
  BY <1>2, <1>3, FS_Surjection

(* The identity column numbers a row past all others.                      *)
LEMMA PostEntryIds ==
  ASSUME IInv, RowIdsOK, NEW s \in Sessions, PostEntry(s)
  PROVE  RowIdsOK'
<1>1. PICK e : e = ThisEntry(s)
  OBVIOUS
<1>2. CASE EntryError(s, e) # "nil"
  <2>1. Rollback(s, EntryError(s, e))
    BY <1>1, <1>2 DEF PostEntry
  <2> QED
    BY <2>1, QuietIds DEF Rollback, Return, IInv, TypeOK, Writing, tables
<1>3. CASE EntryError(s, e) = "nil"
  <2>1. PICK row : row = EntryRow(s, e)
    OBVIOUS
  <2>2. /\ posted' = [posted EXCEPT ![s] = Append(posted[s], row)]
        /\ UNCHANGED <<entries, pc>> /\ pc[s] = "entry"
    BY <1>1, <1>3, <2>1 DEF PostEntry, tables
  <2>3. posted[s] \in Seq(RowTypes) /\ posted'[s] = Append(posted[s], row)
    BY <2>2 DEF IInv, TypeOK
  <2>4. PICK n \in Nat : /\ n = Len(posted[s]) /\ Len(posted'[s]) = n + 1
                         /\ \A i \in 1..n : posted'[s][i] = posted[s][i]
                         /\ posted'[s][n + 1] = row
    BY <2>3, AppendProperties
  <2>5. row.id = entrySeq + 1 /\ entrySeq \in Int
    BY <2>1 DEF EntryRow, IInv, TypeOK
  <2>6. \A f \in entries : f.id \in Int /\ f.id <= entrySeq
    BY DEF IInv, TypeOK, IdsBounded, RowTypes
  <2>7. \A r \in Sessions : Writing(r) =>
          \A i \in 1..Len(posted[r]) : posted[r][i].id \in Int /\ posted[r][i].id <= entrySeq
    BY CommittedRows DEF RowTypes
  <2>8. \A f \in entries : f.id # row.id
    BY <2>5, <2>6
  <2>9. \A r \in Sessions : Writing(r) => \A i \in 1..Len(posted[r]) : posted[r][i].id # row.id
    BY <2>5, <2>7
  <2>10. /\ \A r \in Sessions : Writing(r)' = Writing(r)
         /\ \A r \in Sessions \ {s} : posted'[r] = posted[r]
         /\ Writing(s)
    BY <2>2 DEF Writing, IInv, TypeOK
  <2>11. \A i \in 1..(n + 1) : i \in 1..n \/ i = n + 1
    OBVIOUS
  <2>12. \A r \in Sessions : Writing(r)' =>
           \A i \in 1..Len(posted'[r]) : \A f \in entries' : f.id # posted'[r][i].id
    <3> SUFFICES ASSUME NEW r \in Sessions, Writing(r), NEW i \in 1..Len(posted'[r]), NEW f \in entries
                 PROVE  f.id # posted'[r][i].id
      BY <2>2, <2>10
    <3>1. \A j \in 1..Len(posted[r]) : f.id # posted[r][j].id
      BY DEF RowIdsOK
    <3>2. CASE r = s
      BY <2>4, <2>8, <2>11, <3>1, <3>2
    <3>3. CASE r # s
      BY <2>10, <3>1, <3>3
    <3> QED
      BY <3>2, <3>3
  <2>13. \A q, r \in Sessions : Writing(q)' /\ Writing(r)' =>
           \A i \in 1..Len(posted'[q]), j \in 1..Len(posted'[r]) :
             posted'[q][i].id = posted'[r][j].id => q = r /\ i = j
    <3> SUFFICES ASSUME NEW q \in Sessions, NEW r \in Sessions, Writing(q), Writing(r),
                        NEW i \in 1..Len(posted'[q]), NEW j \in 1..Len(posted'[r]),
                        posted'[q][i].id = posted'[r][j].id
                 PROVE  q = r /\ i = j
      BY <2>10
    <3>1. \A k \in 1..Len(posted[q]), l \in 1..Len(posted[r]) :
            posted[q][k].id = posted[r][l].id => q = r /\ k = l
      BY DEF RowIdsOK
    <3>2. (q = s /\ i = n + 1) \/ (i \in 1..Len(posted[q]) /\ posted'[q][i] = posted[q][i])
      BY <2>4, <2>10, <2>11
    <3>3. (r = s /\ j = n + 1) \/ (j \in 1..Len(posted[r]) /\ posted'[r][j] = posted[r][j])
      BY <2>4, <2>10, <2>11
    <3>4. CASE i \in 1..Len(posted[q]) /\ posted'[q][i] = posted[q][i]
               /\ j \in 1..Len(posted[r]) /\ posted'[r][j] = posted[r][j]
      BY <3>1, <3>4
    <3>5. CASE q = s /\ i = n + 1
      <4>1. posted'[q][i].id = row.id
        BY <2>4, <3>5
      <4> QED
        BY <2>9, <3>3, <3>5, <4>1
    <3>6. CASE r = s /\ j = n + 1
      <4>1. posted'[r][j].id = row.id
        BY <2>4, <3>6
      <4> QED
        BY <2>9, <3>2, <3>6, <4>1
    <3> QED
      BY <3>2, <3>3, <3>4, <3>5, <3>6
  <2> QED
    BY <2>2, <2>12, <2>13 DEF RowIdsOK
<1> QED
  BY <1>2, <1>3

(* Committed rows keep their ids.                                          *)
LEMMA ApplyIds ==
  ASSUME IInv, RowIdsOK, NEW s \in Sessions, pc[s] = "commit", Apply(s), NEW err, Return(s, err),
         \/ UNCHANGED <<tid, posted>>
         \/ /\ tid' = [tid EXCEPT ![s] = NoTxn]
            /\ posted' = [posted EXCEPT ![s] = <<>>]
  PROVE  RowIdsOK'
<1>1. entries' = entries \union Written(s) /\ Writing(s)
  BY DEF Apply, Writing
<1>2. /\ pc'[s] = "return" /\ ~Writing(s)'
      /\ \A r \in Sessions \ {s} : Writing(r)' = Writing(r) /\ posted'[r] = posted[r]
  BY DEF Return, IInv, TypeOK, Writing
<1>3. \A f \in Written(s) : \E i \in 1..Len(posted[s]) : f = posted[s][i]
  BY DEF Written
<1>4. IsFiniteSet(entries')
  BY <1>1, WrittenFinite, FS_Union DEF RowIdsOK
<1>5. \A e, f \in entries' : e.id = f.id => e = f
  <2> TAKE e, f \in entries'
  <2>1. /\ \A i, j \in 1..Len(posted[s]) : posted[s][i].id = posted[s][j].id => i = j
        /\ \A i \in 1..Len(posted[s]) : \A g \in entries : g.id # posted[s][i].id
        /\ e \in entries /\ f \in entries => (e.id = f.id => e = f)
    BY <1>1 DEF RowIdsOK
  <2> QED
    BY <1>1, <1>3, <2>1
<1>6. \A r \in Sessions : Writing(r)' =>
        \A i \in 1..Len(posted'[r]) : \A e \in entries' : e.id # posted'[r][i].id
  <2> SUFFICES ASSUME NEW r \in Sessions \ {s}, Writing(r), NEW i \in 1..Len(posted[r]), NEW e \in entries'
               PROVE  e.id # posted[r][i].id
    BY <1>2
  <2>1. \A f \in entries : f.id # posted[r][i].id
    BY DEF RowIdsOK
  <2>2. \A j \in 1..Len(posted[s]) : posted[s][j].id # posted[r][i].id
    BY <1>1 DEF RowIdsOK
  <2> QED
    BY <1>1, <1>3, <2>1, <2>2
<1>7. \A q, r \in Sessions : Writing(q)' /\ Writing(r)' =>
        \A i \in 1..Len(posted'[q]), j \in 1..Len(posted'[r]) :
          posted'[q][i].id = posted'[r][j].id => q = r /\ i = j
  BY <1>2 DEF RowIdsOK
<1> QED
  BY <1>4, <1>5, <1>6, <1>7 DEF RowIdsOK

(* No step gives an id twice.                                              *)
LEMMA NextIds ==
  ASSUME IInv, RowIdsOK, [Next]_vars
  PROVE  RowIdsOK'
<1>1. ASSUME NEW s \in Sessions, NEW err, Rollback(s, err)
      PROVE  RowIdsOK'
  BY <1>1, QuietIds DEF Rollback, Return, IInv, TypeOK, Writing, tables
<1>2. ASSUME NEW s \in Sessions, NEW k \in ClaimKeys, NEW h \in Hashes, NEW t, Post(s, t, k, h)
      PROVE  RowIdsOK'
  BY <1>2, QuietIds DEF Post, Goto, IInv, TypeOK, Writing, tables
<1>3. ASSUME NEW s \in Sessions, Claim(s) \/ LockRow(s) \/ CheckLocked(s) \/ Mark(s) \/ SaveResult(s)
      PROVE  RowIdsOK'
  <2>1. CASE \E err : Rollback(s, err)
    BY <1>1, <2>1
  <2>2. CASE ~\E err : Rollback(s, err)
    <3>1. /\ UNCHANGED <<entries, posted>>
          /\ UNCHANGED pc \/ (pc[s] = "entry" /\ Goto(s, "commit"))
             \/ \E l \in {"lock", "mark", "header"} : Goto(s, l)
      BY <1>3, <2>2 DEF Claim, LockRow, CheckLocked, Mark, SaveResult, tables
    <3>2. \A r \in Sessions : Writing(r)' => Writing(r)
      BY <3>1 DEF Goto, Writing, IInv, TypeOK
    <3> QED
      BY <3>1, <3>2, QuietIds
  <2> QED
    BY <2>1, <2>2
<1>4. ASSUME NEW s \in Sessions, InsertHeader(s)
      PROVE  RowIdsOK'
  <2>1. CASE HeaderError(s) # "nil"
    BY <1>1, <1>4, <2>1 DEF InsertHeader
  <2>2. CASE HeaderError(s) = "nil"
    <3>1. /\ UNCHANGED <<entries, posted>> /\ pc' = [pc EXCEPT ![s] = "entry"]
          /\ posted[s] = <<>>
      BY <1>4, <2>2 DEF InsertHeader, Goto, tables, IInv, SessionOK, InTxn
    <3> QED
      BY <3>1, QuietIds DEF Writing, IInv, TypeOK
  <2> QED
    BY <2>1, <2>2
<1>5. ASSUME NEW s \in Sessions, Commit(s) \/ CommitLost(s)
      PROVE  RowIdsOK'
  BY <1>1, <1>5, ApplyIds DEF Commit, CommitLost
<1>6. ASSUME NEW s \in Sessions, Abort(s) PROVE RowIdsOK'
  BY <1>1, <1>6 DEF Abort
<1>7. ASSUME NEW s \in Sessions, Release(s) PROVE RowIdsOK'
  BY <1>7, QuietIds DEF Release, Goto, IInv, TypeOK, Writing, tables
<1>8. ASSUME NEW a \in Freezable, SetStatus(a) PROVE RowIdsOK'
  BY <1>8, QuietIds DEF SetStatus, session, Writing
<1>9. CASE UNCHANGED vars
  BY <1>9, QuietIds DEF vars, tables, session, Writing
<1> QED
  BY <1>2, <1>3, <1>4, <1>5, <1>6, <1>7, <1>8, <1>9, PostEntryIds DEF Next, Step
----------------------------------------------------------------------------
(* GetTransaction and the reversals built from what it answers.            *)

(* ORDER BY id lists every row once (ledger_repo.go GetTransaction).       *)
LEMMA ByIdLists ==
  ASSUME NEW S, IsFiniteSet(S), \A e \in S : e.id \in Int, \A e, f \in S : e.id = f.id => e = f
  PROVE  /\ Cardinality(S) \in Nat
         /\ DOMAIN ById(S) = 1..Cardinality(S)
         /\ {ById(S)[i] : i \in 1..Cardinality(S)} = S
<1> DEFINE K == [e \in S |-> e.id]
<1>1. (\A e \in S : K[e] \in Int) /\ \A e, f \in S : K[e] = K[f] => e = f
  OBVIOUS
<1>2. \A e \in S : Lesser(K, S, e) = {f \in S : f.id < e.id}
  BY DEF Lesser
<1>3. PICK n \in Nat : n = Cardinality(S)
  BY FS_CardinalityType
<1> HIDE DEF K
<1>4. \A e \in S : Cardinality(Lesser(K, S, e)) \in 0..(n - 1)
  BY <1>1, <1>3, Ranked
<1>5. \A e, g \in S : Cardinality(Lesser(K, S, e)) = Cardinality(Lesser(K, S, g)) => e = g
  BY <1>1, Ranked
<1>6. \A i \in 1..n : \E e \in S : Cardinality(Lesser(K, S, e)) = i - 1
  BY <1>1, <1>3, Ranked
<1>7. ById(S) = [i \in 1..n |-> CHOOSE e \in S : Cardinality({f \in S : f.id < e.id}) = i - 1]
  BY <1>3, Zenon DEF ById
<1>8. \A i \in 1..n : ById(S)[i] \in S /\ Cardinality(Lesser(K, S, ById(S)[i])) = i - 1
  <2> SUFFICES ASSUME NEW i \in 1..n
               PROVE  ById(S)[i] \in S /\ Cardinality(Lesser(K, S, ById(S)[i])) = i - 1
    OBVIOUS
  <2>1. \E e \in S : Cardinality({f \in S : f.id < e.id}) = i - 1
    BY <1>2, <1>6
  <2>2. ById(S)[i] \in S /\ Cardinality({f \in S : f.id < ById(S)[i].id}) = i - 1
    BY <1>7, <2>1
  <2> QED
    BY <1>2, <2>2
<1>9. ASSUME NEW e \in S PROVE \E i \in 1..n : ById(S)[i] = e
  <2>1. PICK i \in 1..n : i - 1 = Cardinality(Lesser(K, S, e))
    <3>1. PICK r \in 0..(n - 1) : r = Cardinality(Lesser(K, S, e))
      BY <1>4
    <3>2. r + 1 \in 1..n /\ (r + 1) - 1 = r
      OBVIOUS
    <3> QED
      BY <3>1, <3>2
  <2>2. Cardinality(Lesser(K, S, ById(S)[i])) = Cardinality(Lesser(K, S, e)) /\ ById(S)[i] \in S
    BY <1>8, <2>1
  <2> QED
    BY <1>5, <2>2
<1>10. DOMAIN ById(S) = 1..n
  BY <1>7
<1> QED
  BY <1>3, <1>8, <1>9, <1>10

(* A reversal mirrors the rows of a committed transaction that is none itself, and
   still does when the row has become REVERSED (domain/transaction.go NewReversal). *)
LEMMA ReversalsFit ==
  ASSUME IInv, RowIdsOK, NEW r \in Reversals
  PROVE  ReversalFits(r.txn)
<1>1. PICK x \in TxnIds :
        /\ Exists(x) /\ r.err = "nil"
        /\ r = NewReversal([GetTransaction(x) EXCEPT !.status = "POSTED"])
  BY DEF Reversals
<1> DEFINE S == RowsOfTxn(x)
           rows == ById(S)
           es == Lines(rows)
           o == [GetTransaction(x) EXCEPT !.status = "POSTED"]
<1>2. o.status = "POSTED" /\ o.type = transactions[x].type /\ o.id = x /\ o.entries = es
  BY DEF GetTransaction, RowsOfTxn
<1> HIDE DEF o
<1>3. o.type # "REVERSAL"
  BY <1>1, <1>2 DEF NewReversal, Refused, o
<1>4. r.txn.reverses = x /\ r.txn.entries = ReversedEntries(es)
  BY <1>1, <1>2, <1>3 DEF NewReversal, Built, Txn, o
<1>5. IsFiniteSet(S) /\ (\A e \in S : e.id \in Int) /\ \A e, f \in S : e.id = f.id => e = f
  BY FS_Subset DEF RowIdsOK, IInv, TypeOK, RowTypes, RowsOfTxn
<1>6. PICK n \in Nat : /\ n = Cardinality(S) /\ DOMAIN rows = 1..n
                       /\ {rows[i] : i \in 1..n} = S
  <2> HIDE DEF S
  <2> QED
    BY <1>5, ByIdLists
<1> HIDE DEF rows, S
<1>7. /\ DOMAIN es = 1..n
      /\ \A i \in 1..n : es[i] = Entry(rows[i].account, rows[i].direction, rows[i].amount)
  BY <1>6 DEF Lines
<1>8. Len(es) = n
  <2>1. es = [i \in 1..n |-> es[i]]
    BY <1>6, <1>7 DEF Lines
  <2> QED
    BY <1>6, <2>1
<1> HIDE DEF es
<1>9. r.txn.entries = [i \in 1..n |-> [es[i] EXCEPT !.direction = Opposite(@)]]
  BY <1>4, <1>8 DEF ReversedEntries
<1>10. Len(r.txn.entries) = n
  BY <1>6, <1>9
<1>11. \A i \in 1..n : LineOf(r.txn.entries[i]) = MirrorOf(rows[i])
  BY <1>7, <1>9 DEF LineOf, MirrorOf, Entry
<1>12. {LineOf(r.txn.entries[i]) : i \in 1..n} = {MirrorOf(e) : e \in S}
  BY <1>6, <1>11
<1> QED
  BY <1>1, <1>2, <1>3, <1>4, <1>10, <1>12 DEF ReversalFits, S

----------------------------------------------------------------------------
(* The theorems.                                                           *)

(* The empty tables.                                                       *)
LEMMA InitTables == Init => TInv /\ RowIdsOK
<1> SUFFICES ASSUME Init PROVE TInv /\ RowIdsOK
  OBVIOUS
<1>1. DraftsOK
  BY DEF Init, DraftsOK, DraftOK, Apart, ClaimHeld, MarkHeld, Writing, InTxn
<1>2. \A x \in TxnIds : ~Exists(x) /\ transactions[x] = NoRow /\ transactions[x].status = "NONE"
                        /\ transactions[x].reverses = NoTxn
  BY DEF Init, Exists, NoRow
<1>3. HeadersOK /\ ReversedOnce
  BY <1>2, StoreAssumption DEF Init, HeadersOK, ReversedOnce, ReversalsOf
<1>4. \A k \in ClaimKeys : idem[k] = NoClaim /\ ~Claimed(k)
  <2>1. NoClaim.code = 0
    BY DEF NoClaim
  <2> QED
    BY <2>1 DEF Init, Claimed
<1>5. ExactlyOnce
  BY <1>2, <1>4 DEF Init, ExactlyOnce
<1>6. RowIdsOK
  BY FS_EmptySet DEF Init, RowIdsOK, Writing
<1> QED
  BY <1>1, <1>3, <1>5, <1>6 DEF TInv

(* Every step keeps the tables in order.                                   *)
LEMMA NextTables ==
  ASSUME IInv, TInv, RowIdsOK, [Next]_vars
  PROVE  TInv'
<1>1. ASSUME NEW s \in Sessions, NEW k \in ClaimKeys, NEW h \in Hashes, NEW t \in Orders, Post(s, t, k, h)
      PROVE  TInv'
  <2>1. ReversalFits(t)
    BY StoreAssumption DEF ReversalFits
  <2> QED
    BY <1>1, <2>1, PostTables
<1>2. ASSUME NEW s \in Sessions, NEW k \in ClaimKeys, NEW h \in Hashes, NEW r \in Reversals,
             Post(s, r.txn, k, h)
      PROVE  TInv'
  <2>1. PICK t : t = r.txn
    OBVIOUS
  <2>2. ReversalFits(t) /\ Post(s, t, k, h)
    BY <1>2, <2>1, ReversalsFit
  <2> QED
    BY <2>2, PostTables
<1>3. ASSUME NEW s \in Sessions, Step(s) \/ CommitLost(s) \/ Abort(s) \/ Release(s)
      PROVE  TInv'
  <2>1. CASE Abort(s)
    BY <2>1, RollbackTables DEF Abort
  <2> QED
    BY <1>3, <2>1, ReleaseTables, ClaimTables, LockRowTables, CheckLockedTables, MarkTables,
       InsertHeaderTables, PostEntryTables, SaveResultTables, CommitTables DEF Step
<1>4. ASSUME NEW a \in Freezable, SetStatus(a)
      PROVE  TInv'
  BY <1>4, SetStatusTables
<1>5. CASE UNCHANGED vars
  <2>1. UNCHANGED <<accounts, transactions, entries, idem, outbox, pc, call, tid, posted, held>>
    BY <1>5 DEF vars, tables, session
  <2>2. \A r \in Sessions : DraftOK(r)'
    BY <2>1, DraftKeeps DEF TInv, DraftsOK, BalancesKeep
  <2>3. \A q, r \in Sessions : q # r => Apart(q, r)'
    BY <2>1 DEF TInv, DraftsOK, Apart, ClaimHeld, MarkHeld, Writing
  <2>4. HeadersOK' /\ ExactlyOnce' /\ ReversedOnce'
    BY <2>1 DEF TInv, HeadersOK, ExactlyOnce, ReversedOnce, Exists, Claimed, RowsOfTxn, ReversalsOf
  <2> QED
    BY <2>2, <2>3, <2>4 DEF TInv, DraftsOK
<1> QED
  BY <1>1, <1>2, <1>3, <1>4, <1>5 DEF Next

(* The tables and the drafts of the sessions stay in order (ledger_repo.go Post).  *)
THEOREM TablesInvariance == Spec => [](IInv /\ TInv /\ RowIdsOK)
<1>1. Init => IInv /\ TInv /\ RowIdsOK
  BY InitOK, InitTables
<1>2. (IInv /\ TInv /\ RowIdsOK) /\ [Next]_vars => (IInv /\ TInv /\ RowIdsOK)'
  BY NextOK, NextTables, NextIds
<1> QED
  BY <1>1, <1>2, PTL DEF Spec

(* Every committed transaction is the result of exactly one claim and has exactly one
   event, whatever retries, races, rollbacks and lost answers came before
   (ledger_repo.go Post steps 1, 6, 7).                                      *)
THEOREM PostedExactlyOnce == Spec => []ExactlyOnce
<1>1. TInv => ExactlyOnce
  BY DEF TInv
<1> QED
  BY <1>1, TablesInvariance, PTL

(* A transaction is reversed at most once, and by its mirror image (ledger_repo.go Post
   steps 3 and 4, domain/transaction.go NewReversal).                        *)
THEOREM ReversalsAreUnique == Spec => []ReversedOnce
<1>1. TInv => ReversedOnce
  BY DEF TInv
<1> QED
  BY <1>1, TablesInvariance, PTL
----------------------------------------------------------------------------
(* What a commit is the only step to do.                                   *)

\* Nothing a reader of the tables would notice but the status of an account.
NothingCommitted ==
  /\ UNCHANGED <<transactions, entries, idem, outbox>>
  /\ \A a \in Accounts : /\ accounts'[a].balance = accounts[a].balance
                         /\ accounts'[a].version = accounts[a].version

(* Tables change when a session commits, and at no other step.             *)
LEMMA WritesAreCommits ==
  ASSUME IInv, [Next]_vars
  PROVE  \/ NothingCommitted
         \/ \E s \in Sessions : pc[s] = "commit" /\ Apply(s) /\ CommitError(s) = "nil"
<1>1. UNCHANGED tables => NothingCommitted
  BY DEF NothingCommitted, tables
<1>2. ASSUME NEW s \in Sessions, Commit(s) \/ CommitLost(s)
      PROVE  UNCHANGED tables \/ (pc[s] = "commit" /\ Apply(s) /\ CommitError(s) = "nil")
  BY <1>2 DEF Commit, CommitLost, Rollback
<1>3. ASSUME NEW s \in Sessions, Claim(s) \/ LockRow(s) \/ CheckLocked(s) \/ Mark(s)
                                 \/ InsertHeader(s) \/ PostEntry(s) \/ SaveResult(s)
                                 \/ Abort(s) \/ Release(s)
      PROVE  UNCHANGED tables
  BY <1>3 DEF Claim, LockRow, CheckLocked, Mark, InsertHeader, PostEntry, SaveResult,
              Abort, Release, Rollback
<1>4. ASSUME NEW s, NEW t, NEW k, NEW h, Post(s, t, k, h) PROVE UNCHANGED tables
  BY <1>4 DEF Post
<1>5. ASSUME NEW a \in Freezable, SetStatus(a) PROVE NothingCommitted
  BY <1>5, StoreAssumption DEF SetStatus, NothingCommitted, IInv, TypeOK, AccountRows
<1>6. CASE UNCHANGED vars
  BY <1>1, <1>6 DEF vars
<1> QED
  BY <1>1, <1>2, <1>3, <1>4, <1>5, <1>6 DEF Next, Step

(* A step changes a header from POSTED to REVERSED, and a stored result not at all.  *)
LEMMA NextOneWay ==
  ASSUME IInv, TInv, [Next]_vars
  PROVE  /\ \A x \in TxnIds : transactions'[x] = transactions[x]
              \/ ~Exists(x)
              \/ /\ transactions[x].status = "POSTED"
                 /\ transactions'[x] = [transactions[x] EXCEPT !.status = "REVERSED"]
         /\ \A k \in ClaimKeys : Claimed(k) => idem'[k] = idem[k]
<1>1. CASE NothingCommitted
  BY <1>1 DEF NothingCommitted
<1>2. CASE \E s \in Sessions : pc[s] = "commit" /\ Apply(s)
  <2>0. PICK s \in Sessions : pc[s] = "commit" /\ Apply(s)
    BY <1>2
  <2>1. PICK x0, rev, key : Commits(s, x0, rev, key)
    BY <2>0 DEF Commits
  <2>2. CommitEffect(s, x0, rev, key)
    BY <2>1, CommitFacts
  <2>3. /\ ~Exists(x0) /\ ~Claimed(key)
        /\ rev # NoTxn => /\ transactions[rev].status = "POSTED"
                          /\ transactions'[rev] = [transactions[rev] EXCEPT !.status = "REVERSED"]
        /\ \A x \in TxnIds : x # x0 /\ x # rev => transactions'[x] = transactions[x]
        /\ \A k \in ClaimKeys \ {key} : idem'[k] = idem[k]
    BY <2>2 DEF CommitEffect
  <2> QED
    BY <2>3, StoreAssumption
<1> QED
  BY <1>1, <1>2, WritesAreCommits

(* A header changes from POSTED to REVERSED and in no other way, and a stored result
   never (ledger_repo.go Post).                                              *)
THEOREM HistoryIsOneWay == Spec => OneWay
<1>1. ASSUME IInv, TInv, [Next]_vars
      PROVE  [/\ \A x \in TxnIds : transactions'[x] = transactions[x]
                   \/ ~Exists(x)
                   \/ /\ transactions[x].status = "POSTED"
                      /\ transactions'[x] = [transactions[x] EXCEPT !.status = "REVERSED"]
              /\ \A k \in ClaimKeys : Claimed(k) => idem'[k] = idem[k]]_vars
  BY <1>1, NextOneWay
<1> QED
  BY <1>1, TablesInvariance, PTL DEF Spec, OneWay
----------------------------------------------------------------------------
(* Balances.                                                               *)

(* A row past all others is the latest.                                    *)
LEMMA LatestIsNew ==
  ASSUME NEW R, NEW row, row.id \in Int, \A f \in R : f.id \in Int /\ f.id < row.id
  PROVE  After(R \union {row}) = row.after
<1> DEFINE T == R \union {row}
<1>1. row \in T /\ \A f \in T : f.id <= row.id
  OBVIOUS
<1>2. \A e \in T : (\A f \in T : f.id <= e.id) => e = row
  OBVIOUS
<1>3. Latest(T) = row
  BY <1>1, <1>2 DEF Latest
<1> QED
  BY <1>1, <1>3 DEF After

(* A commit adds one row to each account the session wrote, after all that are there,
   with the balance and the version the account then has.                    *)
LEMMA CommitRows ==
  ASSUME IInv, TInv, NEW s \in Sessions, pc[s] = "commit", Apply(s)
  PROVE  /\ entries' = entries \union Written(s)
         /\ \A row \in Written(s) :
              /\ row \in RowTypes /\ row.direction \in Directions
              /\ row.after = accounts[row.account].balance + Delta(row)
              /\ \A f \in RowsOf(row.account) : f.id < row.id
              /\ RowsOf(row.account)' = RowsOf(row.account) \union {row}
              /\ accounts'[row.account].balance = row.after
              /\ accounts'[row.account].version = accounts[row.account].version + 1
         /\ \A a \in Accounts : (\A row \in Written(s) : row.account # a) =>
              RowsOf(a)' = RowsOf(a) /\ accounts'[a] = accounts[a]
<1>1. Writing(s) /\ entries' = entries \union Written(s) /\ SessionOK(s) /\ WrittenOK(s) /\ DraftOK(s)
  BY DEF Apply, Writing, IInv, TInv, DraftsOK
<1>2. PICK n \in Nat : n = Len(posted[s]) /\ n = Len(call[s].txn.entries)
  <2>1. posted[s] \in Seq(RowTypes)
    BY DEF IInv, TypeOK
  <2> QED
    BY <1>1, <2>1 DEF DraftOK
<1>3. \A row \in Written(s) : \E i \in 1..n : row = posted[s][i]
  BY <1>2 DEF Written
<1>4. \A i, j \in 1..n : posted[s][i].account = posted[s][j].account => i = j
  BY <1>1, <1>2 DEF SessionOK, InTxn, Distinct, WrittenOK
<1>5. \A f, g \in Written(s) : f.account = g.account => f = g
  BY <1>3, <1>4
<1>6. \A a \in Accounts : accounts'[a] = Current(s, a)
  BY DEF Apply
<1>7. ASSUME NEW row \in Written(s)
      PROVE  /\ row \in RowTypes /\ row.direction \in Directions
             /\ row.after = accounts[row.account].balance + Delta(row)
             /\ \A f \in RowsOf(row.account) : f.id < row.id
             /\ RowsOf(row.account)' = RowsOf(row.account) \union {row}
             /\ accounts'[row.account].balance = row.after
             /\ accounts'[row.account].version = accounts[row.account].version + 1
  <2>1. PICK i \in 1..n : row = posted[s][i]
    BY <1>3
  <2>2. row \in RowTypes /\ \A f \in entries : f.account = row.account => f.id < row.id
    BY <1>1, <1>2, <2>1, CommittedRows
  <2>3. LineOf(row) = LineOf(call[s].txn.entries[i]) /\ row.after = accounts[row.account].balance + Delta(row)
    BY <1>1, <1>2, <2>1 DEF DraftOK, RowFits
  <2>4. row.direction \in Directions
    <3>1. call[s].txn.entries[i].direction \in Directions
      BY <1>1, <1>2 DEF DraftOK, WellFormed, InTxn
    <3>2. row.direction = call[s].txn.entries[i].direction
      BY <2>3 DEF LineOf
    <3> QED
      BY <3>1, <3>2
  <2>5. RowsOf(row.account)' = RowsOf(row.account) \union {row}
    <3>1. \A f \in Written(s) : f.account = row.account <=> f = row
      BY <1>5
    <3>2. PICK a : a = row.account
      OBVIOUS
    <3>3. RowsOf(a)' = RowsOf(a) \union {row}
      BY <1>1, <3>1, <3>2 DEF RowsOf
    <3> QED
      BY <3>2, <3>3
  <2>6. Current(s, row.account) = [balance |-> row.after,
                                   version |-> accounts[row.account].version + 1,
                                   status |-> accounts[row.account].status]
    <3> DEFINE j == CHOOSE j \in 1..Len(posted[s]) : posted[s][j].account = row.account
    <3>1. Wrote(s, row.account)
      BY <1>2, <2>1 DEF Wrote
    <3>2. j \in 1..n /\ posted[s][j].account = row.account
      BY <1>2, <2>1
    <3>3. Current(s, row.account) = [balance |-> posted[s][j].after,
                                     version |-> accounts[row.account].version + 1,
                                     status |-> accounts[row.account].status]
      BY <3>1, Zenon DEF Current
    <3> HIDE DEF j
    <3>4. j = i
      BY <1>4, <2>1, <3>2
    <3> QED
      BY <2>1, <3>3, <3>4
  <2>7. row.account \in Accounts
    BY <2>2 DEF RowTypes
  <2>8. accounts'[row.account] = [balance |-> row.after,
                                  version |-> accounts[row.account].version + 1,
                                  status |-> accounts[row.account].status]
    BY <1>6, <2>6, <2>7
  <2> QED
    BY <2>2, <2>3, <2>4, <2>5, <2>8 DEF RowsOf
<1>8. ASSUME NEW a \in Accounts, \A row \in Written(s) : row.account # a
      PROVE  RowsOf(a)' = RowsOf(a) /\ accounts'[a] = accounts[a]
  <2>1. ~Wrote(s, a)
    BY <1>8 DEF Wrote, Written
  <2> QED
    BY <1>1, <1>6, <1>8, <2>1 DEF Current, RowsOf
<1> QED
  BY <1>1, <1>7, <1>8

(* Every step keeps the running balances.                                  *)
LEMMA NextRunning ==
  ASSUME IInv, TInv, RowIdsOK, RunningBalance, [Next]_vars
  PROVE  RunningBalance'
<1>1. CASE NothingCommitted
  <2>1. entries' = entries /\ (\A e \in entries : Before(e)' = Before(e))
        /\ \A a \in Accounts : RowsOf(a)' = RowsOf(a)
    BY <1>1 DEF NothingCommitted, Before, RowsOf
  <2> QED
    BY <1>1, <2>1 DEF NothingCommitted, RunningBalance
<1>2. CASE \E s \in Sessions : pc[s] = "commit" /\ Apply(s)
  <2>1. PICK s \in Sessions : pc[s] = "commit" /\ Apply(s)
    BY <1>2
  <2>2. /\ entries' = entries \union Written(s)
        /\ \A row \in Written(s) :
             /\ row \in RowTypes /\ row.direction \in Directions
             /\ row.after = accounts[row.account].balance + Delta(row)
             /\ \A f \in RowsOf(row.account) : f.id < row.id
             /\ RowsOf(row.account)' = RowsOf(row.account) \union {row}
             /\ accounts'[row.account].balance = row.after
             /\ accounts'[row.account].version = accounts[row.account].version + 1
        /\ \A a \in Accounts : (\A row \in Written(s) : row.account # a) =>
             RowsOf(a)' = RowsOf(a) /\ accounts'[a] = accounts[a]
    BY <2>1, CommitRows
  <2>3. \A f \in entries : f \in RowTypes /\ f.id \in Int /\ f.account \in Accounts
    BY DEF IInv, TypeOK, RowTypes
  <2>4. \A row \in Written(s) : row.id \in Int /\ row.account \in Accounts
    BY <2>2 DEF RowTypes
  <2>5. \A a \in Accounts : /\ accounts[a].balance = After(RowsOf(a))
                            /\ accounts[a].version = 1 + Cardinality(RowsOf(a))
    BY DEF RunningBalance
  <2>6. ASSUME NEW e \in entries' PROVE e.after = After(Before(e))' + Delta(e)
    <3>1. CASE e \in entries
      <4>1. \A row \in Written(s) : row.account = e.account => e.id < row.id
        BY <2>2, <3>1 DEF RowsOf
      <4>2. Before(e)' = Before(e)
        <5>1. \A row \in Written(s) : ~(row.account = e.account /\ row.id < e.id)
          BY <2>3, <2>4, <3>1, <4>1
        <5> QED
          BY <2>2, <5>1 DEF Before
      <4>3. e.after = After(Before(e)) + Delta(e)
        BY <3>1 DEF RunningBalance
      <4>4. After(Before(e))' = After(Before(e))
        BY <4>2 DEF After, Latest
      <4> QED
        BY <4>3, <4>4
    <3>2. CASE e \in Written(s)
      <4>1. PICK a \in Accounts : a = e.account
        BY <2>4, <3>2
      <4>2. RowsOf(a)' = RowsOf(a) \union {e} /\ \A f \in RowsOf(a) : f.id < e.id
        BY <2>2, <3>2, <4>1
      <4>3. Before(e)' = {f \in RowsOf(a)' : f.id < e.id}
        BY <4>1 DEF Before, RowsOf
      <4>4. Before(e)' = RowsOf(a)
        BY <2>4, <3>2, <4>2, <4>3
      <4>5. After(Before(e))' = After(RowsOf(a))
        BY <4>4 DEF After, Latest
      <4> QED
        BY <2>2, <2>5, <3>2, <4>1, <4>5
    <3> QED
      BY <2>2, <3>1, <3>2
  <2>7. ASSUME NEW a \in Accounts
        PROVE  /\ accounts'[a].balance = After(RowsOf(a))'
               /\ accounts'[a].version = 1 + Cardinality(RowsOf(a)')
    <3>1. CASE \A row \in Written(s) : row.account # a
      <4>1. RowsOf(a)' = RowsOf(a) /\ accounts'[a] = accounts[a]
        BY <2>2, <3>1
      <4>2. After(RowsOf(a))' = After(RowsOf(a))
        BY <4>1 DEF After, Latest
      <4> QED
        BY <2>5, <4>1, <4>2
    <3>2. CASE \E row \in Written(s) : row.account = a
      <4>1. PICK row \in Written(s) : row.account = a
        BY <3>2
      <4>2. /\ \A f \in RowsOf(a) : f.id < row.id /\ f.id \in Int
            /\ RowsOf(a)' = RowsOf(a) \union {row} /\ row.id \in Int
            /\ accounts'[a].balance = row.after
            /\ accounts'[a].version = accounts[a].version + 1
        BY <2>2, <2>3, <2>4, <4>1 DEF RowsOf
      <4>3. After(RowsOf(a) \union {row}) = row.after
        BY <4>2, LatestIsNew
      <4>4. After(RowsOf(a))' = row.after
        BY <4>2, <4>3 DEF After, Latest
      <4>5. IsFiniteSet(RowsOf(a)) /\ row \notin RowsOf(a)
        BY <4>2, FS_Subset DEF RowIdsOK, RowsOf
      <4>6. Cardinality(RowsOf(a) \union {row}) = Cardinality(RowsOf(a)) + 1
            /\ Cardinality(RowsOf(a)) \in Nat
        BY <4>5, FS_AddElement, FS_CardinalityType
      <4>7. Cardinality(RowsOf(a)') = Cardinality(RowsOf(a)) + 1
        BY <4>2, <4>6
      <4> QED
        BY <2>5, <4>2, <4>4, <4>6, <4>7
    <3> QED
      BY <3>1, <3>2
  <2> QED
    BY <2>6, <2>7 DEF RunningBalance
<1> QED
  BY <1>1, <1>2, WritesAreCommits

(* The statement of every account adds up, and its balance and version are those of its
   rows, however posts interleave, fail and retry (ledger_repo.go Post step 5,
   BalanceDrift).                                                            *)
THEOREM StatementsAddUp == Spec => []RunningBalance
<1>1. Init => RunningBalance
  BY FS_EmptySet DEF Init, RunningBalance, RowsOf, After
<1>2. (IInv /\ TInv /\ RowIdsOK) /\ RunningBalance /\ [Next]_vars => RunningBalance'
  BY NextRunning
<1> QED
  BY <1>1, <1>2, TablesInvariance, PTL DEF Spec
----------------------------------------------------------------------------
(* The books.                                                              *)

Summable(R) == IsFiniteSet(R) /\ \A e \in R : e.amount \in Int

(* Sums over rows: of nothing, of one row, of two sets without a common row.  *)
LEMMA SideTotals ==
  ASSUME NEW d, NEW R, Summable(R), NEW T, Summable(T), R \intersect T = {}
  PROVE  /\ SideTotal(R, d) \in Int
         /\ R = {} => SideTotal(R, d) = 0
         /\ SideTotal(R \union T, d) = SideTotal(R, d) + SideTotal(T, d)
<1> DEFINE On(X) == {e \in X : e.direction = d}
           F == [e \in R \union T |-> e.amount]
<1>1. \A X \in {R, T, R \union T} :
        /\ IsFiniteSet(On(X)) /\ (\A e \in On(X) : e.amount \in Int /\ F[e] = e.amount)
  BY FS_Subset, FS_Union DEF Summable
<1>2. \A X \in {R, T, R \union T} : SideTotal(X, d) = Total(F, On(X))
  <2> TAKE X \in {R, T, R \union T}
  <2>1. PICK Y : Y = On(X)
    OBVIOUS
  <2>2. IsFiniteSet(Y) /\ (\A e \in Y : e.amount \in Int) /\ \A e \in Y : F[e] = e.amount
    BY <1>1, <2>1
  <2> HIDE DEF F
  <2>3. MapThenSumSet(LAMBDA e : e.amount, Y) = Total(F, Y)
    BY <2>2, AmountTotal
  <2> QED
    BY <2>1, <2>3 DEF SideTotal
<1>3. On(R \union T) = On(R) \union On(T) /\ On(R) \intersect On(T) = {}
  OBVIOUS
<1>4. /\ IsFiniteSet(On(R)) /\ IsFiniteSet(On(T))
      /\ \A e \in On(R) \union On(T) : F[e] \in Int
  BY <1>1
<1>5. R = {} => On(R) = {}
  OBVIOUS
<1> HIDE DEF On, F
<1>6. Total(F, On(R) \union On(T)) = Total(F, On(R)) + Total(F, On(T))
  BY <1>3, <1>4, TotalUnion
<1>7. Total(F, On(R)) \in Int /\ (On(R) = {} => Total(F, On(R)) = 0)
  BY <1>4, TotalUnfolds
<1> QED
  BY <1>2, <1>3, <1>5, <1>6, <1>7

(* One row adds its amount to its own side.                                *)
LEMMA SideTotalOfOne ==
  ASSUME NEW d, NEW row, row.amount \in Int
  PROVE  SideTotal({row}, d) = IF row.direction = d THEN row.amount ELSE 0
<1> DEFINE F == [e \in {row} |-> e.amount]
           On == {e \in {row} : e.direction = d}
<1>1. IsFiniteSet(On) /\ (\A e \in On : e.amount \in Int) /\ \A e \in On : F[e] = e.amount
  BY FS_Singleton, FS_Subset
<1>2. SideTotal({row}, d) = Total(F, On)
  <2>1. PICK Y : Y = On
    OBVIOUS
  <2>2. IsFiniteSet(Y) /\ (\A e \in Y : e.amount \in Int) /\ \A e \in Y : F[e] = e.amount
    BY <1>1, <2>1
  <2> HIDE DEF F
  <2>3. MapThenSumSet(LAMBDA e : e.amount, Y) = Total(F, Y)
    BY <2>2, AmountTotal
  <2> QED
    BY <2>1, <2>3 DEF SideTotal
<1>3. CASE row.direction # d
  <2>1. On = {}
    BY <1>3
  <2>2. Total(F, {}) = 0
    <3> HIDE DEF F
    <3> QED
      BY FS_EmptySet, TotalUnfolds
  <2> QED
    BY <1>2, <1>3, <2>1, <2>2
<1>4. CASE row.direction = d
  <2>1. On = {} \union {row} /\ F[row] = row.amount
    BY <1>4
  <2> HIDE DEF F, On
  <2>2. Total(F, {} \union {row}) = F[row] + Total(F, {})
    BY <2>1, FS_EmptySet, TotalAdd
  <2>3. Total(F, {}) = 0
    BY FS_EmptySet, TotalUnfolds
  <2> QED
    BY <1>2, <1>4, <2>1, <2>2, <2>3
<1> QED
  BY <1>3, <1>4

(* Every step keeps the books.                                             *)
LEMMA NextBooks ==
  ASSUME IInv, TInv, RowIdsOK, BooksBalance, [Next]_vars
  PROVE  BooksBalance'
<1>1. CASE NothingCommitted
  <2>1. entries' = entries /\ \A a \in Accounts : RowsOf(a)' = RowsOf(a)
    BY <1>1 DEF NothingCommitted, RowsOf
  <2> QED
    BY <1>1, <2>1 DEF NothingCommitted, BooksBalance
<1>2. CASE \E s \in Sessions : pc[s] = "commit" /\ Apply(s) /\ CommitError(s) = "nil"
  <2>1. PICK s \in Sessions : pc[s] = "commit" /\ Apply(s) /\ CommitError(s) = "nil"
    BY <1>2
  <2>2. PICK W : W = Written(s)
    OBVIOUS
  <2>3. /\ entries' = entries \union W
        /\ \A row \in W :
             /\ row \in RowTypes /\ row.direction \in Directions
             /\ row.after = accounts[row.account].balance + Delta(row)
             /\ RowsOf(row.account)' = RowsOf(row.account) \union {row}
             /\ accounts'[row.account].balance = row.after
        /\ \A a \in Accounts : (\A row \in W : row.account # a) =>
             RowsOf(a)' = RowsOf(a) /\ accounts'[a] = accounts[a]
    BY <2>1, <2>2, CommitRows
  <2>4. \A row \in RowTypes : row.amount \in Int /\ row.account \in Accounts
    BY MoneyAssumption DEF RowTypes, Int64
  <2>5. \A e \in entries : e \in RowTypes
    BY DEF IInv, TypeOK
  <2>6. entries \intersect W = {}
    <3>1. \A i \in 1..Len(posted[s]) : \A e \in entries : e.id # posted[s][i].id
      BY <2>1 DEF RowIdsOK, Writing
    <3> QED
      BY <2>2, <3>1 DEF Written
  <2>7. Summable(entries) /\ Summable(W) /\ \A a \in Accounts : Summable(RowsOf(a))
    <3>1. IsFiniteSet(entries) /\ IsFiniteSet(W)
      BY <2>2, WrittenFinite DEF RowIdsOK
    <3>2. \A a \in Accounts : RowsOf(a) \in SUBSET entries
      BY DEF RowsOf
    <3>3. \A a \in Accounts : IsFiniteSet(RowsOf(a))
      BY <3>1, <3>2, FS_Subset
    <3> QED
      BY <2>3, <2>4, <2>5, <3>1, <3>2, <3>3 DEF Summable
  <2>8. \A d : SideTotal(entries, d) \in Int /\ SideTotal(W, d) \in Int
               /\ SideTotal(entries \union W, d) = SideTotal(entries, d) + SideTotal(W, d)
    <3> TAKE d
    <3>1. W \intersect entries = {}
      BY <2>6
    <3> QED
      BY <2>6, <2>7, <3>1, SideTotals
  <2>9. SideTotal(W, DirectionDebit) = SideTotal(W, DirectionCredit)
    BY <2>1, <2>2 DEF CommitError
  <2>10. SideTotal(entries', DirectionDebit) = SideTotal(entries', DirectionCredit)
    <3>1. SideTotal(entries, DirectionDebit) = SideTotal(entries, DirectionCredit)
      BY DEF BooksBalance
    <3>2. SideTotal(entries \union W, DirectionDebit) = SideTotal(entries \union W, DirectionCredit)
      BY <2>8, <2>9, <3>1
    <3> QED
      BY <2>3, <3>2
  <2>11. ASSUME NEW a \in Accounts
         PROVE  accounts'[a].balance = SideTotal(RowsOf(a)', NormalSide(a))
                                         - SideTotal(RowsOf(a)', Opposite(NormalSide(a)))
    <3>1. PICK x, y : x = NormalSide(a) /\ y = Opposite(NormalSide(a))
      OBVIOUS
    <3>2. x # y /\ Directions = {x, y}
      BY <3>1 DEF NormalSide, NormalBalance, Opposite, Directions, DirectionDebit, DirectionCredit
    <3>3. accounts[a].balance = SideTotal(RowsOf(a), x) - SideTotal(RowsOf(a), y)
      BY <3>1 DEF BooksBalance
    <3>4. CASE \A row \in W : row.account # a
      <4>1. RowsOf(a)' = RowsOf(a) /\ accounts'[a] = accounts[a]
        BY <2>3, <3>4
      <4> QED
        BY <3>1, <3>3, <4>1
    <3>5. CASE \E row \in W : row.account = a
      <4>1. PICK row \in W : row.account = a
        BY <3>5
      <4>2. /\ row.amount \in Int /\ row.direction \in {x, y}
            /\ accounts'[a].balance = accounts[a].balance + Delta(row)
            /\ RowsOf(a)' = RowsOf(a) \union {row}
        BY <2>3, <2>4, <3>2, <4>1
      <4>3. Delta(row) = IF row.direction = x THEN row.amount ELSE -row.amount
        BY <3>1, <4>1 DEF Delta, BalanceDelta
      <4>4. PICK R : R = RowsOf(a)
        OBVIOUS
      <4>5. Summable(R) /\ Summable({row}) /\ R \intersect {row} = {}
        <5>1. row \notin R
          BY <2>6, <4>1, <4>4 DEF RowsOf
        <5> QED
          BY <2>7, <4>2, <4>4, <5>1, FS_Singleton DEF Summable
      <4>6. \A d : SideTotal(R, d) \in Int
                   /\ SideTotal(R \union {row}, d) = SideTotal(R, d) + SideTotal({row}, d)
        BY <4>5, SideTotals
      <4>7. /\ SideTotal({row}, x) = IF row.direction = x THEN row.amount ELSE 0
            /\ SideTotal({row}, y) = IF row.direction = y THEN row.amount ELSE 0
        BY <4>2, SideTotalOfOne
      <4>8. accounts[a].balance + Delta(row) =
              SideTotal(R \union {row}, x) - SideTotal(R \union {row}, y)
        <5>1. PICK u \in Int, v \in Int : u = SideTotal(R, x) /\ v = SideTotal(R, y)
          BY <4>6
        <5>2. accounts[a].balance = u - v
          BY <3>3, <4>4, <5>1
        <5>3. CASE row.direction = x
          <6>1. /\ Delta(row) = row.amount
                /\ SideTotal(R \union {row}, x) = u + row.amount
                /\ SideTotal(R \union {row}, y) = v + 0
            BY <3>2, <4>3, <4>6, <4>7, <5>1, <5>3
          <6> QED
            BY <4>2, <5>2, <6>1
        <5>4. CASE row.direction = y
          <6>1. /\ Delta(row) = -row.amount
                /\ SideTotal(R \union {row}, x) = u + 0
                /\ SideTotal(R \union {row}, y) = v + row.amount
            BY <3>2, <4>3, <4>6, <4>7, <5>1, <5>4
          <6> QED
            BY <4>2, <5>2, <6>1
        <5> QED
          BY <4>2, <5>3, <5>4
      <4>9. RowsOf(a)' = R \union {row}
        BY <4>2, <4>4
      <4>10. accounts'[a].balance = SideTotal(R \union {row}, x) - SideTotal(R \union {row}, y)
        BY <4>2, <4>8
      <4> QED
        BY <3>1, <4>9, <4>10
    <3> QED
      BY <3>4, <3>5
  <2> QED
    BY <2>10, <2>11 DEF BooksBalance
<1> QED
  BY <1>1, <1>2, WritesAreCommits

(* Debits equal credits, and every balance is the sum of its rows, in every committed
   state (ledger_repo.go Post, TrialBalance, BalanceDrift).                  *)
THEOREM TheBooksBalance == Spec => []BooksBalance
<1>1. Init => BooksBalance
  <2> SUFFICES ASSUME Init PROVE BooksBalance
    OBVIOUS
  <2>1. entries = {} /\ \A a \in Accounts : RowsOf(a) = {} /\ accounts[a].balance = 0
    BY DEF Init, RowsOf
  <2>2. \A d : SideTotal({}, d) = 0
    BY FS_EmptySet, SideTotals DEF Summable
  <2> QED
    BY <2>1, <2>2 DEF BooksBalance
<1>2. (IInv /\ TInv /\ RowIdsOK) /\ BooksBalance /\ [Next]_vars => BooksBalance'
  BY NextBooks
<1> QED
  BY <1>1, <1>2, TablesInvariance, PTL DEF Spec

----------------------------------------------------------------------------
(* LedgerStore implements AtomicLedger: a commit is the settlement of its claim, and
   every other step is none or changes the active accounts.                  *)

(* The claim of a transaction is the one that has it, in any table of claims in which no
   two have the same.                                                        *)
LEMMA ClaimIs ==
  ASSUME NEW table, NEW x, NEW c \in ClaimKeys, table[c].code # 0, table[c].txn = x,
         \A k \in ClaimKeys : table[k].code # 0 /\ table[k].txn = x => k = c
  PROVE  (CHOOSE k \in ClaimKeys : table[k].code # 0 /\ table[k].txn = x) = c
OBVIOUS

(* Every committed transaction has one claim, and ClaimOf finds it.        *)
LEMMA ClaimOfIs ==
  ASSUME TInv, NEW x \in TxnIds, Exists(x)
  PROVE  /\ ClaimOf(x) \in ClaimKeys /\ Claimed(ClaimOf(x)) /\ idem[ClaimOf(x)].txn = x
         /\ \A k \in ClaimKeys : Claimed(k) /\ idem[k].txn = x => k = ClaimOf(x)
<1>1. PICK c \in ClaimKeys : Claimed(c) /\ idem[c].txn = x
  BY DEF TInv, ExactlyOnce
<1>2. \A k \in ClaimKeys : Claimed(k) /\ idem[k].txn = x => k = c
  BY <1>1 DEF TInv, ExactlyOnce
<1>3. ClaimOf(x) = c
  BY <1>1, <1>2, ClaimIs DEF ClaimOf, Claimed
<1> QED
  BY <1>1, <1>2, <1>3

(* A claim that is visible has a committed transaction.                    *)
LEMMA ClaimedExists ==
  ASSUME IInv, TInv, NEW k \in ClaimKeys, Claimed(k)
  PROVE  idem[k].txn \in TxnIds /\ Exists(idem[k].txn)
<1>1. idem[k] # NoClaim
  <2>1. NoClaim.code = 0
    BY DEF NoClaim
  <2> QED
    BY <2>1 DEF Claimed
<1> QED
  BY <1>1 DEF IInv, TypeOK, TInv, ExactlyOnce

(* An original is committed, before and after its reversal.                *)
LEMMA OriginalExists ==
  ASSUME IInv, TInv, NEW x \in TxnIds, transactions[x].reverses # NoTxn
  PROVE  /\ transactions[x].reverses \in TxnIds
         /\ Exists(transactions[x].reverses)
         /\ transactions[transactions[x].reverses].status = "REVERSED"
<1>1. PICK y : y = transactions[x].reverses
  OBVIOUS
<1>2. y \in TxnIds
  BY <1>1 DEF IInv, TypeOK, TxnRows
<1>3. x \in ReversalsOf(y)
  BY <1>1 DEF ReversalsOf
<1>4. transactions[y].status = "REVERSED"
  BY <1>2, <1>3 DEF TInv, ReversedOnce
<1> QED
  BY <1>1, <1>2, <1>4 DEF Exists

----------------------------------------------------------------------------
(* Steps that commit nothing.                                              *)

(* The tables as AtomicLedger sees them are those of LedgerStore.          *)
LEMMA QuietIsAtomic ==
  ASSUME IInv, NothingCommitted
  PROVE  Atomic!SetActive
<1>1. [a \in Accounts |-> accounts'[a].balance] = [a \in Accounts |-> accounts[a].balance]
  BY DEF NothingCommitted
<1>2. UNCHANGED <<transactions, entries, idem, outbox>>
  BY DEF NothingCommitted
<1>3. \A k \in ClaimKeys : Claimed(k)' = Claimed(k)
  BY <1>2 DEF Claimed
<1>4. \A x : LinesOf(x)' = LinesOf(x) /\ ClaimOf(x)' = ClaimOf(x)
  BY <1>2 DEF LinesOf, RowsOfTxn, ClaimOf, Claimed
<1>5. \A k \in ClaimKeys : Settlement(idem[k].txn)' = Settlement(idem[k].txn)
  BY <1>2, <1>4 DEF Settlement
<1>6. [k \in ClaimKeys |-> IF Claimed(k) THEN Settlement(idem[k].txn)
                           ELSE [lines |-> {}, undoes |-> {}]]' =
      [k \in ClaimKeys |-> IF Claimed(k) THEN Settlement(idem[k].txn)
                           ELSE [lines |-> {}, undoes |-> {}]]
  BY <1>3, <1>5
<1>7. {k \in ClaimKeys : Claimed(k) /\ \E ev \in outbox : ev.aggregate = idem[k].txn}' =
      {k \in ClaimKeys : Claimed(k) /\ \E ev \in outbox : ev.aggregate = idem[k].txn}
  BY <1>2, <1>3
<1> QED
  BY <1>1, <1>6, <1>7 DEF Atomic!SetActive

----------------------------------------------------------------------------
(* COMMIT.                                                                 *)

\* The committed table of AtomicLedger's settlements.
SettledTable ==
  [k \in ClaimKeys |-> IF Claimed(k) THEN Settlement(idem[k].txn)
                       ELSE [lines |-> {}, undoes |-> {}]]

(* The settlements that were there stay what they are: a commit touches neither their
   rows, nor their original, nor the claim of it.                            *)
LEMMA OldSettlementsStay ==
  ASSUME IInv, TInv, TInv', NEW s \in Sessions, NEW x0, NEW rev, NEW key, Commits(s, x0, rev, key),
         NEW x \in TxnIds, Exists(x)
  PROVE  /\ LinesOf(x)' = LinesOf(x) /\ ClaimOf(x)' = ClaimOf(x)
         /\ transactions'[x].reverses = transactions[x].reverses
         /\ Settlement(x)' = Settlement(x)
<1>0. CommitEffect(s, x0, rev, key)
  BY CommitFacts
<1>1. /\ x0 \in TxnIds /\ ~Exists(x0) /\ key \in ClaimKeys /\ ~Claimed(key)
      /\ rev # NoTxn => transactions'[rev] = [transactions[rev] EXCEPT !.status = "REVERSED"]
      /\ \A y \in TxnIds : y # x0 /\ y # rev => transactions'[y] = transactions[y]
      /\ \A y \in TxnIds : Exists(y)' <=> (Exists(y) \/ y = x0)
      /\ \A y \in TxnIds \ {x0} : RowsOfTxn(y)' = RowsOfTxn(y)
      /\ \A k \in ClaimKeys \ {key} : idem'[k] = idem[k]
  BY <1>0 DEF CommitEffect
<1>2. ASSUME NEW y \in TxnIds, Exists(y)
      PROVE  LinesOf(y)' = LinesOf(y) /\ ClaimOf(y)' = ClaimOf(y)
  <2>1. y # x0
    BY <1>1, <1>2
  <2>2. LinesOf(y)' = LinesOf(y)
    BY <1>1, <2>1 DEF LinesOf
  <2>3. PICK c \in ClaimKeys : c = ClaimOf(y) /\ Claimed(c) /\ idem[c].txn = y
    BY <1>2, ClaimOfIs
  <2>4. c # key /\ idem'[c] = idem[c]
    BY <1>1, <2>3
  <2>5. idem'[c].code # 0 /\ idem'[c].txn = y
    BY <2>3, <2>4 DEF Claimed
  <2>6. \A k \in ClaimKeys : idem'[k].code # 0 /\ idem'[k].txn = y => k = c
    <3>1. \A k, l \in ClaimKeys :
            (idem'[k].code # 0 /\ idem'[l].code # 0 /\ idem'[k].txn = idem'[l].txn) => k = l
      BY DEF TInv, ExactlyOnce, Claimed
    <3> QED
      BY <2>5, <3>1
  <2>7. (CHOOSE k \in ClaimKeys : idem'[k].code # 0 /\ idem'[k].txn = y) = c
    BY <2>5, <2>6, ClaimIs
  <2> QED
    BY <2>2, <2>3, <2>7 DEF ClaimOf, Claimed
<1>3. transactions'[x].reverses = transactions[x].reverses
  <2>1. x # x0 /\ transactions[x] \in TxnRows
    BY <1>1 DEF IInv, TypeOK
  <2> QED
    BY <1>1, <2>1, StoreAssumption DEF TxnRows
<1>4. CASE transactions[x].reverses = NoTxn
  BY <1>2, <1>3, <1>4 DEF Settlement
<1>5. CASE transactions[x].reverses # NoTxn
  <2>1. PICK y \in TxnIds : y = transactions[x].reverses /\ Exists(y)
    BY <1>5, OriginalExists
  <2>2. LinesOf(x)' = LinesOf(x) /\ ClaimOf(y)' = ClaimOf(y) /\ transactions'[x].reverses = y
    BY <1>2, <1>3, <2>1
  <2>3. ClaimOf(transactions[x].reverses)' = ClaimOf(y)'
    BY <2>2 DEF ClaimOf, Claimed
  <2>4. Settlement(x)' = [lines |-> LinesOf(x), undoes |-> {ClaimOf(y)}]
    BY <1>3, <1>5, <2>2, <2>3 DEF Settlement
  <2>5. Settlement(x) = [lines |-> LinesOf(x), undoes |-> {ClaimOf(y)}]
    BY <1>5, <2>1 DEF Settlement
  <2> QED
    BY <1>2, <1>3, <2>4, <2>5
<1> QED
  BY <1>2, <1>3, <1>4, <1>5

(* The new settlement has the lines of the rows written, and undoes the claim of the
   original if there is one.                                                 *)
LEMMA NewSettlement ==
  ASSUME IInv, TInv, TInv', NEW s \in Sessions, NEW x0, NEW rev, NEW key, Commits(s, x0, rev, key)
  PROVE  /\ Claimed(key)' /\ idem'[key].txn = x0
         /\ \A k \in ClaimKeys : Claimed(k)' <=> (Claimed(k) \/ k = key)
         /\ rev = NoTxn => Settlement(x0)' = [lines |-> {LineOf(e) : e \in Written(s)}, undoes |-> {}]
         /\ rev # NoTxn => /\ rev \in TxnIds /\ Exists(rev)
                           /\ Settlement(x0)' = [lines |-> {LineOf(e) : e \in Written(s)},
                                                 undoes |-> {ClaimOf(rev)}]
<1>0. CommitEffect(s, x0, rev, key)
  BY CommitFacts
<1>1. /\ x0 \in TxnIds /\ transactions'[x0] = HeaderRow(s)
      /\ rev # NoTxn => rev \in TxnIds /\ transactions[rev].status = "POSTED"
      /\ RowsOfTxn(x0)' = Written(s)
      /\ key \in ClaimKeys /\ idem'[key] = ClaimRow(s)
      /\ \A k \in ClaimKeys \ {key} : idem'[k] = idem[k]
  BY <1>0 DEF CommitEffect
<1>2. idem'[key].code = 201 /\ idem'[key].txn = x0
  <2>1. ClaimRow(s).code = 201 /\ ClaimRow(s).txn = x0
    BY DEF ClaimRow, Commits
  <2> QED
    BY <1>1, <2>1
<1>3. transactions'[x0].reverses = rev
  <2>1. HeaderRow(s).reverses = rev
    BY DEF HeaderRow, Commits
  <2> QED
    BY <1>1, <2>1
<1>4. LinesOf(x0)' = {LineOf(e) : e \in Written(s)}
  BY <1>1 DEF LinesOf, LineOf
<1>5. \A k \in ClaimKeys : Claimed(k)' <=> (Claimed(k) \/ k = key)
  BY <1>1, <1>2 DEF Claimed
<1>6. rev = NoTxn => Settlement(x0)' = [lines |-> {LineOf(e) : e \in Written(s)}, undoes |-> {}]
  BY <1>3, <1>4 DEF Settlement
<1>7. ASSUME rev # NoTxn
      PROVE  /\ rev \in TxnIds /\ Exists(rev)
             /\ Settlement(x0)' = [lines |-> {LineOf(e) : e \in Written(s)}, undoes |-> {ClaimOf(rev)}]
  <2>1. rev \in TxnIds /\ Exists(rev)
    BY <1>1, <1>7 DEF Exists
  <2>2. ClaimOf(rev)' = ClaimOf(rev)
    BY <2>1, OldSettlementsStay
  <2>3. ClaimOf(transactions[x0].reverses)' = ClaimOf(rev)
    BY <1>3, <2>2 DEF ClaimOf, Claimed
  <2> QED
    BY <1>3, <1>4, <1>7, <2>1, <2>3 DEF Settlement
<1> QED
  BY <1>1, <1>2, <1>5, <1>6, <1>7

(* The lines of a set of rows that are one per account add up to what the rows do.  *)
LEMMA LinesTotal ==
  ASSUME NEW R, Summable(R), \A e, f \in R : e.account = f.account => e = f, NEW d
  PROVE  Atomic!TotalOf(Atomic!SideOf({LineOf(e) : e \in R}, d)) = SideTotal(R, d)
<1>1. PICK Y : Y = {e \in R : e.direction = d}
  OBVIOUS
<1> DEFINE F == [e \in R |-> e.amount]
           h == [e \in R |-> LineOf(e)]
           Z == {h[e] : e \in Y}
           G == [l \in Z |-> l[3]]
<1>2. IsFiniteSet(Y) /\ Y \in SUBSET R /\ \A e \in Y : e.amount \in Int /\ F[e] = e.amount
  BY <1>1, FS_Subset DEF Summable
<1>3. \A e \in Y : h[e] = LineOf(e) /\ LineOf(e)[1] = e.account /\ LineOf(e)[3] = e.amount
  BY <1>2 DEF LineOf
<1>4. \A e, f \in Y : h[e] = h[f] => e = f
  BY <1>2, <1>3
<1>5. \A e \in Y : G[h[e]] = F[e]
  BY <1>2, <1>3
<1>6. Atomic!SideOf({LineOf(e) : e \in R}, d) = Z
  <2>1. \A e \in R : LineOf(e)[2] = e.direction
    BY DEF LineOf
  <2> QED
    BY <1>1, <2>1 DEF Atomic!SideOf
<1>7. IsFiniteSet(Z)
  <2>1. [e \in Y |-> h[e]] \in Surjection(Y, Z)
    BY DEF Surjection
  <2> QED
    BY <1>2, <2>1, FS_Surjection
<1>8. (\A l \in Z : l[3] \in Int) /\ \A l \in Z : G[l] = l[3]
  <2>1. \A l \in Z : G[l] = l[3]
    OBVIOUS
  <2>2. \A e \in Y : h[e][3] = e.amount /\ e.amount \in Int
    BY <1>2, <1>3
  <2> HIDE DEF h, G
  <2>3. \A l \in Z : \E e \in Y : l = h[e]
    OBVIOUS
  <2> HIDE DEF Z
  <2>4. \A l \in Z : l[3] \in Int
    BY <2>2, <2>3
  <2> QED
    BY <2>1, <2>4
<1> HIDE DEF F, h, G
<1>9. Total(G, Z) = Total(F, Y)
  BY <1>2, <1>4, <1>5, TotalImage
<1> HIDE DEF Z
<1>10. MapThenSumSet(LAMBDA l : l[3], Z) = Total(G, Z)
  BY <1>7, <1>8, ThirdTotal
<1>11. Atomic!TotalOf(Z) = MapThenSumSet(LAMBDA l : l[3], Z)
  BY DEF Atomic!TotalOf, Atomic!MapThenSumSet, Atomic!MapThenFoldSet, MapThenSumSet, MapThenFoldSet
<1>12. MapThenSumSet(LAMBDA e : e.amount, Y) = Total(F, Y)
  BY <1>2, AmountTotal
<1>13. SideTotal(R, d) = Total(F, Y)
  BY <1>1, <1>12 DEF SideTotal
<1> QED
  BY <1>6, <1>9, <1>10, <1>11, <1>13

(* What a commit writes: rows with positive amounts, one for each of some active accounts.  *)
LEMMA CommitWrites ==
  ASSUME IInv, TInv, NEW s \in Sessions, pc[s] = "commit"
  PROVE  /\ Written(s) # {} /\ Summable(Written(s))
         /\ \A e, f \in Written(s) : e.account = f.account => e = f
         /\ \A e \in Written(s) : /\ e.account \in Accounts /\ e.amount > 0
                                  /\ accounts[e.account].status = "ACTIVE"
<1>1. Writing(s) /\ SessionOK(s) /\ WrittenOK(s) /\ DraftOK(s)
  BY DEF Writing, IInv, TInv, DraftsOK
<1>2. PICK n \in Nat : n = Len(posted[s]) /\ n = Len(call[s].txn.entries)
  <2>1. posted[s] \in Seq(RowTypes)
    BY DEF IInv, TypeOK
  <2> QED
    BY <1>1, <2>1 DEF DraftOK
<1>3. Written(s) = {posted[s][i] : i \in 1..n}
  BY <1>2 DEF Written
<1>4. WellFormed(call[s].txn) /\ n >= 2
  BY <1>1, <1>2 DEF DraftOK, WellFormed, InTxn
<1>5. \A i, j \in 1..n : posted[s][i].account = posted[s][j].account => i = j
  BY <1>1, <1>2 DEF SessionOK, InTxn, Distinct, WrittenOK
<1>6. ASSUME NEW i \in 1..n
      PROVE  /\ posted[s][i].account \in Accounts /\ posted[s][i].amount \in Int
             /\ posted[s][i].amount > 0 /\ accounts[posted[s][i].account].status = "ACTIVE"
  <2>1. posted[s][i] \in RowTypes /\ accounts[posted[s][i].account].status = "ACTIVE"
    BY <1>1, <1>2, CommittedRows
  <2>2. posted[s][i].amount = call[s].txn.entries[i].amount
    <3>1. LineOf(posted[s][i]) = LineOf(call[s].txn.entries[i])
      BY <1>1, <1>2 DEF DraftOK, RowFits
    <3> QED
      BY <3>1 DEF LineOf
  <2>3. call[s].txn.entries[i].amount > 0
    BY <1>2, <1>4 DEF WellFormed
  <2> QED
    BY <2>1, <2>2, <2>3, MoneyAssumption DEF RowTypes, Int64
<1>7. IsFiniteSet(Written(s))
  BY WrittenFinite
<1> QED
  BY <1>3, <1>4, <1>5, <1>6, <1>7 DEF Summable

(* The lines of a commit that the deferred trigger lets through are balanced.  *)
LEMMA CommitIsBalanced ==
  ASSUME IInv, TInv, NEW s \in Sessions, pc[s] = "commit", CommitError(s) = "nil"
  PROVE  Atomic!Balanced({LineOf(e) : e \in Written(s)})
<1>1. PICK W : W = Written(s)
  OBVIOUS
<1>2. /\ W # {} /\ Summable(W) /\ (\A e, f \in W : e.account = f.account => e = f)
      /\ \A e \in W : e.account \in Accounts /\ e.amount > 0
  BY <1>1, CommitWrites
<1>3. SideTotal(W, "DEBIT") = SideTotal(W, "CREDIT")
  BY <1>1 DEF CommitError, DirectionDebit, DirectionCredit
<1>4. PICK L : L = {LineOf(e) : e \in W}
  OBVIOUS
<1>5. Atomic!TotalOf(Atomic!SideOf(L, "DEBIT")) = Atomic!TotalOf(Atomic!SideOf(L, "CREDIT"))
  BY <1>2, <1>3, <1>4, LinesTotal
<1>6. \A e \in W : LineOf(e)[1] = e.account /\ LineOf(e)[3] = e.amount
  BY DEF LineOf
<1>7. /\ L # {} /\ (\A l, n \in L : l[1] = n[1] => l = n)
      /\ \A l \in L : l[1] \in Accounts /\ l[3] > 0
  BY <1>2, <1>4, <1>6
<1>8. Atomic!Balanced(L)
  BY <1>5, <1>7 DEF Atomic!Balanced
<1> QED
  BY <1>1, <1>4, <1>8

(* A commit moves each balance by its line, and leaves the status of the accounts.  *)
LEMMA CommitMoves ==
  ASSUME IInv, TInv, NEW s \in Sessions, pc[s] = "commit", Apply(s),
         NEW L, L = {LineOf(e) : e \in Written(s)}, NEW a \in Accounts
  PROVE  /\ accounts'[a].balance = accounts[a].balance + Atomic!Moved(L, a)
         /\ accounts'[a].status = accounts[a].status
<1>1. PICK W : W = Written(s)
  OBVIOUS
<1>2. /\ \A row \in W :
           /\ row.after = accounts[row.account].balance + Delta(row)
           /\ accounts'[row.account].balance = row.after
      /\ (\A row \in W : row.account # a) => accounts'[a] = accounts[a]
  BY <1>1, CommitRows
<1>3. \A e, f \in W : e.account = f.account => e = f
  BY <1>1, CommitWrites
<1>4. \A e \in W : LineOf(e)[1] = e.account /\ LineOf(e)[2] = e.direction /\ LineOf(e)[3] = e.amount
  BY DEF LineOf
<1>5. accounts'[a].status = accounts[a].status
  <2>1. accounts'[a] = Current(s, a)
    BY DEF Apply
  <2>2. Current(s, a).status = accounts[a].status
    BY DEF Current
  <2> QED
    BY <2>1, <2>2
<1>6. CASE \A row \in W : row.account # a
  <2>1. ~\E l \in L : l[1] = a
    BY <1>1, <1>4, <1>6
  <2>2. Atomic!Moved(L, a) = 0
    BY <2>1 DEF Atomic!Moved
  <2>3. accounts[a].balance \in Int
    BY MoneyAssumption DEF IInv, TypeOK, AccountRows, Int64
  <2> QED
    BY <1>2, <1>5, <1>6, <2>2, <2>3
<1>7. CASE \E row \in W : row.account = a
  <2>1. PICK row \in W : row.account = a
    BY <1>7
  <2>2. PICK m : m = LineOf(row)
    OBVIOUS
  <2>3. m \in L /\ m[1] = a /\ \A l \in L : l[1] = a => l = m
    BY <1>1, <1>3, <1>4, <2>1, <2>2
  <2>4. (CHOOSE l \in L : l[1] = a) = m
    BY <2>3
  <2>5. Atomic!Moved(L, a) = Atomic!Effect(m)
    BY <2>3, <2>4 DEF Atomic!Moved
  <2>6. Atomic!Effect(m) = Delta(row)
    BY <1>4, <2>1, <2>2, <2>3 DEF Atomic!Effect, Delta, BalanceDelta
  <2> QED
    BY <1>2, <1>5, <2>1, <2>5, <2>6
<1> QED
  BY <1>6, <1>7

(* The settlement of a claim, as AtomicLedger sees it.                     *)
LEMMA SettledOf ==
  ASSUME NEW k \in ClaimKeys
  PROVE  /\ Claimed(k) => SettledTable[k] = Settlement(idem[k].txn)
         /\ ~Claimed(k) => SettledTable[k] = [lines |-> {}, undoes |-> {}]
BY DEF SettledTable

(* A reversal that commits undoes a settlement that is none itself and that nobody has
   undone, line by line.                                                     *)
LEMMA CommitIsUndoable ==
  ASSUME IInv, TInv, NEW s \in Sessions, NEW x0, NEW rev, NEW key, Commits(s, x0, rev, key),
         rev # NoTxn,
         NEW new, new = [lines |-> {LineOf(e) : e \in Written(s)}, undoes |-> {ClaimOf(rev)}]
  PROVE  Atomic!Undoable(new)
<1>0. CommitEffect(s, x0, rev, key)
  BY CommitFacts
<1>1. rev \in TxnIds /\ transactions[rev].status = "POSTED" /\ Exists(rev)
  BY <1>0 DEF CommitEffect, Exists
<1>2. PICK c \in ClaimKeys : c = ClaimOf(rev) /\ Claimed(c) /\ idem[c].txn = rev
  BY <1>1, ClaimOfIs
<1>3. /\ transactions[rev].type # "REVERSAL"
      /\ {LineOf(e) : e \in Written(s)} = {MirrorOf(e) : e \in RowsOfTxn(rev)}
  <2>1. ReversalFits(call[s].txn) /\ call[s].txn.reverses = rev /\ pc[s] = "commit"
    BY DEF Commits, TInv, DraftsOK, DraftOK, InTxn
  <2>2. {LineOf(e) : e \in Written(s)} =
        {LineOf(call[s].txn.entries[i]) : i \in 1..Len(call[s].txn.entries)}
    BY <2>1, CommitLines
  <2> QED
    BY <2>1, <2>2 DEF ReversalFits
<1>4. transactions[rev].reverses = NoTxn
  BY <1>1, <1>3 DEF TInv, HeadersOK
<1>5. SettledTable[c] = [lines |-> LinesOf(rev), undoes |-> {}]
  <2>1. Settlement(rev) = [lines |-> LinesOf(rev), undoes |-> {}]
    BY <1>4 DEF Settlement
  <2> QED
    BY <1>2, <2>1, SettledOf
<1>6. LinesOf(rev) = {LineOf(e) : e \in RowsOfTxn(rev)} /\ LinesOf(rev) # {}
  <2>1. Written(s) # {}
    BY CommitWrites DEF Commits
  <2>2. RowsOfTxn(rev) # {}
    BY <1>3, <2>1
  <2> QED
    BY <2>2 DEF LinesOf, LineOf
<1>7. Atomic!Mirror(LinesOf(rev)) = {LineOf(e) : e \in Written(s)}
  <2>1. \A e : <<LineOf(e)[1], Atomic!Other(LineOf(e)[2]), LineOf(e)[3]>> = MirrorOf(e)
    BY DEF LineOf, MirrorOf, Atomic!Other, Opposite, DirectionDebit, DirectionCredit
  <2>2. Atomic!Mirror(LinesOf(rev)) = {MirrorOf(e) : e \in RowsOfTxn(rev)}
    BY <1>6, <2>1 DEF Atomic!Mirror
  <2> QED
    BY <1>3, <2>2
<1>8. ASSUME NEW d \in ClaimKeys PROVE c \notin SettledTable[d].undoes
  <2>1. CASE ~Claimed(d)
    BY <2>1, SettledOf
  <2>2. CASE Claimed(d)
    <3>1. PICK x \in TxnIds : x = idem[d].txn
      BY <2>2, ClaimedExists
    <3>2. SettledTable[d] = Settlement(x)
      BY <2>2, <3>1, SettledOf
    <3>3. CASE transactions[x].reverses = NoTxn
      BY <3>2, <3>3 DEF Settlement
    <3>4. CASE transactions[x].reverses # NoTxn
      <4>1. PICK y \in TxnIds : /\ y = transactions[x].reverses /\ Exists(y)
                                /\ transactions[y].status = "REVERSED"
        BY <3>4, OriginalExists
      <4>2. idem[ClaimOf(y)].txn = y
        BY <4>1, ClaimOfIs
      <4>3. ClaimOf(y) # c
        BY <1>1, <1>2, <4>1, <4>2
      <4>4. SettledTable[d].undoes = {ClaimOf(y)}
        BY <3>2, <3>4, <4>1 DEF Settlement
      <4> QED
        BY <4>3, <4>4
    <3> QED
      BY <3>3, <3>4
  <2> QED
    BY <2>1, <2>2
<1>9. new.undoes = {c} /\ new.lines = Atomic!Mirror(SettledTable[c].lines)
  BY <1>2, <1>5, <1>7
<1>10. SettledTable[c] # [lines |-> {}, undoes |-> {}] /\ SettledTable[c].undoes = {}
  BY <1>5, <1>6
<1> QED
  BY <1>8, <1>9, <1>10 DEF Atomic!Undoable, Atomic!Settled, Atomic!NoSettlement, SettledTable

(* COMMIT is the settlement of its claim.                                  *)
LEMMA CommitIsSettle ==
  ASSUME IInv, TInv, IInv', TInv', NEW s \in Sessions, pc[s] = "commit", Apply(s),
         CommitError(s) = "nil"
  PROVE  \E c \in ClaimKeys : Atomic!Settle(c)
<1>1. PICK x0, rev, key : Commits(s, x0, rev, key)
  BY DEF Commits
<1>2. CommitEffect(s, x0, rev, key)
  BY <1>1, CommitFacts
<1>3. x0 \in TxnIds /\ ~Exists(x0) /\ key \in ClaimKeys /\ ~Claimed(key)
      /\ \A k \in ClaimKeys \ {key} : idem'[k] = idem[k]
  BY <1>2 DEF CommitEffect
<1>4. PICK L : L = {LineOf(e) : e \in Written(s)}
  OBVIOUS
<1>5. PICK new : new = Settlement(x0)'
  OBVIOUS
<1>6. /\ Claimed(key)' /\ idem'[key].txn = x0
      /\ \A k \in ClaimKeys : Claimed(k)' <=> (Claimed(k) \/ k = key)
      /\ rev = NoTxn => new = [lines |-> L, undoes |-> {}]
      /\ rev # NoTxn => new = [lines |-> L, undoes |-> {ClaimOf(rev)}]
  BY <1>1, <1>4, <1>5, NewSettlement
<1>7. new.lines = L
  BY <1>6
<1>8. SettledTable'[key] = new
  <2>1. Settlement(idem[key].txn)' = Settlement(x0)'
    BY <1>6 DEF Settlement, LinesOf, RowsOfTxn, ClaimOf, Claimed
  <2> QED
    BY <1>3, <1>5, <1>6, <2>1 DEF SettledTable
<1>9. \A k \in ClaimKeys \ {key} : SettledTable'[k] = SettledTable[k]
  <2> TAKE k \in ClaimKeys \ {key}
  <2>1. CASE ~Claimed(k)
    BY <1>6, <2>1 DEF SettledTable
  <2>2. CASE Claimed(k)
    <3>1. PICK x \in TxnIds : x = idem[k].txn /\ Exists(x)
      BY <2>2, ClaimedExists
    <3>2. Settlement(x)' = Settlement(x) /\ idem'[k].txn = x
      BY <1>1, <1>3, <3>1, OldSettlementsStay
    <3>3. Settlement(idem[k].txn)' = Settlement(x)'
      BY <3>2 DEF Settlement, LinesOf, RowsOfTxn, ClaimOf, Claimed
    <3> QED
      BY <1>6, <2>2, <3>1, <3>2, <3>3 DEF SettledTable
  <2> QED
    BY <2>1, <2>2
<1>10. SettledTable' = [SettledTable EXCEPT ![key] = SettledTable'[key]]
  BY <1>9 DEF SettledTable
<1>11. ~Atomic!Settled(key)
  BY <1>3 DEF Atomic!Settled, Atomic!NoSettlement
<1>12. Atomic!Balanced(L)
  BY <1>4, CommitIsBalanced
<1>13. Atomic!Undoable(new)
  <2>1. CASE rev = NoTxn
    BY <1>6, <2>1 DEF Atomic!Undoable
  <2>2. CASE rev # NoTxn
    BY <1>1, <1>4, <1>6, <2>2, CommitIsUndoable
  <2> QED
    BY <2>1, <2>2
<1>14. {l[1] : l \in L} \subseteq {a \in Accounts : accounts[a].status = "ACTIVE"}
  <2>1. \A e \in Written(s) : e.account \in Accounts /\ accounts[e.account].status = "ACTIVE"
    BY CommitWrites
  <2>2. \A e \in Written(s) : LineOf(e)[1] = e.account
    BY DEF LineOf
  <2> QED
    BY <1>4, <2>1, <2>2
<1>15. \A a \in Accounts : /\ accounts'[a].balance = accounts[a].balance + Atomic!Moved(L, a)
                            /\ accounts'[a].status = accounts[a].status
  BY <1>4, CommitMoves
<1>16. [a \in Accounts |-> accounts'[a].balance] =
       [a \in Accounts |-> [b \in Accounts |-> accounts[b].balance][a] + Atomic!Moved(L, a)]
  BY <1>15
<1>17. \A a \in {b \in Accounts : IsWallet(b)} : [b \in Accounts |-> accounts'[b].balance][a] >= 0
  BY DEF IInv, WalletNonNegative, IsWallet
<1>18. {a \in Accounts : accounts'[a].status = "ACTIVE"} = {a \in Accounts : accounts[a].status = "ACTIVE"}
  BY <1>15
<1> DEFINE Announced == {k \in ClaimKeys : Claimed(k) /\ \E ev \in outbox : ev.aggregate = idem[k].txn}
<1>19. Announced' = Announced \union {key}
  <2>1. PICK event : event.aggregate = x0 /\ outbox' = outbox \union {event}
    <3>1. PICK event : event = [aggregate |-> tid[s], payload |-> Stored(s)]
      OBVIOUS
    <3>2. event.aggregate = x0 /\ outbox' = outbox \union {event}
      BY <1>1, <3>1 DEF Commits, Apply, OutboxAfter
    <3> QED
      BY <3>2
  <2>2. \A k \in ClaimKeys : Claimed(k) => idem[k].txn # x0
    BY <1>3, ClaimedExists
  <2>3. ASSUME NEW k \in ClaimKeys \ {key} PROVE k \in Announced' <=> k \in Announced
    BY <1>3, <1>6, <2>1, <2>2
  <2>4. key \in Announced'
    BY <1>3, <1>6, <2>1
  <2> QED
    BY <1>3, <2>3, <2>4
<1> HIDE DEF Announced
<1>20. Atomic!Settle(key)
  BY <1>3, <1>7, <1>8, <1>10, <1>11, <1>12, <1>13, <1>14, <1>16, <1>17, <1>18, <1>19
     DEF Atomic!Settle, SettledTable, Announced
<1> QED
  BY <1>3, <1>20

----------------------------------------------------------------------------

(* Post implements the atomic ledger: whatever sessions do between its statements, what
   the tables show is that its claim is settled in one step, or nothing (ledger_repo.go
   Post).                                                                    *)
THEOREM PostImplementsAtomic == Spec => PostIsAtomic
<1>1. Init => Atomic!Init
  <2> SUFFICES ASSUME Init PROVE Atomic!Init
    OBVIOUS
  <2>1. \A k \in ClaimKeys : ~Claimed(k)
    <3>1. NoClaim.code = 0
      BY DEF NoClaim
    <3> QED
      BY <3>1 DEF Init, Claimed
  <2>2. \A a \in Accounts : accounts[a].balance = 0 /\ accounts[a].status = "ACTIVE"
    BY DEF Init
  <2> QED
    BY <2>1, <2>2 DEF Atomic!Init, Atomic!NoSettlement
<1>2. ASSUME IInv, TInv, IInv', TInv', [Next]_vars PROVE [Atomic!Next]_(Atomic!avars)
  <2>1. CASE NothingCommitted
    BY <1>2, <2>1, QuietIsAtomic DEF Atomic!Next
  <2>2. CASE \E s \in Sessions : pc[s] = "commit" /\ Apply(s) /\ CommitError(s) = "nil"
    BY <1>2, <2>2, CommitIsSettle DEF Atomic!Next
  <2> QED
    BY <1>2, <2>1, <2>2, WritesAreCommits
<1> QED
  BY <1>1, <1>2, TablesInvariance, PTL DEF Spec, PostIsAtomic, Atomic!Spec
----------------------------------------------------------------------------
(* The deferred trigger.                                                   *)

\* A session writes the lines of a transaction that has passed Validate.
AllValid == \A s \in Sessions : pc[s] \in InTxn => Validate(call[s].txn) = "nil"

(* Post validates first (ledger_repo.go Post).                             *)
LEMMA PostValid ==
  ASSUME IInv, AllValid, NEW s \in Sessions, NEW t, NEW k, NEW h, Post(s, t, k, h)
  PROVE  AllValid'
<1>1. /\ call' = [call EXCEPT ![s] = [txn |-> t, key |-> k, hash |-> h]]
      /\ \/ pc' = [pc EXCEPT ![s] = "claim"] /\ Validate(t) = "nil"
         \/ pc' = [pc EXCEPT ![s] = "return"]
  BY DEF Post, Goto
<1>2. /\ call'[s].txn = t /\ (pc'[s] \in InTxn => Validate(t) = "nil")
      /\ \A r \in Sessions \ {s} : pc'[r] = pc[r] /\ call'[r] = call[r]
  BY <1>1 DEF IInv, TypeOK, InTxn
<1> QED
  BY <1>2 DEF AllValid

(* No other statement touches the arguments before the call is over.       *)
LEMMA NextValid ==
  ASSUME IInv, AllValid, [Next]_vars
  PROVE  AllValid'
<1>1. ASSUME NEW s \in Sessions, UNCHANGED call, pc[s] \in InTxn,
             \A r \in Sessions \ {s} : pc'[r] = pc[r]
      PROVE  AllValid'
  BY <1>1 DEF AllValid
<1>2. ASSUME NEW s \in Sessions, NEW err, Rollback(s, err), pc[s] \in InTxn PROVE AllValid'
  <2>1. UNCHANGED call /\ \A r \in Sessions \ {s} : pc'[r] = pc[r]
    BY <1>2 DEF Rollback, Return, IInv, TypeOK
  <2> QED
    BY <1>1, <1>2, <2>1
<1>3. ASSUME NEW s \in Sessions, NEW l, Goto(s, l), UNCHANGED call, pc[s] \in InTxn PROVE AllValid'
  <2>1. \A r \in Sessions \ {s} : pc'[r] = pc[r]
    BY <1>3 DEF Goto, IInv, TypeOK
  <2> QED
    BY <1>1, <1>3, <2>1
<1>4. ASSUME NEW s \in Sessions, Claim(s) \/ CheckLocked(s) \/ Mark(s) \/ InsertHeader(s)
                                 \/ SaveResult(s) \/ Abort(s)
      PROVE  AllValid'
  <2>1. pc[s] \in InTxn
    BY <1>4 DEF Claim, CheckLocked, Mark, InsertHeader, SaveResult, Abort, InTxn
  <2>2. (\E err : Rollback(s, err)) \/ (\E l : Goto(s, l) /\ UNCHANGED call)
    BY <1>4 DEF Claim, CheckLocked, Mark, InsertHeader, SaveResult, Abort
  <2> QED
    BY <1>2, <1>3, <2>1, <2>2
<1>5. ASSUME NEW s \in Sessions, LockRow(s) PROVE AllValid'
  BY <1>5 DEF LockRow, AllValid
<1>6. ASSUME NEW s \in Sessions, PostEntry(s) PROVE AllValid'
  <2>1. pc[s] \in InTxn
    BY <1>6 DEF PostEntry, InTxn
  <2>2. (\E err : Rollback(s, err)) \/ UNCHANGED <<pc, call>>
    BY <1>6 DEF PostEntry
  <2> QED
    BY <1>2, <2>1, <2>2 DEF AllValid
<1>7. ASSUME NEW s \in Sessions, Commit(s) \/ CommitLost(s) PROVE AllValid'
  <2>1. pc[s] \in InTxn
    BY <1>7 DEF Commit, CommitLost, InTxn
  <2>2. (\E err : Rollback(s, err)) \/ (\E err : Return(s, err) /\ UNCHANGED call)
    BY <1>7 DEF Commit, CommitLost
  <2>3. ASSUME NEW err, Return(s, err), UNCHANGED call PROVE AllValid'
    <3>1. \A r \in Sessions \ {s} : pc'[r] = pc[r]
      BY <2>3 DEF Return, IInv, TypeOK
    <3> QED
      BY <1>1, <2>1, <2>3, <3>1
  <2> QED
    BY <1>2, <2>1, <2>2, <2>3
<1>8. ASSUME NEW s \in Sessions, Release(s) PROVE AllValid'
  <2>1. /\ pc'[s] = "idle"
        /\ \A r \in Sessions \ {s} : pc'[r] = pc[r] /\ call'[r] = call[r]
    BY <1>8 DEF Release, Goto, IInv, TypeOK
  <2> QED
    BY <2>1 DEF AllValid, InTxn
<1>9. CASE UNCHANGED session
  BY <1>9 DEF session, AllValid
<1>10. ASSUME NEW a, SetStatus(a) PROVE UNCHANGED session
  BY <1>10 DEF SetStatus
<1>11. UNCHANGED vars => UNCHANGED session
  BY DEF vars
<1> QED
  BY <1>4, <1>5, <1>6, <1>7, <1>8, <1>9, <1>10, <1>11, PostValid DEF Next, Step

(* What the trigger adds up is what Validate has added up: the rows are the lines, each
   once (ledger_repo.go Post step 5).                                        *)
LEMMA WrittenTotals ==
  ASSUME IInv, TInv, NEW s \in Sessions, pc[s] = "commit", NEW d
  PROVE  LET t == call[s].txn
         IN  SideTotal(Written(s), d) = Total(AmountsOf(t), UpTo(t, d, Len(t.entries)))
<1>1. PICK t \in Transactions : t = call[s].txn
  BY DEF IInv, TypeOK, SessionOK, InTxn, Calls
<1>2. PICK n \in Nat : n = Len(t.entries) /\ n = Len(posted[s])
  <2>1. Len(posted[s]) = Len(t.entries)
    BY <1>1 DEF TInv, DraftsOK, DraftOK
  <2> QED
    BY <1>1, <2>1 DEF Transactions
<1>3. /\ Summable(Written(s)) /\ Written(s) = {posted[s][i] : i \in 1..n}
      /\ \A e, f \in Written(s) : e.account = f.account => e = f
  BY <1>2, CommitWrites DEF Written
<1>4. ASSUME NEW i \in 1..n
      PROVE  /\ posted[s][i].account = t.entries[i].account
             /\ posted[s][i].direction = t.entries[i].direction
             /\ posted[s][i].amount = t.entries[i].amount
  <2>1. LineOf(posted[s][i]) = LineOf(t.entries[i])
    BY <1>1, <1>2 DEF TInv, DraftsOK, DraftOK, RowFits, Writing
  <2> QED
    BY <2>1 DEF LineOf
<1>5. \A i, j \in 1..n : posted[s][i] = posted[s][j] => i = j
  <2>1. Distinct(t)
    BY <1>1 DEF IInv, SessionOK, InTxn
  <2> QED
    BY <1>2, <1>4, <2>1 DEF Distinct
<1> DEFINE Y == {e \in Written(s) : e.direction = d}
           F == [e \in Written(s) |-> e.amount]
           h == [i \in 1..n |-> posted[s][i]]
           U == UpTo(t, d, n)
           A == AmountsOf(t)
<1>6. IsFiniteSet(Y) /\ (\A e \in Y : e.amount \in Int) /\ \A e \in Y : F[e] = e.amount
  BY <1>3, FS_Subset DEF Summable
<1>7. SideTotal(Written(s), d) = Total(F, Y)
  <2>1. PICK Z : Z = Y
    OBVIOUS
  <2>2. IsFiniteSet(Z) /\ (\A e \in Z : e.amount \in Int) /\ \A e \in Z : F[e] = e.amount
    BY <1>6, <2>1
  <2> HIDE DEF F
  <2>3. MapThenSumSet(LAMBDA e : e.amount, Z) = Total(F, Z)
    BY <2>2, AmountTotal
  <2> QED
    BY <2>1, <2>3 DEF SideTotal
<1>8. IsFiniteSet(U) /\ U \subseteq 1..n
  <2>1. U \in SUBSET (1..n) /\ IsFiniteSet(1..n)
    BY FS_Interval DEF UpTo
  <2> QED
    BY <2>1, FS_Subset
<1>9. Y = {h[i] : i \in U}
  BY <1>3, <1>4 DEF UpTo
<1>10. \A i \in 1..n : h[i] \in Written(s) /\ A[i] = h[i].amount /\ F[h[i]] = A[i] /\ A[i] \in Int
  <2>1. ASSUME NEW i \in 1..n PROVE h[i] \in Written(s) /\ h[i].amount \in Int /\ A[i] = h[i].amount
    BY <1>2, <1>3, <1>4 DEF AmountsOf, Summable
  <2> QED
    BY <2>1
<1>11. \A i, j \in 1..n : h[i] = h[j] => i = j
  BY <1>5
<1> HIDE DEF Y, F, h, U, A
<1>12. Total(F, {h[i] : i \in U}) = Total(A, U)
  <2>1. PICK V, g, B, G : V = U /\ g = h /\ B = A /\ G = F
    OBVIOUS
  <2>2. /\ IsFiniteSet(V)
        /\ \A i \in V : B[i] \in Int /\ G[g[i]] = B[i]
        /\ \A i, j \in V : g[i] = g[j] => i = j
    BY <1>8, <1>10, <1>11, <2>1
  <2>3. Total(G, {g[i] : i \in V}) = Total(B, V)
    BY <2>2, TotalImage
  <2> QED
    BY <2>1, <2>3
<1> QED
  BY <1>1, <1>2, <1>7, <1>9, <1>12 DEF U, A

(* A session that has validated meets no trigger.                          *)
LEMMA ValidCommits ==
  ASSUME IInv, TInv, AllValid, NEW s \in Sessions, pc[s] = "commit"
  PROVE  CommitError(s) = "nil"
<1>1. PICK t \in Transactions : t = call[s].txn
  BY DEF IInv, TypeOK, SessionOK, InTxn, Calls
<1>2. PICK n \in Nat : n = Len(t.entries)
  BY DEF Transactions
<1>3. Validate(t) = "nil"
  BY <1>1 DEF AllValid, InTxn
<1>4. Total(AmountsOf(t), UpTo(t, DirectionDebit, n)) = Total(AmountsOf(t), UpTo(t, DirectionCredit, n))
  BY <1>2, <1>3, ValidIsBalanced
<1>5. \A d : SideTotal(Written(s), d) = Total(AmountsOf(t), UpTo(t, d, n))
  BY <1>1, <1>2, WrittenTotals
<1> QED
  BY <1>4, <1>5 DEF CommitError

(* What the row locks and Validate have seen to is all there is to see to: the version
   check, the unique index and the deferred trigger, second lines of defence, stop
   nothing, for any width of the integer and any transaction callers post (ledger_repo.go
   Post step 5, domain/transaction.go Validate, migrations 000004 and 000005).  *)
THEOREM BackstopsAreIdle == Spec => []BackstopsNeverFire
<1>1. Init => AllValid
  BY DEF Init, AllValid, InTxn
<1>2. (IInv /\ TInv /\ RowIdsOK) /\ AllValid /\ [Next]_vars => AllValid'
  BY NextValid
<1>3. IInv /\ TInv /\ AllValid => BackstopsNeverFire
  <2> SUFFICES ASSUME IInv, TInv, AllValid PROVE BackstopsNeverFire
    OBVIOUS
  <2>1. NoOptimisticConflict
    BY DEF IInv
  <2>2. NoDuplicateEntry
    BY EntryIsFresh DEF NoDuplicateEntry
  <2>3. TriggerNeverFires
    BY ValidCommits DEF TriggerNeverFires
  <2> QED
    BY <2>1, <2>2, <2>3 DEF BackstopsNeverFire
<1> QED
  BY <1>1, <1>2, <1>3, TablesInvariance, PTL DEF Spec
----------------------------------------------------------------------------
(* What Validate accepts, in exact arithmetic.                             *)

(* Sets of places of n entries.                                            *)
LEMMA PlacesAreFinite ==
  ASSUME NEW n \in Nat
  PROVE  /\ IsFiniteSet(1..n) /\ Cardinality(1..n) = n
         /\ \A U \in SUBSET (1..n) : IsFiniteSet(U)
<1>1. IsFiniteSet(1..n) /\ Cardinality(1..n) = IF 1 > n THEN 0 ELSE n - 1 + 1
  <2>1. 1 \in Int /\ n \in Int
    OBVIOUS
  <2> QED
    BY <2>1, FS_Interval
<1>2. Cardinality(1..n) = n
  BY <1>1
<1>3. \A U \in SUBSET (1..n) : IsFiniteSet(U)
  BY <1>1, FS_Subset
<1> QED
  BY <1>1, <1>2, <1>3

(* The places up to i on a side, and one more.                             *)
LEMMA UpToGrows ==
  ASSUME NEW t, NEW d, NEW n \in Nat, n = Len(t.entries),
         \A j \in 1..n : t.entries[j].amount \in Int, NEW i \in 1..n, t.entries[i].direction = d
  PROVE  Total(AmountsOf(t), UpTo(t, d, i)) =
           t.entries[i].amount + Total(AmountsOf(t), UpTo(t, d, i - 1))
<1>1. PICK U, F : U = UpTo(t, d, i - 1) /\ F = AmountsOf(t)
  OBVIOUS
<1>2. UpTo(t, d, i) = U \union {i} /\ i \notin U
  BY <1>1 DEF UpTo
<1>3. U \subseteq 1..n
  BY <1>1 DEF UpTo
<1>4. IsFiniteSet(U)
  BY <1>3, PlacesAreFinite
<1>5. F[i] = t.entries[i].amount /\ \A y \in U \union {i} : F[y] \in Int
  BY <1>1, <1>3 DEF AmountsOf
<1>6. Total(F, U \union {i}) = F[i] + Total(F, U)
  BY <1>2, <1>4, <1>5, TotalAdd
<1> QED
  BY <1>1, <1>2, <1>5, <1>6

(* The total of a side under its name here.                                *)
LEMMA SideAmountIs ==
  ASSUME NEW x, NEW d, NEW F, NEW S, S = {i \in DOMAIN x.entries : x.entries[i].direction = d},
         IsFiniteSet(S), \A i \in S : F[i] = x.entries[i].amount /\ F[i] \in Int
  PROVE  SideAmount(x, d) = Total(F, S)
<1> DEFINE A(iter) == [s \in SUBSET S |->
                         IF s = {} THEN 0 ELSE x.entries[Pick(s)].amount + iter[s \ {Pick(s)}]]
           B(iter) == [s \in SUBSET S |->
                         IF s = {} THEN 0 ELSE F[Pick(s)] + iter[s \ {Pick(s)}]]
           c == CHOOSE iter : iter = A(iter)
<1>1. SideAmount(x, d) = c[S]
  BY DEF SideAmount, MapThenSumSet, MapThenFoldSet, Pick
<1>2. \A iter : A(iter) = B(iter)
  <2> TAKE iter
  <2>1. \A s \in SUBSET S : s # {} => x.entries[Pick(s)].amount = F[Pick(s)]
    BY PickOne
  <2> QED
    BY <2>1
<1>3. PICK g : g = B(g)
  <2>1. PICK g : SumsUp(F, S, g)
    BY SumExists
  <2> QED
    BY <2>1 DEF SumsUp
<1>4. c = A(c)
  <2> HIDE DEF A, B
  <2>1. g = A(g)
    BY <1>2, <1>3
  <2> QED
    BY <2>1
<1>5. SumsUp(F, S, c)
  <2> HIDE DEF c
  <2> QED
    BY <1>2, <1>4 DEF SumsUp
<1>6. Total(F, S) = c[S]
  <2> HIDE DEF c
  <2> QED
    BY <1>5, TotalIs
<1> QED
  BY <1>1, <1>6

(* As many accounts as entries: each entry has its own.                    *)
LEMMA AccountsAreDistinct ==
  ASSUME NEW t, NEW n \in Nat, n = Len(t.entries)
  PROVE  Cardinality(AccountIDs(t)) = n <=> Distinct(t)
<1>1. PICK f : f = [i \in 1..n |-> t.entries[i].account]
  OBVIOUS
<1>2. f \in Surjection(1..n, AccountIDs(t))
  BY <1>1 DEF Surjection, AccountIDs
<1>3. IsFiniteSet(1..n) /\ Cardinality(1..n) = n
  BY PlacesAreFinite
<1>4. Cardinality(AccountIDs(t)) = n <=> f \in Injection(1..n, AccountIDs(t))
  BY <1>2, <1>3, FS_Surjection
<1>5. f \in Injection(1..n, AccountIDs(t)) <=> \A i, j \in 1..n : f[i] = f[j] => i = j
  <2>1. f \in [1..n -> AccountIDs(t)] /\ DOMAIN f = 1..n
    BY <1>1, <1>2 DEF Surjection
  <2> QED
    BY <2>1 DEF Injection, IsInjective
<1>6. Distinct(t) <=> \A i, j \in 1..n : f[i] = f[j] => i = j
  BY <1>1 DEF Distinct
<1> QED
  BY <1>4, <1>5, <1>6

(* Validate finds each account at most once.                               *)
LEMMA NoneIsSeen ==
  ASSUME NEW t, NEW n \in Nat, n = Len(t.entries)
  PROVE  Distinct(t) <=> \A i \in 1..n : ~Seen(t, i)
<1>1. ASSUME Distinct(t), NEW i \in 1..n, Seen(t, i) PROVE FALSE
  <2>1. PICK j \in 1..(i - 1) : t.entries[j].account = t.entries[i].account
    BY <1>1 DEF Seen
  <2>2. j \in 1..n /\ j # i
    OBVIOUS
  <2> QED
    BY <1>1, <2>1, <2>2 DEF Distinct
<1>2. ASSUME \A i \in 1..n : ~Seen(t, i) PROVE Distinct(t)
  <2> SUFFICES ASSUME NEW i \in 1..n, NEW j \in 1..n, t.entries[i].account = t.entries[j].account
               PROVE  i = j
    BY DEF Distinct
  <2>1. ~(i < j)
    BY <1>2 DEF Seen
  <2>2. ~(j < i)
    BY <1>2 DEF Seen
  <2> QED
    BY <2>1, <2>2
<1> QED
  BY <1>1, <1>2

(* Validate accepts what is well formed and nothing else, for any number of entries and
   amounts (domain/transaction.go Validate).                                 *)
LEMMA ValidIsExact ==
  ASSUME NEW x, NEW n \in Nat, n = Len(x.entries), DOMAIN x.entries = 1..n,
         \A i \in 1..n : x.entries[i].amount \in Int64
  PROVE  Validate(x) = "nil" <=> IsWellFormed(x)
<1>1. Int64 \subseteq Int /\ \A i \in 1..n : x.entries[i].amount \in Int
  BY MoneyAssumption DEF Int64
<1>2. PICK A : A = AmountsOf(x)
  OBVIOUS
<1>3. \A i \in 1..n : A[i] = x.entries[i].amount /\ A[i] \in Int
  BY <1>1, <1>2 DEF AmountsOf
<1>4. ASSUME NEW d, NEW i \in 0..n
      PROVE  IsFiniteSet(UpTo(x, d, i)) /\ UpTo(x, d, i) \subseteq UpTo(x, d, n) /\ UpTo(x, d, i) \subseteq 1..n
  <2>1. UpTo(x, d, i) \subseteq UpTo(x, d, n) /\ UpTo(x, d, i) \subseteq 1..n
    BY DEF UpTo
  <2> QED
    BY <2>1, PlacesAreFinite
<1>5. ASSUME NEW d PROVE SideAmount(x, d) = Total(A, UpTo(x, d, n))
  <2>1. PICK S : S = UpTo(x, d, n)
    OBVIOUS
  <2>2. S = {i \in DOMAIN x.entries : x.entries[i].direction = d}
    BY <2>1 DEF UpTo
  <2>3. IsFiniteSet(S) /\ S \subseteq 1..n
    BY <1>4, <2>1
  <2>4. \A i \in S : A[i] = x.entries[i].amount /\ A[i] \in Int
    BY <1>3, <2>3
  <2>5. SideAmount(x, d) = Total(A, S)
    BY <2>2, <2>3, <2>4, SideAmountIs
  <2> QED
    BY <2>1, <2>5
<1>6. Cardinality(AccountIDs(x)) = Len(x.entries) <=> \A i \in 1..n : ~Seen(x, i)
  BY AccountsAreDistinct, NoneIsSeen
<1>7. ASSUME Validate(x) = "nil" PROVE IsWellFormed(x)
  <2>1. /\ n >= 2 /\ ~x.longDesc
        /\ \A i \in 1..n : EntryFault(x, i) = "nil"
        /\ RunningTotal(x, DirectionDebit)[n] = RunningTotal(x, DirectionCredit)[n]
        /\ x.type = "REVERSAL" <=> x.reverses # NoTxn
    BY <1>7, ValidateIsNil
  <2>2. \A i \in 1..n :
          /\ x.entries[i].amount > 0 /\ ~Seen(x, i) /\ x.entries[i].direction \in Directions
          /\ Add(RunningTotal(x, x.entries[i].direction)[i - 1], x.entries[i].amount).err = "nil"
    BY <1>1, <2>1 DEF EntryFault
  <2>3. ASSUME NEW d
        PROVE  RunningTotal(x, d)[n] = Total(A, UpTo(x, d, n)) /\ RunningTotal(x, d)[n] \in Int64
    <3>1. \A i \in 1..n : x.entries[i].direction = d =>
            Add(RunningTotal(x, d)[i - 1], x.entries[i].amount).err = "nil"
      BY <2>2
    <3>2. \A i \in 0..n : /\ RunningTotal(x, d)[i] = Total(AmountsOf(x), UpTo(x, d, i))
                          /\ RunningTotal(x, d)[i] \in Int64
      BY <3>1, RunningTotalIsExact
    <3> QED
      BY <1>2, <3>2
  <2>4. /\ SideAmount(x, DirectionDebit) = SideAmount(x, DirectionCredit)
        /\ SideAmount(x, DirectionDebit) \in Int64
    BY <1>5, <2>1, <2>3
  <2> QED
    BY <1>6, <2>1, <2>2, <2>4 DEF IsWellFormed
<1>8. ASSUME IsWellFormed(x) PROVE Validate(x) = "nil"
  <2>1. /\ n >= 2 /\ ~x.longDesc
        /\ \A i \in 1..n : x.entries[i].amount > 0 /\ x.entries[i].direction \in Directions
        /\ \A i \in 1..n : ~Seen(x, i)
        /\ SideAmount(x, DirectionDebit) = SideAmount(x, DirectionCredit)
        /\ SideAmount(x, DirectionDebit) \in Int64
        /\ x.type = "REVERSAL" <=> x.reverses # NoTxn
    BY <1>6, <1>8 DEF IsWellFormed
  <2>2. \A i \in 1..n : A[i] \in Nat
    BY <1>3, <2>1
  <2>3. ASSUME NEW d \in Directions, NEW i \in 0..n
        PROVE  Total(A, UpTo(x, d, i)) \in Int64
    <3>1. PICK T, S : T = UpTo(x, d, n) /\ S = UpTo(x, d, i)
      OBVIOUS
    <3>2. IsFiniteSet(T) /\ T \subseteq 1..n /\ IsFiniteSet(S) /\ S \in SUBSET T
      BY <1>4, <3>1
    <3>3. \A y \in T : A[y] \in Nat
      BY <2>2, <3>2
    <3>4. Total(A, S) <= Total(A, T)
      BY <3>2, <3>3, TotalGrows
    <3>5. Total(A, S) \in Nat
      BY <3>2, <3>3, TotalNat
    <3>6. Total(A, T) \in Int64
      BY <1>5, <2>1, <3>1 DEF Directions
    <3> QED
      BY <3>1, <3>4, <3>5, <3>6, MoneyAssumption DEF Int64
  <2>4. ASSUME NEW d \in Directions
        PROVE  \A i \in 0..n : /\ RunningTotal(x, d)[i] = Total(A, UpTo(x, d, i))
                               /\ RunningTotal(x, d)[i] \in Int64
    <3>1. \A i \in 1..n : Total(AmountsOf(x), UpTo(x, d, i)) \in Int64
      BY <1>2, <2>3
    <3>2. \A i \in 0..n : /\ RunningTotal(x, d)[i] = Total(AmountsOf(x), UpTo(x, d, i))
                          /\ RunningTotal(x, d)[i] \in Int64
      BY <3>1, RunningTotalIsExact
    <3> QED
      BY <1>2, <3>2
  <2>5. ASSUME NEW i \in 1..n PROVE EntryFault(x, i) = "nil"
    <3>1. PICK d \in Directions : d = x.entries[i].direction
      BY <2>1
    <3>2. PICK m \in Int64 : m = x.entries[i].amount
      OBVIOUS
    <3>3. PICK r \in Int64 : r = RunningTotal(x, d)[i - 1]
      BY <2>4
    <3>4. Total(A, UpTo(x, d, i)) = m + r
      <4>1. Total(AmountsOf(x), UpTo(x, d, i)) =
              x.entries[i].amount + Total(AmountsOf(x), UpTo(x, d, i - 1))
        BY <1>1, <3>1, UpToGrows
      <4>2. r = Total(A, UpTo(x, d, i - 1))
        BY <2>4, <3>3
      <4> QED
        BY <1>2, <3>2, <4>1, <4>2
    <3>5. r + m \in Int64
      <4>1. Total(A, UpTo(x, d, i)) \in Int64
        BY <2>3
      <4>2. m \in Int /\ r \in Int
        BY DEF Int64
      <4>3. r + m = m + r
        BY <4>2
      <4> QED
        BY <3>4, <4>1, <4>3
    <3>6. Add(r, m).err = "nil"
      BY <3>5, AddIsNil
    <3>7. ~(m <= 0)
      BY <1>1, <2>1, <3>2
    <3> QED
      BY <2>1, <3>1, <3>2, <3>3, <3>6, <3>7 DEF EntryFault
  <2>6. RunningTotal(x, DirectionDebit)[n] = RunningTotal(x, DirectionCredit)[n]
    BY <1>5, <2>1, <2>4 DEF Directions
  <2> QED
    BY <2>1, <2>5, <2>6, ValidateIsNil
<1> QED
  BY <1>7, <1>8

(* The effect on a side of the accounting equation, summed by place.       *)
LEMMA EffectIs ==
  ASSUME NEW x, NEW assets, NEW F, NEW S,
         S = {i \in DOMAIN x.entries :
                (TypeOfAccount[x.entries[i].account] = "SYSTEM_CASH") = assets},
         IsFiniteSet(S),
         \A i \in S : F[i] = BalanceDelta(x.entries[i], NormalOf(x.entries[i])) /\ F[i] \in Int
  PROVE  Effect(x, assets) = Total(F, S)
<1> DEFINE A(iter) == [s \in SUBSET S |->
                         IF s = {} THEN 0
                         ELSE BalanceDelta(x.entries[Pick(s)], NormalOf(x.entries[Pick(s)]))
                                + iter[s \ {Pick(s)}]]
           B(iter) == [s \in SUBSET S |->
                         IF s = {} THEN 0 ELSE F[Pick(s)] + iter[s \ {Pick(s)}]]
           c == CHOOSE iter : iter = A(iter)
<1>1. Effect(x, assets) = c[S]
  BY DEF Effect, MapThenSumSet, MapThenFoldSet, Pick
<1>2. \A iter : A(iter) = B(iter)
  <2> TAKE iter
  <2>1. \A s \in SUBSET S :
          s # {} => BalanceDelta(x.entries[Pick(s)], NormalOf(x.entries[Pick(s)])) = F[Pick(s)]
    BY PickOne
  <2> QED
    BY <2>1
<1>3. PICK g : g = B(g)
  <2>1. PICK g : SumsUp(F, S, g)
    BY SumExists
  <2> QED
    BY <2>1 DEF SumsUp
<1>4. c = A(c)
  <2> HIDE DEF A, B
  <2>1. g = A(g)
    BY <1>2, <1>3
  <2> QED
    BY <2>1
<1>5. SumsUp(F, S, c)
  <2> HIDE DEF c
  <2> QED
    BY <1>2, <1>4 DEF SumsUp
<1>6. Total(F, S) = c[S]
  <2> HIDE DEF c
  <2> QED
    BY <1>5, TotalIs
<1> QED
  BY <1>1, <1>6

(* Debits less credits are zero in all, so what the assets gain of them the other
   accounts lose: an asset counts them as they are, the others the other way.   *)
LEMMA EquationHolds ==
  ASSUME NEW x, NEW n \in Nat, n = Len(x.entries), DOMAIN x.entries = 1..n,
         \A i \in 1..n : x.entries[i].amount \in Int, IsWellFormed(x)
  PROVE  Effect(x, TRUE) = Effect(x, FALSE)
<1>1. PICK A : A = [i \in 1..n |-> x.entries[i].amount]
  OBVIOUS
<1>2. PICK G : G = [i \in 1..n |-> IF x.entries[i].direction = DirectionDebit
                                   THEN x.entries[i].amount ELSE -x.entries[i].amount]
  OBVIOUS
<1>3. PICK D, C : /\ D = {i \in 1..n : x.entries[i].direction = DirectionDebit}
                  /\ C = {i \in 1..n : x.entries[i].direction = DirectionCredit}
  OBVIOUS
<1>4. PICK P, Q : /\ P = {i \in 1..n : TypeOfAccount[x.entries[i].account] = "SYSTEM_CASH"}
                  /\ Q = {i \in 1..n : TypeOfAccount[x.entries[i].account] # "SYSTEM_CASH"}
  OBVIOUS
<1>5. PICK E : E = [i \in 1..n |-> BalanceDelta(x.entries[i], NormalOf(x.entries[i]))]
  OBVIOUS
<1>6. \A i \in 1..n : x.entries[i].direction \in Directions
  BY DEF IsWellFormed
<1>7. /\ D \subseteq 1..n /\ C \subseteq 1..n /\ D \intersect C = {} /\ D \union C = 1..n
  BY <1>3, <1>6 DEF Directions, DirectionDebit, DirectionCredit
<1>8. P \subseteq 1..n /\ Q \subseteq 1..n /\ P \intersect Q = {} /\ P \union Q = 1..n
  BY <1>4
<1>9. IsFiniteSet(D) /\ IsFiniteSet(C) /\ IsFiniteSet(P) /\ IsFiniteSet(Q)
  BY <1>7, <1>8, PlacesAreFinite
<1>10. \A i \in 1..n : A[i] = x.entries[i].amount /\ A[i] \in Int
  BY <1>1
<1>11. \A i \in 1..n : G[i] = (IF x.entries[i].direction = DirectionDebit THEN A[i] ELSE -A[i])
                       /\ G[i] \in Int
  BY <1>2, <1>10
<1>12. SideAmount(x, DirectionDebit) = Total(A, D)
  <2>1. D = {i \in DOMAIN x.entries : x.entries[i].direction = DirectionDebit}
    BY <1>3
  <2>2. \A i \in D : A[i] = x.entries[i].amount /\ A[i] \in Int
    BY <1>7, <1>10
  <2> QED
    BY <1>9, <2>1, <2>2, SideAmountIs
<1>13. SideAmount(x, DirectionCredit) = Total(A, C)
  <2>1. C = {i \in DOMAIN x.entries : x.entries[i].direction = DirectionCredit}
    BY <1>3
  <2>2. \A i \in C : A[i] = x.entries[i].amount /\ A[i] \in Int
    BY <1>7, <1>10
  <2> QED
    BY <1>9, <2>1, <2>2, SideAmountIs
<1>14. Total(G, 1..n) = 0
  <2>1. Total(G, D) = Total(A, D)
    <3>1. \A i \in D : G[i] = A[i] /\ A[i] \in Int
      BY <1>3, <1>7, <1>10, <1>11
    <3> QED
      BY <1>9, <3>1, TotalSame
  <2>2. Total(G, C) = -Total(A, C)
    <3>1. \A i \in C : G[i] = -A[i] /\ A[i] \in Int
      BY <1>3, <1>7, <1>10, <1>11 DEF DirectionDebit, DirectionCredit
    <3> QED
      BY <1>9, <3>1, TotalNegated
  <2>3. Total(G, D \union C) = Total(G, D) + Total(G, C)
    <3>1. \A i \in D \union C : G[i] \in Int
      BY <1>7, <1>11
    <3> QED
      BY <1>7, <1>9, <3>1, TotalUnion
  <2>4. Total(A, D) = Total(A, C)
    BY <1>12, <1>13 DEF IsWellFormed
  <2>5. PICK a \in Int : a = Total(A, C)
    BY <1>7, <1>9, <1>10, TotalUnfolds
  <2>6. Total(G, D) = a /\ Total(G, C) = -a
    BY <2>1, <2>2, <2>4, <2>5
  <2>7. Total(G, 1..n) = a + (-a)
    BY <1>7, <2>3, <2>6
  <2> QED
    BY <2>7
<1>15. Total(G, P) \in Int /\ Total(G, Q) \in Int /\ Total(G, P) + Total(G, Q) = 0
  <2>1. \A i \in P \union Q : G[i] \in Int
    BY <1>8, <1>11
  <2>2. Total(G, P \union Q) = Total(G, P) + Total(G, Q)
    BY <1>8, <1>9, <2>1, TotalUnion
  <2>3. Total(G, P) \in Int
    BY <1>9, <2>1, TotalUnfolds
  <2>4. Total(G, Q) \in Int
    BY <1>9, <2>1, TotalUnfolds
  <2> QED
    BY <1>8, <1>14, <2>2, <2>3, <2>4
<1>16. \A i \in P : E[i] = G[i]
  <2> SUFFICES ASSUME NEW i \in P PROVE E[i] = G[i]
    OBVIOUS
  <2>1. NormalOf(x.entries[i]) = DirectionDebit
    BY <1>4 DEF NormalOf, NormalBalance
  <2>2. E[i] = IF x.entries[i].direction = DirectionDebit
               THEN x.entries[i].amount ELSE -x.entries[i].amount
    BY <1>5, <1>8, <2>1 DEF BalanceDelta
  <2> QED
    BY <1>2, <1>8, <2>2
<1>17. \A i \in Q : E[i] = -G[i]
  <2> SUFFICES ASSUME NEW i \in Q PROVE E[i] = -G[i]
    OBVIOUS
  <2>1. NormalOf(x.entries[i]) = DirectionCredit
    BY <1>4 DEF NormalOf, NormalBalance
  <2>2. i \in 1..n /\ E[i] = IF x.entries[i].direction = DirectionCredit
               THEN x.entries[i].amount ELSE -x.entries[i].amount
    BY <1>5, <1>8, <2>1 DEF BalanceDelta
  <2>3. PICK m \in Int : m = x.entries[i].amount
    BY <2>2
  <2>4. G[i] = IF x.entries[i].direction = DirectionDebit THEN m ELSE -m
    BY <1>2, <2>2, <2>3
  <2>5. x.entries[i].direction = DirectionDebit <=> x.entries[i].direction # DirectionCredit
    BY <1>6, <2>2 DEF Directions, DirectionDebit, DirectionCredit
  <2> QED
    BY <2>2, <2>3, <2>4, <2>5
<1>18. Effect(x, TRUE) = Total(G, P)
  <2>1. P = {i \in DOMAIN x.entries :
               (TypeOfAccount[x.entries[i].account] = "SYSTEM_CASH") = TRUE}
    BY <1>4
  <2>2. \A i \in P : E[i] = BalanceDelta(x.entries[i], NormalOf(x.entries[i])) /\ E[i] \in Int
    BY <1>5, <1>8, <1>11, <1>16
  <2>3. Effect(x, TRUE) = Total(E, P)
    <3>1. PICK on : on = TRUE
      OBVIOUS
    <3>2. P = {i \in DOMAIN x.entries :
                 (TypeOfAccount[x.entries[i].account] = "SYSTEM_CASH") = on}
      BY <2>1, <3>1
    <3>3. Effect(x, on) = Total(E, P)
      BY <1>9, <2>2, <3>2, EffectIs
    <3> QED
      BY <3>1, <3>3
  <2>4. Total(E, P) = Total(G, P)
    <3>1. \A i \in P : G[i] \in Int
      BY <1>8, <1>11
    <3> QED
      BY <1>9, <1>16, <3>1, TotalSame
  <2> QED
    BY <2>3, <2>4
<1>19. Effect(x, FALSE) = -Total(G, Q)
  <2>1. Q = {i \in DOMAIN x.entries :
               (TypeOfAccount[x.entries[i].account] = "SYSTEM_CASH") = FALSE}
    BY <1>4
  <2>2. \A i \in Q : E[i] = BalanceDelta(x.entries[i], NormalOf(x.entries[i])) /\ E[i] \in Int
    <3> SUFFICES ASSUME NEW i \in Q
                 PROVE  E[i] = BalanceDelta(x.entries[i], NormalOf(x.entries[i])) /\ E[i] \in Int
      OBVIOUS
    <3>1. i \in 1..n
      BY <1>8
    <3>2. G[i] \in Int
      BY <1>11, <3>1
    <3>3. E[i] = -G[i]
      BY <1>17
    <3>4. E[i] = BalanceDelta(x.entries[i], NormalOf(x.entries[i]))
      BY <1>5, <3>1
    <3> QED
      BY <3>2, <3>3, <3>4
  <2>3. Effect(x, FALSE) = Total(E, Q)
    <3>1. PICK on : on = FALSE
      OBVIOUS
    <3>2. Q = {i \in DOMAIN x.entries :
                 (TypeOfAccount[x.entries[i].account] = "SYSTEM_CASH") = on}
      BY <2>1, <3>1
    <3>3. Effect(x, on) = Total(E, Q)
      BY <1>9, <2>2, <3>2, EffectIs
    <3> QED
      BY <3>1, <3>3
  <2>4. Total(E, Q) = -Total(G, Q)
    <3>1. \A i \in Q : G[i] \in Int
      BY <1>8, <1>11
    <3> QED
      BY <1>9, <1>17, <3>1, TotalNegated
  <2> QED
    BY <2>3, <2>4
<1>20. PICK p \in Int, q \in Int : p = Total(G, P) /\ q = Total(G, Q)
  BY <1>15
<1>21. p + q = 0
  BY <1>15, <1>20
<1>22. p = -q
  BY <1>21
<1> QED
  BY <1>18, <1>19, <1>20, <1>22

(* The reversal of a well-formed transaction is well formed: its sides trade places, and
   so do their totals (domain/transaction.go NewReversal).                    *)
LEMMA MirrorIsWellFormed ==
  ASSUME NEW x, NEW n \in Nat, n = Len(x.entries), DOMAIN x.entries = 1..n,
         \A i \in 1..n : /\ x.entries[i] = Entry(x.entries[i].account, x.entries[i].direction,
                                                 x.entries[i].amount)
                         /\ x.entries[i].amount \in Int,
         IsWellFormed(x),
         NEW y, y = Txn("REVERSAL", ReversedEntries(x.entries), OriginalId)
  PROVE  /\ Len(y.entries) = n /\ DOMAIN y.entries = 1..n
         /\ \A i \in 1..n : /\ y.entries[i].account = x.entries[i].account
                             /\ y.entries[i].direction = Opposite(x.entries[i].direction)
                             /\ y.entries[i].amount = x.entries[i].amount
         /\ IsWellFormed(y)
<1>1. PICK f : f = [i \in 1..n |-> [x.entries[i] EXCEPT !.direction = Opposite(@)]]
  OBVIOUS
<1>2. y.entries = f /\ y.type = "REVERSAL" /\ y.reverses = OriginalId /\ ~y.longDesc
  BY <1>1 DEF Txn, ReversedEntries
<1>3. Len(f) = n /\ DOMAIN f = 1..n
  BY <1>1
<1>4. \A i \in 1..n : f[i] = Entry(x.entries[i].account, Opposite(x.entries[i].direction),
                                   x.entries[i].amount)
  <2> SUFFICES ASSUME NEW i \in 1..n
               PROVE  f[i] = Entry(x.entries[i].account, Opposite(x.entries[i].direction),
                                   x.entries[i].amount)
    OBVIOUS
  <2>1. f[i] = [x.entries[i] EXCEPT !.direction = Opposite(@)]
    BY <1>1
  <2>2. PICK a, d, m : x.entries[i] = Entry(a, d, m)
    OBVIOUS
  <2>3. x.entries[i].account = a /\ x.entries[i].direction = d /\ x.entries[i].amount = m
    BY <2>2 DEF Entry
  <2>4. f[i] = Entry(a, Opposite(d), m)
    BY <2>1, <2>2 DEF Entry
  <2> QED
    BY <2>3, <2>4
<1>5. \A i \in 1..n : /\ f[i].account = x.entries[i].account
                      /\ f[i].direction = Opposite(x.entries[i].direction)
                      /\ f[i].amount = x.entries[i].amount
  <2> SUFFICES ASSUME NEW i \in 1..n
               PROVE  /\ f[i].account = x.entries[i].account
                      /\ f[i].direction = Opposite(x.entries[i].direction)
                      /\ f[i].amount = x.entries[i].amount
    OBVIOUS
  <2>1. PICK a, d, m : /\ a = x.entries[i].account /\ d = Opposite(x.entries[i].direction)
                       /\ m = x.entries[i].amount
    OBVIOUS
  <2>2. f[i] = Entry(a, d, m)
    BY <1>4, <2>1
  <2>3. f[i].account = a /\ f[i].direction = d /\ f[i].amount = m
    BY <2>2 DEF Entry
  <2> QED
    BY <2>1, <2>3
<1>6. \A i \in 1..n : x.entries[i].amount > 0 /\ x.entries[i].direction \in Directions
  BY DEF IsWellFormed
<1>7. AccountIDs(y) = AccountIDs(x)
  BY <1>2, <1>3, <1>5 DEF AccountIDs
<1>8. PICK A : A = [i \in 1..n |-> x.entries[i].amount]
  OBVIOUS
<1>9. ASSUME NEW d \in Directions PROVE SideAmount(y, Opposite(d)) = SideAmount(x, d)
  <2>1. PICK S : S = {i \in 1..n : x.entries[i].direction = d}
    OBVIOUS
  <2>2. S \subseteq 1..n /\ IsFiniteSet(S)
    BY <2>1, PlacesAreFinite
  <2>3. S = {i \in DOMAIN x.entries : x.entries[i].direction = d}
    BY <2>1
  <2>4. S = {i \in DOMAIN y.entries : y.entries[i].direction = Opposite(d)}
    <3>1. \A i \in 1..n : f[i].direction = Opposite(d) <=> x.entries[i].direction = d
      BY <1>5, <1>6 DEF Directions, Opposite, DirectionDebit, DirectionCredit
    <3> QED
      BY <1>2, <1>3, <2>1, <3>1
  <2>5. \A i \in S : A[i] = x.entries[i].amount /\ A[i] \in Int
    BY <1>8, <2>2
  <2>6. \A i \in S : A[i] = y.entries[i].amount /\ A[i] \in Int
    BY <1>2, <1>5, <2>2, <2>5
  <2>7. SideAmount(x, d) = Total(A, S)
    BY <2>2, <2>3, <2>5, SideAmountIs
  <2>8. SideAmount(y, Opposite(d)) = Total(A, S)
    BY <2>2, <2>4, <2>6, SideAmountIs
  <2> QED
    BY <2>7, <2>8
<1>10. /\ SideAmount(y, DirectionCredit) = SideAmount(x, DirectionDebit)
       /\ SideAmount(y, DirectionDebit) = SideAmount(x, DirectionCredit)
  <2>1. Opposite(DirectionDebit) = DirectionCredit /\ Opposite(DirectionCredit) = DirectionDebit
    BY DEF Opposite, DirectionDebit, DirectionCredit
  <2>2. SideAmount(y, Opposite(DirectionDebit)) = SideAmount(x, DirectionDebit)
    BY <1>9 DEF Directions
  <2>3. SideAmount(y, Opposite(DirectionCredit)) = SideAmount(x, DirectionCredit)
    BY <1>9 DEF Directions
  <2> QED
    BY <2>1, <2>2, <2>3
<1>11. \A i \in DOMAIN y.entries : y.entries[i].amount > 0 /\ y.entries[i].direction \in Directions
  BY <1>2, <1>3, <1>5, <1>6 DEF Directions, Opposite
<1>12. IsWellFormed(y)
  <2>1. /\ n >= 2 /\ Cardinality(AccountIDs(x)) = n
        /\ SideAmount(x, DirectionDebit) = SideAmount(x, DirectionCredit)
        /\ SideAmount(x, DirectionDebit) \in Int64
    BY DEF IsWellFormed
  <2> QED
    BY <1>2, <1>3, <1>7, <1>10, <1>11, <2>1, DraftAssumption DEF IsWellFormed
<1> QED
  BY <1>2, <1>3, <1>5, <1>12

----------------------------------------------------------------------------
(* The drafts.                                                             *)

DraftTyped ==
  draft \in [type : {"TRANSFER", "REVERSAL"}, reverses : {NoTxn, OriginalId}, longDesc : BOOLEAN,
             entries : Seq([account : DOMAIN TypeOfAccount, direction : Sides, amount : Amounts])]

LEMMA DraftInvariance == DraftSpec => []DraftTyped
<1> DEFINE Line == [account : DOMAIN TypeOfAccount, direction : Sides, amount : Amounts]
<1>1. DraftInit => DraftTyped
  <2> SUFFICES ASSUME DraftInit PROVE DraftTyped
    OBVIOUS
  <2>1. PICK type \in {"TRANSFER", "REVERSAL"}, reverses \in {NoTxn, OriginalId}, long \in BOOLEAN :
          draft = [Txn(type, <<>>, reverses) EXCEPT !.longDesc = long]
    BY DEF DraftInit
  <2>2. draft = [type |-> type, entries |-> <<>>, reverses |-> reverses, longDesc |-> long]
    BY <2>1 DEF Txn
  <2>3. <<>> \in Seq(Line)
    BY EmptySeq
  <2> QED
    BY <2>2, <2>3 DEF DraftTyped
<1>2. DraftTyped /\ [AppendEntry]_draft => DraftTyped'
  <2> SUFFICES ASSUME DraftTyped, [AppendEntry]_draft PROVE DraftTyped'
    OBVIOUS
  <2>1. CASE UNCHANGED draft
    BY <2>1 DEF DraftTyped
  <2>2. CASE AppendEntry
    <3>1. PICK a \in DOMAIN TypeOfAccount, d \in Sides, m \in Amounts :
            draft' = [draft EXCEPT !.entries = Append(@, Entry(a, d, m))]
      BY <2>2 DEF AppendEntry
    <3>2. PICK es \in Seq(Line) : es = draft.entries
      BY DEF DraftTyped
    <3>3. Entry(a, d, m) \in Line
      BY DEF Entry
    <3>4. Append(es, Entry(a, d, m)) \in Seq(Line)
      BY <3>3, AppendProperties
    <3>5. draft' = [draft EXCEPT !.entries = Append(es, Entry(a, d, m))]
      BY <3>1, <3>2
    <3> HIDE DEF Line
    <3> QED
      BY <3>4, <3>5 DEF DraftTyped, Line
  <2> QED
    BY <2>1, <2>2
<1> QED
  BY <1>1, <1>2, PTL DEF DraftSpec

(* A draft's entries, one by one.                                          *)
LEMMA DraftEntries ==
  ASSUME DraftTyped
  PROVE  \E n \in Nat :
           /\ n = Len(draft.entries) /\ DOMAIN draft.entries = 1..n
           /\ \A i \in 1..n :
                LET e == draft.entries[i]
                IN  e = Entry(e.account, e.direction, e.amount) /\ e.amount \in 0..(HalfRange - 1)
<1> DEFINE Line == [account : DOMAIN TypeOfAccount, direction : Sides, amount : Amounts]
<1>1. PICK es \in Seq(Line) : es = draft.entries
  BY DEF DraftTyped
<1>2. Len(es) \in Nat /\ DOMAIN es = 1..Len(es)
  BY LenProperties
<1>3. ASSUME NEW i \in 1..Len(es)
      PROVE  /\ es[i] = Entry(es[i].account, es[i].direction, es[i].amount)
             /\ es[i].amount \in 0..(HalfRange - 1)
  <2>1. es[i] \in Line
    BY ElementOfSeq
  <2> QED
    BY <2>1 DEF Entry, Amounts
<1> QED
  BY <1>1, <1>2, <1>3

(* The new balance Post computes for an entry is the exact one or is refused, for any
   width of the integer (domain/money.go Add, ledger_repo.go Post step 5).    *)
THEOREM BalancesAreExact == DraftSpec => []AddExact
<1>1. DraftTyped => AddExact
  <2> SUFFICES ASSUME DraftTyped, NEW i \in DOMAIN draft.entries,
                      NEW b \in Int64, NEW normal \in Directions
               PROVE  AddIsExact(b, BalanceDelta(draft.entries[i], normal))
    BY DEF AddExact
  <2>1. draft.entries[i].amount \in 0..(HalfRange - 1)
    BY DraftEntries
  <2>2. BalanceDelta(draft.entries[i], normal) \in Int64
    BY <2>1, MoneyAssumption DEF BalanceDelta, Int64
  <2> QED
    BY <2>2, AddIsAlwaysExact
<1> QED
  BY <1>1, DraftInvariance, PTL

(* Validate accepts what is well formed in exact arithmetic and nothing else, for any
   number of entries and any width of the integer (domain/transaction.go Validate). *)
THEOREM ValidateIsExact == DraftSpec => []ValidateAcceptsWellFormed
<1>1. DraftTyped => ValidateAcceptsWellFormed
  <2> SUFFICES ASSUME DraftTyped PROVE Validate(draft) = "nil" <=> IsWellFormed(draft)
    BY DEF ValidateAcceptsWellFormed
  <2>1. PICK n \in Nat :
          /\ n = Len(draft.entries) /\ DOMAIN draft.entries = 1..n
          /\ \A i \in 1..n : draft.entries[i].amount \in 0..(HalfRange - 1)
    BY DraftEntries
  <2>2. \A i \in 1..n : draft.entries[i].amount \in Int64
    BY <2>1, MoneyAssumption DEF Int64
  <2> QED
    BY <2>1, <2>2, ValidIsExact
<1> QED
  BY <1>1, DraftInvariance, PTL

(* What Validate accepts keeps assets = liabilities + revenue, whatever accounts its
   entries are on (domain/transaction.go Validate, domain/entry.go BalanceDelta). *)
THEOREM EquationIsKept == DraftSpec => []AccountingEquation
<1>1. DraftTyped /\ ValidateAcceptsWellFormed => AccountingEquation
  <2> SUFFICES ASSUME DraftTyped, ValidateAcceptsWellFormed, Validate(draft) = "nil"
               PROVE  Effect(draft, TRUE) = Effect(draft, FALSE)
    BY DEF AccountingEquation
  <2>1. PICK n \in Nat :
          /\ n = Len(draft.entries) /\ DOMAIN draft.entries = 1..n
          /\ \A i \in 1..n : draft.entries[i].amount \in 0..(HalfRange - 1)
    BY DraftEntries
  <2>2. \A i \in 1..n : draft.entries[i].amount \in Int
    BY <2>1
  <2>3. IsWellFormed(draft)
    BY DEF ValidateAcceptsWellFormed
  <2> QED
    BY <2>1, <2>2, <2>3, EquationHolds
<1> QED
  BY <1>1, DraftInvariance, ValidateIsExact, PTL

(* The reversal of what Validate accepts is accepted too, and undoes it on every account
   (domain/transaction.go NewReversal).                                      *)
THEOREM ReversalsUndo == DraftSpec => []ReversalUndoes
<1>1. DraftTyped /\ ValidateAcceptsWellFormed => ReversalUndoes
  <2> SUFFICES ASSUME DraftTyped, ValidateAcceptsWellFormed,
                      Validate(draft) = "nil", draft.type # "REVERSAL"
               PROVE  LET r == NewReversal(AsPosted)
                      IN  /\ r.err = "nil" /\ Validate(r.txn) = "nil"
                          /\ \A i \in DOMAIN draft.entries :
                               LET e == draft.entries[i]
                                   f == r.txn.entries[i]
                               IN  /\ f.account = e.account
                                   /\ BalanceDelta(f, NormalOf(e)) = -BalanceDelta(e, NormalOf(e))
    BY DEF ReversalUndoes
  <2>1. PICK n \in Nat :
          /\ n = Len(draft.entries) /\ DOMAIN draft.entries = 1..n
          /\ \A i \in 1..n :
               /\ draft.entries[i] = Entry(draft.entries[i].account, draft.entries[i].direction,
                                           draft.entries[i].amount)
               /\ draft.entries[i].amount \in 0..(HalfRange - 1)
    BY DraftEntries
  <2>2. \A i \in 1..n : draft.entries[i].amount \in Int /\ draft.entries[i].amount \in Int64
    BY <2>1, MoneyAssumption DEF Int64
  <2>3. IsWellFormed(draft)
    BY DEF ValidateAcceptsWellFormed
  <2>4. PICK y : y = Txn("REVERSAL", ReversedEntries(draft.entries), OriginalId)
    OBVIOUS
  <2>5. NewReversal(AsPosted) = Built(y)
    BY <2>4 DEF NewReversal, AsPosted
  <2>6. /\ Len(y.entries) = n /\ DOMAIN y.entries = 1..n
        /\ \A i \in 1..n : /\ y.entries[i].account = draft.entries[i].account
                            /\ y.entries[i].direction = Opposite(draft.entries[i].direction)
                            /\ y.entries[i].amount = draft.entries[i].amount
        /\ IsWellFormed(y)
    BY <2>1, <2>2, <2>3, <2>4, MirrorIsWellFormed
  <2>7. Validate(y) = "nil"
    <3>1. \A i \in 1..n : y.entries[i].amount \in Int64
      BY <2>2, <2>6
    <3> QED
      BY <2>6, <3>1, ValidIsExact
  <2>8. ASSUME NEW i \in 1..n
        PROVE  /\ y.entries[i].account = draft.entries[i].account
               /\ BalanceDelta(y.entries[i], NormalOf(draft.entries[i])) =
                    -BalanceDelta(draft.entries[i], NormalOf(draft.entries[i]))
    <3>1. PICK normal \in Directions : normal = NormalOf(draft.entries[i])
      BY DEF NormalOf, NormalBalance, Directions
    <3>2. PICK d \in Directions : d = draft.entries[i].direction
      BY <2>1, <2>3 DEF IsWellFormed
    <3>3. /\ y.entries[i].account = draft.entries[i].account
          /\ y.entries[i].direction = Opposite(d)
          /\ y.entries[i].amount = draft.entries[i].amount
      BY <2>6, <3>2
    <3>4. Opposite(d) = normal <=> d # normal
      BY DEF Opposite, Directions, DirectionDebit, DirectionCredit
    <3>5. BalanceDelta(y.entries[i], normal) = -BalanceDelta(draft.entries[i], normal)
      BY <2>2, <3>2, <3>3, <3>4 DEF BalanceDelta
    <3> QED
      BY <3>1, <3>3, <3>5
  <2> QED
    BY <2>1, <2>5, <2>7, <2>8 DEF Built
<1> QED
  BY <1>1, DraftInvariance, ValidateIsExact, PTL
=============================================================================
