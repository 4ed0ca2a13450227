--------------------------- MODULE HttpApiProofs ---------------------------
(***************************************************************************)
(* HttpApi, and the service below it, for any users, wallets, keys,        *)
(* requests and handlers: what a caller is told agrees with what the       *)
(* store has, and shows no balance of anyone else.                         *)
(***************************************************************************)
EXTENDS HttpApi, LedgerStoreProofs

Active == {"replay", "build", "posting", "replay again"}

\* A transaction, or the rows of one, with an entry on the wallet of a user.
Touches(es, u) == \E i \in 1..Len(es) : es[i].account = WalletOf[u]

\* What every handler that is past the refusals knows of its request.
Accepted(s) ==
  LET u == req[s].user
      op == Request(s).op
  IN  /\ u \in Users /\ req[s].hash \in Hashes
      /\ op \in Keyed => req[s].key \in Keys \union GarbledKeys
      /\ op = "reverse" => u \in Admins
      /\ op \in Limited => u \in DOMAIN WalletOf

\* The call of Post a handler is in is that of its request.
PostingOK(s) ==
  /\ at[s] = "posting" <=> pc[s] # "idle"
  /\ at[s] = "posting" =>
       /\ call[s].key = KeyOf(s) /\ call[s].hash = req[s].hash
       /\ req[s].user \notin Admins => Touches(call[s].txn.entries, req[s].user)

\* What Post has returned: the row it has committed, or that there is one.
ReplyOK(s) ==
  /\ Writing(s) => \A i, j \in 1..Len(posted[s]) : i < j => posted[s][i].id < posted[s][j].id
  /\ (pc[s] = "return" /\ reply[s] = "nil") => Claimed(call[s].key) /\ idem[call[s].key] = ClaimRow(s)
  /\ (pc[s] = "return" /\ reply[s] = "ErrIdempotencyInFlight") => Claimed(call[s].key)

AnswerOK(s) ==
  /\ answer[s].err # "ErrIdempotencyInFlight"
  /\ Succeeded(s, Keyed) => /\ KeyOf(s) \in ClaimKeys /\ Claimed(KeyOf(s))
                            /\ idem[KeyOf(s)].hash = req[s].hash
                            /\ answer[s].body = idem[KeyOf(s)].body
  /\ Succeeded(s, {"get"}) => /\ \E k \in ClaimKeys : Claimed(k) /\ idem[k].body = answer[s].body
                              /\ req[s].user \notin Admins =>
                                   /\ req[s].user \in DOMAIN WalletOf
                                   /\ Touches(answer[s].body.entries, req[s].user)
  /\ Succeeded(s, Keyed \union {"get"}) =>
       Accepted(s) /\ answer[s].viewer = Viewer(req[s].user, Request(s).op)

HandlerOK(s) ==
  /\ at[s] = "idle" => req[s] = NoRequest /\ answer[s] = NoAnswer
  /\ at[s] \in Active => Request(s).op \in Keyed /\ Accepted(s)
  /\ at[s] \in Active \ {"replay"} => KeyOf(s) \in ClaimKeys
  /\ at[s] = "read" => Request(s).op \notin Keyed /\ Accepted(s)
  /\ at[s] = "replay again" => Claimed(KeyOf(s))
  /\ PostingOK(s) /\ ReplyOK(s) /\ AnswerOK(s)

\* A stored result is the transaction as GetTransaction reads it, and that of a user
\* has an entry on the user's wallet.
BodyOK(k) ==
  LET b == idem[k].body
  IN  Claimed(k) =>
        /\ b.txn = idem[k].txn
        /\ b.type = transactions[b.txn].type /\ b.reverses = transactions[b.txn].reverses
        /\ \A i, j \in 1..Len(b.entries) : i < j => b.entries[i].id < b.entries[j].id
        /\ k[1] \notin Admins => Touches(b.entries, k[1])

ServiceInv ==
  /\ at \in [Sessions -> Active \union {"idle", "read", "answered"}]
  /\ req = [s \in Sessions |-> req[s]] /\ answer = [s \in Sessions |-> answer[s]]
  /\ \A s \in Sessions : HandlerOK(s)
  /\ \A k \in ClaimKeys : BodyOK(k)

----------------------------------------------------------------------------
(* Facts about the operators.                                              *)

(* FirstError gives "nil" if no check fails, and the error of one that fails.  *)
LEMMA FirstErrorIs ==
  ASSUME NEW checks, Len(checks) \in Nat
  PROVE  \/ FirstError(checks) = "nil" /\ \A i \in 1..Len(checks) : ~checks[i][1]
         \/ \E i \in 1..Len(checks) : checks[i][1] /\ FirstError(checks) = checks[i][2]
<1> DEFINE failed == {i \in 1..Len(checks) : checks[i][1]}
<1>1. CASE failed = {}
  BY <1>1 DEF FirstError
<1>2. CASE failed # {}
  <2>1. failed \in SUBSET Nat
    OBVIOUS
  <2>2. Min(failed) \in failed
    BY <1>2, <2>1, MinOfNats
  <2>3. FirstError(checks) = checks[Min(failed)][2]
    BY <1>2 DEF FirstError
  <2> QED
    BY <2>2, <2>3
<1> QED
  BY <1>1, <1>2

(* What a request has passed when no middleware refuses it (router.go).    *)
LEMMA MiddlewarePassed ==
  ASSUME NEW who, NEW k, NEW r, NEW allowed
  PROVE  /\ MiddlewareError(who, k, r, allowed) # "ErrIdempotencyInFlight"
         /\ MiddlewareError(who, k, r, allowed) = "nil" =>
              /\ who \in Users
              /\ r.op \in AdminOnly => who \in Admins
              /\ r.op \in Keyed => k # BadKey
<1> DEFINE checks ==
      << <<who \notin Users, "errUnauthenticated">>,
         <<r.op \in AdminOnly /\ who \notin Admins, "ErrForbidden">>,
         <<r.op \in Keyed /\ k = BadKey, "errIdempotencyKeyRequired">>,
         <<r.op \in Keyed /\ r.body = "too large", "MaxBytesError">>,
         <<r.op \in Keyed /\ r.body = "cut off", "ErrUnexpectedEOF">>,
         <<r.op \in Limited /\ ~allowed, "errRateLimited">> >>
<1>1. MiddlewareError(who, k, r, allowed) = FirstError(checks)
  BY DEF MiddlewareError
<1>2. Len(checks) = 6
  OBVIOUS
<1>3. /\ checks[1][2] = "errUnauthenticated" /\ checks[2][2] = "ErrForbidden"
      /\ checks[3][2] = "errIdempotencyKeyRequired" /\ checks[4][2] = "MaxBytesError"
      /\ checks[5][2] = "ErrUnexpectedEOF" /\ checks[6][2] = "errRateLimited"
  OBVIOUS
<1>4. /\ checks[1] = <<who \notin Users, "errUnauthenticated">>
      /\ checks[2] = <<r.op \in AdminOnly /\ who \notin Admins, "ErrForbidden">>
      /\ checks[3] = <<r.op \in Keyed /\ k = BadKey, "errIdempotencyKeyRequired">>
  BY Zenon
<1>5. /\ checks[1][1] <=> who \notin Users
      /\ checks[2][1] <=> r.op \in AdminOnly /\ who \notin Admins
      /\ checks[3][1] <=> r.op \in Keyed /\ k = BadKey
  BY <1>4, Zenon
<1> HIDE DEF checks
<1>6. \A i \in 1..6 : checks[i][2] \notin {"nil", "ErrIdempotencyInFlight"}
  <2>1. \A i \in 1..6 : i = 1 \/ i = 2 \/ i = 3 \/ i = 4 \/ i = 5 \/ i = 6
    OBVIOUS
  <2> QED
    BY <1>3, <2>1
<1>7. \/ FirstError(checks) = "nil" /\ \A i \in 1..6 : ~checks[i][1]
      \/ \E i \in 1..6 : checks[i][1] /\ FirstError(checks) = checks[i][2]
  <2>1. Len(checks) \in Nat
    BY <1>2
  <2>2. \/ FirstError(checks) = "nil" /\ \A i \in 1..Len(checks) : ~checks[i][1]
        \/ \E i \in 1..Len(checks) : checks[i][1] /\ FirstError(checks) = checks[i][2]
    BY <2>1, FirstErrorIs, Zenon
  <2> QED
    BY <1>2, <2>2, Zenon
<1>8. CASE FirstError(checks) = "nil" /\ \A i \in 1..6 : ~checks[i][1]
  <2>1. ~checks[1][1] /\ ~checks[2][1] /\ ~checks[3][1]
    BY <1>8
  <2> QED
    BY <1>1, <1>5, <1>8, <2>1
<1>9. CASE \E i \in 1..6 : checks[i][1] /\ FirstError(checks) = checks[i][2]
  BY <1>1, <1>6, <1>9
<1> QED
  BY <1>7, <1>8, <1>9

(* What it has passed when the service accepts it (service/ledger.go).     *)
LEMMA ServicePassed ==
  ASSUME NEW u, NEW k, NEW r
  PROVE  /\ ServiceError(u, k, r) # "ErrIdempotencyInFlight"
         /\ (ServiceError(u, k, r) = "nil" /\ r.op = "reverse") => u \in Admins
         /\ (ServiceError(u, k, r) = "nil" /\ r.op # "reverse") => u \in DOMAIN WalletOf
<1>1. PICK amount : amount = AmountError(r.amount, IF r.op = "transfer" THEN MinTransfer ELSE 1)
  OBVIOUS
<1>2. amount # "ErrIdempotencyInFlight"
  BY <1>1 DEF AmountError, NewMoney, Value, Error
<1>3. CASE r.op = "reverse"
  <2> DEFINE checks == << <<u \notin Admins, "ErrForbidden">>, <<k = BadKey, "ErrValidation">> >>
  <2>1. ServiceError(u, k, r) = FirstError(checks)
    BY <1>3 DEF ServiceError
  <2>2. Len(checks) = 2 /\ \A i \in 1..2 : checks[i][2] \notin {"nil", "ErrIdempotencyInFlight"}
    OBVIOUS
  <2>3. checks[1][1] <=> u \notin Admins
    OBVIOUS
  <2> HIDE DEF checks
  <2> QED
    BY <1>3, <2>1, <2>2, <2>3, FirstErrorIs
<1>4. CASE r.op # "reverse"
  <2> DEFINE checks == << <<amount # "nil", amount>>,
                          <<u \notin DOMAIN WalletOf, "ErrAccountNotFound">>,
                          <<k = BadKey, "ErrValidation">> >>
  <2>1. ServiceError(u, k, r) = FirstError(checks)
    BY <1>1, <1>4 DEF ServiceError
  <2>2. Len(checks) = 3 /\ \A i \in 1..3 : checks[i][2] # "ErrIdempotencyInFlight"
    BY <1>2
  <2>3. checks[1][1] => checks[1][2] # "nil"
    OBVIOUS
  <2>4. checks[2][2] # "nil" /\ checks[3][2] # "nil"
    OBVIOUS
  <2>5. checks[2][1] <=> u \notin DOMAIN WalletOf
    OBVIOUS
  <2> HIDE DEF checks
  <2> QED
    BY <1>4, <2>1, <2>2, <2>3, <2>4, <2>5, FirstErrorIs
<1> QED
  BY <1>3, <1>4

(* The handlers' own checks give one error (dto.go validate).              *)
LEMMA RequestPassed ==
  ASSUME NEW r
  PROVE  RequestError(r) \in {"nil", "ValidationError"}
<1> DEFINE checks ==
      << <<Undecodable(r), "ValidationError">>,
         <<r.op \in Limited /\ (r.amount <= 0 \/ r.long), "ValidationError">>,
         <<r.op = "reverse" /\ r.long, "ValidationError">> >>
<1>1. RequestError(r) = FirstError(checks)
  BY DEF RequestError
<1>2. Len(checks) = 3 /\ \A i \in 1..3 : checks[i][2] = "ValidationError"
  OBVIOUS
<1> HIDE DEF checks
<1> QED
  BY <1>1, <1>2, FirstErrorIs

(* A request that is not refused has a user, who may do what it asks for, a key if it
   needs one, and a wallet if it moves money of its own.                     *)
LEMMA NotRefused ==
  ASSUME NEW c \in Traffic, NEW k \in Headers, NEW allowed \in BOOLEAN
  PROVE  /\ Refusal[c][k][allowed] # "ErrIdempotencyInFlight"
         /\ Refusal[c][k][allowed] = "nil" =>
              LET op == RequestOf[c[2]].op
              IN  /\ c[1] \in Users
                  /\ op \in Keyed => k \in Keys \union GarbledKeys
                  /\ op = "reverse" => c[1] \in Admins
                  /\ op \in Limited => c[1] \in DOMAIN WalletOf
<1>1. PICK r : r = RequestOf[c[2]]
  OBVIOUS
<1>2. PICK mw : mw = MiddlewareError(c[1], k, r, allowed)
  OBVIOUS
<1>3. Refusal[c][k][allowed] =
        IF mw # "nil" THEN mw
        ELSE IF RequestError(r) # "nil" \/ r.op \notin Keyed THEN RequestError(r)
        ELSE ServiceError(c[1], k, r)
  BY <1>1, <1>2 DEF Refusal
<1>4. k # BadKey => k \in Keys \union GarbledKeys
  BY DEF Headers
<1>5. Limited \subseteq Keyed /\ "reverse" \in Keyed /\ "reverse" \notin Limited
  BY DEF Limited, Keyed
<1> QED
  BY <1>1, <1>2, <1>3, <1>4, <1>5, MiddlewarePassed, ServicePassed, RequestPassed

----------------------------------------------------------------------------
(* What build() gives.                                                     *)

(* No refusal of a builder or of Validate is that of a key in flight.      *)
LEMMA BuildersAreLocal ==
  /\ \A m, o : Add(m, o).err # "ErrIdempotencyInFlight"
  /\ \A t : Validate(t) # "ErrIdempotencyInFlight"
  /\ \A from, to, f, m, fee : NewTransfer(from, to, f, m, fee).err # "ErrIdempotencyInFlight"
  /\ \A o : NewReversal(o).err # "ErrIdempotencyInFlight"
<1>1. \A m, o : Add(m, o).err # "ErrIdempotencyInFlight"
  BY DEF Add, Value, Error
<1>2. ASSUME NEW t PROVE Validate(t) # "ErrIdempotencyInFlight"
  <2>1. \A i : EntryFault(t, i) # "ErrIdempotencyInFlight"
    BY <1>1 DEF EntryFault
  <2> QED
    BY <2>1 DEF Validate
<1>3. \A from, to, f, m, fee : NewTransfer(from, to, f, m, fee).err # "ErrIdempotencyInFlight"
  BY <1>1 DEF NewTransfer, Refused, Built
<1>4. \A o : NewReversal(o).err # "ErrIdempotencyInFlight"
  BY DEF NewReversal, Refused, Built
<1> QED
  BY <1>1, <1>2, <1>3, <1>4

(* A transfer starts with its sender (domain/transaction.go NewTransfer).  *)
LEMMA TransferStarts ==
  ASSUME NEW from, NEW to, NEW f, NEW m, NEW total, NEW fee
  PROVE  LET es == TransferEntries(from, to, f, m, total, fee)
         IN  1 \in 1..Len(es) /\ es[1].account = from
<1>1. PICK A, B, C : /\ A = Entry(from, DirectionDebit, total) /\ B = Entry(to, DirectionCredit, m)
                    /\ C = Entry(f, DirectionCredit, fee)
  OBVIOUS
<1>2. PICK pair : pair = <<A, B>>
  OBVIOUS
<1>3. PICK rest : rest = IF fee > 0 THEN <<C>> ELSE <<>>
  OBVIOUS
<1>4. TransferEntries(from, to, f, m, total, fee) = pair \o rest
  BY <1>1, <1>2, <1>3 DEF TransferEntries
<1>5. PICK T : A \in T /\ B \in T /\ C \in T
  <2>1. A \in {A, B, C} /\ B \in {A, B, C} /\ C \in {A, B, C}
    OBVIOUS
  <2> QED
    BY <2>1
<1>6. pair \in Seq(T) /\ Len(pair) = 2 /\ pair[1] = A
  BY <1>2, <1>5
<1>7. rest \in Seq(T) /\ Len(rest) \in Nat
  BY <1>3, <1>5
<1>8. Len(pair \o rest) = Len(pair) + Len(rest)
  BY <1>6, <1>7, ConcatProperties
<1>9. 1 \in 1..(Len(pair) + Len(rest)) /\ 1 <= Len(pair)
  BY <1>6, <1>7
<1>10. (pair \o rest)[1] = pair[1]
  BY <1>6, <1>7, <1>9, ConcatProperties
<1> QED
  BY <1>1, <1>4, <1>6, <1>8, <1>9, <1>10 DEF Entry

(* What a user's request builds has an entry on the user's wallet, and a reversal
   mirrors what it reverses (service/ledger.go Topup, Withdraw, Transfer, Reverse). *)
LEMMA BuiltFits ==
  ASSUME IInv, RowIdsOK, NEW u \in Users, NEW h \in Hashes, RequestOf[h].op \in Keyed,
         NEW b \in Builds(u, RequestOf[h])
  PROVE  /\ b.err # "ErrIdempotencyInFlight"
         /\ b.err = "nil" => ReversalFits(Described(b.txn, RequestOf[h]))
         /\ (b.err = "nil" /\ RequestOf[h].op # "reverse") =>
              Touches(Described(b.txn, RequestOf[h]).entries, u)
<1>1. PICK r : r = RequestOf[h]
  OBVIOUS
<1>2. ASSUME NEW type, NEW es, NEW rev
      PROVE  LET t == Described(Txn(type, es, rev), r)
             IN  t.entries = es /\ t.reverses = rev
  BY DEF Described, Txn
<1>3. \A e : Refused(e).err = e
  BY DEF Refused
<1>4. \A t : Built(t).err = "nil" /\ Built(t).txn = t
  BY DEF Built
<1>5. CASE r.op = "topup"
  <2> DEFINE es == <<Entry(CashId, DirectionDebit, r.amount),
                     Entry(WalletOf[u], DirectionCredit, r.amount)>>
  <2>1. b = Built(Txn("TOPUP", es, NoTxn))
    BY <1>1, <1>5 DEF Builds, NewTopup
  <2>2. 2 \in 1..Len(es) /\ es[2].account = WalletOf[u]
    BY DEF Entry
  <2> HIDE DEF es
  <2> QED
    BY <1>1, <1>2, <1>4, <2>1, <2>2 DEF Touches, ReversalFits
<1>6. CASE r.op = "withdraw"
  <2> DEFINE es == <<Entry(WalletOf[u], DirectionDebit, r.amount),
                     Entry(CashId, DirectionCredit, r.amount)>>
  <2>1. b = Built(Txn("WITHDRAW", es, NoTxn))
    BY <1>1, <1>6 DEF Builds, NewWithdraw
  <2>2. 1 \in 1..Len(es) /\ es[1].account = WalletOf[u]
    BY DEF Entry
  <2> HIDE DEF es
  <2> QED
    BY <1>1, <1>2, <1>4, <2>1, <2>2 DEF Touches, ReversalFits
<1>7. CASE r.op = "transfer"
  <2>1. \/ b = Refused("ErrAccountNotFound")
        \/ \E f \in FeeShards : b = NewTransfer(WalletOf[u], r.target, f, r.amount, TransferFee)
    BY <1>1, <1>7 DEF Builds
  <2>2. CASE b = Refused("ErrAccountNotFound")
    BY <1>3, <2>2
  <2>3. CASE \E f \in FeeShards : b = NewTransfer(WalletOf[u], r.target, f, r.amount, TransferFee)
    <3>1. PICK f : b = NewTransfer(WalletOf[u], r.target, f, r.amount, TransferFee)
      BY <2>3
    <3>2. b.err = "nil" =>
            \E total : LET es == TransferEntries(WalletOf[u], r.target, f, r.amount, total, TransferFee)
                       IN  b = Built(Txn("TRANSFER", es, NoTxn))
      BY <3>1 DEF NewTransfer, Refused
    <3>3. b.err # "ErrIdempotencyInFlight"
      BY <3>1, BuildersAreLocal
    <3>4. ASSUME b.err = "nil"
          PROVE  ReversalFits(Described(b.txn, r)) /\ Touches(Described(b.txn, r).entries, u)
      <4>1. PICK total, es : /\ es = TransferEntries(WalletOf[u], r.target, f, r.amount, total, TransferFee)
                             /\ b = Built(Txn("TRANSFER", es, NoTxn))
        BY <3>2, <3>4
      <4>2. 1 \in 1..Len(es) /\ es[1].account = WalletOf[u]
        BY <4>1, TransferStarts
      <4> QED
        BY <1>2, <1>4, <4>1, <4>2 DEF Touches, ReversalFits
    <3> QED
      BY <1>1, <3>3, <3>4
  <2> QED
    BY <2>1, <2>2, <2>3
<1>8. CASE r.op = "reverse"
  <2>1. PICK x \in TxnIds : x = r.target
    BY <1>1, <1>8, ServiceAssumption
  <2>2. b = Refused("ErrTransactionNotFound") \/ (Exists(x) /\ b = NewReversal(GetTransaction(x)))
    BY <1>1, <1>8, <2>1 DEF Builds
  <2>3. CASE b = Refused("ErrTransactionNotFound")
    BY <1>3, <1>8, <2>3
  <2>4. CASE Exists(x) /\ b = NewReversal(GetTransaction(x))
    <3>1. b.err # "ErrIdempotencyInFlight"
      BY <2>4, BuildersAreLocal
    <3>2. ASSUME b.err = "nil" PROVE ReversalFits(Described(b.txn, r))
      <4>1. GetTransaction(x).status = "POSTED"
        BY <2>4, <3>2 DEF NewReversal, Refused
      <4>2. GetTransaction(x) = [GetTransaction(x) EXCEPT !.status = "POSTED"]
        BY <4>1 DEF GetTransaction
      <4>3. b \in Reversals
        BY <2>4, <3>2, <4>2 DEF Reversals
      <4>4. ReversalFits(b.txn)
        BY <4>3, ReversalsFit
      <4>5. \E es, rev : b = Built(Txn("REVERSAL", es, rev))
        BY <2>4, <3>2 DEF NewReversal, Refused
      <4>6. Described(b.txn, r).entries = b.txn.entries /\ Described(b.txn, r).reverses = b.txn.reverses
        BY <4>5 DEF Built, Txn, Described
      <4> QED
        BY <4>4, <4>6 DEF ReversalFits
    <3> QED
      BY <1>1, <1>8, <3>1, <3>2
  <2> QED
    BY <2>2, <2>3, <2>4
<1> QED
  BY <1>1, <1>5, <1>6, <1>7, <1>8 DEF Keyed

----------------------------------------------------------------------------
(* Rows in the order of their ids.                                         *)

(* Rows listed with growing ids are the rows ORDER BY id gives (ledger_repo.go Post,
   GetTransaction).                                                          *)
LEMMA SortedIsById ==
  ASSUME NEW S, \A e \in S : e.id \in Int, NEW n \in Nat, NEW q,
         S = {q[i] : i \in 1..n}, \A i, j \in 1..n : i < j => q[i].id < q[j].id
  PROVE  Cardinality(S) = n /\ \A i \in 1..n : ById(S)[i] = q[i]
<1> DEFINE First(m) == {q[i] : i \in 1..m}
           Lower(e) == {f \in S : f.id < e.id}
<1>1. \A i \in 1..n : q[i] \in S /\ q[i].id \in Int
  OBVIOUS
<1>2. ASSUME NEW m \in 0..n PROVE Cardinality(First(m)) = m
  <2> DEFINE f == [i \in 1..m |-> q[i]]
  <2>1. \A i, j \in 1..m : q[i] = q[j] => i = j
    <3>1. \A i, j \in 1..m : i \in 1..n /\ j \in 1..n /\ (i < j \/ j < i \/ i = j)
      OBVIOUS
    <3>2. \A i, j \in 1..m : (i < j => q[i].id < q[j].id) /\ (j < i => q[j].id < q[i].id)
      BY <3>1
    <3> QED
      BY <1>1, <3>1, <3>2
  <2>2. f \in Bijection(1..m, First(m))
    BY <2>1 DEF Bijection, Injection, IsInjective, Surjection
  <2>3. IsFiniteSet(1..m) /\ Cardinality(1..m) = m
    BY FS_Interval
  <2>4. Cardinality(1..m) = m => ExistsBijection(1..m, First(m))
    BY <2>2 DEF ExistsBijection
  <2> HIDE DEF f, First
  <2> QED
    BY <2>3, <2>4, FS_Bijection
<1>3. Cardinality(S) = n
  BY <1>2
<1>4. ASSUME NEW i \in 1..n PROVE Cardinality(Lower(q[i])) = i - 1
  <2>1. i - 1 \in 0..n
    OBVIOUS
  <2>2. \A j \in 1..n : q[j].id < q[i].id <=> j \in 1..(i - 1)
    <3> TAKE j \in 1..n
    <3>1. j < i => q[j].id < q[i].id
      OBVIOUS
    <3>2. i < j => q[i].id < q[j].id
      OBVIOUS
    <3> QED
      BY <1>1, <3>1, <3>2
  <2>3. Lower(q[i]) = First(i - 1)
    BY <2>2
  <2> QED
    BY <1>2, <2>1, <2>3
<1>5. \A i \in 1..n : ById(S)[i] = CHOOSE e \in S : Cardinality(Lower(e)) = i - 1
  BY <1>3 DEF ById
<1> HIDE DEF Lower
<1>6. ASSUME NEW i \in 1..n, NEW e \in S, Cardinality(Lower(e)) = i - 1 PROVE e = q[i]
  <2>1. PICK j \in 1..n : e = q[j]
    OBVIOUS
  <2>2. j - 1 = i - 1
    BY <1>4, <1>6, <2>1
  <2> QED
    BY <2>1, <2>2
<1>7. \A i \in 1..n : q[i] = CHOOSE e \in S : Cardinality(Lower(e)) = i - 1
  BY <1>1, <1>4, <1>6
<1> QED
  BY <1>3, <1>5, <1>7

(* A stored result is what a reader of the transaction gets (ledger_repo.go
   GetTransaction, toStored).                                                *)
LEMMA StoredIsRead ==
  ASSUME IInv, TInv, NEW k \in ClaimKeys, Claimed(k), BodyOK(k)
  PROVE  PostResult(idem[k].txn) = idem[k].body
<1>1. PICK x, b : x = idem[k].txn /\ b = idem[k].body
  OBVIOUS
<1>2. NoClaim.code = 0
  BY DEF NoClaim
<1>3. x \in TxnIds /\ b \in Bodies
  BY <1>1, <1>2 DEF IInv, TypeOK, Claimed
<1>4. PICK n \in Nat : n = Len(b.entries) /\ b.entries = [i \in 1..n |-> b.entries[i]]
  BY <1>3 DEF Bodies
<1>5. RowsOfTxn(x) = {b.entries[i] : i \in 1..n}
  <2>1. idem[k] # NoClaim
    BY <1>2 DEF Claimed
  <2>2. {idem[k].body.entries[i] : i \in 1..Len(idem[k].body.entries)} = RowsOfTxn(idem[k].txn)
    BY <2>1, Zenon DEF TInv, ExactlyOnce
  <2> QED
    BY <1>1, <1>4, <2>2
<1>6. PICK S : S = RowsOfTxn(x)
  OBVIOUS
<1>7. \A e \in S : e.id \in Int
  <2>1. \A e \in RowTypes : e.id \in Int
    BY StoreAssumption DEF RowTypes
  <2> QED
    BY <1>6, <2>1 DEF IInv, TypeOK, RowsOfTxn
<1>8. \A i, j \in 1..n : i < j => b.entries[i].id < b.entries[j].id
  BY <1>1, <1>4 DEF BodyOK
<1>9. Cardinality(S) = n /\ \A i \in 1..n : ById(S)[i] = b.entries[i]
  BY <1>5, <1>6, <1>7, <1>8, SortedIsById
<1>10. ById(S) = b.entries
  <2>1. ById(S) = [i \in 1..n |-> ById(S)[i]]
    BY <1>9 DEF ById
  <2> QED
    BY <1>4, <1>9, <2>1
<1>11. b.txn = x /\ b.type = transactions[x].type /\ b.reverses = transactions[x].reverses
  BY <1>1 DEF BodyOK
<1>12. b = [txn |-> b.txn, type |-> b.type, reverses |-> b.reverses, entries |-> b.entries]
  BY <1>3 DEF Bodies
<1> QED
  BY <1>1, <1>6, <1>10, <1>11, <1>12 DEF PostResult, RowsOfTxn

----------------------------------------------------------------------------
(* What a step leaves to the others.                                       *)

ClaimsStay == \A k \in ClaimKeys : Claimed(k) => idem'[k] = idem[k]

Stays(r) ==
  /\ pc'[r] = pc[r] /\ call'[r] = call[r] /\ tid'[r] = tid[r]
  /\ posted'[r] = posted[r] /\ reply'[r] = reply[r]
  /\ at'[r] = at[r] /\ req'[r] = req[r] /\ answer'[r] = answer[r]

(* A handler that stays where it is knows what it knew.                    *)
LEMMA StaysOK ==
  ASSUME NEW r \in Sessions, Stays(r), ClaimsStay, HandlerOK(r)
  PROVE  HandlerOK(r)'
<1>1. /\ pc'[r] = pc[r] /\ call'[r] = call[r] /\ tid'[r] = tid[r]
      /\ posted'[r] = posted[r] /\ reply'[r] = reply[r]
      /\ at'[r] = at[r] /\ req'[r] = req[r] /\ answer'[r] = answer[r]
  BY DEF Stays
<1>2. /\ KeyOf(r)' = KeyOf(r) /\ Request(r)' = Request(r) /\ Accepted(r)' = Accepted(r)
      /\ Writing(r)' = Writing(r) /\ ClaimRow(r)' = ClaimRow(r)
      /\ \A ops : Succeeded(r, ops)' = Succeeded(r, ops)
  BY <1>1 DEF KeyOf, Request, Accepted, Writing, ClaimRow, Stored, Succeeded
<1>3. \A k \in ClaimKeys : Claimed(k) => Claimed(k)' /\ idem'[k] = idem[k]
  BY DEF ClaimsStay, Claimed
<1>4. PostingOK(r)'
  BY <1>1, <1>2 DEF HandlerOK, PostingOK, Touches
<1>5. pc[r] = "return" => KeyOf(r) \in ClaimKeys /\ call[r].key = KeyOf(r)
  BY DEF HandlerOK, PostingOK, Active
<1>6. ReplyOK(r)'
  BY <1>1, <1>2, <1>3, <1>5 DEF HandlerOK, ReplyOK
<1>7. AnswerOK(r)'
  <2>1. AnswerOK(r)
    BY DEF HandlerOK
  <2>2. Succeeded(r, Keyed) => KeyOf(r) \in ClaimKeys
    BY <2>1 DEF AnswerOK
  <2>3. answer'[r].err # "ErrIdempotencyInFlight"
    BY <1>1, <2>1 DEF AnswerOK
  <2>4. Succeeded(r, Keyed)' => /\ KeyOf(r)' \in ClaimKeys /\ Claimed(KeyOf(r))'
                                /\ idem'[KeyOf(r)'].hash = req'[r].hash
                                /\ answer'[r].body = idem'[KeyOf(r)'].body
    BY <1>1, <1>2, <1>3, <2>1, <2>2 DEF AnswerOK
  <2>5. Succeeded(r, {"get"})' => /\ \E k \in ClaimKeys : Claimed(k)' /\ idem'[k].body = answer'[r].body
                                  /\ req'[r].user \notin Admins =>
                                       /\ req'[r].user \in DOMAIN WalletOf
                                       /\ Touches(answer'[r].body.entries, req'[r].user)
    BY <1>1, <1>2, <1>3, <2>1 DEF AnswerOK
  <2>6. Succeeded(r, Keyed \union {"get"})' =>
          Accepted(r)' /\ answer'[r].viewer = Viewer(req'[r].user, Request(r)'.op)
    BY <1>1, <1>2, <2>1 DEF AnswerOK
  <2> QED
    BY <2>3, <2>4, <2>5, <2>6 DEF AnswerOK, Touches
<1>8. KeyOf(r) \in ClaimKeys \/ at[r] # "replay again"
  BY DEF HandlerOK, Active
<1> QED
  BY <1>1, <1>2, <1>3, <1>4, <1>6, <1>7, <1>8 DEF HandlerOK

(* A stored result stays as it is, and what it says of its transaction stays true.  *)
LEMMA BodiesKeep ==
  ASSUME IInv, TInv, [Next]_vars, NEW k \in ClaimKeys, Claimed(k), BodyOK(k)
  PROVE  BodyOK(k)'
<1>1. PICK b : b = idem[k].body
  OBVIOUS
<1>2. idem'[k] = idem[k]
  BY NextOneWay
<1>3. b.txn = idem[k].txn /\ b.txn \in TxnIds /\ Exists(b.txn)
  <2>1. NoClaim.code = 0
    BY DEF NoClaim
  <2>2. idem[k] # NoClaim
    BY <2>1 DEF Claimed
  <2>3. Exists(idem[k].txn)
    BY <2>2 DEF TInv, ExactlyOnce
  <2>4. idem[k].txn \in TxnIds
    BY <2>2 DEF IInv, TypeOK
  <2> QED
    BY <1>1, <2>3, <2>4 DEF BodyOK
<1>4. transactions[b.txn] \in TxnRows
  BY <1>3 DEF IInv, TypeOK
<1>5. /\ transactions'[b.txn].type = transactions[b.txn].type
      /\ transactions'[b.txn].reverses = transactions[b.txn].reverses
  <2>1. \/ transactions'[b.txn] = transactions[b.txn]
        \/ transactions'[b.txn] = [transactions[b.txn] EXCEPT !.status = "REVERSED"]
    BY <1>3, NextOneWay
  <2> QED
    BY <1>4, <2>1 DEF TxnRows
<1> QED
  BY <1>1, <1>2, <1>3, <1>5 DEF BodyOK, Touches

----------------------------------------------------------------------------
(* The statements of Post.                                                 *)

\* A session in Post goes on, or returns what ReplyOK says of it.
GoesOn(s) ==
  /\ pc'[s] # "idle" /\ call' = call
  /\ \A r \in Sessions \ {s} : /\ pc'[r] = pc[r] /\ tid'[r] = tid[r]
                               /\ posted'[r] = posted[r] /\ reply'[r] = reply[r]
  /\ ReplyOK(s)'

(* The deferred Rollback says that a key is taken only when it is.         *)
LEMMA RollbackGoesOn ==
  ASSUME IInv, NEW s \in Sessions, NEW err, err # "nil",
         err = "ErrIdempotencyInFlight" => Claimed(call[s].key), Rollback(s, err)
  PROVE  GoesOn(s)
<1>1. pc'[s] = "return" /\ reply'[s] = err /\ posted'[s] = <<>> /\ UNCHANGED <<idem, call>>
  BY DEF Rollback, Return, IInv, TypeOK, tables
<1>2. ReplyOK(s)'
  BY <1>1 DEF ReplyOK, Writing, Claimed
<1> QED
  BY <1>1, <1>2 DEF GoesOn, Rollback, Return, IInv, TypeOK

(* An entry is refused for itself or for its account.                      *)
LEMMA EntryErrorIsLocal ==
  ASSUME NEW s, NEW e
  PROVE  EntryError(s, e) # "ErrIdempotencyInFlight"
BY BuildersAreLocal DEF EntryError

(* A row gets an id past those of the rows before it (migration 000001, entries.id).  *)
LEMMA EntryGoesOn ==
  ASSUME IInv, NEW s \in Sessions, ReplyOK(s), PostEntry(s)
  PROVE  GoesOn(s)
<1>1. CASE EntryError(s, ThisEntry(s)) # "nil"
  BY <1>1, RollbackGoesOn, EntryErrorIsLocal DEF PostEntry
<1>2. CASE EntryError(s, ThisEntry(s)) = "nil"
  <2>1. PICK row : row = EntryRow(s, ThisEntry(s))
    OBVIOUS
  <2>2. /\ posted' = [posted EXCEPT ![s] = Append(@, row)]
        /\ UNCHANGED <<pc, call, tid, reply>> /\ pc[s] = "entry"
    BY <1>2, <2>1 DEF PostEntry
  <2>3. row.id = entrySeq + 1 /\ entrySeq \in Int
    <3>1. row.id = entrySeq + 1
      BY <2>1 DEF EntryRow
    <3>2. entrySeq \in 0..MaxEntryId
      BY DEF IInv, TypeOK
    <3> QED
      BY <3>1, <3>2
  <2>4. PICK n \in Nat : n = Len(posted[s]) /\ posted[s] \in Seq(RowTypes)
    <3>1. posted[s] \in Seq(RowTypes)
      BY DEF IInv, TypeOK
    <3> QED
      BY <3>1
  <2>5. \A i \in 1..n : posted[s][i].id <= entrySeq /\ posted[s][i].id \in Int
    <3>1. WrittenOK(s) /\ Writing(s)
      BY <2>2 DEF IInv, Writing
    <3>2. \A i \in 1..n : posted[s][i] \in RowTypes
      BY <2>4, ElementOfSeq DEF IInv, TypeOK
    <3>3. \A e \in RowTypes : e.id \in Int
      BY StoreAssumption DEF RowTypes
    <3> QED
      BY <2>4, <3>1, <3>2, <3>3 DEF WrittenOK
  <2>6. /\ Len(posted'[s]) = n + 1 /\ posted'[s][n + 1] = row
        /\ \A i \in 1..n : posted'[s][i] = posted[s][i]
    BY <2>2, <2>4 DEF IInv, TypeOK
  <2>7. ASSUME NEW i \in 1..(n + 1), NEW j \in 1..(n + 1), i < j
        PROVE  posted'[s][i].id < posted'[s][j].id
    <3>1. i \in 1..n
      BY <2>7
    <3>2. CASE j = n + 1
      <4>1. posted'[s][j] = row /\ posted'[s][i] = posted[s][i]
        BY <2>6, <3>1, <3>2
      <4>2. posted[s][i].id < row.id
        BY <2>3, <2>5, <3>1
      <4> QED
        BY <4>1, <4>2
    <3>3. CASE j # n + 1
      <4>1. j \in 1..n
        BY <3>3
      <4>2. posted[s][i].id < posted[s][j].id
        BY <2>2, <2>4, <2>7, <3>1, <4>1 DEF ReplyOK, Writing
      <4> QED
        BY <2>6, <3>1, <4>1, <4>2
    <3> QED
      BY <3>2, <3>3
  <2>8. ReplyOK(s)'
    BY <2>2, <2>6, <2>7 DEF ReplyOK, Writing
  <2> QED
    BY <2>2, <2>8 DEF GoesOn, IInv, TypeOK
<1> QED
  BY <1>1, <1>2

(* Post says "nil" when its row is there.                                  *)
LEMMA StepGoesOn ==
  ASSUME IInv, TInv, NEW s \in Sessions, ReplyOK(s), Step(s) \/ CommitLost(s) \/ Abort(s)
  PROVE  GoesOn(s)
<1>1. ASSUME NEW l \in InTxn, Goto(s, l), UNCHANGED <<call, tid, posted, reply>>,
             Writing(s)' => (Writing(s) \/ posted[s] = <<>>)
      PROVE  GoesOn(s)
  <2>1. pc'[s] = l /\ \A r \in Sessions \ {s} : pc'[r] = pc[r]
    BY <1>1 DEF Goto, IInv, TypeOK
  <2>2. ReplyOK(s)'
    BY <1>1, <2>1 DEF ReplyOK, InTxn
  <2> QED
    BY <1>1, <2>1, <2>2 DEF GoesOn, InTxn
<1>2. CASE Claim(s)
  BY <1>1, <1>2, RollbackGoesOn DEF Claim, Goto, Writing, InTxn, IInv, TypeOK
<1>3. CASE LockRow(s)
  BY <1>3 DEF LockRow, GoesOn, ReplyOK, Writing
<1>4. CASE CheckLocked(s)
  <2>1. CASE CheckError(s) # "nil"
    <3>1. CheckError(s) # "ErrIdempotencyInFlight"
      BY DEF CheckError
    <3> QED
      BY <1>4, <2>1, <3>1, RollbackGoesOn DEF CheckLocked
  <2>2. CASE CheckError(s) = "nil"
    <3>1. PICK l \in {"header", "mark"} : Goto(s, l) /\ UNCHANGED <<call, tid, posted, reply>>
      BY <1>4, <2>2 DEF CheckLocked
    <3> QED
      BY <1>1, <3>1 DEF Goto, Writing, InTxn, IInv, TypeOK
  <2> QED
    BY <2>1, <2>2
<1>5. CASE Mark(s)
  BY <1>1, <1>5, RollbackGoesOn DEF Mark, Goto, Writing, InTxn, IInv, TypeOK
<1>6. CASE InsertHeader(s)
  <2>1. CASE HeaderError(s) # "nil"
    <3>1. HeaderError(s) # "ErrIdempotencyInFlight"
      BY DEF HeaderError
    <3> QED
      BY <1>6, <2>1, <3>1, RollbackGoesOn DEF InsertHeader
  <2>2. CASE HeaderError(s) = "nil"
    <3>1. /\ Goto(s, "entry") /\ UNCHANGED <<call, posted, reply>> /\ posted[s] = <<>>
          /\ \A r \in Sessions \ {s} : tid'[r] = tid[r]
      BY <1>6, <2>2 DEF InsertHeader, IInv, TypeOK, SessionOK, InTxn
    <3>2. pc'[s] = "entry" /\ \A r \in Sessions \ {s} : pc'[r] = pc[r]
      BY <3>1 DEF Goto, IInv, TypeOK
    <3>3. ReplyOK(s)'
      BY <3>1, <3>2 DEF ReplyOK
    <3> QED
      BY <3>1, <3>2, <3>3 DEF GoesOn
  <2> QED
    BY <2>1, <2>2
<1>7. CASE PostEntry(s)
  BY <1>7, EntryGoesOn
<1>8. CASE SaveResult(s)
  BY <1>1, <1>8 DEF SaveResult, Writing, InTxn
<1>9. CASE Commit(s) /\ CommitError(s) # "nil"
  <2>1. CommitError(s) # "ErrIdempotencyInFlight"
    BY DEF CommitError
  <2> QED
    BY <1>9, <2>1, RollbackGoesOn DEF Commit
<1>10. CASE Commit(s) /\ CommitError(s) = "nil"
  <2>1. Apply(s) /\ Return(s, "nil") /\ UNCHANGED <<call, tid, posted>> /\ pc[s] = "commit"
    BY <1>10 DEF Commit
  <2>2. pc'[s] = "return" /\ reply'[s] = "nil" /\ \A r \in Sessions \ {s} : pc'[r] = pc[r] /\ reply'[r] = reply[r]
    BY <2>1 DEF Return, IInv, TypeOK
  <2>3. PICK x0, rev, key : Commits(s, x0, rev, key)
    BY <2>1 DEF Commits
  <2>4. idem'[call[s].key] = ClaimRow(s)
    <3>1. CommitEffect(s, x0, rev, key)
      BY <2>3, CommitFacts
    <3> QED
      BY <2>3, <3>1 DEF Commits, CommitEffect
  <2>5. ClaimRow(s)' = ClaimRow(s) /\ ClaimRow(s).code = 201
    BY <2>1 DEF ClaimRow, Stored
  <2>6. ReplyOK(s)'
    BY <2>1, <2>2, <2>4, <2>5 DEF ReplyOK, Writing, Claimed
  <2> QED
    BY <2>1, <2>2, <2>6 DEF GoesOn
<1>11. CASE CommitLost(s)
  <2>1. pc'[s] = "return" /\ reply'[s] = "ErrContext" /\ posted'[s] = <<>>
    BY <1>11 DEF CommitLost, Return, IInv, TypeOK
  <2>2. ReplyOK(s)'
    BY <2>1 DEF ReplyOK, Writing
  <2> QED
    BY <1>11, <2>1, <2>2 DEF GoesOn, CommitLost, Return, IInv, TypeOK
<1>12. CASE Abort(s)
  BY <1>12, RollbackGoesOn DEF Abort
<1> QED
  BY <1>2, <1>3, <1>4, <1>5, <1>6, <1>7, <1>8, <1>9, <1>10, <1>11, <1>12 DEF Step

(* The result a commit stores is the transaction it stores, with an entry on the wallet
   of the user whose key it is (ledger_repo.go Post steps 4 to 6).           *)
LEMMA CommitBody ==
  ASSUME IInv, TInv, NEW s \in Sessions, HandlerOK(s), pc[s] = "commit", Apply(s),
         NEW k \in ClaimKeys, ~Claimed(k)
  PROVE  BodyOK(k)'
<1>1. PICK x0, rev, key : Commits(s, x0, rev, key)
  BY DEF Commits
<1>2. CommitEffect(s, x0, rev, key)
  BY <1>1, CommitFacts
<1>3. CASE k # key
  BY <1>2, <1>3 DEF CommitEffect, BodyOK, Claimed
<1>4. CASE k = key
  <2>1. idem'[k] = ClaimRow(s) /\ transactions'[x0] = HeaderRow(s)
    BY <1>2, <1>4 DEF CommitEffect
  <2>2. PICK b : b = idem'[k].body
    OBVIOUS
  <2>3. b = Stored(s) /\ idem'[k].txn = x0
    BY <1>1, <2>1, <2>2 DEF ClaimRow, Commits
  <2>4. /\ b.txn = x0 /\ b.entries = posted[s]
        /\ b.type = transactions'[x0].type /\ b.reverses = transactions'[x0].reverses
    BY <1>1, <2>1, <2>3 DEF Stored, HeaderRow, Commits
  <2>5. \A i, j \in 1..Len(posted[s]) : i < j => posted[s][i].id < posted[s][j].id
    BY DEF HandlerOK, ReplyOK, Writing
  <2>6. k[1] \notin Admins => Touches(posted[s], k[1])
    <3>1. /\ k = KeyOf(s)
          /\ req[s].user \notin Admins => Touches(call[s].txn.entries, req[s].user)
      BY <1>1, <1>4 DEF HandlerOK, PostingOK, Commits
    <3>2. k[1] = req[s].user
      BY <3>1 DEF KeyOf
    <3>3. Len(posted[s]) = Len(call[s].txn.entries) /\ WrittenOK(s)
      BY DEF IInv, TInv, DraftsOK, DraftOK
    <3>4. \A i \in 1..Len(posted[s]) : posted[s][i].account = call[s].txn.entries[i].account
      BY <3>3 DEF WrittenOK, Writing
    <3> QED
      BY <3>1, <3>2, <3>3, <3>4 DEF Touches
  <2> QED
    BY <2>2, <2>3, <2>4, <2>5, <2>6 DEF BodyOK, Touches
<1> QED
  BY <1>3, <1>4

(* Every step of the store leaves every stored result as it should be.     *)
LEMMA NextBodies ==
  ASSUME IInv, TInv, ServiceInv, [Next]_vars, NEW k \in ClaimKeys
  PROVE  BodyOK(k)'
<1>1. BodyOK(k) /\ \A s \in Sessions : HandlerOK(s)
  BY DEF ServiceInv
<1>2. CASE Claimed(k)
  BY <1>1, <1>2, BodiesKeep
<1>3. CASE ~Claimed(k) /\ NothingCommitted
  BY <1>3 DEF NothingCommitted, BodyOK, Claimed
<1>4. CASE ~Claimed(k) /\ \E s \in Sessions : pc[s] = "commit" /\ Apply(s)
  BY <1>1, <1>4, CommitBody
<1> QED
  BY <1>2, <1>3, <1>4, WritesAreCommits

(* A statement of Post keeps the service in order.                         *)
LEMMA StepService ==
  ASSUME IInv, TInv, ServiceInv, NEW s \in Sessions,
         Step(s) \/ CommitLost(s) \/ Abort(s), UNCHANGED svars
  PROVE  ServiceInv'
<1>1. [Next]_vars
  BY DEF Next
<1>2. ClaimsStay
  BY <1>1, NextOneWay DEF ClaimsStay
<1>3. \A r \in Sessions : HandlerOK(r)
  BY DEF ServiceInv
<1>4. GoesOn(s)
  BY <1>3, StepGoesOn DEF HandlerOK
<1>5. UNCHANGED <<at, req, answer>>
  BY DEF svars
<1>6. \A r \in Sessions \ {s} : HandlerOK(r)'
  <2>1. \A r \in Sessions \ {s} : Stays(r)
    BY <1>4, <1>5 DEF Stays, GoesOn
  <2> QED
    BY <1>2, <1>3, <2>1, StaysOK
<1>7. HandlerOK(s)'
  <2>1. at[s] = "posting"
    <3>1. pc[s] \in InTxn
      BY DEF Step, CommitLost, Abort, InTxn, Claim, LockRow, CheckLocked, Mark, InsertHeader,
             PostEntry, SaveResult, Commit
    <3> QED
      BY <1>3, <3>1 DEF HandlerOK, PostingOK, InTxn
  <2>2. PostingOK(s)'
    BY <1>3, <1>4, <1>5, <2>1 DEF HandlerOK, PostingOK, GoesOn, KeyOf, Touches
  <2>3. AnswerOK(s)'
    BY <1>3, <1>5, <2>1 DEF HandlerOK, AnswerOK, Succeeded
  <2> QED
    BY <1>3, <1>4, <1>5, <2>1, <2>2, <2>3 DEF HandlerOK, GoesOn, Request, Accepted, KeyOf
<1>8. \A k \in ClaimKeys : BodyOK(k)'
  BY <1>1, NextBodies
<1> QED
  BY <1>3, <1>5, <1>6, <1>7, <1>8 DEF ServiceInv

----------------------------------------------------------------------------
(* The steps of a handler, none of which commits.                          *)

\* The store under the other handlers, and what it has committed.
StoreKeeps(s) ==
  /\ UNCHANGED <<transactions, idem>>
  /\ \A r \in Sessions \ {s} :
       /\ pc'[r] = pc[r] /\ call'[r] = call[r] /\ tid'[r] = tid[r]
       /\ posted'[r] = posted[r] /\ reply'[r] = reply[r]

(* A handler that is in order afterwards leaves the others so.             *)
LEMMA HandlerMoves ==
  ASSUME ServiceInv, NEW s \in Sessions, StoreKeeps(s), HandlerOK(s)',
         NEW l \in Active \union {"idle", "read", "answered"}, at' = [at EXCEPT ![s] = l],
         NEW q, req' = [req EXCEPT ![s] = q], NEW a, answer' = [answer EXCEPT ![s] = a]
  PROVE  ServiceInv'
<1>1. /\ at \in [Sessions -> Active \union {"idle", "read", "answered"}]
      /\ req = [r \in Sessions |-> req[r]] /\ answer = [r \in Sessions |-> answer[r]]
      /\ \A r \in Sessions : HandlerOK(r)
      /\ \A k \in ClaimKeys : BodyOK(k)
  BY DEF ServiceInv
<1>2. at' \in [Sessions -> Active \union {"idle", "read", "answered"}]
  BY <1>1
<1>3. req' = [r \in Sessions |-> req'[r]] /\ answer' = [r \in Sessions |-> answer'[r]]
  <2>1. DOMAIN req = Sessions /\ DOMAIN answer = Sessions
    BY <1>1
  <2>2. req' = [r \in Sessions |-> IF r = s THEN q ELSE req[r]]
    BY <2>1
  <2>3. answer' = [r \in Sessions |-> IF r = s THEN a ELSE answer[r]]
    BY <2>1
  <2> QED
    BY <2>2, <2>3
<1>4. \A r \in Sessions \ {s} : Stays(r)
  BY <1>1 DEF Stays, StoreKeeps
<1>5. ClaimsStay
  BY DEF ClaimsStay, StoreKeeps
<1>6. \A r \in Sessions : HandlerOK(r)'
  BY <1>1, <1>4, <1>5, StaysOK
<1>7. \A k \in ClaimKeys : BodyOK(k)'
  BY <1>1 DEF StoreKeeps, BodyOK, Claimed, Touches
<1> QED
  BY <1>2, <1>3, <1>6, <1>7 DEF ServiceInv

(* A handler that does not touch its request or its answer.                *)
LEMMA ContinueOK ==
  ASSUME ServiceInv, NEW s \in Sessions, StoreKeeps(s), NEW l \in Active, Continue(s, l),
         at[s] \in Active, KeyOf(s) \in ClaimKeys,
         l = "replay again" => Claimed(KeyOf(s)), PostingOK(s)', ReplyOK(s)'
  PROVE  ServiceInv'
<1>1. /\ at' = [at EXCEPT ![s] = l] /\ UNCHANGED <<req, answer>>
      /\ req = [r \in Sessions |-> req[r]] /\ answer = [r \in Sessions |-> answer[r]]
      /\ DOMAIN at = Sessions /\ HandlerOK(s)
  BY DEF Continue, ServiceInv
<1>2. at'[s] = l /\ req'[s] = req[s] /\ answer'[s] = answer[s]
  BY <1>1
<1>3. KeyOf(s)' = KeyOf(s) /\ Request(s)' = Request(s) /\ Accepted(s)' = Accepted(s)
  BY <1>2 DEF KeyOf, Request, Accepted
<1>4. Claimed(KeyOf(s))' = Claimed(KeyOf(s))
  BY <1>3 DEF Claimed, StoreKeeps
<1>5. AnswerOK(s)'
  BY <1>1, <1>2 DEF HandlerOK, AnswerOK, Succeeded, Active
<1>6. HandlerOK(s)'
  BY <1>1, <1>2, <1>3, <1>4, <1>5 DEF HandlerOK, Active
<1>7. req' = [req EXCEPT ![s] = req[s]] /\ answer' = [answer EXCEPT ![s] = answer[s]]
  BY <1>1
<1> QED
  BY <1>1, <1>6, <1>7, HandlerMoves

(* A handler that has answered is in order if its answer is.               *)
LEMMA AnswerMoves ==
  ASSUME ServiceInv, NEW s \in Sessions, StoreKeeps(s), pc'[s] = "idle",
         at' = [at EXCEPT ![s] = "answered"], UNCHANGED req,
         NEW a, answer' = [answer EXCEPT ![s] = a], AnswerOK(s)'
  PROVE  ServiceInv'
<1>1. /\ req = [r \in Sessions |-> req[r]] /\ DOMAIN at = Sessions
  BY DEF ServiceInv
<1>2. at'[s] = "answered"
  BY <1>1
<1>3. PostingOK(s)' /\ ReplyOK(s)'
  BY <1>2 DEF PostingOK, ReplyOK, Writing
<1>4. HandlerOK(s)'
  BY <1>2, <1>3 DEF HandlerOK, Active
<1>5. req' = [req EXCEPT ![s] = req[s]]
  BY <1>1
<1> QED
  BY <1>4, <1>5, HandlerMoves

(* An error is the answer, and not that of a key in flight.                *)
LEMMA AnswerErrorOK ==
  ASSUME ServiceInv, NEW s \in Sessions, StoreKeeps(s), pc'[s] = "idle", NEW err,
         err # "ErrIdempotencyInFlight",
         err = "nil" => Request(s).op \notin Keyed \union {"get"}, AnswerError(s, err)
  PROVE  ServiceInv'
<1>1. PICK a : a = [NoAnswer EXCEPT !.err = err]
  OBVIOUS
<1>2. a.err = err
  BY <1>1 DEF NoAnswer
<1>3. answer' = [answer EXCEPT ![s] = a] /\ at' = [at EXCEPT ![s] = "answered"] /\ UNCHANGED req
  BY <1>1 DEF AnswerError
<1>4. answer'[s].err = err
  BY <1>2, <1>3 DEF ServiceInv
<1>5. AnswerOK(s)'
  BY <1>3, <1>4 DEF AnswerOK, Succeeded, Request
<1> QED
  BY <1>3, <1>5, AnswerMoves

(* A result is the answer, that of the own key or one that may be read.    *)
LEMMA AnswerResultOK ==
  ASSUME ServiceInv, NEW s \in Sessions, StoreKeeps(s), pc'[s] = "idle", NEW body,
         AnswerResult(s, body), Accepted(s),
         Request(s).op \in Keyed => /\ KeyOf(s) \in ClaimKeys /\ Claimed(KeyOf(s))
                                    /\ idem[KeyOf(s)].hash = req[s].hash
                                    /\ body = idem[KeyOf(s)].body,
         Request(s).op = "get" => /\ \E k \in ClaimKeys : Claimed(k) /\ idem[k].body = body
                                  /\ req[s].user \notin Admins =>
                                       /\ req[s].user \in DOMAIN WalletOf
                                       /\ Touches(body.entries, req[s].user)
  PROVE  ServiceInv'
<1>1. PICK a : a = [err |-> "nil", body |-> body, viewer |-> Viewer(req[s].user, Request(s).op)]
  OBVIOUS
<1>2. a.err = "nil" /\ a.body = body /\ a.viewer = Viewer(req[s].user, Request(s).op)
  BY <1>1
<1>3. answer' = [answer EXCEPT ![s] = a] /\ at' = [at EXCEPT ![s] = "answered"] /\ UNCHANGED req
  BY <1>1 DEF AnswerResult
<1>4. answer'[s] = a
  BY <1>3 DEF ServiceInv
<1>5. /\ KeyOf(s)' = KeyOf(s) /\ Request(s)' = Request(s) /\ Accepted(s)' = Accepted(s)
      /\ req' = req /\ idem' = idem
  BY <1>3 DEF KeyOf, Request, Accepted, StoreKeeps
<1>6. AnswerOK(s)'
  BY <1>2, <1>4, <1>5 DEF AnswerOK, Succeeded, Claimed, Touches
<1> QED
  BY <1>3, <1>6, AnswerMoves

----------------------------------------------------------------------------
(* The actions of a handler.                                               *)

(* A step that leaves the store alone.                                     *)
LEMMA StoreAlone ==
  ASSUME ServiceInv, NEW s \in Sessions, UNCHANGED vars
  PROVE  /\ StoreKeeps(s)
         /\ at[s] # "posting" => pc'[s] = "idle"
BY DEF StoreKeeps, vars, tables, session, ServiceInv, HandlerOK, PostingOK

(* A request is refused, or its handler starts (router.go, middleware.go).  *)
LEMMA ReceiveService ==
  ASSUME ServiceInv, NEW s \in Sessions, NEW c \in Traffic,
         NEW k \in IF RequestOf[c[2]].op \in Keyed THEN Headers ELSE {BadKey},
         Receive(s, c, k)
  PROVE  ServiceInv'
<1>0. PICK allowed \in BOOLEAN :
        LET err == Refusal[c][k][allowed]
        IN  /\ at' = [at EXCEPT ![s] = IF err # "nil" THEN "answered"
                                       ELSE IF RequestOf[c[2]].op \in Keyed THEN "replay"
                                       ELSE "read"]
            /\ answer' = [answer EXCEPT ![s].err = err]
  BY DEF Receive
<1>1. PICK err :
        /\ err = Refusal[c][k][allowed]
        /\ at' = [at EXCEPT ![s] = IF err # "nil" THEN "answered"
                                   ELSE IF RequestOf[c[2]].op \in Keyed THEN "replay"
                                   ELSE "read"]
        /\ answer' = [answer EXCEPT ![s].err = err]
  BY <1>0
<1>2. at[s] = "idle" /\ UNCHANGED vars
  BY DEF Receive
<1>3. StoreKeeps(s) /\ pc'[s] = "idle"
  BY <1>2, StoreAlone
<1>4. PICK q : q = [user |-> c[1], key |-> k, hash |-> c[2]]
  OBVIOUS
<1>5. PICK a : a = [answer[s] EXCEPT !.err = err]
  OBVIOUS
<1>6. PICK l : l = IF err # "nil" THEN "answered"
                   ELSE IF RequestOf[c[2]].op \in Keyed THEN "replay" ELSE "read"
  OBVIOUS
<1>7. /\ req' = [req EXCEPT ![s] = q] /\ answer' = [answer EXCEPT ![s] = a]
      /\ at' = [at EXCEPT ![s] = l] /\ l \in {"answered", "replay", "read"}
  BY <1>1, <1>4, <1>5, <1>6 DEF Receive
<1>8. at'[s] = l /\ req'[s] = q /\ answer'[s] = a
  BY <1>7 DEF ServiceInv
<1>9. a.err = err
  <2>1. answer[s] = NoAnswer
    BY <1>2 DEF ServiceInv, HandlerOK
  <2>2. a = [NoAnswer EXCEPT !.err = err]
    BY <1>5, <2>1
  <2> QED
    BY <2>2 DEF NoAnswer
<1>10. /\ err # "ErrIdempotencyInFlight"
       /\ err = "nil" =>
            LET op == RequestOf[c[2]].op
            IN  /\ c[1] \in Users
                /\ op \in Keyed => k \in Keys \union GarbledKeys
                /\ op = "reverse" => c[1] \in Admins
                /\ op \in Limited => c[1] \in DOMAIN WalletOf
  <2>1. k \in Headers
    BY DEF Headers
  <2> QED
    BY <1>1, <2>1, NotRefused
<1>11. err = "nil" => Accepted(s)' /\ (l = "replay" <=> Request(s)'.op \in Keyed)
  <2> SUFFICES ASSUME err = "nil"
               PROVE  Accepted(s)' /\ (l = "replay" <=> Request(s)'.op \in Keyed)
    OBVIOUS
  <2>1. req'[s].user = c[1] /\ req'[s].key = k /\ req'[s].hash = c[2]
    BY <1>4, <1>8
  <2>2. Request(s)' = RequestOf[c[2]] /\ KeyOf(s)' = <<c[1], k>> /\ c[2] \in Hashes
    BY <2>1, TrafficAssumption DEF Request, KeyOf
  <2>3. Accepted(s)'
    BY <1>10, <2>1, <2>2 DEF Accepted, ClaimKeys
  <2> QED
    BY <1>6, <2>2, <2>3
<1>12. PostingOK(s)' /\ ReplyOK(s)'
  BY <1>3, <1>7, <1>8 DEF PostingOK, ReplyOK, Writing
<1>13. AnswerOK(s)'
  BY <1>6, <1>8, <1>9, <1>10 DEF AnswerOK, Succeeded
<1>14. HandlerOK(s)'
  BY <1>6, <1>7, <1>8, <1>11, <1>12, <1>13 DEF HandlerOK, Active
<1> QED
  BY <1>3, <1>7, <1>14, HandlerMoves DEF Active

(* A claim that is visible has its result (service/ledger.go replay).      *)
LEMMA ReplayService ==
  ASSUME TInv, ServiceInv, NEW s \in Sessions, Replay(s)
  PROVE  ServiceInv'
<1>1. at[s] \in {"replay", "replay again"} /\ UNCHANGED vars
  BY DEF Replay
<1>2. StoreKeeps(s) /\ pc'[s] = "idle"
  BY <1>1, StoreAlone
<1>3. /\ Request(s).op \in Keyed /\ Accepted(s)
      /\ at[s] = "replay again" => Claimed(KeyOf(s))
  BY <1>1 DEF ServiceInv, HandlerOK, Active
<1>4. CASE req[s].key \in GarbledKeys
  <2>1. AnswerError(s, "PgError")
    BY <1>4 DEF Replay
  <2> QED
    BY <1>2, <2>1, AnswerErrorOK
<1>5. req[s].key \notin GarbledKeys => KeyOf(s) \in ClaimKeys
  BY <1>3 DEF Accepted, KeyOf, ClaimKeys
<1>6. KeyOf(s) \in ClaimKeys /\ Find(s) # NoClaim => Find(s).code = 201
  <2>1. \A k \in ClaimKeys : idem[k] # NoClaim => idem[k].code = 201
    BY DEF TInv, ExactlyOnce
  <2> QED
    BY <2>1 DEF Find
<1>7. CASE req[s].key \notin GarbledKeys /\ Find(s) # NoClaim /\ ReplayError(s) = "nil"
  <2>1. Find(s).hash = req[s].hash /\ Claimed(KeyOf(s)) /\ Find(s) = idem[KeyOf(s)]
    BY <1>6, <1>7, <1>5 DEF ReplayError, Claimed, Find
  <2>2. AnswerResult(s, Find(s).body)
    BY <1>7 DEF Replay
  <2> QED
    BY <1>2, <1>3, <1>7, <1>5, <2>1, <2>2, AnswerResultOK DEF Keyed
<1>8. CASE req[s].key \notin GarbledKeys /\ Find(s) # NoClaim /\ ReplayError(s) # "nil"
  <2>1. ReplayError(s) = "ErrIdempotencyConflict"
    BY <1>6, <1>8, <1>5 DEF ReplayError
  <2>2. AnswerError(s, ReplayError(s))
    BY <1>8 DEF Replay
  <2> QED
    BY <1>2, <2>1, <2>2, AnswerErrorOK
<1>9. CASE req[s].key \notin GarbledKeys /\ Find(s) = NoClaim
  <2>1. ~Claimed(KeyOf(s))
    <3>1. NoClaim.code = 0
      BY DEF NoClaim
    <3> QED
      BY <1>9, <3>1 DEF Find, Claimed
  <2>2. at[s] = "replay" /\ Continue(s, "build")
    BY <1>1, <1>3, <1>9, <2>1 DEF Replay
  <2>3. at'[s] = "build"
    BY <2>2 DEF Continue, ServiceInv
  <2>4. PostingOK(s)' /\ ReplyOK(s)'
    BY <1>2, <2>3 DEF PostingOK, ReplyOK, Writing
  <2> QED
    BY <1>1, <1>2, <1>9, <1>5, <2>2, <2>4, ContinueOK DEF Active
<1> QED
  BY <1>7, <1>8, <1>9, <1>4

(* A transaction is built and posted under the key of its request, or refused
   (service/ledger.go postIdempotent).                                       *)
LEMMA BuildService ==
  ASSUME IInv, RowIdsOK, ServiceInv, NEW s \in Sessions, Build(s)
  PROVE  /\ ServiceInv'
         /\ \/ UNCHANGED vars
            \/ \E t : ReversalFits(t) /\ \E k \in ClaimKeys, h \in Hashes : Post(s, t, k, h)
<1>1. PICK b \in Builds(req[s].user, Request(s)) : \E t, err :
        /\ t = Described(b.txn, Request(s))
        /\ err = IF b.err # "nil" THEN b.err ELSE Validate(t)
        /\ IF err = "nil"
           THEN Continue(s, "posting") /\ Post(s, t, KeyOf(s), req[s].hash)
           ELSE AnswerError(s, err) /\ UNCHANGED vars
  BY DEF Build
<1>0. PICK t, err :
        /\ t = Described(b.txn, Request(s))
        /\ err = IF b.err # "nil" THEN b.err ELSE Validate(t)
        /\ IF err = "nil"
           THEN Continue(s, "posting") /\ Post(s, t, KeyOf(s), req[s].hash)
           ELSE AnswerError(s, err) /\ UNCHANGED vars
  BY <1>1
<1>2. at[s] = "build"
  BY DEF Build
<1>3. /\ Request(s).op \in Keyed /\ Accepted(s) /\ KeyOf(s) \in ClaimKeys
      /\ req[s].user \in Users /\ req[s].hash \in Hashes /\ pc[s] = "idle"
  BY <1>2 DEF ServiceInv, HandlerOK, PostingOK, Accepted, Active
<1>4. PICK u \in Users, h \in Hashes : u = req[s].user /\ h = req[s].hash
  BY <1>3
<1>5. Request(s) = RequestOf[h] /\ b \in Builds(u, RequestOf[h]) /\ RequestOf[h].op \in Keyed
  BY <1>3, <1>4 DEF Request
<1>6. /\ b.err # "ErrIdempotencyInFlight"
      /\ b.err = "nil" => ReversalFits(t)
      /\ (b.err = "nil" /\ RequestOf[h].op # "reverse") => Touches(t.entries, u)
  BY <1>0, <1>5, BuiltFits
<1>7. CASE err # "nil"
  <2>1. err # "ErrIdempotencyInFlight"
    BY <1>0, <1>6, BuildersAreLocal
  <2> QED
    BY <1>0, <1>2, <1>7, <2>1, StoreAlone, AnswerErrorOK
<1>8. CASE err = "nil"
  <2>1. b.err = "nil" /\ Validate(t) = "nil" /\ Continue(s, "posting") /\ Post(s, t, KeyOf(s), h)
    BY <1>0, <1>4, <1>8
  <2>2. /\ pc' = [pc EXCEPT ![s] = "claim"]
        /\ call' = [call EXCEPT ![s] = [txn |-> t, key |-> KeyOf(s), hash |-> h]]
        /\ UNCHANGED <<transactions, idem, tid, posted, reply>>
    BY <2>1 DEF Post, Goto, tables
  <2>3. /\ pc'[s] = "claim" /\ call'[s] = [txn |-> t, key |-> KeyOf(s), hash |-> h]
        /\ StoreKeeps(s)
    BY <2>2 DEF IInv, TypeOK, StoreKeeps
  <2>4. at'[s] = "posting" /\ req' = req
    BY <2>1 DEF Continue, ServiceInv
  <2>5. req[s].user \notin Admins => Touches(t.entries, req[s].user)
    BY <1>3, <1>4, <1>5, <1>6, <2>1 DEF Accepted
  <2>6. call'[s].txn = t /\ call'[s].key = KeyOf(s) /\ call'[s].hash = h /\ KeyOf(s)' = KeyOf(s)
    BY <2>3, <2>4 DEF KeyOf
  <2>7. PostingOK(s)'
    BY <1>4, <2>3, <2>4, <2>5, <2>6 DEF PostingOK, Touches
  <2>8. ReplyOK(s)'
    BY <2>3 DEF ReplyOK, Writing
  <2>9. ServiceInv'
    BY <1>2, <1>3, <2>1, <2>3, <2>7, <2>8, ContinueOK DEF Active
  <2>10. ReversalFits(t)
    BY <1>6, <2>1
  <2>11. \E k \in ClaimKeys : Post(s, t, k, h)
    BY <1>3, <2>1
  <2> QED
    BY <2>9, <2>10, <2>11
<1> QED
  BY <1>7, <1>8

(* What Post returns is the answer, or the key is looked up again (service/ledger.go
   postIdempotent).                                                          *)
LEMMA ReturnedService ==
  ASSUME IInv, ServiceInv, NEW s \in Sessions, Returned(s)
  PROVE  ServiceInv'
<1>1. at[s] = "posting" /\ Release(s)
  BY DEF Returned
<1>2. pc[s] = "return" /\ pc'[s] = "idle" /\ StoreKeeps(s)
  BY <1>1 DEF Release, Goto, IInv, TypeOK, StoreKeeps, tables
<1>3. /\ Request(s).op \in Keyed /\ Accepted(s) /\ KeyOf(s) \in ClaimKeys
      /\ call[s].key = KeyOf(s) /\ call[s].hash = req[s].hash /\ ReplyOK(s)
  BY <1>1 DEF ServiceInv, HandlerOK, PostingOK, Accepted, Active
<1>4. CASE reply[s] = "ErrIdempotencyInFlight"
  <2>1. Continue(s, "replay again") /\ Claimed(KeyOf(s))
    BY <1>2, <1>3, <1>4 DEF Returned, ReplyOK
  <2>2. at'[s] = "replay again"
    BY <2>1 DEF Continue, ServiceInv
  <2>3. PostingOK(s)' /\ ReplyOK(s)'
    BY <1>2, <2>2 DEF PostingOK, ReplyOK, Writing
  <2> QED
    BY <1>1, <1>2, <1>3, <2>1, <2>3, ContinueOK DEF Active
<1>5. CASE reply[s] = "nil"
  <2>1. AnswerResult(s, Stored(s)) /\ Claimed(KeyOf(s)) /\ idem[KeyOf(s)] = ClaimRow(s)
    BY <1>2, <1>3, <1>5 DEF Returned, ReplyOK
  <2>2. idem[KeyOf(s)].hash = req[s].hash /\ idem[KeyOf(s)].body = Stored(s)
    BY <1>3, <2>1 DEF ClaimRow
  <2>3. Request(s).op # "get"
    BY <1>3 DEF Keyed
  <2> QED
    BY <1>2, <1>3, <2>1, <2>2, <2>3, AnswerResultOK
<1>6. CASE reply[s] \notin {"nil", "ErrIdempotencyInFlight"}
  BY <1>2, <1>6, AnswerErrorOK DEF Returned
<1> QED
  BY <1>4, <1>5, <1>6

(* Whoever is shown a transaction is shown what was stored of it (service/ledger.go
   GetTransaction).                                                          *)
LEMMA ReadService ==
  ASSUME IInv, TInv, ServiceInv, NEW s \in Sessions, Read(s)
  PROVE  ServiceInv'
<1>1. at[s] = "read" /\ UNCHANGED vars
  BY DEF Read
<1>2. StoreKeeps(s) /\ pc'[s] = "idle"
  BY <1>1, StoreAlone
<1>3. Request(s).op \notin Keyed /\ Accepted(s)
  BY <1>1 DEF ServiceInv, HandlerOK
<1>4. PICK u, r : u = req[s].user /\ r = Request(s)
  OBVIOUS
<1>5. \/ AnswerError(s, "ErrAccountNotFound")
      \/ AnswerError(s, "ErrTransactionNotFound")
      \/ r.op # "get" /\ AnswerError(s, "nil")
      \/ /\ r.op = "get" /\ AnswerResult(s, PostResult(r.target)) /\ Visible(u, r.target)
         /\ u \notin Admins => u \in DOMAIN WalletOf
  BY <1>4 DEF Read
<1>6. CASE AnswerError(s, "ErrAccountNotFound") \/ AnswerError(s, "ErrTransactionNotFound")
  BY <1>2, <1>6, AnswerErrorOK
<1>7. CASE r.op # "get" /\ AnswerError(s, "nil")
  BY <1>2, <1>3, <1>4, <1>7, AnswerErrorOK
<1>8. CASE /\ r.op = "get" /\ AnswerResult(s, PostResult(r.target)) /\ Visible(u, r.target)
           /\ u \notin Admins => u \in DOMAIN WalletOf
  <2>1. PICK x \in TxnIds : x = r.target
    BY <1>3, <1>4, <1>8, ServiceAssumption DEF Accepted, Request
  <2>2. Exists(x) /\ (u \in Admins \/ \E e \in RowsOfTxn(x) : e.account = WalletOf[u])
    BY <1>8, <2>1 DEF Visible, RowsOfTxn
  <2>3. PICK k \in ClaimKeys : Claimed(k) /\ idem[k].txn = x
    BY <2>2 DEF TInv, ExactlyOnce
  <2>4. PostResult(x) = idem[k].body
    BY <2>3, StoredIsRead DEF ServiceInv
  <2>5. {idem[k].body.entries[i] : i \in 1..Len(idem[k].body.entries)} = RowsOfTxn(x)
    <3>1. NoClaim.code = 0
      BY DEF NoClaim
    <3>2. idem[k] # NoClaim
      BY <2>3, <3>1 DEF Claimed
    <3>3. {idem[k].body.entries[i] : i \in 1..Len(idem[k].body.entries)} = RowsOfTxn(idem[k].txn)
      BY <3>2, Zenon DEF TInv, ExactlyOnce
    <3> QED
      BY <2>3, <3>3
  <2>6. u \notin Admins => u \in DOMAIN WalletOf /\ Touches(PostResult(x).entries, u)
    BY <1>8, <2>2, <2>4, <2>5 DEF Touches
  <2> QED
    BY <1>2, <1>3, <1>4, <1>8, <2>1, <2>3, <2>4, <2>6, AnswerResultOK
<1> QED
  BY <1>5, <1>6, <1>7, <1>8

(* A lookup fails, or the response is written.                             *)
LEMMA EndService ==
  ASSUME ServiceInv, NEW s \in Sessions, LookupFails(s) \/ Respond(s)
  PROVE  ServiceInv'
<1>1. CASE LookupFails(s)
  BY <1>1, StoreAlone, AnswerErrorOK DEF LookupFails
<1>2. CASE Respond(s)
  <2>1. StoreKeeps(s) /\ pc'[s] = "idle"
    BY <1>2, StoreAlone DEF Respond
  <2>2. at'[s] = "idle" /\ req'[s] = NoRequest /\ answer'[s] = NoAnswer
    BY <1>2 DEF Respond, ServiceInv
  <2>3. PostingOK(s)' /\ ReplyOK(s)'
    BY <2>1, <2>2 DEF PostingOK, ReplyOK, Writing
  <2>4. AnswerOK(s)'
    BY <2>2 DEF AnswerOK, Succeeded, NoAnswer
  <2>5. HandlerOK(s)'
    BY <2>2, <2>3, <2>4 DEF HandlerOK, Active
  <2> QED
    BY <1>2, <2>1, <2>5, HandlerMoves DEF Respond
<1> QED
  BY <1>1, <1>2

----------------------------------------------------------------------------
(* The theorems.                                                           *)

(* No handler, no result.                                                  *)
LEMMA ApiInitOK == ApiInit => IInv /\ TInv /\ RowIdsOK /\ ServiceInv
<1> SUFFICES ASSUME ApiInit PROVE IInv /\ TInv /\ RowIdsOK /\ ServiceInv
  OBVIOUS
<1>1. IInv /\ TInv /\ RowIdsOK
  BY InitOK, InitTables DEF ApiInit
<1>2. \A s \in Sessions : pc[s] = "idle" /\ at[s] = "idle" /\ req[s] = NoRequest /\ answer[s] = NoAnswer
  BY DEF ApiInit, Init
<1>3. ASSUME NEW s \in Sessions PROVE HandlerOK(s)
  <2>1. answer[s].err = "nil"
    BY <1>2 DEF NoAnswer
  <2>2. PostingOK(s) /\ ReplyOK(s) /\ AnswerOK(s)
    BY <1>2, <2>1 DEF PostingOK, ReplyOK, AnswerOK, Succeeded, Writing
  <2> QED
    BY <1>2, <2>2 DEF HandlerOK, Active
<1>4. \A k \in ClaimKeys : BodyOK(k)
  <2>1. NoClaim.code = 0
    BY DEF NoClaim
  <2> QED
    BY <2>1 DEF ApiInit, Init, BodyOK, Claimed
<1>5. /\ at \in [Sessions -> Active \union {"idle", "read", "answered"}]
      /\ req = [s \in Sessions |-> req[s]] /\ answer = [s \in Sessions |-> answer[s]]
  BY DEF ApiInit
<1> QED
  BY <1>1, <1>3, <1>4, <1>5 DEF ServiceInv

(* A handler calls Post with what BuiltFits says, and otherwise steps as the store does. *)
LEMMA ApiNextStore ==
  ASSUME IInv, TInv, RowIdsOK, ServiceInv, ApiNext
  PROVE  (IInv /\ TInv /\ RowIdsOK)'
<1>1. ASSUME [Next]_vars PROVE (IInv /\ TInv /\ RowIdsOK)'
  BY <1>1, NextOK, NextTables, NextIds
<1>2. ASSUME NEW s \in Sessions, Build(s) PROVE (IInv /\ TInv /\ RowIdsOK)'
  <2>1. CASE UNCHANGED vars
    BY <1>1, <2>1
  <2>2. CASE \E t : ReversalFits(t) /\ \E k \in ClaimKeys, h \in Hashes : Post(s, t, k, h)
    <3>1. PICK t : ReversalFits(t) /\ \E k \in ClaimKeys, h \in Hashes : Post(s, t, k, h)
      BY <2>2
    <3>2. PICK k \in ClaimKeys, h \in Hashes : Post(s, t, k, h)
      BY <3>1
    <3>3. IInv'
      BY <3>2, PostOK
    <3>4. TInv'
      BY <3>1, <3>2, PostTables
    <3>5. RowIdsOK'
      BY <3>2, QuietIds DEF Post, Goto, IInv, TypeOK, Writing, tables
    <3> QED
      BY <3>3, <3>4, <3>5
  <2> QED
    BY <1>2, <2>1, <2>2, BuildService
<1>3. ASSUME NEW s \in Sessions,
             \/ Replay(s) \/ LookupFails(s) \/ Read(s) \/ Respond(s) \/ Returned(s)
             \/ Step(s) \/ CommitLost(s) \/ Abort(s)
      PROVE  [Next]_vars
  BY <1>3 DEF Replay, LookupFails, Read, Respond, Returned, Next
<1>4. ASSUME NEW s, NEW c, NEW k, Receive(s, c, k) PROVE [Next]_vars
  BY <1>4 DEF Receive
<1> QED
  BY <1>1, <1>2, <1>3, <1>4 DEF ApiNext, Serve

(* Every step of the service keeps it in order.                            *)
LEMMA ApiNextService ==
  ASSUME IInv, TInv, RowIdsOK, ServiceInv, ApiNext
  PROVE  ServiceInv'
BY ReceiveService, ReplayService, BuildService, ReturnedService, ReadService, EndService,
   StepService DEF ApiNext, Serve

(* A step in which nothing happens.                                        *)
LEMMA ServiceStutters ==
  ASSUME ServiceInv, UNCHANGED <<vars, svars>>
  PROVE  ServiceInv'
<1>1. UNCHANGED <<at, req, answer, transactions, idem, pc, call, tid, posted, reply>>
  BY DEF vars, tables, session, svars
<1>2. \A r \in Sessions : HandlerOK(r)'
  BY <1>1, StaysOK DEF ServiceInv, Stays, ClaimsStay
<1>3. \A k \in ClaimKeys : BodyOK(k)'
  BY <1>1 DEF ServiceInv, BodyOK, Claimed, Touches
<1> QED
  BY <1>1, <1>2, <1>3 DEF ServiceInv

(* The store and the service are in order in every state.                  *)
THEOREM ServiceInvariance == ApiSpec => [](IInv /\ TInv /\ RowIdsOK /\ ServiceInv)
<1>1. ApiInit => IInv /\ TInv /\ RowIdsOK /\ ServiceInv
  BY ApiInitOK
<1>2. (IInv /\ TInv /\ RowIdsOK /\ ServiceInv) /\ [ApiNext]_<<vars, svars>>
        => (IInv /\ TInv /\ RowIdsOK /\ ServiceInv)'
  <2>1. CASE ApiNext
    BY <2>1, ApiNextStore, ApiNextService
  <2>2. CASE UNCHANGED <<vars, svars>>
    BY <2>2, NextOK, NextTables, NextIds, ServiceStutters
  <2> QED
    BY <2>1, <2>2
<1> QED
  BY <1>1, <1>2, PTL DEF ApiSpec

(* Whoever is told success is given the stored result of the own request, by whichever
   handler it was posted, and a reader the same rows (service/ledger.go postIdempotent,
   replay, GetTransaction).                                                  *)
THEOREM ResultsAreStored == ApiSpec => []SuccessIsTheStoredResult
<1>1. ServiceInv => SuccessIsTheStoredResult
  BY DEF ServiceInv, HandlerOK, AnswerOK, SuccessIsTheStoredResult
<1> QED
  BY <1>1, ServiceInvariance, PTL

(* Nobody is ever told that a key is in flight: the claim waits for its twin, and the
   second lookup finds a final row (service/ledger.go postIdempotent).       *)
THEOREM InFlightIsNeverTold == ApiSpec => []NeverInFlight
<1>1. ServiceInv => NeverInFlight
  BY DEF ServiceInv, HandlerOK, AnswerOK, NeverInFlight
<1> QED
  BY <1>1, ServiceInvariance, PTL

(* Of the accounts of rows that touch it, a viewer's wallet is the one shown (dto.go
   toTransactionResponse).                                                   *)
LEMMA ShownToViewer ==
  ASSUME NEW body, NEW n \in Nat, DOMAIN body.entries = 1..n, NEW v, v # 0,
         \E i \in 1..n : body.entries[i].account = v
  PROVE  ToTransactionResponse(body, v).shown = {v}
<1>1. ToTransactionResponse(body, v).shown =
        {body.entries[i].account : i \in {j \in 1..n : v = 0 \/ body.entries[j].account = v}}
  BY DEF ToTransactionResponse
<1> QED
  BY <1>1

(* A user is shown the balance of the own wallet and no other, on every path a response
   takes (service/ledger.go markViewer, dto.go toTransactionResponse).       *)
THEOREM UsersSeeTheirOwn == ApiSpec => []OnlyOwnBalances
<1>1. ASSUME IInv, ServiceInv, NEW s \in Sessions,
             Succeeded(s, Keyed \union {"get"}), req[s].user \notin Admins
      PROVE  Response(s).shown = {WalletOf[req[s].user]}
  <2>1. PICK u, op, body : u = req[s].user /\ op = Request(s).op /\ body = answer[s].body
    OBVIOUS
  <2>2. /\ AnswerOK(s) /\ Accepted(s) /\ answer[s].viewer = Viewer(u, op)
        /\ op \in Keyed \union {"get"} /\ u \notin Admins
    BY <1>1, <2>1 DEF ServiceInv, HandlerOK, AnswerOK, Succeeded
  <2>3. PICK k \in ClaimKeys : Claimed(k) /\ idem[k].body = body
    <3>1. CASE op \in Keyed
      BY <1>1, <2>1, <2>2, <3>1 DEF AnswerOK, Succeeded, Accepted
    <3>2. CASE op = "get"
      BY <1>1, <2>1, <2>2, <3>2 DEF AnswerOK, Succeeded
    <3> QED
      BY <2>2, <3>1, <3>2
  <2>4. PICK n \in Nat : n = Len(body.entries) /\ DOMAIN body.entries = 1..n
    <3>1. NoClaim.code = 0
      BY DEF NoClaim
    <3>2. body \in Bodies
      BY <1>1, <2>3, <3>1 DEF IInv, TypeOK, Claimed
    <3> QED
      BY <3>2 DEF Bodies
  <2>5. op # "reverse" /\ u \in DOMAIN WalletOf /\ Touches(body.entries, u)
    <3>1. CASE op \in Keyed
      <4>1. op # "reverse" /\ u \in DOMAIN WalletOf
        BY <2>1, <2>2, <3>1 DEF Accepted, Keyed, Limited
      <4>2. /\ KeyOf(s) \in ClaimKeys /\ Claimed(KeyOf(s)) /\ idem[KeyOf(s)].body = body
            /\ KeyOf(s)[1] = u
        BY <1>1, <2>1, <2>2, <3>1 DEF AnswerOK, Succeeded, Accepted, KeyOf
      <4>3. Touches(body.entries, u)
        BY <1>1, <2>2, <4>2 DEF ServiceInv, BodyOK
      <4> QED
        BY <4>1, <4>3
    <3>2. CASE op = "get"
      BY <1>1, <2>1, <2>2, <3>2 DEF AnswerOK, Succeeded
    <3> QED
      BY <2>2, <3>1, <3>2
  <2>6. PICK v : v = WalletOf[u] /\ v # 0
    <3>1. WalletOf[u] \in Accounts
      BY <2>5, ServiceAssumption
    <3>2. 0 \notin Accounts
      BY StoreAssumption, MoneyAssumption
    <3> QED
      BY <3>1, <3>2
  <2>7. answer[s].viewer = v
    BY <2>2, <2>5, <2>6 DEF Viewer
  <2>8. \E i \in 1..n : body.entries[i].account = v
    BY <2>4, <2>5, <2>6 DEF Touches
  <2>9. ToTransactionResponse(body, v).shown = {v}
    BY <2>4, <2>6, <2>8, ShownToViewer
  <2> QED
    BY <2>1, <2>6, <2>7, <2>9 DEF Response
<1>2. IInv /\ ServiceInv => OnlyOwnBalances
  BY <1>1 DEF OnlyOwnBalances
<1> QED
  BY <1>2, ServiceInvariance, PTL

----------------------------------------------------------------------------
(* What is posted is what was asked for.                                   *)

FeeOf(r) == IF r.op = "transfer" THEN TransferFee ELSE 0

\* The lines of the three builders and of their reversals: one entry for the whole on one
\* side, one for the amount and one for a fee on the other, on different accounts.
Slip(es, type, m, fee) ==
  \E a, b, c \in Accounts, d \in Directions :
    /\ a # b /\ a # c /\ b # c
    /\ AccountType[a] # "SYSTEM_FEE_REVENUE" /\ AccountType[b] # "SYSTEM_FEE_REVENUE"
    /\ AccountType[c] = "SYSTEM_FEE_REVENUE"
    /\ type = "TRANSFER" => d = DirectionDebit
    /\ IsWallet(b) \/ (IsWallet(a) /\ type # "TRANSFER" /\ fee = 0)
    /\ fee >= 0 /\ m \in Int64 /\ fee \in Int64 /\ m + fee \in Int64
    /\ Len(es) = IF fee > 0 THEN 3 ELSE 2
    /\ es[1] = Entry(a, d, m + fee) /\ es[2] = Entry(b, Opposite(d), m)
    /\ fee > 0 => es[3] = Entry(c, Opposite(d), fee)

(* The entries of a transfer, one by one (domain/transaction.go NewTransfer).  *)
LEMMA TransferIs ==
  ASSUME NEW from, NEW to, NEW f, NEW m, NEW total, NEW fee, NEW es,
         es = TransferEntries(from, to, f, m, total, fee)
  PROVE  /\ Len(es) = IF fee > 0 THEN 3 ELSE 2
         /\ es[1] = Entry(from, DirectionDebit, total)
         /\ es[2] = Entry(to, DirectionCredit, m)
         /\ fee > 0 => es[3] = Entry(f, DirectionCredit, fee)
<1>1. PICK A, B, C : /\ A = Entry(from, DirectionDebit, total) /\ B = Entry(to, DirectionCredit, m)
                    /\ C = Entry(f, DirectionCredit, fee)
  OBVIOUS
<1>2. CASE fee > 0
  <2>1. es = <<A, B>> \o <<C>>
    BY <1>1, <1>2 DEF TransferEntries
  <2>2. PICK p, q : p = <<A, B>> /\ q = <<C>>
    OBVIOUS
  <2>3. PICK T : T = {A, B, C}
    OBVIOUS
  <2>4. /\ p \in Seq(T) /\ Len(p) = 2 /\ p[1] = A /\ p[2] = B
        /\ q \in Seq(T) /\ Len(q) = 1 /\ q[1] = C
    BY <2>2, <2>3
  <2>5. es = p \o q
    BY <2>1, <2>2
  <2>6. Len(es) = 3 /\ es[1] = A /\ es[2] = B /\ es[3] = C
    <3>1. /\ Len(p \o q) = Len(p) + Len(q)
          /\ \A i \in 1 .. Len(p) + Len(q) :
               (p \o q)[i] = IF i <= Len(p) THEN p[i] ELSE q[i - Len(p)]
      <4>1. p \in Seq(T) /\ q \in Seq(T)
        BY <2>4
      <4> QED
        BY <4>1, ConcatProperties, Zenon
    <3>2. Len(es) = 3 /\ \A i \in 1..3 : es[i] = IF i <= 2 THEN p[i] ELSE q[i - 2]
      BY <2>4, <2>5, <3>1
    <3> QED
      BY <2>4, <3>2
  <2> QED
    BY <1>1, <1>2, <2>6
<1>3. CASE ~(fee > 0)
  <2>1. es = <<A, B>> \o <<>>
    BY <1>1, <1>3 DEF TransferEntries
  <2>2. es = <<A, B>>
    <3>1. <<A, B>> \in Seq({A, B})
      OBVIOUS
    <3> QED
      BY <2>1, <3>1, ConcatEmptySeq
  <2> QED
    BY <1>1, <1>3, <2>2
<1> QED
  BY <1>2, <1>3

(* What a user's request builds has the amount and the fee of the request
   (service/ledger.go Topup, Withdraw, Transfer).                            *)
LEMMA BuiltSlips ==
  ASSUME NEW u \in DOMAIN WalletOf, NEW h \in Hashes, RequestOf[h].op \in Limited,
         NEW b \in Builds(u, RequestOf[h]), b.err = "nil"
  PROVE  \E type, es : /\ b.txn = Txn(type, es, NoTxn) /\ type # "REVERSAL"
                       /\ Slip(es, type, RequestOf[h].amount, FeeOf(RequestOf[h]))
<1>1. PICK r : r = RequestOf[h] /\ r.amount \in Int64
  BY ServiceAssumption
<1>2. PICK f \in Accounts : f \in FeeShards /\ AccountType[f] = "SYSTEM_FEE_REVENUE"
  BY ServiceAssumption
<1>3. PICK w \in Accounts : w = WalletOf[u] /\ AccountType[w] = "USER_WALLET"
  BY ServiceAssumption DEF IsWallet
<1>4. CashId \in Accounts /\ AccountType[CashId] = "SYSTEM_CASH"
  BY ServiceAssumption
<1>5. /\ DirectionDebit \in Directions /\ Opposite(DirectionDebit) = DirectionCredit
      /\ 0 \in Int64 /\ r.amount + 0 = r.amount
  BY <1>1, MoneyAssumption DEF Directions, Opposite, Int64
<1>6. \A t : Built(t).txn = t
  BY DEF Built
<1>7. CASE r.op = "topup"
  <2>1. PICK es : es = <<Entry(CashId, DirectionDebit, r.amount), Entry(w, DirectionCredit, r.amount)>>
    OBVIOUS
  <2>2. b = Built(Txn("TOPUP", es, NoTxn))
    BY <1>1, <1>3, <1>7, <2>1 DEF Builds, NewTopup
  <2>3. b.txn = Txn("TOPUP", es, NoTxn)
    BY <1>6, <2>2
  <2>4. /\ Len(es) = 2 /\ es[1] = Entry(CashId, DirectionDebit, r.amount)
        /\ es[2] = Entry(w, DirectionCredit, r.amount)
    BY <2>1
  <2>5. Slip(es, "TOPUP", r.amount, 0)
    BY <1>1, <1>2, <1>3, <1>4, <1>5, <2>4 DEF Slip, IsWallet
  <2> QED
    BY <1>1, <1>7, <2>3, <2>5 DEF FeeOf
<1>8. CASE r.op = "withdraw"
  <2>1. PICK es : es = <<Entry(w, DirectionDebit, r.amount), Entry(CashId, DirectionCredit, r.amount)>>
    OBVIOUS
  <2>2. b = Built(Txn("WITHDRAW", es, NoTxn))
    BY <1>1, <1>3, <1>8, <2>1 DEF Builds, NewWithdraw
  <2>3. b.txn = Txn("WITHDRAW", es, NoTxn)
    BY <1>6, <2>2
  <2>4. /\ Len(es) = 2 /\ es[1] = Entry(w, DirectionDebit, r.amount)
        /\ es[2] = Entry(CashId, DirectionCredit, r.amount)
    BY <2>1
  <2>5. Slip(es, "WITHDRAW", r.amount, 0)
    BY <1>1, <1>2, <1>3, <1>4, <1>5, <2>4 DEF Slip, IsWallet
  <2> QED
    BY <1>1, <1>8, <2>3, <2>5 DEF FeeOf
<1>9. CASE r.op = "transfer"
  <2>1. \A e : Refused(e).err = e
    BY DEF Refused
  <2>2. PICK to \in Accounts, g \in FeeShards :
          to = r.target /\ IsWallet(to) /\ b = NewTransfer(w, to, g, r.amount, TransferFee)
    BY <1>1, <1>3, <1>9, <2>1 DEF Builds
  <2>3. PICK total : total = Add(r.amount, TransferFee)
    OBVIOUS
  <2>4. PICK es : es = TransferEntries(w, to, g, r.amount, total.val, TransferFee)
    OBVIOUS
  <2>5. w # to /\ total.err = "nil" /\ b = Built(Txn("TRANSFER", es, NoTxn))
    BY <2>1, <2>2, <2>3, <2>4 DEF NewTransfer, SelfTransfer
  <2>6. TransferFee \in Int64 /\ TransferFee >= 0 /\ g \in Accounts /\ AccountType[g] = "SYSTEM_FEE_REVENUE"
    BY ServiceAssumption
  <2>7. total.val = r.amount + TransferFee /\ r.amount + TransferFee \in Int64
    BY <1>1, <2>3, <2>5, <2>6, AddIsNil
  <2>8. b.txn = Txn("TRANSFER", es, NoTxn)
    BY <1>6, <2>5
  <2>9. /\ Len(es) = IF TransferFee > 0 THEN 3 ELSE 2
        /\ es[1] = Entry(w, DirectionDebit, r.amount + TransferFee)
        /\ es[2] = Entry(to, DirectionCredit, r.amount)
        /\ TransferFee > 0 => es[3] = Entry(g, DirectionCredit, TransferFee)
    <3>1. PICK v : v = total.val /\ v = r.amount + TransferFee
      BY <2>7
    <3>2. PICK m, fee : m = r.amount /\ fee = TransferFee
      OBVIOUS
    <3>3. es = TransferEntries(w, to, g, m, v, fee)
      BY <2>4, <3>1, <3>2
    <3>4. /\ Len(es) = IF fee > 0 THEN 3 ELSE 2
          /\ es[1] = Entry(w, DirectionDebit, v) /\ es[2] = Entry(to, DirectionCredit, m)
          /\ fee > 0 => es[3] = Entry(g, DirectionCredit, fee)
      BY <3>3, TransferIs
    <3> QED
      BY <3>1, <3>2, <3>4
  <2>10. Slip(es, "TRANSFER", r.amount, TransferFee)
    <3>1. w # g /\ to # g /\ AccountType[to] = "USER_WALLET"
      BY <1>3, <2>2, <2>6 DEF IsWallet
    <3> QED
      BY <1>1, <1>3, <1>5, <2>2, <2>5, <2>6, <2>7, <2>9, <3>1 DEF Slip
  <2> QED
    BY <1>1, <1>9, <2>8, <2>10 DEF FeeOf
<1> QED
  BY <1>1, <1>7, <1>8, <1>9 DEF Limited

(* A reversal of such lines has the same amount and the same fee on its other sides
   (domain/transaction.go NewReversal).                                      *)
LEMMA MirroredSlips ==
  ASSUME NEW es, NEW type, NEW m, NEW fee, Slip(es, type, m, fee)
  PROVE  Slip(ReversedEntries(es), "REVERSAL", m, fee)
<1>1. PICK a \in Accounts, b \in Accounts, c \in Accounts, d \in Directions :
        /\ a # b /\ a # c /\ b # c
        /\ AccountType[a] # "SYSTEM_FEE_REVENUE" /\ AccountType[b] # "SYSTEM_FEE_REVENUE"
        /\ AccountType[c] = "SYSTEM_FEE_REVENUE"
        /\ IsWallet(b) \/ (IsWallet(a) /\ type # "TRANSFER" /\ fee = 0)
        /\ fee >= 0 /\ m \in Int64 /\ fee \in Int64 /\ m + fee \in Int64
        /\ Len(es) = IF fee > 0 THEN 3 ELSE 2
        /\ es[1] = Entry(a, d, m + fee) /\ es[2] = Entry(b, Opposite(d), m)
        /\ fee > 0 => es[3] = Entry(c, Opposite(d), fee)
  BY DEF Slip
<1>2. PICK n \in Nat : n = Len(es) /\ n >= 2 /\ (n = IF fee > 0 THEN 3 ELSE 2)
  BY <1>1
<1>3. PICK os : os = ReversedEntries(es)
  OBVIOUS
<1>4. os = [i \in 1..n |-> [es[i] EXCEPT !.direction = Opposite(@)]]
  BY <1>2, <1>3 DEF ReversedEntries
<1>5. Len(os) = n
  BY <1>4
<1>7. 1 \in 1..n /\ 2 \in 1..n /\ (fee > 0 => 3 \in 1..n)
  BY <1>2
<1>8. /\ os[1] = [es[1] EXCEPT !.direction = Opposite(@)]
      /\ os[2] = [es[2] EXCEPT !.direction = Opposite(@)]
      /\ fee > 0 => os[3] = [es[3] EXCEPT !.direction = Opposite(@)]
  BY <1>4, <1>7
<1>9. PICK o \in Directions : o = Opposite(d)
  BY DEF Directions, Opposite
<1>10. /\ os[1] = Entry(a, o, m + fee) /\ os[2] = Entry(b, Opposite(o), m)
       /\ fee > 0 => os[3] = Entry(c, Opposite(o), fee)
  <2>1. os[1] = Entry(a, Opposite(d), m + fee)
    <3>1. es[1] = Entry(a, d, m + fee)
      BY <1>1
    <3> QED
      BY <1>8, <3>1 DEF Entry
  <2>2. os[2] = Entry(b, Opposite(o), m)
    <3>1. es[2] = Entry(b, o, m)
      BY <1>1, <1>9
    <3> QED
      BY <1>8, <3>1 DEF Entry
  <2>3. fee > 0 => os[3] = Entry(c, Opposite(o), fee)
    <3>1. fee > 0 => es[3] = Entry(c, o, fee)
      BY <1>1, <1>9
    <3> QED
      BY <1>8, <3>1 DEF Entry
  <2> QED
    BY <1>9, <2>1, <2>2, <2>3
<1> QED
  BY <1>1, <1>2, <1>3, <1>5, <1>9, <1>10 DEF Slip

(* The running totals of Validate under a name.                            *)
LEMMA RunningTotalsAre ==
  ASSUME NEW t, NEW d, NEW n \in Nat, n = Len(t.entries), NEW R, R = RunningTotal(t, d),
         NEW es, es = t.entries
  PROVE  /\ R[0] = 0
         /\ \A i \in 1..n : R[i] = IF es[i].direction = d THEN Add(R[i - 1], es[i].amount).val ELSE R[i - 1]
<1>1. /\ RunningTotal(t, d)[0] = 0
      /\ \A i \in 1..n : RunningTotal(t, d)[i] =
           IF t.entries[i].direction = d
           THEN Add(RunningTotal(t, d)[i - 1], t.entries[i].amount).val
           ELSE RunningTotal(t, d)[i - 1]
  BY RunningTotalIs
<1> QED
  BY <1>1

(* Validate refuses such lines for an amount that is not positive or that overflows, and
   for nothing else (domain/transaction.go Validate).                        *)
LEMMA SlipValidates ==
  ASSUME NEW t, NEW m, NEW fee, Slip(t.entries, t.type, m, fee), ~t.longDesc,
         t.type = "REVERSAL" <=> t.reverses # NoTxn
  PROVE  Validate(t) \in {"nil", "ErrAmountNotPositive", "ErrAmountOverflow"}
<1>1. PICK es : es = t.entries
  OBVIOUS
<1>2. PICK a \in Accounts, b \in Accounts, c \in Accounts, d \in Directions :
        /\ a # b /\ a # c /\ b # c
        /\ fee >= 0 /\ m \in Int64 /\ fee \in Int64 /\ m + fee \in Int64
        /\ Len(es) = IF fee > 0 THEN 3 ELSE 2
        /\ es[1] = Entry(a, d, m + fee) /\ es[2] = Entry(b, Opposite(d), m)
        /\ fee > 0 => es[3] = Entry(c, Opposite(d), fee)
  BY <1>1 DEF Slip
<1>3. PICK n \in Nat : n = Len(t.entries) /\ (n = IF fee > 0 THEN 3 ELSE 2)
  BY <1>1, <1>2
<1>4. PICK o \in Directions : o = Opposite(d) /\ o # d
  BY DEF Directions, Opposite, DirectionDebit, DirectionCredit
<1>5. /\ es[1].account = a /\ es[1].direction = d /\ es[1].amount = m + fee
      /\ es[2].account = b /\ es[2].direction = o /\ es[2].amount = m
      /\ fee > 0 => es[3].account = c /\ es[3].direction = o /\ es[3].amount = fee
  BY <1>2, <1>4 DEF Entry
<1>6. \A i \in 1..n : i = 1 \/ i = 2 \/ (i = 3 /\ fee > 0)
  BY <1>3
<1>7. \A x, y : Add(x, y).err \in {"nil", "ErrAmountOverflow"}
  BY DEF Add, Value, Error
<1>8. ASSUME NEW i \in 1..n
      PROVE  EntryFault(t, i) \in {"nil", "ErrAmountNotPositive", "ErrAmountOverflow"}
  <2>1. ~Seen(t, i)
    <3>1. \A j \in 1..(i - 1) : j \in 1..n /\ j # i
      BY <1>3
    <3>2. \A j \in 1..n : j # i => es[j].account # es[i].account
      BY <1>2, <1>5, <1>6
    <3> QED
      BY <1>1, <3>1, <3>2 DEF Seen
  <2>2. es[i].direction \in Directions
    BY <1>4, <1>5, <1>6
  <2> QED
    BY <1>1, <1>7, <2>1, <2>2 DEF EntryFault
<1>9. PICK D, C : D = RunningTotal(t, d) /\ C = RunningTotal(t, o)
  OBVIOUS
<1>10. /\ D[0] = 0 /\ C[0] = 0
       /\ \A i \in 1..n : D[i] = IF es[i].direction = d THEN Add(D[i - 1], es[i].amount).val ELSE D[i - 1]
       /\ \A i \in 1..n : C[i] = IF es[i].direction = o THEN Add(C[i - 1], es[i].amount).val ELSE C[i - 1]
  <2>1. n = Len(t.entries) /\ es = t.entries
    BY <1>1, <1>3
  <2>2. D = RunningTotal(t, d)
    BY <1>9
  <2>3. C = RunningTotal(t, o)
    BY <1>9
  <2>4. /\ D[0] = 0
        /\ \A i \in 1..n : D[i] = IF es[i].direction = d THEN Add(D[i - 1], es[i].amount).val ELSE D[i - 1]
    BY <2>1, <2>2, RunningTotalsAre
  <2>5. /\ C[0] = 0
        /\ \A i \in 1..n : C[i] = IF es[i].direction = o THEN Add(C[i - 1], es[i].amount).val ELSE C[i - 1]
    BY <2>1, <2>3, RunningTotalsAre
  <2> QED
    BY <2>4, <2>5
<1>11. 1 \in 1..n /\ 2 \in 1..n /\ (fee > 0 => 3 \in 1..n) /\ 1 - 1 = 0 /\ 2 - 1 = 1 /\ 3 - 1 = 2
  BY <1>3
<1>12. 0 \in Int64 /\ 0 + (m + fee) = m + fee /\ 0 + m = m
  BY <1>2, MoneyAssumption DEF Int64
<1>13. D[1] = m + fee /\ D[2] = m + fee /\ (fee > 0 => D[3] = m + fee)
  <2>1. D[1] = Add(D[0], es[1].amount).val /\ D[2] = D[1] /\ (fee > 0 => D[3] = D[2])
    BY <1>4, <1>5, <1>10, <1>11
  <2>2. D[1] = Add(0, m + fee).val
    BY <1>5, <1>10, <2>1
  <2>3. PICK v \in Int64 : v = m + fee
    BY <1>2
  <2>4. Add(0, v).val = v
    BY <1>12, <2>3, AddIsNil
  <2> QED
    BY <2>1, <2>2, <2>3, <2>4
<1>14. C[1] = 0 /\ C[2] = m /\ (fee > 0 => C[3] = m + fee)
  <2>1. C[1] = C[0] /\ C[2] = Add(C[1], es[2].amount).val /\ (fee > 0 => C[3] = Add(C[2], es[3].amount).val)
    BY <1>4, <1>5, <1>10, <1>11
  <2>2. C[1] = 0 /\ C[2] = Add(0, m).val
    BY <1>5, <1>10, <2>1
  <2>3. Add(0, m).val = m
    BY <1>2, <1>12, AddIsNil
  <2>4. Add(m, fee).val = m + fee
    BY <1>2, AddIsNil
  <2> QED
    BY <1>5, <2>1, <2>2, <2>3, <2>4
<1>15. D[n] = C[n]
  <2>1. m \in Int /\ fee \in Int
    BY <1>2, MoneyAssumption DEF Int64
  <2>2. CASE fee > 0
    BY <1>3, <1>13, <1>14, <2>2
  <2>3. CASE ~(fee > 0)
    <3>1. fee = 0 /\ n = 2 /\ m + fee = m
      BY <1>2, <1>3, <2>1, <2>3
    <3> QED
      BY <1>13, <1>14, <3>1
  <2> QED
    BY <2>2, <2>3
<1>16. RunningTotal(t, DirectionDebit)[n] = RunningTotal(t, DirectionCredit)[n]
  BY <1>4, <1>9, <1>15 DEF Directions
<1>17. CASE Faults(t) = {}
  BY <1>3, <1>16, <1>17 DEF Validate
<1>18. CASE Faults(t) # {}
  <2>1. Faults(t) \in SUBSET Nat
    BY <1>3 DEF Faults
  <2>2. Min(Faults(t)) \in Faults(t)
    BY <1>18, <2>1, MinOfNats
  <2>3. Min(Faults(t)) \in 1..n
    BY <1>3, <2>2 DEF Faults
  <2>4. EntryFault(t, Min(Faults(t))) \in {"nil", "ErrAmountNotPositive", "ErrAmountOverflow"}
    BY <1>8, <2>3
  <2> QED
    BY <1>3, <1>18, <2>4 DEF Validate
<1> QED
  BY <1>17, <1>18

----------------------------------------------------------------------------
(* The errors callers are told.                                            *)

Known == {m[1] : m \in Mapped}
Told  == Known \union {"nil", "ErrDatabase"}

(* mapError has a status other than 500 for each of the errors it names (response.go). *)
LEMMA KnownIsNot500 ==
  ASSUME NEW err \in Known
  PROVE  MapError(err).status # 500
<1>1. \A m \in Mapped : m[2] # 500
  BY DEF Mapped
<1>2. \E m \in Mapped : m[1] = err
  BY DEF Known
<1>3. PICK w : w = CHOOSE m \in Mapped : m[1] = err
  OBVIOUS
<1>4. w \in Mapped /\ w[1] = err
  BY <1>2, <1>3
<1>5. MapError(err) = [status |-> w[2], code |-> w[3]]
  BY <1>2, <1>3 DEF MapError
<1> QED
  BY <1>1, <1>4, <1>5

(* The names of the errors of the domain, the service, the store and the middlewares are
   among them (response.go mapError).                                        *)
LEMMA ErrorsAreKnown ==
  {"ValidationError", "MaxBytesError", "ErrValidation", "errIdempotencyKeyRequired",
   "errUnauthenticated", "ErrForbidden", "ErrAccountNotFound", "ErrTransactionNotFound",
   "ErrIdempotencyConflict", "ErrIdempotencyInFlight", "ErrAlreadyReversed",
   "ErrNotReversible", "ErrConcurrentModification", "ErrInsufficientBalance",
   "ErrAccountNotActive", "ErrSelfTransfer", "ErrAmountOutOfRange", "ErrAmountNotPositive",
   "ErrAmountOverflow", "errRateLimited", "ErrContext"} \subseteq Known
<1>1. \A e, n, c : <<e, n, c>> \in Mapped => e \in Known
  <2> SUFFICES ASSUME NEW e, NEW n, NEW c, <<e, n, c>> \in Mapped PROVE e \in Known
    OBVIOUS
  <2>1. <<e, n, c>>[1] = e
    OBVIOUS
  <2> QED
    BY <2>1 DEF Known
<1>2. /\ <<"ValidationError", 400, "VALIDATION_ERROR">> \in Mapped
      /\ <<"MaxBytesError", 413, "PAYLOAD_TOO_LARGE">> \in Mapped
      /\ <<"ErrValidation", 400, "VALIDATION_ERROR">> \in Mapped
      /\ <<"errIdempotencyKeyRequired", 400, "IDEMPOTENCY_KEY_REQUIRED">> \in Mapped
      /\ <<"errUnauthenticated", 401, "UNAUTHENTICATED">> \in Mapped
      /\ <<"ErrForbidden", 403, "FORBIDDEN">> \in Mapped
      /\ <<"ErrAccountNotFound", 404, "ACCOUNT_NOT_FOUND">> \in Mapped
  BY DEF Mapped
<1>3. /\ <<"ErrTransactionNotFound", 404, "TRANSACTION_NOT_FOUND">> \in Mapped
      /\ <<"ErrIdempotencyConflict", 409, "IDEMPOTENCY_CONFLICT">> \in Mapped
      /\ <<"ErrIdempotencyInFlight", 409, "IDEMPOTENCY_IN_FLIGHT">> \in Mapped
      /\ <<"ErrAlreadyReversed", 409, "ALREADY_REVERSED">> \in Mapped
      /\ <<"ErrNotReversible", 409, "ALREADY_REVERSED">> \in Mapped
      /\ <<"ErrConcurrentModification", 409, "CONCURRENT_MODIFICATION">> \in Mapped
      /\ <<"ErrInsufficientBalance", 422, "INSUFFICIENT_BALANCE">> \in Mapped
  BY DEF Mapped
<1>4. /\ <<"ErrAccountNotActive", 422, "ACCOUNT_NOT_ACTIVE">> \in Mapped
      /\ <<"ErrSelfTransfer", 422, "SELF_TRANSFER">> \in Mapped
      /\ <<"ErrAmountOutOfRange", 422, "AMOUNT_OUT_OF_RANGE">> \in Mapped
      /\ <<"ErrAmountNotPositive", 422, "AMOUNT_OUT_OF_RANGE">> \in Mapped
      /\ <<"ErrAmountOverflow", 422, "AMOUNT_OUT_OF_RANGE">> \in Mapped
      /\ <<"errRateLimited", 429, "RATE_LIMITED">> \in Mapped
      /\ <<"ErrContext", 503, "TIMEOUT">> \in Mapped
  BY DEF Mapped
<1>5. /\ "ValidationError" \in Known /\ "MaxBytesError" \in Known /\ "ErrValidation" \in Known
      /\ "errIdempotencyKeyRequired" \in Known /\ "errUnauthenticated" \in Known
      /\ "ErrForbidden" \in Known /\ "ErrAccountNotFound" \in Known
  BY <1>1, <1>2
<1>6. /\ "ErrTransactionNotFound" \in Known /\ "ErrIdempotencyConflict" \in Known
      /\ "ErrIdempotencyInFlight" \in Known /\ "ErrAlreadyReversed" \in Known
      /\ "ErrNotReversible" \in Known /\ "ErrConcurrentModification" \in Known
      /\ "ErrInsufficientBalance" \in Known
  BY <1>1, <1>3
<1>7. /\ "ErrAccountNotActive" \in Known /\ "ErrSelfTransfer" \in Known
      /\ "ErrAmountOutOfRange" \in Known /\ "ErrAmountNotPositive" \in Known
      /\ "ErrAmountOverflow" \in Known /\ "errRateLimited" \in Known /\ "ErrContext" \in Known
  BY <1>1, <1>4
<1> QED
  BY <1>5, <1>6, <1>7

(* A list of checks whose errors are all known gives no other.             *)
LEMMA FirstErrorTold ==
  ASSUME NEW checks, Len(checks) \in Nat,
         \A i \in 1..Len(checks) : checks[i][1] => checks[i][2] \in Told
  PROVE  FirstError(checks) \in Told
<1>1. "nil" \in Told
  BY DEF Told
<1>2. CASE FirstError(checks) = "nil"
  BY <1>1, <1>2
<1>3. CASE \E i \in 1..Len(checks) : checks[i][1] /\ FirstError(checks) = checks[i][2]
  BY <1>3
<1> QED
  BY <1>2, <1>3, FirstErrorIs

(* Nothing a request is refused for before it is looked at is unknown, and no request
   with a description that is too long gets further (router.go, middleware.go, dto.go
   validate, service/ledger.go).                                             *)
LEMMA RefusalsAreTold ==
  ASSUME NEW c \in Traffic, NEW k \in Headers, NEW allowed \in BOOLEAN
  PROVE  /\ \/ Refusal[c][k][allowed] \in Told
            \/ Refusal[c][k][allowed] = "ErrUnexpectedEOF" /\ RequestOf[c[2]].body = "cut off"
         /\ (Refusal[c][k][allowed] = "nil" /\ RequestOf[c[2]].op \in Keyed) => ~RequestOf[c[2]].long
<1>1. PICK r, u : r = RequestOf[c[2]] /\ u = c[1]
  OBVIOUS
<1>2. \/ MiddlewareError(u, k, r, allowed) \in Told
      \/ MiddlewareError(u, k, r, allowed) = "ErrUnexpectedEOF" /\ r.body = "cut off"
  <2> DEFINE checks ==
        << <<u \notin Users, "errUnauthenticated">>,
           <<r.op \in AdminOnly /\ u \notin Admins, "ErrForbidden">>,
           <<r.op \in Keyed /\ k = BadKey, "errIdempotencyKeyRequired">>,
           <<r.op \in Keyed /\ r.body = "too large", "MaxBytesError">>,
           <<r.op \in Keyed /\ r.body = "cut off", "ErrUnexpectedEOF">>,
           <<r.op \in Limited /\ ~allowed, "errRateLimited">> >>
  <2>1. MiddlewareError(u, k, r, allowed) = FirstError(checks)
    BY DEF MiddlewareError
  <2>2. Len(checks) = 6
    OBVIOUS
  <2>3. /\ checks[1][2] = "errUnauthenticated" /\ checks[2][2] = "ErrForbidden"
        /\ checks[3][2] = "errIdempotencyKeyRequired" /\ checks[4][2] = "MaxBytesError"
        /\ checks[5][2] = "ErrUnexpectedEOF" /\ checks[6][2] = "errRateLimited"
    OBVIOUS
  <2>4. checks[5] = <<r.op \in Keyed /\ r.body = "cut off", "ErrUnexpectedEOF">>
    BY Zenon
  <2>5. checks[5][1] => r.body = "cut off"
    BY <2>4, Zenon
  <2> HIDE DEF checks
  <2>6. \A i \in 1..6 : checks[i][2] \in Told \/ (i = 5 /\ checks[i][2] = "ErrUnexpectedEOF")
    <3>1. \A i \in 1..6 : i = 1 \/ i = 2 \/ i = 3 \/ i = 4 \/ i = 5 \/ i = 6
      OBVIOUS
    <3> QED
      BY <2>3, <3>1, ErrorsAreKnown DEF Told
  <2>7. \/ FirstError(checks) = "nil"
        \/ \E i \in 1..6 : checks[i][1] /\ FirstError(checks) = checks[i][2]
    <3>1. Len(checks) \in Nat
      BY <2>2
    <3>2. \/ FirstError(checks) = "nil" /\ \A i \in 1..Len(checks) : ~checks[i][1]
          \/ \E i \in 1..Len(checks) : checks[i][1] /\ FirstError(checks) = checks[i][2]
      BY <3>1, FirstErrorIs, Zenon
    <3> QED
      BY <2>2, <3>2, Zenon
  <2>8. "nil" \in Told
    BY DEF Told
  <2> QED
    BY <2>1, <2>5, <2>6, <2>7, <2>8
<1>3. RequestError(r) \in Told
  BY RequestPassed, ErrorsAreKnown DEF Told
<1>4. (RequestError(r) = "nil" /\ r.op \in Keyed) => ~r.long
  <2> DEFINE checks ==
        << <<Undecodable(r), "ValidationError">>,
           <<r.op \in Limited /\ (r.amount <= 0 \/ r.long), "ValidationError">>,
           <<r.op = "reverse" /\ r.long, "ValidationError">> >>
  <2>1. RequestError(r) = FirstError(checks)
    BY DEF RequestError
  <2>2. Len(checks) = 3 /\ \A i \in 1..3 : checks[i][2] # "nil"
    OBVIOUS
  <2>3. /\ checks[2] = <<r.op \in Limited /\ (r.amount <= 0 \/ r.long), "ValidationError">>
        /\ checks[3] = <<r.op = "reverse" /\ r.long, "ValidationError">>
    BY Zenon
  <2>4. /\ checks[2][1] <=> r.op \in Limited /\ (r.amount <= 0 \/ r.long)
        /\ checks[3][1] <=> r.op = "reverse" /\ r.long
    BY <2>3, Zenon
  <2> HIDE DEF checks
  <2>5. RequestError(r) = "nil" => ~checks[2][1] /\ ~checks[3][1]
    <3>1. Len(checks) \in Nat
      BY <2>2
    <3>2. \/ FirstError(checks) = "nil" /\ \A i \in 1..Len(checks) : ~checks[i][1]
          \/ \E i \in 1..Len(checks) : checks[i][1] /\ FirstError(checks) = checks[i][2]
      BY <3>1, FirstErrorIs, Zenon
    <3>3. 2 \in 1..Len(checks) /\ 3 \in 1..Len(checks)
      BY <2>2
    <3>4. \A i \in 1..Len(checks) : checks[i][2] # "nil"
      BY <2>2
    <3> QED
      BY <2>1, <3>2, <3>3, <3>4, Zenon
  <2> QED
    BY <2>4, <2>5 DEF Keyed, Limited
<1>5. r.op \in Keyed => ServiceError(u, k, r) \in Told
  <2>1. PICK amount : amount = AmountError(r.amount, IF r.op = "transfer" THEN MinTransfer ELSE 1)
    OBVIOUS
  <2>2. amount \in Told
    BY <2>1, ErrorsAreKnown DEF AmountError, NewMoney, Value, Error, Told
  <2>3. CASE r.op = "reverse"
    <3> DEFINE checks == << <<u \notin Admins, "ErrForbidden">>, <<k = BadKey, "ErrValidation">> >>
    <3>1. ServiceError(u, k, r) = FirstError(checks)
      BY <2>3 DEF ServiceError
    <3>2. Len(checks) = 2 /\ \A i \in 1..2 : checks[i][2] \in {"ErrForbidden", "ErrValidation"}
      OBVIOUS
    <3> HIDE DEF checks
    <3> QED
      BY <3>1, <3>2, FirstErrorTold, ErrorsAreKnown DEF Told
  <2>4. CASE r.op # "reverse"
    <3> DEFINE checks == << <<amount # "nil", amount>>,
                            <<u \notin DOMAIN WalletOf, "ErrAccountNotFound">>,
                            <<k = BadKey, "ErrValidation">> >>
    <3>1. ServiceError(u, k, r) = FirstError(checks)
      BY <2>1, <2>4 DEF ServiceError
    <3>2. Len(checks) = 3 /\ \A i \in 1..3 : checks[i][2] \in {amount, "ErrAccountNotFound", "ErrValidation"}
      OBVIOUS
    <3> HIDE DEF checks
    <3> QED
      BY <2>2, <3>1, <3>2, FirstErrorTold, ErrorsAreKnown DEF Told
  <2> QED
    BY <2>3, <2>4
<1>6. Refusal[c][k][allowed] =
        IF MiddlewareError(u, k, r, allowed) # "nil" THEN MiddlewareError(u, k, r, allowed)
        ELSE IF RequestError(r) # "nil" \/ r.op \notin Keyed THEN RequestError(r)
        ELSE ServiceError(u, k, r)
  BY <1>1 DEF Refusal
<1> QED
  BY <1>1, <1>2, <1>3, <1>4, <1>5, <1>6

----------------------------------------------------------------------------
(* What handlers post and what is stored is what was asked for.            *)

\* A transaction that may be reversed, stored under the key k.
Original(k, x) == Claimed(k) /\ idem[k].txn = x /\ idem[k].body.type # "REVERSAL"

\* A transaction of this type with these lines is what the request asks for: a slip with
\* the amount and the fee of the request, or the mirror of the one it names.
Asked(r, type, lines) ==
  \/ /\ r.op \in Limited /\ type # "REVERSAL"
     /\ Slip(lines, type, r.amount, FeeOf(r))
  \/ /\ r.op = "reverse" /\ type = "REVERSAL"
     /\ \E k \in ClaimKeys : /\ Original(k, r.target)
                             /\ lines = ReversedEntries(Lines(idem[k].body.entries))

\* The two errors that have no status, of a request that brought them about itself.
Blamed(s, err) ==
  \/ err = "ErrUnexpectedEOF" /\ Request(s).body = "cut off"
  \/ err = "PgError" /\ (req[s].hash \in Unstorable \/ req[s].key \in GarbledKeys)

ToldTo(s, err) == err \in Told \/ Blamed(s, err)

AskedOK(s) ==
  /\ at[s] \in Active => ~Request(s).long
  /\ at[s] = "posting" => Asked(Request(s), call[s].txn.type, call[s].txn.entries)
  /\ IF at[s] = "posting" THEN ToldTo(s, reply[s]) ELSE reply[s] \in Told
  /\ ToldTo(s, answer[s].err)

ClaimAsked(k) ==
  LET b == idem[k].body
  IN  Claimed(k) => Asked(RequestOf[idem[k].hash], b.type, Lines(b.entries))

AskedInv ==
  /\ AllValid
  /\ \A s \in Sessions : AskedOK(s)
  /\ \A k \in ClaimKeys : ClaimAsked(k)

(* A stored transaction is a slip, and so is a reversal of it.             *)
LEMMA AskedIsSlip ==
  ASSUME NEW k \in ClaimKeys, Claimed(k), ClaimAsked(k), idem[k].body.type # "REVERSAL"
  PROVE  LET r == RequestOf[idem[k].hash]
             b == idem[k].body
         IN  Slip(Lines(b.entries), b.type, r.amount, FeeOf(r))
BY DEF ClaimAsked, Asked

(* What a request asked for stays what it asked for.                       *)
LEMMA AskedStays ==
  ASSUME ClaimsStay, NEW r, NEW type, NEW lines, Asked(r, type, lines)
  PROVE  Asked(r, type, lines)'
<1>1. ASSUME NEW k \in ClaimKeys, NEW x, Original(k, x)
      PROVE  Original(k, x)' /\ idem'[k] = idem[k]
  <2>1. idem'[k] = idem[k]
    BY <1>1 DEF ClaimsStay, Original
  <2> QED
    BY <1>1, <2>1 DEF Original, Claimed
<1>2. CASE r.op \in Limited /\ type # "REVERSAL" /\ Slip(lines, type, r.amount, FeeOf(r))
  BY <1>2 DEF Asked
<1>3. CASE /\ r.op = "reverse" /\ type = "REVERSAL"
           /\ \E k \in ClaimKeys : /\ Original(k, r.target)
                                   /\ lines = ReversedEntries(Lines(idem[k].body.entries))
  <2>1. PICK k \in ClaimKeys : /\ Original(k, r.target)
                               /\ lines = ReversedEntries(Lines(idem[k].body.entries))
    BY <1>3
  <2>2. Original(k, r.target)' /\ idem'[k] = idem[k]
    BY <1>1, <2>1
  <2> QED
    BY <1>3, <2>1, <2>2 DEF Asked
<1> QED
  BY <1>2, <1>3 DEF Asked

(* A request of a user is refused by its builder with an error of the domain, or what is
   built is what was asked for (service/ledger.go Topup, Withdraw, Transfer).  *)
LEMMA BuiltIsAsked ==
  ASSUME NEW u \in DOMAIN WalletOf, NEW h \in Hashes, RequestOf[h].op \in Limited, ~RequestOf[h].long,
         NEW b \in Builds(u, RequestOf[h]), NEW t, t = Described(b.txn, RequestOf[h])
  PROVE  /\ b.err \in Told
         /\ b.err = "nil" => Asked(RequestOf[h], t.type, t.entries) /\ Validate(t) \in Told
<1>1. PICK r : r = RequestOf[h]
  OBVIOUS
<1>2. b.err \in Told
  <2>1. \A e : Refused(e).err = e
    BY DEF Refused
  <2>2. \A x : Built(x).err = "nil"
    BY DEF Built
  <2>3. \A x, y : Add(x, y).err \in {"nil", "ErrAmountOverflow"}
    BY DEF Add, Value, Error
  <2>4. CASE r.op = "topup"
    BY <1>1, <2>2, <2>4 DEF Builds, Told
  <2>5. CASE r.op = "withdraw"
    BY <1>1, <2>2, <2>5 DEF Builds, Told
  <2>6. CASE r.op = "transfer"
    <3>1. \/ b = Refused("ErrAccountNotFound")
          \/ \E f : b = NewTransfer(WalletOf[u], r.target, f, r.amount, TransferFee)
      BY <1>1, <2>6 DEF Builds
    <3>2. \A f : NewTransfer(WalletOf[u], r.target, f, r.amount, TransferFee).err \in
                   {"nil", "ErrSelfTransfer", "ErrAmountNotPositive", "ErrAmountOverflow"}
      BY <2>1, <2>2, <2>3 DEF NewTransfer
    <3> QED
      BY <2>1, <3>1, <3>2, ErrorsAreKnown DEF Told
  <2> QED
    BY <1>1, <2>4, <2>5, <2>6 DEF Limited
<1>3. ASSUME b.err = "nil"
      PROVE  Asked(r, t.type, t.entries) /\ Validate(t) \in Told
  <2>1. PICK type, es : /\ b.txn = Txn(type, es, NoTxn) /\ type # "REVERSAL"
                        /\ Slip(es, type, r.amount, FeeOf(r))
    BY <1>1, <1>3, BuiltSlips
  <2>2. t.type = type /\ t.entries = es /\ t.reverses = NoTxn /\ ~t.longDesc
    <3>1. t = [type |-> type, entries |-> es, reverses |-> NoTxn, longDesc |-> r.long]
      BY <1>1, <2>1 DEF Described, Txn
    <3> QED
      BY <1>1, <3>1
  <2>3. Asked(r, type, es)
    BY <1>1, <2>1 DEF Asked
  <2>4. Validate(t) \in {"nil", "ErrAmountNotPositive", "ErrAmountOverflow"}
    BY <2>1, <2>2, SlipValidates
  <2> QED
    BY <2>2, <2>3, <2>4, ErrorsAreKnown DEF Told
<1> QED
  BY <1>1, <1>2, <1>3

(* A reversal is refused because of its original, or it is the mirror of what was stored
   of it (service/ledger.go Reverse, GetTransaction).                        *)
LEMMA ReversalIsAsked ==
  ASSUME IInv, TInv, ServiceInv, \A k \in ClaimKeys : ClaimAsked(k),
         NEW u, NEW h \in Hashes, RequestOf[h].op = "reverse", ~RequestOf[h].long,
         NEW b \in Builds(u, RequestOf[h]), NEW t, t = Described(b.txn, RequestOf[h])
  PROVE  /\ b.err \in Told
         /\ b.err = "nil" => Asked(RequestOf[h], t.type, t.entries) /\ Validate(t) \in Told
<1>1. PICK r : r = RequestOf[h]
  OBVIOUS
<1>2. PICK x \in TxnIds : x = r.target
  BY <1>1, ServiceAssumption
<1>3. PICK o : o = GetTransaction(x)
  OBVIOUS
<1>4. b = Refused("ErrTransactionNotFound") \/ (Exists(x) /\ b = NewReversal(o))
  BY <1>1, <1>2, <1>3 DEF Builds
<1>5. (\A e : Refused(e).err = e) /\ \A y : Built(y).err = "nil" /\ Built(y).txn = y
  BY DEF Refused, Built
<1>6. b.err \in Told
  <2>1. NewReversal(o).err \in {"nil", "ErrAlreadyReversed", "ErrNotReversible"}
    BY <1>5 DEF NewReversal
  <2> QED
    BY <1>4, <1>5, <2>1, ErrorsAreKnown DEF Told
<1>7. ASSUME b.err = "nil"
      PROVE  Asked(r, t.type, t.entries) /\ Validate(t) \in Told
  <2>1. Exists(x) /\ b = NewReversal(o)
    BY <1>4, <1>5, <1>7
  <2>2. o.type # "REVERSAL" /\ b = Built(Txn("REVERSAL", ReversedEntries(o.entries), o.id))
    BY <1>5, <1>7, <2>1 DEF NewReversal
  <2>3. PICK k \in ClaimKeys : Claimed(k) /\ idem[k].txn = x
    BY <2>1 DEF TInv, ExactlyOnce
  <2>4. PICK body : body = idem[k].body
    OBVIOUS
  <2>5. PostResult(x) = body /\ body.type = transactions[x].type
    <3>1. BodyOK(k)
      BY DEF ServiceInv
    <3>2. PostResult(x) = body
      BY <2>3, <2>4, <3>1, StoredIsRead
    <3> QED
      BY <2>3, <2>4, <3>1, <3>2 DEF BodyOK
  <2>6. body.entries = ById({e \in entries : e.txn = x})
    BY <2>5 DEF PostResult
  <2>7. o.id = x /\ o.type = body.type /\ o.entries = Lines(body.entries)
    BY <1>3, <2>5, <2>6 DEF GetTransaction
  <2>8. PICK es, os : es = Lines(body.entries) /\ os = ReversedEntries(es)
    OBVIOUS
  <2>9. b.txn = Txn("REVERSAL", os, x)
    BY <1>5, <2>2, <2>7, <2>8
  <2>10. t.type = "REVERSAL" /\ t.entries = os /\ t.reverses = x /\ ~t.longDesc
    <3>1. t = [type |-> "REVERSAL", entries |-> os, reverses |-> x, longDesc |-> r.long]
      BY <1>1, <2>9 DEF Described, Txn
    <3> QED
      BY <1>1, <3>1
  <2>11. Original(k, x)
    BY <2>2, <2>3, <2>4, <2>7 DEF Original
  <2>12. Asked(r, "REVERSAL", os)
    BY <1>1, <1>2, <2>4, <2>8, <2>11 DEF Asked
  <2>13. PICK m, fee : Slip(es, body.type, m, fee)
    <3>1. PICK q : q = RequestOf[idem[k].hash]
      OBVIOUS
    <3>2. Slip(Lines(body.entries), body.type, q.amount, FeeOf(q))
      BY <2>2, <2>3, <2>4, <2>7, <3>1, AskedIsSlip
    <3> QED
      BY <2>8, <3>2
  <2>14. Slip(os, "REVERSAL", m, fee)
    BY <2>8, <2>13, MirroredSlips
  <2>15. x # NoTxn
    BY StoreAssumption
  <2>16. Validate(t) \in {"nil", "ErrAmountNotPositive", "ErrAmountOverflow"}
    BY <2>10, <2>14, <2>15, SlipValidates
  <2> QED
    BY <2>10, <2>12, <2>16, ErrorsAreKnown DEF Told
<1> QED
  BY <1>1, <1>6, <1>7

(* The rows a commit stores are, without their ids, the lines of the call
   (ledger_repo.go Post step 5).                                             *)
LEMMA RowsAreLines ==
  ASSUME IInv, TInv, NEW s \in Sessions, pc[s] = "commit"
  PROVE  Lines(posted[s]) = call[s].txn.entries
<1>1. PICK rows, es : rows = posted[s] /\ es = call[s].txn.entries
  OBVIOUS
<1>2. /\ rows \in Seq(RowTypes) /\ es \in Seq(EntryTypes)
      /\ Len(rows) = Len(es) /\ \A i \in 1..Len(rows) : RowFits(s, i)
  BY <1>1 DEF IInv, TypeOK, SessionOK, InTxn, Calls, Transactions, TInv, DraftsOK, DraftOK, Writing
<1>3. PICK n \in Nat : n = Len(rows) /\ DOMAIN rows = 1..n /\ DOMAIN es = 1..n /\ es = [i \in 1..n |-> es[i]]
  BY <1>2
<1>4. ASSUME NEW i \in 1..n
      PROVE  Entry(rows[i].account, rows[i].direction, rows[i].amount) = es[i]
  <2>1. LineOf(rows[i]) = LineOf(es[i])
    BY <1>1, <1>2, <1>3 DEF RowFits
  <2>2. /\ rows[i].account = es[i].account /\ rows[i].direction = es[i].direction
        /\ rows[i].amount = es[i].amount
    BY <2>1 DEF LineOf
  <2>3. es[i] \in EntryTypes
    BY <1>2, <1>3, ElementOfSeq
  <2>4. es[i] = [account |-> es[i].account, direction |-> es[i].direction, amount |-> es[i].amount]
    BY <2>3 DEF EntryTypes
  <2> QED
    BY <2>2, <2>4 DEF Entry
<1>5. Lines(rows) = [i \in 1..n |-> Entry(rows[i].account, rows[i].direction, rows[i].amount)]
  BY <1>3 DEF Lines
<1> QED
  BY <1>1, <1>3, <1>4, <1>5

(* What is stored under a key is what was asked for under it (service/ledger.go
   postIdempotent, ledger_repo.go Post step 6).                              *)
LEMMA CommitsAreAsked ==
  ASSUME IInv, TInv, ServiceInv, \A s \in Sessions : AskedOK(s), ClaimsStay,
         NEW s \in Sessions, pc[s] = "commit", Apply(s), NEW k \in ClaimKeys, ~Claimed(k)
  PROVE  ClaimAsked(k)'
<1>1. PICK x0, rev, key : Commits(s, x0, rev, key)
  BY DEF Commits
<1>2. CommitEffect(s, x0, rev, key)
  BY <1>1, CommitFacts
<1>3. CASE k # key
  BY <1>2, <1>3 DEF CommitEffect, ClaimAsked, Claimed
<1>4. CASE k = key
  <2>1. idem'[k] = ClaimRow(s)
    BY <1>2, <1>4 DEF CommitEffect
  <2>2. PICK h, b : h = idem'[k].hash /\ b = idem'[k].body
    OBVIOUS
  <2>3. h = call[s].hash /\ b.type = call[s].txn.type /\ b.entries = posted[s]
    BY <2>1, <2>2 DEF ClaimRow, Stored
  <2>4. at[s] = "posting" /\ call[s].hash = req[s].hash
    <3>1. HandlerOK(s)
      BY DEF ServiceInv
    <3> QED
      BY <3>1 DEF HandlerOK, PostingOK
  <2>5. Asked(RequestOf[h], call[s].txn.type, call[s].txn.entries)
    BY <2>3, <2>4 DEF AskedOK, Request
  <2>6. PICK r, type, lines : /\ r = RequestOf[h] /\ type = call[s].txn.type
                              /\ lines = call[s].txn.entries
    OBVIOUS
  <2>7. Asked(r, type, lines)'
    BY <2>5, <2>6, AskedStays
  <2>8. Lines(b.entries) = lines
    BY <2>3, <2>6, RowsAreLines
  <2> QED
    BY <2>2, <2>3, <2>6, <2>7, <2>8 DEF ClaimAsked
<1> QED
  BY <1>3, <1>4

(* Every step of the store leaves every stored result one that was asked for.  *)
LEMMA NextClaimsAsked ==
  ASSUME IInv, TInv, ServiceInv, AskedInv, [Next]_vars, NEW k \in ClaimKeys
  PROVE  ClaimAsked(k)'
<1>1. ClaimsStay
  BY NextOneWay DEF ClaimsStay
<1>2. ClaimAsked(k) /\ \A s \in Sessions : AskedOK(s)
  BY DEF AskedInv
<1>3. CASE Claimed(k)
  <2>1. PICK r, type, lines : /\ r = RequestOf[idem[k].hash] /\ type = idem[k].body.type
                              /\ lines = Lines(idem[k].body.entries)
    OBVIOUS
  <2>2. Asked(r, type, lines)
    BY <1>2, <1>3, <2>1 DEF ClaimAsked
  <2>3. Asked(r, type, lines)'
    BY <1>1, <2>2, AskedStays
  <2>4. idem'[k] = idem[k]
    BY <1>1, <1>3 DEF ClaimsStay
  <2> QED
    BY <2>1, <2>3, <2>4 DEF ClaimAsked
<1>4. CASE ~Claimed(k) /\ NothingCommitted
  BY <1>4 DEF NothingCommitted, ClaimAsked, Claimed
<1>5. CASE ~Claimed(k) /\ \E s \in Sessions : pc[s] = "commit" /\ Apply(s)
  BY <1>1, <1>2, <1>5, CommitsAreAsked
<1> QED
  BY <1>3, <1>4, <1>5, WritesAreCommits

(* A step of one handler leaves the others with what they were asked for.  *)
LEMMA OthersAsked ==
  ASSUME \A r \in Sessions : AskedOK(r), ClaimsStay, NEW s \in Sessions, AskedOK(s)',
         \A r \in Sessions \ {s} : /\ at'[r] = at[r] /\ req'[r] = req[r] /\ answer'[r] = answer[r]
                                   /\ call'[r] = call[r] /\ reply'[r] = reply[r]
  PROVE  \A r \in Sessions : AskedOK(r)'
<1> SUFFICES ASSUME NEW r \in Sessions, r # s PROVE AskedOK(r)'
  OBVIOUS
<1>1. /\ at'[r] = at[r] /\ req'[r] = req[r] /\ answer'[r] = answer[r]
      /\ call'[r] = call[r] /\ reply'[r] = reply[r] /\ AskedOK(r)
  OBVIOUS
<1>2. Request(r)' = Request(r)
  BY <1>1 DEF Request
<1>3. at[r] = "posting" => Asked(Request(r), call[r].txn.type, call[r].txn.entries)'
  <2> SUFFICES ASSUME at[r] = "posting"
               PROVE  Asked(Request(r), call[r].txn.type, call[r].txn.entries)'
    OBVIOUS
  <2>1. PICK q, type, lines : q = Request(r) /\ type = call[r].txn.type /\ lines = call[r].txn.entries
    OBVIOUS
  <2>2. Asked(q, type, lines)
    BY <1>1, <2>1 DEF AskedOK
  <2>3. Asked(q, type, lines)'
    BY <2>2, AskedStays
  <2>4. q = Request(r)' /\ type = call'[r].txn.type /\ lines = call'[r].txn.entries
    BY <1>1, <1>2, <2>1
  <2> QED
    BY <2>3, <2>4
<1>4. \A err : ToldTo(r, err)' = ToldTo(r, err)
  BY <1>1, <1>2 DEF ToldTo, Blamed
<1> QED
  BY <1>1, <1>2, <1>3, <1>4 DEF AskedOK

(* A handler that answers with an error of its own, or with a result.      *)
LEMMA AnswersAreTold ==
  ASSUME ServiceInv, \A r \in Sessions : AskedOK(r), NEW s \in Sessions, StoreKeeps(s),
         reply'[s] \in Told,
         (\E err : ToldTo(s, err) /\ AnswerError(s, err)) \/ (\E body : AnswerResult(s, body))
  PROVE  \A r \in Sessions : AskedOK(r)'
<1>1. PICK a : /\ ToldTo(s, a.err)
               /\ at' = [at EXCEPT ![s] = "answered"] /\ UNCHANGED req
               /\ answer' = [answer EXCEPT ![s] = a]
  <2>1. ASSUME NEW err, ToldTo(s, err), AnswerError(s, err)
        PROVE  \E a : /\ ToldTo(s, a.err)
                      /\ at' = [at EXCEPT ![s] = "answered"] /\ UNCHANGED req
                      /\ answer' = [answer EXCEPT ![s] = a]
    <3>1. PICK a : a = [NoAnswer EXCEPT !.err = err]
      OBVIOUS
    <3>2. a.err = err
      BY <3>1 DEF NoAnswer
    <3> QED
      BY <2>1, <3>1, <3>2 DEF AnswerError
  <2>2. ASSUME NEW body, AnswerResult(s, body)
        PROVE  \E a : /\ ToldTo(s, a.err)
                      /\ at' = [at EXCEPT ![s] = "answered"] /\ UNCHANGED req
                      /\ answer' = [answer EXCEPT ![s] = a]
    <3>1. PICK a : a = [err |-> "nil", body |-> body, viewer |-> Viewer(req[s].user, Request(s).op)]
      OBVIOUS
    <3>2. ToldTo(s, a.err)
      BY <3>1 DEF ToldTo, Told
    <3> QED
      BY <2>2, <3>1, <3>2 DEF AnswerResult
  <2> QED
    BY <2>1, <2>2
<1>2. at'[s] = "answered" /\ answer'[s] = a
  BY <1>1 DEF ServiceInv
<1>3. AskedOK(s)'
  <2>1. \A err : ToldTo(s, err)' = ToldTo(s, err)
    BY <1>1 DEF ToldTo, Blamed, Request
  <2> QED
    BY <1>1, <1>2, <2>1 DEF AskedOK, Active
<1>4. ClaimsStay
  BY DEF StoreKeeps, ClaimsStay
<1>5. \A r \in Sessions \ {s} : at'[r] = at[r] /\ req'[r] = req[r] /\ answer'[r] = answer[r]
  BY <1>1 DEF ServiceInv
<1> QED
  BY <1>3, <1>4, <1>5, OthersAsked DEF StoreKeeps

(* A handler that goes on to another place with its request.               *)
LEMMA ContinuesAsked ==
  ASSUME ServiceInv, \A r \in Sessions : AskedOK(r), NEW s \in Sessions, StoreKeeps(s),
         reply'[s] \in Told, at[s] \in Active, NEW l \in Active, Continue(s, l),
         l = "posting" => Asked(Request(s), call[s].txn.type, call[s].txn.entries)'
  PROVE  \A r \in Sessions : AskedOK(r)'
<1>1. at'[s] = l /\ req' = req /\ answer' = answer
  BY DEF Continue, ServiceInv
<1>2. Request(s)' = Request(s)
  BY <1>1 DEF Request
<1>3. AskedOK(s)'
  <2>1. \A err : ToldTo(s, err)' = ToldTo(s, err)
    BY <1>1, <1>2 DEF ToldTo, Blamed
  <2> QED
    BY <1>1, <1>2, <2>1 DEF AskedOK, ToldTo
<1>4. ClaimsStay
  BY DEF StoreKeeps, ClaimsStay
<1>5. \A r \in Sessions \ {s} : at'[r] = at[r] /\ req'[r] = req[r] /\ answer'[r] = answer[r]
  BY DEF Continue, ServiceInv
<1> QED
  BY <1>3, <1>4, <1>5, OthersAsked DEF StoreKeeps

(* A request is refused with an error that is known, or its description is not too long
   (router.go, middleware.go, dto.go validate).                              *)
LEMMA ReceiveAsked ==
  ASSUME ServiceInv, \A r \in Sessions : AskedOK(r), NEW s \in Sessions, NEW c \in Traffic,
         NEW k \in IF RequestOf[c[2]].op \in Keyed THEN Headers ELSE {BadKey},
         Receive(s, c, k)
  PROVE  \A r \in Sessions : AskedOK(r)'
<1>1. PICK allowed \in BOOLEAN : \E err :
        /\ err = Refusal[c][k][allowed]
        /\ at' = [at EXCEPT ![s] = IF err # "nil" THEN "answered"
                                   ELSE IF RequestOf[c[2]].op \in Keyed THEN "replay"
                                   ELSE "read"]
        /\ answer' = [answer EXCEPT ![s].err = err]
  BY DEF Receive
<1>2. PICK err :
        /\ err = Refusal[c][k][allowed]
        /\ at' = [at EXCEPT ![s] = IF err # "nil" THEN "answered"
                                   ELSE IF RequestOf[c[2]].op \in Keyed THEN "replay"
                                   ELSE "read"]
        /\ answer' = [answer EXCEPT ![s].err = err]
  BY <1>1
<1>3. at[s] = "idle" /\ UNCHANGED vars
  BY DEF Receive
<1>4. StoreKeeps(s) /\ reply' = reply
  BY <1>3, StoreAlone DEF vars, session
<1>5. k \in Headers
  BY DEF Headers
<1>6. /\ \/ err \in Told
         \/ err = "ErrUnexpectedEOF" /\ RequestOf[c[2]].body = "cut off"
      /\ (err = "nil" /\ RequestOf[c[2]].op \in Keyed) => ~RequestOf[c[2]].long
  BY <1>2, <1>5, RefusalsAreTold
<1>7. answer'[s].err = err
  <2>1. answer[s] = NoAnswer
    BY <1>3 DEF ServiceInv, HandlerOK
  <2>2. answer'[s] = [NoAnswer EXCEPT !.err = err]
    BY <1>2, <2>1 DEF ServiceInv
  <2> QED
    BY <2>2 DEF NoAnswer
<1>8. at'[s] \in Active => err = "nil" /\ RequestOf[c[2]].op \in Keyed /\ at'[s] = "replay"
  BY <1>2 DEF ServiceInv, Active
<1>9. Request(s)' = RequestOf[c[2]]
  <2>1. req'[s] = [user |-> c[1], key |-> k, hash |-> c[2]]
    BY DEF Receive, ServiceInv
  <2> QED
    BY <2>1 DEF Request
<1>10. at'[s] # "posting"
  BY <1>8 DEF Active
<1>11. AskedOK(s)'
  <2>1. ToldTo(s, answer[s].err)'
    BY <1>6, <1>7, <1>9 DEF ToldTo, Blamed
  <2>2. reply'[s] \in Told
    BY <1>3, <1>4 DEF AskedOK
  <2> QED
    BY <1>6, <1>8, <1>9, <1>10, <2>1, <2>2 DEF AskedOK
<1>12. ClaimsStay
  BY <1>4 DEF StoreKeeps, ClaimsStay
<1>13. \A r \in Sessions \ {s} : at'[r] = at[r] /\ req'[r] = req[r] /\ answer'[r] = answer[r]
  BY <1>2 DEF Receive, ServiceInv
<1> QED
  BY <1>4, <1>11, <1>12, <1>13, OthersAsked DEF StoreKeeps

(* The errors a handler or the store has of its own.                       *)
LEMMA OwnErrorsAreTold ==
  {"nil", "ErrDatabase", "ErrContext", "ErrIdempotencyInFlight", "ErrIdempotencyConflict",
   "ErrAccountNotFound", "ErrTransactionNotFound", "ErrAccountNotActive", "ErrAlreadyReversed",
   "ErrInsufficientBalance", "ErrAmountOverflow"} \subseteq Told
BY ErrorsAreKnown DEF Told

(* A key that is looked up gives an answer that is known, or the request goes on to be
   built (service/ledger.go replay).                                         *)
LEMMA ReplayAsked ==
  ASSUME ServiceInv, \A r \in Sessions : AskedOK(r), NEW s \in Sessions, Replay(s)
  PROVE  \A r \in Sessions : AskedOK(r)'
<1>1. at[s] \in {"replay", "replay again"} /\ UNCHANGED vars /\ reply[s] \in Told
  BY DEF Replay, AskedOK
<1>2. StoreKeeps(s) /\ reply'[s] \in Told
  <2>1. reply' = reply
    BY <1>1 DEF vars, session
  <2> QED
    BY <1>1, <2>1, StoreAlone
<1>3. /\ ReplayError(s) \in Told
      /\ req[s].key \in GarbledKeys => ToldTo(s, "PgError")
  BY OwnErrorsAreTold DEF ReplayError, ToldTo, Blamed
<1>4. \/ \E err : ToldTo(s, err) /\ AnswerError(s, err)
      \/ \E body : AnswerResult(s, body)
      \/ Continue(s, "build")
  BY <1>1, <1>3, OwnErrorsAreTold DEF Replay, ToldTo
<1>5. CASE (\E err : ToldTo(s, err) /\ AnswerError(s, err)) \/ (\E body : AnswerResult(s, body))
  BY <1>2, <1>5, AnswersAreTold
<1>6. CASE Continue(s, "build")
  BY <1>1, <1>2, <1>6, ContinuesAsked DEF Active
<1> QED
  BY <1>4, <1>5, <1>6

(* What is posted is what was asked for, and what is refused is refused with an error
   that is known (service/ledger.go postIdempotent).                         *)
LEMMA BuildAsked ==
  ASSUME IInv, TInv, ServiceInv, AskedInv, NEW s \in Sessions, Build(s)
  PROVE  \A r \in Sessions : AskedOK(r)'
<1>1. PICK b \in Builds(req[s].user, Request(s)) : \E t, err :
        /\ t = Described(b.txn, Request(s))
        /\ err = IF b.err # "nil" THEN b.err ELSE Validate(t)
        /\ IF err = "nil"
           THEN Continue(s, "posting") /\ Post(s, t, KeyOf(s), req[s].hash)
           ELSE AnswerError(s, err) /\ UNCHANGED vars
  BY DEF Build
<1>2. PICK t, err :
        /\ t = Described(b.txn, Request(s))
        /\ err = IF b.err # "nil" THEN b.err ELSE Validate(t)
        /\ IF err = "nil"
           THEN Continue(s, "posting") /\ Post(s, t, KeyOf(s), req[s].hash)
           ELSE AnswerError(s, err) /\ UNCHANGED vars
  BY <1>1
<1>3. at[s] = "build" /\ \A r \in Sessions : AskedOK(r)
  BY DEF Build, AskedInv
<1>4. /\ Request(s).op \in Keyed /\ Accepted(s) /\ req[s].hash \in Hashes
      /\ ~Request(s).long /\ reply[s] \in Told
  BY <1>3 DEF ServiceInv, HandlerOK, Accepted, Active, AskedOK
<1>5. PICK h \in Hashes : h = req[s].hash
  BY <1>4
<1>6. PICK u : u = req[s].user
  OBVIOUS
<1>7. Request(s) = RequestOf[h] /\ b \in Builds(u, RequestOf[h]) /\ t = Described(b.txn, RequestOf[h])
  BY <1>2, <1>5, <1>6 DEF Request
<1>8. /\ b.err \in Told
      /\ b.err = "nil" => Asked(RequestOf[h], t.type, t.entries) /\ Validate(t) \in Told
  <2>1. CASE RequestOf[h].op \in Limited
    <3>1. u \in DOMAIN WalletOf
      BY <1>4, <1>6, <1>7, <2>1 DEF Accepted
    <3> QED
      BY <1>4, <1>7, <2>1, <3>1, BuiltIsAsked
  <2>2. CASE RequestOf[h].op = "reverse"
    BY <1>4, <1>7, <2>2, ReversalIsAsked DEF AskedInv
  <2> QED
    BY <1>4, <1>7, <2>1, <2>2 DEF Keyed, Limited
<1>9. CASE err # "nil"
  <2>1. err \in Told /\ AnswerError(s, err) /\ UNCHANGED vars
    BY <1>2, <1>8, <1>9
  <2>2. StoreKeeps(s) /\ reply' = reply
    BY <2>1, StoreAlone DEF vars, session
  <2> QED
    BY <1>3, <1>4, <2>1, <2>2, AnswersAreTold DEF ToldTo
<1>10. CASE err = "nil"
  <2>1. b.err = "nil" /\ Continue(s, "posting") /\ Post(s, t, KeyOf(s), h)
    BY <1>2, <1>5, <1>10
  <2>2. Validate(t) = "nil"
    BY <1>2, <1>10, <2>1
  <2>3. /\ call' = [call EXCEPT ![s] = [txn |-> t, key |-> KeyOf(s), hash |-> h]]
        /\ pc' = [pc EXCEPT ![s] = "claim"]
        /\ UNCHANGED <<transactions, idem, tid, posted, reply>>
    BY <2>1, <2>2 DEF Post, Goto, tables
  <2>4. call'[s].txn = t /\ reply' = reply /\ StoreKeeps(s)
    BY <2>3 DEF IInv, TypeOK, StoreKeeps
  <2>5. PICK r, type, lines : r = RequestOf[h] /\ type = t.type /\ lines = t.entries
    OBVIOUS
  <2>6. Asked(r, type, lines)
    BY <1>8, <2>1, <2>5
  <2>7. ClaimsStay
    BY <2>4 DEF StoreKeeps, ClaimsStay
  <2>8. Asked(r, type, lines)'
    BY <2>6, <2>7, AskedStays
  <2>9. /\ at'[s] = "posting" /\ req' = req /\ answer' = answer
        /\ \A q \in Sessions \ {s} : at'[q] = at[q]
    BY <2>1 DEF Continue, ServiceInv
  <2>10. Request(s)' = r
    BY <1>7, <2>5, <2>9 DEF Request
  <2>11. AskedOK(s)'
    <3>1. ToldTo(s, answer[s].err)'
      BY <1>3, <2>9 DEF AskedOK, ToldTo, Blamed, Request
    <3> QED
      BY <1>3, <1>4, <1>7, <2>4, <2>5, <2>8, <2>9, <2>10, <3>1 DEF AskedOK, ToldTo
  <2> QED
    BY <1>3, <2>4, <2>7, <2>9, <2>11, OthersAsked DEF StoreKeeps
<1> QED
  BY <1>9, <1>10

(* The error of Post is the caller's (service/ledger.go postIdempotent).   *)
LEMMA ReturnedAsked ==
  ASSUME IInv, ServiceInv, \A r \in Sessions : AskedOK(r), NEW s \in Sessions, Returned(s)
  PROVE  \A r \in Sessions : AskedOK(r)'
<1>1. at[s] = "posting" /\ Release(s) /\ ToldTo(s, reply[s])
  BY DEF Returned, AskedOK
<1>2. StoreKeeps(s) /\ reply'[s] \in Told
  <2>1. reply'[s] = "nil"
    BY <1>1 DEF Release, IInv, TypeOK
  <2>2. StoreKeeps(s)
    BY <1>1 DEF Release, Goto, IInv, TypeOK, StoreKeeps, tables
  <2> QED
    BY <2>1, <2>2 DEF Told
<1>3. \/ \E err : ToldTo(s, err) /\ AnswerError(s, err)
      \/ \E body : AnswerResult(s, body)
      \/ Continue(s, "replay again")
  BY <1>1 DEF Returned
<1>4. CASE (\E err : ToldTo(s, err) /\ AnswerError(s, err)) \/ (\E body : AnswerResult(s, body))
  BY <1>2, <1>4, AnswersAreTold
<1>5. CASE Continue(s, "replay again")
  BY <1>1, <1>2, <1>5, ContinuesAsked DEF Active
<1> QED
  BY <1>3, <1>4, <1>5

(* The reads, a lookup that fails, and the end of a handler.               *)
LEMMA AnswersAsked ==
  ASSUME ServiceInv, \A r \in Sessions : AskedOK(r), NEW s \in Sessions,
         Read(s) \/ LookupFails(s) \/ Respond(s)
  PROVE  \A r \in Sessions : AskedOK(r)'
<1>1. UNCHANGED vars /\ reply[s] \in Told
  BY DEF Read, LookupFails, Respond, AskedOK
<1>2. StoreKeeps(s) /\ reply' = reply
  BY <1>1, StoreAlone DEF vars, session
<1>3. \/ \E err : ToldTo(s, err) /\ AnswerError(s, err)
      \/ \E body : AnswerResult(s, body)
      \/ Respond(s)
  <2>1. CASE Read(s)
    <3>1. \/ AnswerError(s, "ErrAccountNotFound") \/ AnswerError(s, "ErrTransactionNotFound")
          \/ AnswerError(s, "nil") \/ AnswerResult(s, PostResult(Request(s).target))
      BY <2>1 DEF Read
    <3> QED
      BY <3>1, OwnErrorsAreTold DEF ToldTo
  <2>2. CASE LookupFails(s)
    BY <2>2, OwnErrorsAreTold DEF LookupFails, ToldTo
  <2> QED
    BY <2>1, <2>2
<1>4. CASE (\E err : ToldTo(s, err) /\ AnswerError(s, err)) \/ (\E body : AnswerResult(s, body))
  BY <1>1, <1>2, <1>4, AnswersAreTold
<1>5. CASE Respond(s)
  <2>1. /\ at'[s] = "idle" /\ answer'[s] = NoAnswer
        /\ \A r \in Sessions \ {s} : at'[r] = at[r] /\ req'[r] = req[r] /\ answer'[r] = answer[r]
    BY <1>5 DEF Respond, ServiceInv
  <2>2. answer'[s].err = "nil"
    BY <2>1 DEF NoAnswer
  <2>3. AskedOK(s)'
    BY <1>1, <1>2, <2>1, <2>2 DEF AskedOK, Active, ToldTo, Told
  <2>4. ClaimsStay
    BY <1>2 DEF StoreKeeps, ClaimsStay
  <2> QED
    BY <1>2, <2>1, <2>3, <2>4, OthersAsked DEF StoreKeeps
<1> QED
  BY <1>3, <1>4, <1>5

(* What Post returns is an error the transport knows, or that of a text that cannot be
   stored: the unique index and the trigger, whose errors it does not know either, stop
   nothing (ledger_repo.go Post).                                            *)
LEMMA StepTold ==
  ASSUME IInv, TInv, AllValid, NEW s \in Sessions,
         Step(s) \/ CommitLost(s) \/ Abort(s)
  PROVE  \/ reply'[s] \in Told \/ reply'[s] = reply[s]
         \/ reply'[s] = "PgError" /\ call[s].hash \in Unstorable
<1>1. DOMAIN reply = Sessions
  BY DEF IInv, TypeOK
<1>2. \A err : Return(s, err) => reply'[s] = err
  BY <1>1 DEF Return
<1>3. \A err \in Told : Rollback(s, err) => reply'[s] \in Told
  BY <1>2 DEF Rollback
<1>4. UNCHANGED reply => reply'[s] = reply[s]
  OBVIOUS
<1>5. CASE Claim(s) \/ Mark(s) \/ Abort(s)
  BY <1>3, <1>4, <1>5, OwnErrorsAreTold DEF Claim, Mark, Abort
<1>6. CASE InsertHeader(s)
  <2>1. \/ HeaderError(s) = "PgError" /\ call[s].hash \in Unstorable
        \/ HeaderError(s) \in Told
    BY OwnErrorsAreTold DEF HeaderError
  <2>2. Rollback(s, HeaderError(s)) => reply'[s] = HeaderError(s)
    BY <1>2 DEF Rollback
  <2> QED
    BY <1>4, <1>6, <2>1, <2>2 DEF InsertHeader
<1>7. CASE LockRow(s) \/ SaveResult(s)
  BY <1>4, <1>7 DEF LockRow, SaveResult
<1>8. CASE CheckLocked(s)
  <2>1. CheckError(s) \in Told
    BY OwnErrorsAreTold DEF CheckError
  <2> QED
    BY <1>3, <1>4, <1>8, <2>1 DEF CheckLocked
<1>9. CASE PostEntry(s)
  <2>1. PICK e : e = ThisEntry(s)
    OBVIOUS
  <2>2. ~Wrote(s, e.account)
    BY <1>9, <2>1, EntryIsFresh DEF PostEntry
  <2>3. Add(snap[s][e.account].balance, Delta(e)).err \in {"nil", "ErrAmountOverflow"}
    BY DEF Add, Value, Error
  <2>4. "ErrConcurrentModification" \in Told
    BY ErrorsAreKnown DEF Told
  <2>5. EntryError(s, e) \in Told
    BY <2>2, <2>3, <2>4, OwnErrorsAreTold DEF EntryError
  <2>6. EntryError(s, e) = "nil" \/ Rollback(s, EntryError(s, e))
    BY <1>9, <2>1 DEF PostEntry
  <2>7. EntryError(s, e) = "nil" => UNCHANGED reply
    BY <1>9, <2>1 DEF PostEntry
  <2> QED
    BY <1>3, <1>4, <2>5, <2>6, <2>7
<1>10. CASE Commit(s) \/ CommitLost(s)
  <2>1. CommitError(s) = "nil"
    BY <1>10, ValidCommits DEF Commit, CommitLost
  <2>2. Return(s, "nil") \/ Return(s, "ErrContext")
    BY <1>10, <2>1 DEF Commit, CommitLost
  <2> QED
    BY <1>2, <2>2, OwnErrorsAreTold
<1> QED
  BY <1>5, <1>6, <1>8, <1>9, <1>10, <1>7 DEF Step

(* A statement of Post touches neither the requests nor the calls.         *)
LEMMA StepAsked ==
  ASSUME IInv, TInv, ServiceInv, AskedInv, NEW s \in Sessions,
         Step(s) \/ CommitLost(s) \/ Abort(s), UNCHANGED svars
  PROVE  \A r \in Sessions : AskedOK(r)'
<1>1. \A r \in Sessions : AskedOK(r) /\ HandlerOK(r)
  BY DEF AskedInv, ServiceInv
<1>2. [Next]_vars
  BY DEF Next
<1>3. ClaimsStay
  BY <1>2, NextOneWay DEF ClaimsStay
<1>4. GoesOn(s)
  BY <1>1, StepGoesOn DEF HandlerOK
<1>5. /\ UNCHANGED <<at, req, answer, call>>
      /\ \A r \in Sessions \ {s} : reply'[r] = reply[r]
  BY <1>4 DEF svars, GoesOn
<1>6. at[s] = "posting" /\ ToldTo(s, reply[s])'
  <2>1. at[s] = "posting" /\ call[s].hash = req[s].hash
    <3>1. pc[s] \in InTxn
      BY DEF Step, CommitLost, Abort, InTxn, Claim, LockRow, CheckLocked, Mark, InsertHeader,
             PostEntry, SaveResult, Commit
    <3> QED
      BY <1>1, <3>1 DEF HandlerOK, PostingOK, InTxn
  <2>2. ToldTo(s, reply[s])
    BY <1>1, <2>1 DEF AskedOK
  <2>3. \/ reply'[s] \in Told \/ reply'[s] = reply[s]
        \/ reply'[s] = "PgError" /\ call[s].hash \in Unstorable
    BY StepTold DEF AskedInv
  <2> QED
    BY <1>5, <2>1, <2>2, <2>3 DEF ToldTo, Blamed, Request
<1>7. at[s] = "posting" => Asked(Request(s), call[s].txn.type, call[s].txn.entries)'
  <2> SUFFICES ASSUME at[s] = "posting"
               PROVE  Asked(Request(s), call[s].txn.type, call[s].txn.entries)'
    OBVIOUS
  <2>1. PICK q, type, lines : q = Request(s) /\ type = call[s].txn.type /\ lines = call[s].txn.entries
    OBVIOUS
  <2>2. Asked(q, type, lines)
    BY <1>1, <2>1 DEF AskedOK
  <2>3. Asked(q, type, lines)'
    BY <1>3, <2>2, AskedStays
  <2>4. q = Request(s)' /\ type = call'[s].txn.type /\ lines = call'[s].txn.entries
    BY <1>5, <2>1 DEF Request
  <2> QED
    BY <2>3, <2>4
<1>8. AskedOK(s)'
  <2>1. ToldTo(s, answer[s].err)'
    BY <1>1, <1>5 DEF AskedOK, ToldTo, Blamed, Request
  <2> QED
    BY <1>1, <1>5, <1>6, <1>7, <2>1 DEF AskedOK, Request
<1> QED
  BY <1>1, <1>3, <1>5, <1>8, OthersAsked

(* A call of Post commits nothing.                                         *)
LEMMA BuildClaims ==
  ASSUME AskedInv, NEW s \in Sessions, NEW t, NEW k, NEW h, Post(s, t, k, h), NEW j \in ClaimKeys
  PROVE  ClaimAsked(j)'
<1>1. idem' = idem /\ ClaimAsked(j)
  BY DEF Post, tables, AskedInv
<1>2. ClaimsStay
  BY <1>1 DEF ClaimsStay
<1>3. CASE Claimed(j)
  <2>1. PICK r, type, lines : /\ r = RequestOf[idem[j].hash] /\ type = idem[j].body.type
                              /\ lines = Lines(idem[j].body.entries)
    OBVIOUS
  <2>2. Asked(r, type, lines)
    BY <1>1, <1>3, <2>1 DEF ClaimAsked
  <2>3. Asked(r, type, lines)'
    BY <1>2, <2>2, AskedStays
  <2> QED
    BY <1>1, <2>1, <2>3 DEF ClaimAsked
<1>4. CASE ~Claimed(j)
  BY <1>1, <1>4 DEF ClaimAsked, Claimed
<1> QED
  BY <1>3, <1>4

----------------------------------------------------------------------------
(* The theorems.                                                           *)

(* No handler, no call, no result.                                         *)
LEMMA AskedAtFirst == ApiInit => AskedInv
<1> SUFFICES ASSUME ApiInit PROVE AskedInv
  OBVIOUS
<1>1. /\ \A s \in Sessions : pc[s] = "idle" /\ at[s] = "idle" /\ answer[s] = NoAnswer /\ reply[s] = "nil"
      /\ \A k \in ClaimKeys : idem[k] = NoClaim
  BY DEF ApiInit, Init
<1>2. AllValid
  BY <1>1 DEF AllValid, InTxn
<1>3. ASSUME NEW s \in Sessions PROVE AskedOK(s)
  <2>1. answer[s].err = "nil"
    BY <1>1 DEF NoAnswer
  <2> QED
    BY <1>1, <2>1 DEF AskedOK, Active, ToldTo, Told
<1>4. ASSUME NEW k \in ClaimKeys PROVE ClaimAsked(k)
  <2>1. NoClaim.code = 0
    BY DEF NoClaim
  <2>2. idem[k].code = 0
    BY <1>1, <2>1
  <2> QED
    BY <2>2 DEF ClaimAsked, Claimed
<1> QED
  BY <1>2, <1>3, <1>4 DEF AskedInv

(* Every step of the service keeps to what was asked for.                  *)
LEMMA AskedNext ==
  ASSUME IInv, TInv, RowIdsOK, ServiceInv, AskedInv, [ApiNext]_<<vars, svars>>
  PROVE  AskedInv'
<1>1. \A r \in Sessions : AskedOK(r)
  BY DEF AskedInv
<1>2. ASSUME [Next]_vars PROVE AllValid' /\ \A k \in ClaimKeys : ClaimAsked(k)'
  BY <1>2, NextValid, NextClaimsAsked DEF AskedInv
<1>3. ASSUME UNCHANGED <<vars, svars>> PROVE \A r \in Sessions : AskedOK(r)'
  <2>1. UNCHANGED <<at, req, answer, idem, call, reply>>
    BY <1>3 DEF vars, tables, session, svars
  <2>2. ClaimsStay
    BY <2>1 DEF ClaimsStay
  <2> SUFFICES ASSUME NEW s \in Sessions PROVE AskedOK(s)'
    OBVIOUS
  <2>3. at[s] = "posting" => Asked(Request(s), call[s].txn.type, call[s].txn.entries)'
    <3> SUFFICES ASSUME at[s] = "posting"
                 PROVE  Asked(Request(s), call[s].txn.type, call[s].txn.entries)'
      OBVIOUS
    <3>1. PICK q, type, lines : /\ q = Request(s) /\ type = call[s].txn.type
                                /\ lines = call[s].txn.entries
      OBVIOUS
    <3>2. Asked(q, type, lines)
      BY <1>1, <3>1 DEF AskedOK
    <3>3. Asked(q, type, lines)'
      BY <2>2, <3>2, AskedStays
    <3> QED
      BY <2>1, <3>1, <3>3 DEF Request
  <2> QED
    BY <1>1, <2>1, <2>3 DEF AskedOK, ToldTo, Blamed, Request
<1>4. ASSUME NEW s \in Sessions, Build(s) PROVE AskedInv'
  <2>1. \A r \in Sessions : AskedOK(r)'
    BY <1>4, BuildAsked
  <2>2. CASE UNCHANGED vars
    BY <1>2, <2>1, <2>2 DEF AskedInv
  <2>3. CASE \E t : ReversalFits(t) /\ \E k \in ClaimKeys, h \in Hashes : Post(s, t, k, h)
    <3>1. PICK t, k, h : Post(s, t, k, h)
      BY <2>3
    <3>2. AllValid'
      BY <3>1, PostValid DEF AskedInv
    <3>3. \A j \in ClaimKeys : ClaimAsked(j)'
      BY <3>1, BuildClaims
    <3> QED
      BY <2>1, <3>2, <3>3 DEF AskedInv
  <2> QED
    BY <1>4, <2>2, <2>3, BuildService
<1>5. ASSUME NEW s \in Sessions,
             \/ Replay(s) \/ LookupFails(s) \/ Read(s) \/ Respond(s) \/ Returned(s)
             \/ (Step(s) \/ CommitLost(s) \/ Abort(s)) /\ UNCHANGED svars
      PROVE  [Next]_vars /\ \A r \in Sessions : AskedOK(r)'
  <2>1. [Next]_vars
    BY <1>5 DEF Replay, LookupFails, Read, Respond, Returned, Next
  <2>2. CASE Replay(s)
    BY <1>1, <2>1, <2>2, ReplayAsked
  <2>3. CASE LookupFails(s) \/ Read(s) \/ Respond(s)
    BY <1>1, <2>1, <2>3, AnswersAsked
  <2>4. CASE Returned(s)
    BY <1>1, <2>1, <2>4, ReturnedAsked
  <2>5. CASE (Step(s) \/ CommitLost(s) \/ Abort(s)) /\ UNCHANGED svars
    BY <2>1, <2>5, StepAsked
  <2> QED
    BY <1>5, <2>2, <2>3, <2>4, <2>5
<1>6. ASSUME NEW s \in Sessions, NEW c \in Traffic,
             NEW k \in IF RequestOf[c[2]].op \in Keyed THEN Headers ELSE {BadKey},
             Receive(s, c, k)
      PROVE  [Next]_vars /\ \A r \in Sessions : AskedOK(r)'
  <2>1. UNCHANGED vars
    BY <1>6 DEF Receive
  <2>2. \A r \in Sessions : AskedOK(r)'
    BY <1>1, <1>6, ReceiveAsked
  <2> QED
    BY <2>1, <2>2
<1>7. CASE UNCHANGED <<vars, svars>>
  BY <1>2, <1>3, <1>7 DEF AskedInv
<1>8. CASE ApiNext
  BY <1>2, <1>4, <1>5, <1>6, <1>8 DEF ApiNext, Serve, AskedInv
<1> QED
  BY <1>7, <1>8

(* What handlers post, what is stored and what is answered agrees with what was asked for,
   in every state.                                                           *)
THEOREM AskedInvariance == ApiSpec => [](IInv /\ TInv /\ RowIdsOK /\ ServiceInv /\ AskedInv)
<1>1. ApiInit => AskedInv
  BY AskedAtFirst
<1>2. (IInv /\ TInv /\ RowIdsOK /\ ServiceInv) /\ AskedInv /\ [ApiNext]_<<vars, svars>> => AskedInv'
  BY AskedNext
<1> QED
  BY <1>1, <1>2, ServiceInvariance, PTL DEF ApiSpec

(* A caller is told 500 only for a failure of the database, a body that breaks off or a text
   that PostgreSQL refuses: whatever the amounts, the accounts and the other requests, what
   the domain, the service and the store refuse has a status of its own (response.go
   mapError, middleware.go idempotency).                                     *)
THEOREM FaultsAloneAreInternal == ApiSpec => []OnlyFaultsAreInternal
<1>1. AskedInv => OnlyFaultsAreInternal
  <2> SUFFICES ASSUME AskedInv, NEW s \in Sessions, answer[s].err # "nil",
                      MapError(answer[s].err).status = 500
               PROVE  Fault(s)
    BY DEF OnlyFaultsAreInternal
  <2>1. PICK err : err = answer[s].err
    OBVIOUS
  <2>2. err \notin Known
    BY <2>1, KnownIsNot500
  <2>3. err = "ErrDatabase" \/ Blamed(s, err)
    BY <2>1, <2>2 DEF AskedInv, AskedOK, ToldTo, Told
  <2> QED
    BY <2>1, <2>3 DEF Blamed, Fault
<1> QED
  BY <1>1, AskedInvariance, PTL

----------------------------------------------------------------------------
(* The receipt.                                                            *)

FeeRows(rows) == {i \in DOMAIN rows : AccountType[rows[i].account] = "SYSTEM_FEE_REVENUE"}

(* The fee of a receipt is the total of the amounts of the fee rows (dto.go
   toTransactionResponse).                                                   *)
LEMMA ReceiptFee ==
  ASSUME NEW body, NEW v, NEW F, NEW S, S = FeeRows(body.entries), IsFiniteSet(S),
         \A i \in S : F[i] = body.entries[i].amount /\ F[i] \in Int
  PROVE  ToTransactionResponse(body, v).fee = Total(F, S)
<1> DEFINE A(iter) == [s \in SUBSET S |->
                         IF s = {} THEN 0 ELSE body.entries[Pick(s)].amount + iter[s \ {Pick(s)}]]
           B(iter) == [s \in SUBSET S |->
                         IF s = {} THEN 0 ELSE F[Pick(s)] + iter[s \ {Pick(s)}]]
           c == CHOOSE iter : iter = A(iter)
<1>1. ToTransactionResponse(body, v).fee = c[S]
  BY DEF ToTransactionResponse, FeeRows, MapThenSumSet, MapThenFoldSet, Pick
<1>2. \A iter : A(iter) = B(iter)
  <2> TAKE iter
  <2>1. \A s \in SUBSET S : s # {} => body.entries[Pick(s)].amount = F[Pick(s)]
    BY PickOne
  <2> QED
    BY <2>1
<1>3. PICK g : g = B(g)
  <2>1. PICK g : SumsUp(F, S, g)
    BY SumExists
  <2> QED
    BY <2>1 DEF SumsUp
<1>4. c = A(c)
  <2> HIDE DEF A, B
  <2>1. g = A(g)
    BY <1>2, <1>3
  <2> QED
    BY <2>1
<1>5. SumsUp(F, S, c)
  <2> HIDE DEF c
  <2> QED
    BY <1>2, <1>4 DEF SumsUp
<1>6. Total(F, S) = c[S]
  <2> HIDE DEF c
  <2> QED
    BY <1>5, TotalIs
<1> QED
  BY <1>1, <1>6

(* The receipt of a slip has its amount and its fee, whichever of its two sides is the
   wallet's (dto.go toTransactionResponse).                                  *)
LEMMA SlipReceipt ==
  ASSUME NEW body, NEW n \in Nat, DOMAIN body.entries = 1..n,
         NEW m, NEW fee, Slip(Lines(body.entries), body.type, m, fee), NEW v
  PROVE  /\ ToTransactionResponse(body, v).amount = m
         /\ ToTransactionResponse(body, v).fee = fee
<1>1. PICK rows, es, type : rows = body.entries /\ es = Lines(rows) /\ type = body.type
  OBVIOUS
<1>2. PICK a \in Accounts, b \in Accounts, c \in Accounts, d \in Directions :
        /\ a # b /\ a # c /\ b # c
        /\ AccountType[a] # "SYSTEM_FEE_REVENUE" /\ AccountType[b] # "SYSTEM_FEE_REVENUE"
        /\ AccountType[c] = "SYSTEM_FEE_REVENUE"
        /\ type = "TRANSFER" => d = DirectionDebit
        /\ IsWallet(b) \/ (IsWallet(a) /\ type # "TRANSFER" /\ fee = 0)
        /\ fee >= 0 /\ m \in Int64 /\ fee \in Int64 /\ m + fee \in Int64
        /\ Len(es) = IF fee > 0 THEN 3 ELSE 2
        /\ es[1] = Entry(a, d, m + fee) /\ es[2] = Entry(b, Opposite(d), m)
        /\ fee > 0 => es[3] = Entry(c, Opposite(d), fee)
  BY <1>1 DEF Slip
<1>3. m \in Int /\ fee \in Int
  BY <1>2, MoneyAssumption DEF Int64
<1>4. /\ DOMAIN rows = 1..n
      /\ es = [i \in 1..n |-> Entry(rows[i].account, rows[i].direction, rows[i].amount)]
  BY <1>1 DEF Lines
<1>5. n = IF fee > 0 THEN 3 ELSE 2
  BY <1>2, <1>4
<1>6. ASSUME NEW i \in 1..n, NEW x, NEW y, NEW z, es[i] = Entry(x, y, z)
      PROVE  rows[i].account = x /\ rows[i].direction = y /\ rows[i].amount = z
  <2>1. Entry(rows[i].account, rows[i].direction, rows[i].amount) = Entry(x, y, z)
    BY <1>4, <1>6
  <2> QED
    BY <2>1 DEF Entry
<1>7. 1 \in 1..n /\ 2 \in 1..n /\ (fee > 0 => 3 \in 1..n)
  BY <1>3, <1>5
<1>8. rows[1].account = a /\ rows[1].direction = d /\ rows[1].amount = m + fee
  BY <1>2, <1>6, <1>7
<1>9. rows[2].account = b /\ rows[2].direction = Opposite(d) /\ rows[2].amount = m
  BY <1>2, <1>6, <1>7
<1>10. fee > 0 => rows[3].account = c /\ rows[3].amount = fee
  BY <1>2, <1>6, <1>7
<1>11. ToTransactionResponse(body, v).amount = m
  <2>1. PICK main : main = {i \in 1..n : IsMain(type, rows[i])}
    OBVIOUS
  <2>2. fee > 0 => 3 \notin main
    BY <1>2, <1>10, <2>1 DEF IsMain, IsWallet
  <2>3. main \subseteq {1, 2}
    BY <1>3, <1>5, <2>1, <2>2
  <2>4. IsWallet(b) => 2 \in main
    BY <1>2, <1>7, <1>9, <2>1 DEF IsMain, Opposite
  <2>5. (IsWallet(a) /\ type # "TRANSFER") => 1 \in main
    BY <1>7, <1>8, <2>1 DEF IsMain
  <2>6. ToTransactionResponse(body, v).amount = IF main = {} THEN 0 ELSE rows[Max(main)].amount
    BY <1>1, <1>4, <2>1 DEF ToTransactionResponse
  <2>7. CASE 2 \in main
    <3>1. Max(main) = 2
      <4>1. \A y \in main : 2 >= y
        BY <2>3
      <4>2. \A x \in main : (\A y \in main : x >= y) => x = 2
        BY <2>3, <2>7
      <4> QED
        BY <2>7, <4>1, <4>2 DEF Max
    <3> QED
      BY <1>9, <2>6, <2>7, <3>1
  <2>8. CASE 2 \notin main
    <3>1. main = {1} /\ fee = 0
      BY <1>2, <2>3, <2>4, <2>5, <2>8
    <3>2. Max(main) = 1
      BY <3>1 DEF Max
    <3> QED
      BY <1>3, <1>8, <2>6, <3>1, <3>2
  <2> QED
    BY <2>7, <2>8
<1>12. ToTransactionResponse(body, v).fee = fee
  <2>1. PICK S : S = FeeRows(rows)
    OBVIOUS
  <2>2. S = {i \in 1..n : AccountType[rows[i].account] = "SYSTEM_FEE_REVENUE"}
    BY <1>4, <2>1 DEF FeeRows
  <2>3. S = IF fee > 0 THEN {3} ELSE {}
    BY <1>2, <1>3, <1>5, <1>8, <1>9, <1>10, <2>2
  <2>4. PICK F : F = [i \in 1..n |-> rows[i].amount]
    OBVIOUS
  <2>5. fee > 0 => F[3] = fee
    BY <1>7, <1>10, <2>4
  <2>6. IsFiniteSet(S)
    BY <2>3, FS_Singleton, FS_EmptySet
  <2>7. \A i \in S : F[i] = rows[i].amount /\ F[i] \in Int
    BY <1>3, <1>7, <1>10, <2>3, <2>4
  <2>8. ToTransactionResponse(body, v).fee = Total(F, S)
    BY <1>1, <2>1, <2>6, <2>7, ReceiptFee
  <2>9. Total(F, {}) = 0
    BY FS_EmptySet, TotalUnfolds
  <2>10. CASE fee > 0
    <3>1. \A y \in {} \union {3} : F[y] \in Int
      BY <1>3, <2>5, <2>10
    <3>2. Total(F, {} \union {3}) = F[3] + Total(F, {})
      BY <3>1, FS_EmptySet, TotalAdd
    <3>3. S = {} \union {3}
      BY <2>3, <2>10
    <3> QED
      BY <1>3, <2>5, <2>8, <2>9, <2>10, <3>2, <3>3
  <2>11. CASE ~(fee > 0)
    <3>1. fee = 0 /\ S = {}
      BY <1>2, <1>3, <2>3, <2>11
    <3> QED
      BY <2>8, <2>9, <3>1
  <2> QED
    BY <2>10, <2>11
<1> QED
  BY <1>11, <1>12

(* The rows of a stored result are a list.                                 *)
LEMMA BodyIsList ==
  ASSUME IInv, NEW k \in ClaimKeys, Claimed(k)
  PROVE  \E n \in Nat : DOMAIN idem[k].body.entries = 1..n /\ Len(idem[k].body.entries) = n
<1>1. NoClaim.code = 0
  BY DEF NoClaim
<1>2. idem[k].body \in Bodies
  BY <1>1 DEF IInv, TypeOK, Claimed
<1> QED
  BY <1>2 DEF Bodies

(* The receipt of a topup, a withdrawal or a transfer says what was asked for.  *)
LEMMA SlipsAreReceipted ==
  ASSUME IInv, ServiceInv, AskedInv, NEW s \in Sessions, Succeeded(s, Limited)
  PROVE  /\ Response(s).amount = Request(s).amount
         /\ Response(s).fee = FeeOf(Request(s))
<1>1. Succeeded(s, Keyed) /\ Succeeded(s, Keyed \union {"get"}) /\ Request(s).op \in Limited
  BY DEF Succeeded, Keyed, Limited
<1>2. AnswerOK(s) /\ Accepted(s) /\ Request(s).op \in Keyed
  BY <1>1 DEF ServiceInv, HandlerOK, AnswerOK, Keyed, Limited
<1>3. PICK k \in ClaimKeys : k = KeyOf(s)
  BY <1>1, <1>2 DEF AnswerOK
<1>4. PICK r, body, v : r = Request(s) /\ body = answer[s].body /\ v = answer[s].viewer
  OBVIOUS
<1>5. Claimed(k) /\ RequestOf[idem[k].hash] = r /\ idem[k].body = body
  BY <1>1, <1>2, <1>3, <1>4 DEF AnswerOK, Request
<1>6. Slip(Lines(body.entries), body.type, r.amount, FeeOf(r))
  <2>1. Asked(r, body.type, Lines(body.entries))
    BY <1>5 DEF AskedInv, ClaimAsked
  <2>2. r.op # "reverse"
    BY <1>1, <1>4 DEF Limited
  <2> QED
    BY <2>1, <2>2 DEF Asked
<1>7. PICK n \in Nat : DOMAIN body.entries = 1..n
  BY <1>5, BodyIsList
<1>8. /\ ToTransactionResponse(body, v).amount = r.amount
      /\ ToTransactionResponse(body, v).fee = FeeOf(r)
  BY <1>6, <1>7, SlipReceipt
<1> QED
  BY <1>4, <1>8 DEF Response

(* The receipt of a reversal says what that of the reversed transaction does.  *)
LEMMA ReversalsAreReceipted ==
  ASSUME IInv, TInv, ServiceInv, AskedInv, NEW s \in Sessions, Succeeded(s, {"reverse"})
  PROVE  Response(s) = ToTransactionResponse(PostResult(Request(s).target), 0)
<1>1. Succeeded(s, Keyed) /\ Succeeded(s, Keyed \union {"get"}) /\ Request(s).op = "reverse"
  BY DEF Succeeded, Keyed
<1>2. AnswerOK(s) /\ Accepted(s) /\ Request(s).op \in Keyed
  BY <1>1 DEF ServiceInv, HandlerOK, AnswerOK, Keyed
<1>3. PICK k \in ClaimKeys : k = KeyOf(s)
  BY <1>1, <1>2 DEF AnswerOK
<1>4. PICK r, body : r = Request(s) /\ body = answer[s].body
  OBVIOUS
<1>5. Claimed(k) /\ RequestOf[idem[k].hash] = r /\ idem[k].body = body
  BY <1>1, <1>2, <1>3, <1>4 DEF AnswerOK, Request
<1>6. answer[s].viewer = 0
  BY <1>1, <1>2 DEF AnswerOK, Viewer
<1>7. PICK j \in ClaimKeys : /\ body.type = "REVERSAL" /\ Original(j, r.target)
                             /\ Lines(body.entries) = ReversedEntries(Lines(idem[j].body.entries))
  <2>1. Asked(r, body.type, Lines(body.entries))
    BY <1>5 DEF AskedInv, ClaimAsked
  <2>2. r.op \notin Limited
    BY <1>1, <1>4 DEF Limited
  <2> QED
    BY <2>1, <2>2 DEF Asked
<1>8. PICK old, q : old = idem[j].body /\ q = RequestOf[idem[j].hash]
  OBVIOUS
<1>9. Claimed(j) /\ idem[j].txn = r.target /\ old.type # "REVERSAL"
  BY <1>7, <1>8 DEF Original
<1>10. PostResult(r.target) = old
  <2>1. BodyOK(j)
    BY DEF ServiceInv
  <2> QED
    BY <1>8, <1>9, <2>1, StoredIsRead
<1>11. Slip(Lines(old.entries), old.type, q.amount, FeeOf(q))
  <2>1. ClaimAsked(j)
    BY DEF AskedInv
  <2> QED
    BY <1>8, <1>9, <2>1, AskedIsSlip
<1>12. PICK m, fee, es, rs : /\ m = q.amount /\ fee = FeeOf(q)
                             /\ es = Lines(old.entries) /\ rs = Lines(body.entries)
  OBVIOUS
<1>13. Slip(es, old.type, m, fee) /\ rs = ReversedEntries(es)
  BY <1>7, <1>8, <1>11, <1>12
<1>14. Slip(rs, body.type, m, fee)
  BY <1>7, <1>13, MirroredSlips
<1>15. PICK n \in Nat : DOMAIN old.entries = 1..n
  BY <1>8, <1>9, BodyIsList
<1>16. PICK l \in Nat : DOMAIN body.entries = 1..l
  BY <1>5, BodyIsList
<1>17. /\ ToTransactionResponse(old, 0).amount = m
       /\ ToTransactionResponse(old, 0).fee = fee
  BY <1>12, <1>13, <1>15, SlipReceipt
<1>18. /\ ToTransactionResponse(body, 0).amount = m
       /\ ToTransactionResponse(body, 0).fee = fee
  BY <1>12, <1>14, <1>16, SlipReceipt
<1>19. ToTransactionResponse(body, 0).shown = ToTransactionResponse(old, 0).shown
  <2>1. es = [i \in 1..n |-> Entry(old.entries[i].account, old.entries[i].direction, old.entries[i].amount)]
    BY <1>12, <1>15 DEF Lines
  <2>2. rs = [i \in 1..l |-> Entry(body.entries[i].account, body.entries[i].direction, body.entries[i].amount)]
    BY <1>12, <1>16 DEF Lines
  <2>3. Len(es) = n
    BY <2>1
  <2>4. rs = [i \in 1..n |-> [es[i] EXCEPT !.direction = Opposite(@)]]
    BY <1>13, <2>3 DEF ReversedEntries
  <2>5. l = n
    <3>1. DOMAIN rs = 1..l
      BY <2>2
    <3>2. DOMAIN rs = 1..n
      BY <2>4
    <3>3. Len(rs) = l
      BY <2>2
    <3>4. Len(rs) = n
      BY <2>4
    <3> QED
      BY <3>3, <3>4
  <2>6. ASSUME NEW i \in 1..n PROVE body.entries[i].account = old.entries[i].account
    <3>1. rs[i] = [es[i] EXCEPT !.direction = Opposite(@)]
      BY <2>4
    <3>2. es[i] = Entry(old.entries[i].account, old.entries[i].direction, old.entries[i].amount)
      BY <2>1
    <3>3. rs[i] = Entry(body.entries[i].account, body.entries[i].direction, body.entries[i].amount)
      BY <2>2, <2>5
    <3>4. rs[i].account = body.entries[i].account
      BY <3>3 DEF Entry
    <3>5. es[i].account = old.entries[i].account
      BY <3>2 DEF Entry
    <3>6. rs[i].account = es[i].account
      BY <3>1, <3>2 DEF Entry
    <3> QED
      BY <3>4, <3>5, <3>6
  <2>7. ToTransactionResponse(body, 0).shown = {body.entries[i].account : i \in 1..n}
    BY <1>16, <2>5 DEF ToTransactionResponse
  <2>8. ToTransactionResponse(old, 0).shown = {old.entries[i].account : i \in 1..n}
    BY <1>15 DEF ToTransactionResponse
  <2> QED
    BY <2>6, <2>7, <2>8
<1>20. ToTransactionResponse(body, 0) = ToTransactionResponse(old, 0)
  <2>1. \A b : \E x, y, z : ToTransactionResponse(b, 0) = [amount |-> x, fee |-> y, shown |-> z]
    BY DEF ToTransactionResponse
  <2>2. PICK x1, y1, z1 : ToTransactionResponse(body, 0) = [amount |-> x1, fee |-> y1, shown |-> z1]
    BY <2>1
  <2>3. PICK x2, y2, z2 : ToTransactionResponse(old, 0) = [amount |-> x2, fee |-> y2, shown |-> z2]
    BY <2>1
  <2> QED
    BY <1>17, <1>18, <1>19, <2>2, <2>3
<1> QED
  BY <1>4, <1>6, <1>10, <1>20 DEF Response

(* A receipt says what was asked for, however the rows are stored, by whichever handler
   they were posted and whichever fee shard was drawn: the requested amount and the
   configured fee, and for a reversal what the reversed transaction's receipt says (dto.go
   toTransactionResponse, domain/transaction.go NewTransfer, NewReversal).   *)
THEOREM ReceiptsMatchRequests == ApiSpec => []ReceiptMatchesRequest
<1>1. IInv /\ TInv /\ ServiceInv /\ AskedInv => ReceiptMatchesRequest
  BY SlipsAreReceipted, ReversalsAreReceipted DEF ReceiptMatchesRequest, FeeOf
<1> QED
  BY <1>1, AskedInvariance, PTL
============================================================================
