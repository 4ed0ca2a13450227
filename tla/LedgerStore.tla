----------------------------- MODULE LedgerStore -----------------------------
(***************************************************************************)
(* internal/repository/postgres/ledger_repo.go: LedgerRepo.Post, run by    *)
(* several sessions at once against one PostgreSQL database at its default *)
(* isolation level, READ COMMITTED.                                        *)
(*                                                                         *)
(* A statement of Post that can wait, or that another session can come     *)
(* before or after, is one action.  What a session has written and not yet *)
(* committed is invisible to the others; it is kept in the session's own   *)
(* variables and moves to the tables in Commit.  Row locks are not stored: *)
(* a session that is in a transaction holds the rows in held (accounts),   *)
(* its idempotency key from Claim on, and the reversed header from Mark    *)
(* on.                                                                     *)
(***************************************************************************)
EXTENDS Domain, FiniteSets, SequencesExt

CONSTANTS
  AccountIds,     \* the account ids a transaction may name
  Accounts,       \* those that exist
  AccountType,    \* column account_type
  TxnIds,         \* the uuids transactions draw from
  Users, Keys,    \* the two columns of an idempotency key
  Admins,         \* the users who may reverse
  Hashes,         \* column request_hash
  Unstorable,     \* those of requests with a NUL byte in the description
  Orders,         \* the topups, transfers and withdrawals callers post
  Sessions,       \* database connections in use
  Freezable,      \* accounts whose status an operator changes
  MaxEntryId      \* the last value of the identity column entries.id

ASSUME StoreAssumption ==
  /\ AccountIds \subseteq 1..(HalfRange - 1) /\ Accounts \subseteq AccountIds
  /\ AccountType \in [Accounts -> AccountTypes]
  /\ NoTxn \notin TxnIds
  /\ MaxEntryId \in Nat
  /\ Freezable \subseteq Accounts
  /\ Admins \subseteq Users
  /\ Unstorable \subseteq Hashes
  /\ \A t \in Orders : AccountIDs(t) \subseteq AccountIds /\ t.reverses = NoTxn

VARIABLES
  accounts,       \* table accounts: balance, version, status by id
  transactions,   \* table transactions, by id
  entries,        \* table entries: a set of rows
  idem,           \* table idempotency_keys, by <<user, key>>
  outbox,         \* table outbox_events: a set of rows
  entrySeq,       \* the identity sequence of entries.id: never rolled back
  pc,             \* where a session is in Post
  call,           \* its arguments: txn and claim
  held,           \* accounts it has locked
  snap,           \* byID: the accounts as it read them
  tid,            \* the id its header was given
  posted,         \* the entries it has written so far
  reply           \* the error Post returns, "nil" for none

tables  == <<accounts, transactions, entries, idem, outbox>>
session == <<pc, call, held, snap, tid, posted, reply>>
vars    == <<tables, entrySeq, session>>

----------------------------------------------------------------------------
(* Rows.                                                                   *)

ClaimKeys == Users \X Keys

NoRow     == [type |-> "NONE", status |-> "NONE", reverses |-> NoTxn]
NoClaim   == [code |-> 0, hash |-> "", body |-> <<>>, txn |-> NoTxn]
NoAccount == [balance |-> 0, version |-> 0, status |-> "CLOSED"]
NoCall    == [txn |-> NoTransaction, key |-> <<>>, hash |-> ""]

Exists(x)  == transactions[x].status # "NONE"
Claimed(k) == idem[k].code # 0

\* domain.Entry and domain.Transaction.
EntryTypes == [account : AccountIds, direction : STRING, amount : Int64]
Transactions ==
  [type : TxnTypes, entries : Seq(EntryTypes),
   reverses : TxnIds \union {NoTxn}, longDesc : BOOLEAN]

NormalSide(a) == NormalBalance(AccountType[a])

\* No account is taken for a wallet: any may go below zero.
NoWallet(a) == FALSE

IsWallet(a) == AccountType[a] = "USER_WALLET"

\* A frozen account taken for one that is open.
IsActiveUnlessClosed(row) == row.status # "CLOSED"

IsActive(row) == row.status = "ACTIVE"

----------------------------------------------------------------------------
(* What a session holds, derived from where it is.                         *)

InTxn == {"claim", "lock", "mark", "header", "entry", "commit"}

ClaimHeld(s) == pc[s] \in InTxn \ {"claim"}
MarkHeld(s)  == /\ pc[s] \in {"header", "entry", "commit"}
                /\ call[s].txn.reverses # NoTxn

Contends(s, r) == r # s /\ ClaimHeld(r) /\ call[r].key = call[s].key

\* The rows SELECT ... ORDER BY id FOR UPDATE still has to lock.
ToLock(s) == (AccountIDs(call[s].txn) \intersect Accounts) \ held[s]

\* A scan that locks the rows in the order of the entries, not of the ids.
IsNextEntry(s, a) ==
  LET es == call[s].txn.entries
  IN  \E i \in 1..Len(es) : /\ es[i].account = a /\ a \in ToLock(s)
                            /\ \A j \in 1..(i - 1) : es[j].account \notin ToLock(s)

\* The row the scan has come to.
IsNext(s, a) == a \in ToLock(s) /\ \A b \in ToLock(s) : a <= b

\* The sessions whose end s waits for.
WaitsFor(s) ==
  {r \in Sessions \ {s} :
     \/ pc[s] = "claim" /\ Contends(s, r)
     \/ pc[s] = "lock" /\ \E a \in held[r] : IsNext(s, a)
     \/ pc[s] = "mark" /\ call[s].txn.reverses # NoTxn /\ MarkHeld(r)
          /\ call[r].txn.reverses = call[s].txn.reverses}

\* The session's own uncommitted version of an account row.  An account has one entry
\* in a transaction at most (EntryError).
Wrote(s, a) == \E i \in 1..Len(posted[s]) : posted[s][i].account = a

Current(s, a) ==
  IF ~Wrote(s, a) THEN accounts[a]
  ELSE LET i == CHOOSE i \in 1..Len(posted[s]) : posted[s][i].account = a
       IN  [balance |-> posted[s][i].after, version |-> accounts[a].version + 1,
            status |-> accounts[a].status]

----------------------------------------------------------------------------
(* Returning from Post: the deferred Rollback has run, or Commit.          *)

Return(s, err) ==
  /\ pc' = [pc EXCEPT ![s] = "return"]
  /\ reply' = [reply EXCEPT ![s] = err]
  /\ held' = [held EXCEPT ![s] = {}]
  /\ snap' = [snap EXCEPT ![s] = [a \in Accounts |-> NoAccount]]

Rollback(s, err) ==
  /\ Return(s, err)
  /\ tid' = [tid EXCEPT ![s] = NoTxn]
  /\ posted' = [posted EXCEPT ![s] = <<>>]
  /\ UNCHANGED <<tables, call>>

Goto(s, l) == pc' = [pc EXCEPT ![s] = l]

\* The caller takes the answer and the connection goes back to the pool.
Release(s) ==
  /\ pc[s] = "return"
  /\ Goto(s, "idle")
  /\ reply' = [reply EXCEPT ![s] = "nil"]
  /\ call' = [call EXCEPT ![s] = NoCall]
  /\ tid' = [tid EXCEPT ![s] = NoTxn]
  /\ posted' = [posted EXCEPT ![s] = <<>>]
  /\ UNCHANGED <<tables, entrySeq, held, snap>>

----------------------------------------------------------------------------
(* Post, statement by statement.                                           *)

\* Validate, then Begin.  The first conjunct is the parameter's Go type.
Post(s, t, k, h) ==
  /\ t \in Transactions
  /\ pc[s] = "idle"
  /\ call' = [call EXCEPT ![s] = [txn |-> t, key |-> k, hash |-> h]]
  /\ LET err == Validate(t)
     IN  IF err = "nil"
         THEN Goto(s, "claim") /\ UNCHANGED reply
         ELSE Goto(s, "return") /\ reply' = [reply EXCEPT ![s] = err]
  /\ UNCHANGED <<tables, entrySeq, held, snap, tid, posted>>

\* The claim without its uniqueness: every caller goes on.
ClaimAlways(s) ==
  /\ pc[s] = "claim"
  /\ Goto(s, "lock")
  /\ UNCHANGED <<tables, entrySeq, call, held, snap, tid, posted, reply>>

\* A claim that does not wait for the transaction that holds the key.
ClaimWithoutWaiting(s) ==
  /\ pc[s] = "claim"
  /\ IF Claimed(call[s].key) \/ WaitsFor(s) # {}
     THEN Rollback(s, "ErrIdempotencyInFlight") /\ UNCHANGED entrySeq
     ELSE /\ Goto(s, "lock")
          /\ UNCHANGED <<tables, entrySeq, call, held, snap, tid, posted, reply>>

\* 1. INSERT ... ON CONFLICT DO NOTHING: waits while another transaction has
\* inserted the same key, and inserts nothing once that one has committed.
Claim(s) ==
  /\ pc[s] = "claim"
  /\ WaitsFor(s) = {}
  /\ IF Claimed(call[s].key)
     THEN Rollback(s, "ErrIdempotencyInFlight") /\ UNCHANGED entrySeq
     ELSE /\ Goto(s, "lock")
          /\ UNCHANGED <<tables, entrySeq, call, held, snap, tid, posted, reply>>

\* A plain SELECT in place of SELECT ... FOR UPDATE: nobody waits for the row.
LockRowUnlocked(s) ==
  /\ pc[s] = "lock"
  /\ \E a \in ToLock(s) :
       /\ IsNext(s, a)
       /\ held' = [held EXCEPT ![s] = @ \union {a}]
       /\ snap' = [snap EXCEPT ![s][a] = accounts[a]]
  /\ UNCHANGED <<tables, entrySeq, pc, call, tid, posted, reply>>

\* 2. The scan takes one row lock at a time, in the order of the ids, and reads
\* the latest committed version of the row it has just locked.
LockRow(s) ==
  /\ pc[s] = "lock"
  /\ WaitsFor(s) = {}
  /\ \E a \in ToLock(s) :
       /\ IsNext(s, a)
       /\ held' = [held EXCEPT ![s] = @ \union {a}]
       /\ snap' = [snap EXCEPT ![s][a] = accounts[a]]
  /\ UNCHANGED <<tables, entrySeq, pc, call, tid, posted, reply>>

\* Every account found, every account ACTIVE.
CheckError(s) ==
  IF held[s] # AccountIDs(call[s].txn) THEN "ErrAccountNotFound"
  ELSE IF \E a \in held[s] : ~IsActive(snap[s][a]) THEN "ErrAccountNotActive"
  ELSE "nil"

CheckLocked(s) ==
  /\ pc[s] = "lock"
  /\ ToLock(s) = {}
  /\ IF CheckError(s) = "nil"
     THEN /\ Goto(s, IF call[s].txn.reverses = NoTxn THEN "header" ELSE "mark")
          /\ UNCHANGED <<tables, call, held, snap, tid, posted, reply>>
     ELSE Rollback(s, CheckError(s))
  /\ UNCHANGED entrySeq

Markable(x) == transactions[x].status = "POSTED"

\* 3. UPDATE transactions SET status = 'REVERSED' WHERE ... status = 'POSTED'.
Mark(s) ==
  /\ pc[s] = "mark"
  /\ WaitsFor(s) = {}
  /\ IF Markable(call[s].txn.reverses)
     THEN /\ Goto(s, "header")
          /\ UNCHANGED <<tables, call, held, snap, tid, posted, reply>>
     ELSE Rollback(s, "ErrAlreadyReversed")
  /\ UNCHANGED entrySeq

FreshTxnIds == {x \in TxnIds : ~Exists(x) /\ \A r \in Sessions : tid[r] # x}

\* The unique index uq_reversal.
ReversalTaken(s) ==
  /\ call[s].txn.reverses # NoTxn
  /\ \E x \in TxnIds : transactions[x].reverses = call[s].txn.reverses

\* PostgreSQL has no text with a NUL byte in it, which JSON may carry and nothing before
\* it refuses; translate passes the error on as it is.
HeaderError(s) ==
  IF call[s].hash \in Unstorable THEN "PgError"
  ELSE IF ReversalTaken(s) THEN "ErrAlreadyReversed"
  ELSE "nil"

\* 4. The header.  Ids are opaque, so which fresh one is drawn does not matter.
InsertHeader(s) ==
  /\ pc[s] = "header"
  /\ FreshTxnIds # {}
  /\ IF HeaderError(s) = "nil"
     THEN /\ Goto(s, "entry")
          /\ tid' = [tid EXCEPT ![s] = CHOOSE x \in FreshTxnIds : TRUE]
          /\ UNCHANGED <<tables, call, held, snap, posted, reply>>
     ELSE Rollback(s, HeaderError(s))
  /\ UNCHANGED entrySeq

\* The entry Post is at, and what it adds to its account.
ThisEntry(s) == call[s].txn.entries[Len(posted[s]) + 1]
Delta(e)     == BalanceDelta(e, NormalSide(e.account))

\* 5. The pre-checks in Go on the row as it was read, then the UPDATE with its
\* WHERE and its CHECK, then the INSERT with its sequence and its unique index.
EntryError(s, e) ==
  LET a == e.account
      newBal == Add(snap[s][a].balance, Delta(e))
      row == Current(s, a)
      written == row.balance + Delta(e)
  IN  IF newBal.err # "nil" THEN newBal.err
      ELSE IF IsWallet(a) /\ newBal.val < 0 THEN "ErrInsufficientBalance"
      ELSE IF row.version # snap[s][a].version \/ ~IsActive(row)
           THEN "ErrConcurrentModification"
      ELSE IF written \notin Int64 THEN "ErrDatabase"
      ELSE IF IsWallet(a) /\ written < 0 THEN "ErrInsufficientBalance"
      ELSE IF entrySeq = MaxEntryId THEN "ErrDatabase"
      ELSE IF Wrote(s, a) THEN "ErrDuplicateAccount"
      ELSE "nil"

\* balance_after computed from the row as it was read before the previous entries.
BalanceAfterOfRead(s, e) == snap[s][e.account].balance + e.amount

\* RETURNING balance.
BalanceAfter(s, e) == Current(s, e.account).balance + Delta(e)

EntryRow(s, e) ==
  [id |-> entrySeq + 1, txn |-> tid[s], account |-> e.account,
   direction |-> e.direction, amount |-> e.amount, after |-> BalanceAfter(s, e)]

PostEntry(s) ==
  /\ pc[s] = "entry"
  /\ Len(posted[s]) < Len(call[s].txn.entries)
  /\ LET e   == ThisEntry(s)
         err == EntryError(s, e)
     IN  IF err = "nil"
         THEN /\ posted' = [posted EXCEPT ![s] = Append(@, EntryRow(s, e))]
              /\ entrySeq' = entrySeq + 1
              /\ UNCHANGED <<tables, pc, call, held, snap, tid, reply>>
         ELSE Rollback(s, err) /\ UNCHANGED entrySeq

\* 6. and 7. The stored result and the outbox row, both from the same body.  They
\* are written here and become visible with the rest.
SaveResult(s) ==
  /\ pc[s] = "entry"
  /\ Len(posted[s]) = Len(call[s].txn.entries)
  /\ Goto(s, "commit")
  /\ UNCHANGED <<tables, entrySeq, call, held, snap, tid, posted, reply>>

\* SUM(amount) FILTER (WHERE direction = d).
SideTotal(rows, d) == MapThenSumSet(LAMBDA e : e.amount, {e \in rows : e.direction = d})

\* The rows of the transaction, which the deferred trigger adds up at COMMIT.
Written(s) == {posted[s][i] : i \in 1..Len(posted[s])}

CommitError(s) ==
  IF SideTotal(Written(s), DirectionDebit) # SideTotal(Written(s), DirectionCredit)
  THEN "ErrUnbalanced" ELSE "nil"

\* toStored: what a later request with the same key, and the outbox, are given.
Stored(s) ==
  [txn |-> tid[s], type |-> call[s].txn.type,
   reverses |-> call[s].txn.reverses, entries |-> posted[s]]

HeaderRow(s) ==
  [type |-> call[s].txn.type, status |-> "POSTED", reverses |-> call[s].txn.reverses]

\* The original keeps its status.
TransactionsUnmarked(s) == [transactions EXCEPT ![tid[s]] = HeaderRow(s)]

TransactionsAfter(s) ==
  [x \in TxnIds |-> IF x = tid[s] THEN HeaderRow(s)
                    ELSE IF x = call[s].txn.reverses
                         THEN [transactions[x] EXCEPT !.status = "REVERSED"]
                    ELSE transactions[x]]

\* The result is left out of the claim's row: status_code stays 0.
ClaimRowUnsaved(s) == [code |-> 0, hash |-> call[s].hash, body |-> <<>>, txn |-> NoTxn]

ClaimRow(s) ==
  [code |-> 201, hash |-> call[s].hash, body |-> Stored(s), txn |-> tid[s]]

\* The outbox row outside the transaction: nothing is written with the rest.
OutboxForgotten(s) == outbox

OutboxAfter(s) == outbox \union {[aggregate |-> tid[s], payload |-> Stored(s)]}

\* Everything the session wrote becomes visible at once.
Apply(s) ==
  /\ accounts' = [a \in Accounts |-> Current(s, a)]
  /\ transactions' = TransactionsAfter(s)
  /\ entries' = entries \union Written(s)
  /\ idem' = [idem EXCEPT ![call[s].key] = ClaimRow(s)]
  /\ outbox' = OutboxAfter(s)

Commit(s) ==
  /\ pc[s] = "commit"
  /\ IF CommitError(s) = "nil"
     THEN Apply(s) /\ Return(s, "nil") /\ UNCHANGED <<call, tid, posted>>
     ELSE Rollback(s, CommitError(s))
  /\ UNCHANGED entrySeq

\* The server commits, and the answer does not reach the caller: a deadline that
\* expires, or a connection lost, during the last round trip.
CommitLost(s) ==
  /\ pc[s] = "commit"
  /\ CommitError(s) = "nil"
  /\ Apply(s)
  /\ Return(s, "ErrContext")
  /\ tid' = [tid EXCEPT ![s] = NoTxn]
  /\ posted' = [posted EXCEPT ![s] = <<>>]
  /\ UNCHANGED <<entrySeq, call>>

\* The request's context ends, the connection breaks or the process dies at any
\* statement, waiting ones included: the server rolls back.
Abort(s) ==
  /\ pc[s] \in InTxn
  /\ Rollback(s, "ErrContext")
  /\ UNCHANGED entrySeq

\* An operator freezes or reopens an account by hand: one UPDATE, which waits for
\* the row lock and does not touch version.
SetStatus(a) ==
  /\ \A s \in Sessions : a \notin held[s]
  /\ \E st \in {"ACTIVE", "FROZEN"} \ {accounts[a].status} :
       accounts' = [accounts EXCEPT ![a].status = st]
  /\ UNCHANGED <<transactions, entries, idem, outbox, entrySeq, session>>

----------------------------------------------------------------------------

(* GetTransaction: the header and its entries in the order of their ids.   *)

\* ORDER BY id: at place i is the row with i - 1 before it.
ById(rows) ==
  [i \in 1..Cardinality(rows) |->
     CHOOSE e \in rows : Cardinality({f \in rows : f.id < e.id}) = i - 1]

Lines(rows) ==
  [i \in DOMAIN rows |-> Entry(rows[i].account, rows[i].direction, rows[i].amount)]

GetTransaction(x) ==
  [id |-> x, type |-> transactions[x].type, status |-> transactions[x].status,
   entries |-> Lines(ById({e \in entries : e.txn = x}))]

\* The reversals callers may post: of a transaction they once read as POSTED.  The
\* read is not part of Post's transaction, so by now the row may be REVERSED.
Reversals ==
  {r \in {NewReversal([GetTransaction(x) EXCEPT !.status = "POSTED"]) :
            x \in {y \in TxnIds : Exists(y)}} : r.err = "nil"}

Init ==
  /\ accounts = [a \in Accounts |-> [balance |-> 0, version |-> 1, status |-> "ACTIVE"]]
  /\ transactions = [x \in TxnIds |-> NoRow]
  /\ entries = {}
  /\ idem = [k \in ClaimKeys |-> NoClaim]
  /\ outbox = {}
  /\ entrySeq = 0
  /\ pc = [s \in Sessions |-> "idle"]
  /\ call = [s \in Sessions |-> NoCall]
  /\ held = [s \in Sessions |-> {}]
  /\ snap = [s \in Sessions |-> [a \in Accounts |-> NoAccount]]
  /\ tid = [s \in Sessions |-> NoTxn]
  /\ posted = [s \in Sessions |-> <<>>]
  /\ reply = [s \in Sessions |-> "nil"]

\* A statement of the transaction s is in.
Step(s) ==
  \/ Claim(s) \/ LockRow(s) \/ CheckLocked(s) \/ Mark(s)
  \/ InsertHeader(s) \/ PostEntry(s) \/ SaveResult(s) \/ Commit(s)

Next ==
  \/ \E s \in Sessions, k \in ClaimKeys, h \in Hashes :
       \/ \E t \in Orders : Post(s, t, k, h)
       \/ k[1] \in Admins /\ \E r \in Reversals : Post(s, r.txn, k, h)
  \/ \E s \in Sessions : Step(s) \/ CommitLost(s) \/ Abort(s) \/ Release(s)
  \/ \E a \in Freezable : SetStatus(a)

Spec == Init /\ [][Next]_vars

\* PostgreSQL queues the waiters of a key or a row and wakes them in turn, so a
\* statement that can be taken again and again is taken; one that does not wait only
\* needs the process to go on.  Nothing makes Abort, CommitLost or an operator happen.
Fairness ==
  \A s \in Sessions : SF_vars(Step(s) \/ Release(s))

FairSpec == Spec /\ Fairness

----------------------------------------------------------------------------
(* Properties.                                                             *)

RowTypes == [id : 1..MaxEntryId, txn : TxnIds, account : Accounts,
             direction : STRING, amount : Int64, after : Int64]
TxnRows == [type : TxnTypes \union {"NONE"}, status : TxnStatuses \union {"NONE"},
            reverses : TxnIds \union {NoTxn}]
AccountRows == [balance : Int64, version : Nat, status : AccountStatuses]
Bodies == [txn : TxnIds, type : TxnTypes, reverses : TxnIds \union {NoTxn},
           entries : Seq(RowTypes)]

Calls == [txn : Transactions, key : ClaimKeys, hash : Hashes]

\* The tables and the sessions' variables hold values of their column or Go type.
TypeOK ==
  /\ accounts \in [Accounts -> AccountRows]
  /\ transactions \in [TxnIds -> TxnRows]
  /\ entries \subseteq RowTypes
  /\ idem \in [ClaimKeys -> [code : {201}, hash : Hashes, txn : TxnIds, body : Bodies]
                            \union {NoClaim}]
  /\ outbox \subseteq [aggregate : TxnIds, payload : Bodies]
  /\ entrySeq \in 0..MaxEntryId
  /\ pc \in [Sessions -> InTxn \union {"idle", "return"}]
  /\ call \in [Sessions -> Calls \union {NoCall}]
  /\ held \in [Sessions -> SUBSET Accounts]
  /\ snap \in [Sessions -> [Accounts -> AccountRows]]
  /\ tid \in [Sessions -> TxnIds \union {NoTxn}]
  /\ posted \in [Sessions -> Seq(RowTypes)]
  /\ reply = [s \in Sessions |-> reply[s]]

\* The rows of an account before a given one, in the order of their ids.
Before(e) == {f \in entries : f.account = e.account /\ f.id < e.id}
Latest(rows) == CHOOSE e \in rows : \A f \in rows : f.id <= e.id
After(rows) == IF rows = {} THEN 0 ELSE Latest(rows).after
RowsOf(a) == {e \in entries : e.account = a}

(* The account statement adds up: listed by id, as ListEntries does, each row's
   balance_after is the previous one's plus what the row moves, the account's
   materialised balance is the last one, and its version counts its rows
   (ledger_repo.go Post step 5, BalanceDrift).  Two posts that interleave on an
   account would break the chain.                                            *)
RunningBalance ==
  /\ \A e \in entries : e.after = After(Before(e)) + Delta(e)
  /\ \A a \in Accounts : /\ accounts[a].balance = After(RowsOf(a))
                         /\ accounts[a].version = 1 + Cardinality(RowsOf(a))

(* TrialBalance and BalanceDrift both answer zero in every state a reader can see:
   no committed state has half of a transaction in it (ledger_repo.go Post, TrialBalance,
   BalanceDrift).                                                            *)
BooksBalance ==
  /\ SideTotal(entries, DirectionDebit) = SideTotal(entries, DirectionCredit)
  /\ \A a \in Accounts :
       accounts[a].balance =
         SideTotal(RowsOf(a), NormalSide(a)) - SideTotal(RowsOf(a), Opposite(NormalSide(a)))

(* No wallet is ever below zero, now or in any row of its history (migration
   000003 chk_wallet_non_negative, ledger_repo.go Post step 5).              *)
WalletNonNegative ==
  /\ \A a \in Accounts : AccountType[a] = "USER_WALLET" => accounts[a].balance >= 0
  /\ \A e \in entries : AccountType[e.account] = "USER_WALLET" => e.after >= 0

(* Sessions never wait for each other in a circle: in every set of sessions one
   waits for nobody in it.  Locking in the order of the ids, after the key and before
   the header, is what ensures it (ledger_repo.go Post steps 1 to 3,
   domain/transaction.go AccountIDs).                                        *)
NoDeadlock ==
  \A S \in (SUBSET Sessions) \ {{}} : \E s \in S : WaitsFor(s) \intersect S = {}

\* A row read FOR UPDATE is the row updated.
NoOptimisticConflict == \A s \in Sessions : reply[s] # "ErrConcurrentModification"

\* A transaction has one entry on an account.
NoDuplicateEntry ==
  \A s \in Sessions :
    (pc[s] = "entry" /\ Len(posted[s]) < Len(call[s].txn.entries)) =>
      ~Wrote(s, ThisEntry(s).account)

\* What Validate lets through, which it adds up in machine arithmetic, balances exactly,
\* and the rows written are those lines.
TriggerNeverFires == \A s \in Sessions : pc[s] = "commit" => CommitError(s) = "nil"

(* The second lines of defence are never reached: neither the version check of the
   UPDATE, nor the unique index on the entries, nor the deferred balance trigger has
   anything to stop, because the row locks and Validate have seen to it (ledger_repo.go
   Post step 5, domain/transaction.go Validate, migrations 000004 and 000005).  *)
BackstopsNeverFire == NoOptimisticConflict /\ NoDuplicateEntry /\ TriggerNeverFires

(* What a session has read under its locks stays true until it commits: no two sessions
   hold a row, and a held row is still as it was read (ledger_repo.go Post step 2). *)
LockDiscipline ==
  /\ \A s, r \in Sessions : s # r => held[s] \intersect held[r] = {}
  /\ \A s \in Sessions : \A a \in held[s] : snap[s][a] = accounts[a]

ReversalsOf(x) == {y \in TxnIds : transactions[y].reverses = x}
RowsOfTxn(x) == {e \in entries : e.txn = x}

(* A transaction is REVERSED exactly when one committed reversal points at it, never
   two, and that one has the same rows on the opposite sides (ledger_repo.go Post
   steps 3 and 4, domain/transaction.go NewReversal).                        *)
ReversedOnce ==
  \A x \in TxnIds :
    /\ transactions[x].status = "REVERSED" <=> ReversalsOf(x) # {}
    /\ \A y \in ReversalsOf(x) :
         /\ ReversalsOf(x) = {y}
         /\ transactions[x].type # "REVERSAL"
         /\ {<<e.account, e.direction, e.amount>> : e \in RowsOfTxn(y)} =
            {<<e.account, Opposite(e.direction), e.amount>> : e \in RowsOfTxn(x)}

(* Claims, transactions and outbox rows go together: every committed transaction is
   the result of exactly one claim and is announced by exactly one event, both with
   the rows that were really written; no claim is visible without its result
   (ledger_repo.go Post steps 1, 6, 7).                                      *)
ExactlyOnce ==
  /\ \A k \in ClaimKeys : idem[k] # NoClaim =>
       /\ idem[k].code = 201
       /\ Exists(idem[k].txn)
       /\ {idem[k].body.entries[i] : i \in 1..Len(idem[k].body.entries)} = RowsOfTxn(idem[k].txn)
       /\ {ev \in outbox : ev.aggregate = idem[k].txn} =
            {[aggregate |-> idem[k].txn, payload |-> idem[k].body]}
  /\ \A x \in TxnIds : Exists(x) <=> \E k \in ClaimKeys : Claimed(k) /\ idem[k].txn = x
  /\ \A k, l \in ClaimKeys : (Claimed(k) /\ Claimed(l) /\ idem[k].txn = idem[l].txn) => k = l
  /\ \A ev \in outbox : Exists(ev.aggregate)

(* History only grows, at the end: rows are never changed or removed, and a row that
   becomes visible has a larger id than every visible row of its account, so a reader
   that pages by id < cursor is never overtaken (ledger_repo.go Post, account_repo.go
   ListEntries, migration 000005).                                           *)
NewRowsSortLast ==
  [][/\ entries \subseteq entries'
     /\ \A e \in entries' \ entries, f \in entries : f.account = e.account => f.id < e.id]_vars

(* An account that is not ACTIVE gets no new row: freezing takes effect at once for
   every transaction that has not committed (ledger_repo.go Post steps 2 and 5). *)
FrozenUntouched ==
  [][\A e \in entries' \ entries : accounts[e.account].status = "ACTIVE"]_vars

(* A transaction's row changes only from POSTED to REVERSED, and a claim's row never
   (migration 000005 transactions_status_only, ledger_repo.go Post).         *)
OneWay ==
  [][/\ \A x \in TxnIds : transactions'[x] = transactions[x]
         \/ ~Exists(x)
         \/ /\ transactions[x].status = "POSTED"
            /\ transactions'[x] = [transactions[x] EXCEPT !.status = "REVERSED"]
     /\ \A k \in ClaimKeys : Claimed(k) => idem'[k] = idem[k]]_vars

(* Every call of Post returns: no session waits for ever for a key, a row or a
   header (ledger_repo.go Post).                                             *)
EveryPostReturns == \A s \in Sessions : pc[s] # "idle" ~> pc[s] = "idle"
============================================================================
