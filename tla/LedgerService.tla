---------------------------- MODULE LedgerService ----------------------------
(***************************************************************************)
(* internal/service/ledger.go above LedgerStore: a handler looks up the    *)
(* idempotency key of a request, builds the transaction, posts it, and     *)
(* looks the key up again when it lost a race; or it reads.  A session of  *)
(* the store is the handler that uses it.                                  *)
(*                                                                         *)
(* A request is known by its hash, the SHA-256 of method, path and body    *)
(* (transport/http/middleware.go idempotency), taken to be injective: the  *)
(* hash is the request's name and RequestOf gives its content.             *)
(***************************************************************************)
EXTENDS LedgerStore

CONSTANTS
  RequestOf,                  \* [op, amount, target, long, body] by hash
  WalletOf,                   \* the account GetWalletByUserID finds, by user
  CashId, FeeShards,          \* the system accounts NewLedger looked up
  MinTransfer, MaxTransfer, TransferFee,
  BadKey,                     \* an Idempotency-Key that is empty or too long
  GarbledKeys                 \* those that are no UTF-8, which a header may carry

\* NewLedger refuses any other configuration, and looks the system accounts up by their
\* types.  An administrator may have no wallet.  A path that names a transaction is parsed
\* as a uuid.  Amounts are int64.
ASSUME ServiceAssumption ==
  /\ DOMAIN RequestOf = Hashes
  /\ DOMAIN WalletOf \subseteq Users
  /\ \A u \in DOMAIN WalletOf : WalletOf[u] \in Accounts /\ IsWallet(WalletOf[u])
  /\ CashId \in Accounts /\ AccountType[CashId] = "SYSTEM_CASH"
  /\ FeeShards \subseteq Accounts /\ FeeShards # {}
  /\ \A f \in FeeShards : AccountType[f] = "SYSTEM_FEE_REVENUE"
  /\ \A h \in Hashes : RequestOf[h].amount \in Int64
  /\ \A h \in Hashes : RequestOf[h].op \in {"get", "reverse"} => RequestOf[h].target \in TxnIds
  /\ {TransferFee, MinTransfer, MaxTransfer} \subseteq Int64
  /\ TransferFee >= 0 /\ MinTransfer > 0 /\ MaxTransfer >= MinTransfer
  /\ GarbledKeys \intersect (Keys \union {BadKey}) = {}

VARIABLES
  at,        \* where a handler is
  req,       \* the request it serves: user, key, hash
  answer     \* err, and when that is "nil" the result and the account that views it

svars == <<at, req, answer>>

NoRequest == [user |-> 0, key |-> 0, hash |-> ""]
NoAnswer  == [err |-> "nil", body |-> NoClaim.body, viewer |-> 0]

KeyOf(s)   == <<req[s].user, req[s].key>>
Request(s) == RequestOf[req[s].hash]

\* The first of the checks, each a condition and an error, whose condition holds.
FirstError(checks) ==
  LET failed == {i \in 1..Len(checks) : checks[i][1]}
  IN  IF failed = {} THEN "nil" ELSE checks[Min(failed)][2]

\* A service that marks the viewer of a topup and a withdrawal and forgets a transfer.
ViewerForgotten(u, op) ==
  IF op \in {"topup", "withdraw"} THEN WalletOf[u] ELSE 0

\* markViewer: the one account whose balances the caller is shown; 0 is nil, all of
\* them.  Reverse marks none, and GetTransaction none for an administrator.
Viewer(u, op) ==
  IF op = "reverse" \/ (op = "get" /\ u \in Admins) THEN 0 ELSE WalletOf[u]

AnswerError(s, err) ==
  /\ at' = [at EXCEPT ![s] = "answered"]
  /\ answer' = [answer EXCEPT ![s] = [NoAnswer EXCEPT !.err = err]]
  /\ UNCHANGED req

AnswerResult(s, body) ==
  /\ at' = [at EXCEPT ![s] = "answered"]
  /\ answer' = [answer EXCEPT ![s] =
       [err |-> "nil", body |-> body, viewer |-> Viewer(req[s].user, Request(s).op)]]
  /\ UNCHANGED req

Continue(s, l) == at' = [at EXCEPT ![s] = l] /\ UNCHANGED <<req, answer>>

----------------------------------------------------------------------------
(* Topup, Withdraw, Transfer and Reverse.                                  *)

AmountError(sen, minimum) ==
  LET amount == NewMoney(sen)
  IN  IF amount.err # "nil" THEN amount.err
      ELSE IF amount.val < minimum \/ amount.val > MaxTransfer THEN "ErrAmountOutOfRange"
      ELSE "nil"

\* What they and postIdempotent refuse before they read anything that changes.
ServiceError(u, k, r) ==
  LET amount == AmountError(r.amount, IF r.op = "transfer" THEN MinTransfer ELSE 1)
  IN  IF r.op = "reverse"
      THEN FirstError(<< <<u \notin Admins, "ErrForbidden">>,
                         <<k = BadKey, "ErrValidation">> >>)
      ELSE FirstError(<< <<amount # "nil", amount>>,
                         <<u \notin DOMAIN WalletOf, "ErrAccountNotFound">>,
                         <<k = BadKey, "ErrValidation">> >>)

\* IdempotencyRepo.Find sees committed rows only.
Find(s) == idem[KeyOf(s)]

\* A lookup that does not compare the hash.
ReplayErrorAnyBody(s) ==
  IF Find(s).code = 0 THEN "ErrIdempotencyInFlight" ELSE "nil"

ReplayError(s) ==
  IF Find(s).hash # req[s].hash THEN "ErrIdempotencyConflict"
  ELSE IF Find(s).code = 0 THEN "ErrIdempotencyInFlight"
  ELSE "nil"

\* PostgreSQL does not take a key that is no UTF-8, and Find passes its error on.
\* The second lookup answers in any case.
Replay(s) ==
  /\ at[s] \in {"replay", "replay again"}
  /\ IF req[s].key \in GarbledKeys THEN AnswerError(s, "PgError")
     ELSE IF Find(s) # NoClaim
     THEN IF ReplayError(s) = "nil" THEN AnswerResult(s, Find(s).body)
          ELSE AnswerError(s, ReplayError(s))
     ELSE IF at[s] = "replay" THEN Continue(s, "build")
     ELSE AnswerError(s, "ErrIdempotencyInFlight")
  /\ UNCHANGED vars

\* The transactions build() may give, one for each fee shard it may draw, or an error.
Builds(u, r) ==
  CASE r.op = "topup"    -> {Built(NewTopup(CashId, WalletOf[u], r.amount))}
    [] r.op = "withdraw" -> {Built(NewWithdraw(WalletOf[u], CashId, r.amount))}
    [] r.op = "transfer" ->
         IF r.target \notin Accounts \/ ~IsWallet(r.target) THEN {Refused("ErrAccountNotFound")}
         ELSE {NewTransfer(WalletOf[u], r.target, f, r.amount, TransferFee) : f \in FeeShards}
    [] r.op = "reverse"  ->
         IF ~Exists(r.target) THEN {Refused("ErrTransactionNotFound")}
         ELSE {NewReversal(GetTransaction(r.target))}

Described(t, r) == [t EXCEPT !.longDesc = r.long]

\* build, Validate and the call of Post.  GetTransaction reads the header and the
\* entries in two statements, but neither changes once it is committed.
Build(s) ==
  /\ at[s] = "build"
  /\ \E b \in Builds(req[s].user, Request(s)) :
       LET t   == Described(b.txn, Request(s))
           err == IF b.err # "nil" THEN b.err ELSE Validate(t)
       IN  IF err = "nil"
           THEN Continue(s, "posting") /\ Post(s, t, KeyOf(s), req[s].hash)
           ELSE AnswerError(s, err) /\ UNCHANGED vars

\* Post has returned.
Returned(s) ==
  /\ at[s] = "posting"
  /\ IF reply[s] = "ErrIdempotencyInFlight" THEN Continue(s, "replay again")
     ELSE IF reply[s] = "nil" THEN AnswerResult(s, Stored(s))
     ELSE AnswerError(s, reply[s])
  /\ Release(s)

\* A lookup outside Post meets an expired deadline or a broken connection.
LookupFails(s) ==
  /\ at[s] \in {"replay", "replay again", "build", "read"}
  /\ AnswerError(s, "ErrContext")
  /\ UNCHANGED vars

----------------------------------------------------------------------------
(* GetTransaction and TrialBalance, MyWallet.                              *)

\* A user sees the transactions that touch the wallet, an administrator all.
Visible(u, x) ==
  /\ Exists(x)
  /\ u \in Admins \/ \E e \in entries : e.txn = x /\ e.account = WalletOf[u]

PostResult(x) ==
  [txn |-> x, type |-> transactions[x].type, reverses |-> transactions[x].reverses,
   entries |-> ById({e \in entries : e.txn = x})]

\* The totals of the trial balance and the caller's own account have no body here.
Read(s) ==
  /\ at[s] = "read"
  /\ LET u == req[s].user
         r == Request(s)
         needsWallet == r.op = "wallet" \/ (r.op = "get" /\ u \notin Admins)
     IN  IF needsWallet /\ u \notin DOMAIN WalletOf THEN AnswerError(s, "ErrAccountNotFound")
         ELSE IF r.op = "get" /\ ~Visible(u, r.target)
              THEN AnswerError(s, "ErrTransactionNotFound")
         ELSE IF r.op = "get" THEN AnswerResult(s, PostResult(r.target))
         ELSE AnswerError(s, "nil")
  /\ UNCHANGED vars

Respond(s) ==
  /\ at[s] = "answered"
  /\ at' = [at EXCEPT ![s] = "idle"]
  /\ req' = [req EXCEPT ![s] = NoRequest]
  /\ answer' = [answer EXCEPT ![s] = NoAnswer]
  /\ UNCHANGED vars

Serve(s) ==
  Replay(s) \/ Build(s) \/ Returned(s) \/ LookupFails(s) \/ Read(s) \/ Respond(s)

----------------------------------------------------------------------------
(* Properties.                                                             *)

Succeeded(s, ops) == at[s] = "answered" /\ answer[s].err = "nil" /\ Request(s).op \in ops

Keyed == {"topup", "withdraw", "transfer", "reverse"}

(* A caller that is told success is given the stored result of its own request, under
   its own key, whether this handler posted it, another did, or an earlier one whose
   answer was lost; and whoever reads the transaction later is given the same rows
   (service/ledger.go postIdempotent, replay, GetTransaction).               *)
SuccessIsTheStoredResult ==
  \A s \in Sessions :
    /\ Succeeded(s, Keyed) => /\ Claimed(KeyOf(s))
                              /\ idem[KeyOf(s)].hash = req[s].hash
                              /\ answer[s].body = idem[KeyOf(s)].body
    /\ Succeeded(s, {"get"}) => \E k \in ClaimKeys : idem[k].body = answer[s].body

(* No caller is ever told that its key is being processed: the claim waits for the
   twin that holds the key, so the second lookup always finds a final row
   (service/ledger.go postIdempotent, ledger_repo.go Post step 1).           *)
NeverInFlight == \A s \in Sessions : answer[s].err # "ErrIdempotencyInFlight"

(* Whoever looks up a key that a twin of the same body is posting under is told so, as
   docs/03 4.3 and the comment of postIdempotent have it (service/ledger.go:257).  It does
   not hold: the lookup sees committed rows only, and the claim it leads to waits.  *)
InFlightIsTold ==
  [][\A s, r \in Sessions :
       ( /\ at[s] = "replay" /\ at'[s] # "replay"
         /\ ClaimHeld(r) /\ call[r].key = KeyOf(s) /\ call[r].hash = req[s].hash ) =>
         answer'[s].err \in {"ErrIdempotencyInFlight", "ErrContext"}]_<<vars, svars>>
============================================================================
