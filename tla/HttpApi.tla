------------------------------- MODULE HttpApi -------------------------------
(***************************************************************************)
(* internal/transport/http around LedgerService: what a request passes     *)
(* through before the service sees it (router.go, middleware.go), how the  *)
(* body is read (dto.go), and how a result or an error becomes a response  *)
(* (dto.go toTransactionResponse, response.go mapError).                   *)
(*                                                                         *)
(* The middlewares and the validation read nothing that another request    *)
(* changes, but for the rate limiter, whose verdict is a choice here and   *)
(* which RateLimit models; so they are one action with the handler's start.*)
(***************************************************************************)
EXTENDS LedgerService

CONSTANT Traffic     \* the <<credential, request>> pairs callers send

ASSUME TrafficAssumption == \A c \in Traffic : c[2] \in Hashes

----------------------------------------------------------------------------
(* The routes.                                                             *)

AdminOnly == {"reverse", "trial"}
Limited   == {"topup", "withdraw", "transfer"}

\* A credential that is not the id of a user is no Bearer token, or one that does not
\* parse.  A body that is "cut off" ends before its length, or meets the ReadTimeout of the
\* server, and the error of io.ReadAll is passed on as it is.
MiddlewareError(who, k, r, allowed) ==
  FirstError(<<
    <<who \notin Users, "errUnauthenticated">>,
    <<r.op \in AdminOnly /\ who \notin Admins, "ErrForbidden">>,
    <<r.op \in Keyed /\ k = BadKey, "errIdempotencyKeyRequired">>,
    <<r.op \in Keyed /\ r.body = "too large", "MaxBytesError">>,
    <<r.op \in Keyed /\ r.body = "cut off", "ErrUnexpectedEOF">>,
    <<r.op \in Limited /\ ~allowed, "errRateLimited">> >>)

\* decodeJSON, or the parsing of an id, fails.
Undecodable(r) == r.body = "malformed"

\* A reversal whose description is not checked.
RequestErrorNotOfReverse(r) ==
  FirstError(<<
    <<Undecodable(r), "ValidationError">>,
    <<r.op \in Limited /\ (r.amount <= 0 \/ r.long), "ValidationError">> >>)

\* What the handlers refuse before they call the service: validate.
RequestError(r) ==
  FirstError(<<
    <<Undecodable(r), "ValidationError">>,
    <<r.op \in Limited /\ (r.amount <= 0 \/ r.long), "ValidationError">>,
    <<r.op = "reverse" /\ r.long, "ValidationError">> >>)

\* The values of the header Idempotency-Key.
Headers == Keys \union GarbledKeys \union {BadKey}

\* The verdict on a request before anything is looked up, for every request there is.
Refusal ==
  [c \in Traffic |-> [k \in Headers |-> [allowed \in BOOLEAN |->
     LET r  == RequestOf[c[2]]
         mw == MiddlewareError(c[1], k, r, allowed)
         bad == IF mw # "nil" THEN mw ELSE RequestError(r)
     IN  IF bad # "nil" \/ r.op \notin Keyed THEN bad ELSE ServiceError(c[1], k, r)]]]

Receive(s, c, k) ==
  /\ at[s] = "idle"
  /\ req' = [req EXCEPT ![s] = [user |-> c[1], key |-> k, hash |-> c[2]]]
  /\ \E allowed \in BOOLEAN :
       LET err == Refusal[c][k][allowed]
       IN  /\ at' = [at EXCEPT ![s] = IF err # "nil" THEN "answered"
                                      ELSE IF RequestOf[c[2]].op \in Keyed THEN "replay"
                                      ELSE "read"]
           /\ answer' = [answer EXCEPT ![s].err = err]
  /\ UNCHANGED vars

----------------------------------------------------------------------------
(* The response.                                                           *)

\* The status and the code of every error mapError names.
Mapped ==
  {<<"ValidationError", 400, "VALIDATION_ERROR">>,
   <<"MaxBytesError", 413, "PAYLOAD_TOO_LARGE">>,
   <<"ErrValidation", 400, "VALIDATION_ERROR">>,
   <<"errIdempotencyKeyRequired", 400, "IDEMPOTENCY_KEY_REQUIRED">>,
   <<"errUnauthenticated", 401, "UNAUTHENTICATED">>,
   <<"ErrForbidden", 403, "FORBIDDEN">>,
   <<"ErrAccountNotFound", 404, "ACCOUNT_NOT_FOUND">>,
   <<"ErrTransactionNotFound", 404, "TRANSACTION_NOT_FOUND">>,
   <<"ErrIdempotencyConflict", 409, "IDEMPOTENCY_CONFLICT">>,
   <<"ErrIdempotencyInFlight", 409, "IDEMPOTENCY_IN_FLIGHT">>,
   <<"ErrAlreadyReversed", 409, "ALREADY_REVERSED">>,
   <<"ErrNotReversible", 409, "ALREADY_REVERSED">>,
   <<"ErrConcurrentModification", 409, "CONCURRENT_MODIFICATION">>,
   <<"ErrInsufficientBalance", 422, "INSUFFICIENT_BALANCE">>,
   <<"ErrAccountNotActive", 422, "ACCOUNT_NOT_ACTIVE">>,
   <<"ErrSelfTransfer", 422, "SELF_TRANSFER">>,
   <<"ErrAmountOutOfRange", 422, "AMOUNT_OUT_OF_RANGE">>,
   <<"ErrAmountNotPositive", 422, "AMOUNT_OUT_OF_RANGE">>,
   <<"ErrAmountOverflow", 422, "AMOUNT_OUT_OF_RANGE">>,
   <<"errRateLimited", 429, "RATE_LIMITED">>,
   <<"ErrContext", 503, "TIMEOUT">>}

\* ErrContext stands for a context that ended, and for a connection that broke, which
\* the code does not map: a 500.
MapError(err) ==
  IF \E m \in Mapped : m[1] = err
  THEN LET m == CHOOSE m \in Mapped : m[1] = err IN [status |-> m[2], code |-> m[3]]
  ELSE [status |-> 500, code |-> "INTERNAL_ERROR"]

\* The sender's side of a transfer, which has the fee in it.
IsMainDebit(type, e) ==
  IsWallet(e.account) /\ (type # "TRANSFER" \/ e.direction = DirectionDebit)

\* The rows amount_sen is taken from.
IsMain(type, e) ==
  IsWallet(e.account) /\ (type # "TRANSFER" \/ e.direction = DirectionCredit)

\* toTransactionResponse: the last of the main rows, the sum of the fee rows, and the
\* accounts whose balance_after is shown.
ToTransactionResponse(body, viewer) ==
  LET rows == body.entries
      main == {i \in DOMAIN rows : IsMain(body.type, rows[i])}
      fees == {i \in DOMAIN rows : AccountType[rows[i].account] = "SYSTEM_FEE_REVENUE"}
  IN  [amount |-> IF main = {} THEN 0 ELSE rows[Max(main)].amount,
       fee    |-> MapThenSumSet(LAMBDA i : rows[i].amount, fees),
       shown  |-> {rows[i].account : i \in {j \in DOMAIN rows :
                                       viewer = 0 \/ rows[j].account = viewer}}]

Response(s) == ToTransactionResponse(answer[s].body, answer[s].viewer)

----------------------------------------------------------------------------

ApiInit ==
  /\ Init
  /\ at = [s \in Sessions |-> "idle"]
  /\ req = [s \in Sessions |-> NoRequest]
  /\ answer = [s \in Sessions |-> NoAnswer]

ApiNext ==
  \/ \E s \in Sessions, c \in Traffic :
       \E k \in IF RequestOf[c[2]].op \in Keyed THEN Headers ELSE {BadKey} :
         Receive(s, c, k)
  \/ \E s \in Sessions : \/ Serve(s)
                         \/ (Step(s) \/ CommitLost(s) \/ Abort(s)) /\ UNCHANGED svars

ApiSpec == ApiInit /\ [][ApiNext]_<<vars, svars>>

----------------------------------------------------------------------------
(* Properties.                                                             *)

\* What no status is meant for: the database fails, the body breaks off on its way, or
\* PostgreSQL has no text for what is in it.
Fault(s) ==
  \/ answer[s].err = "ErrDatabase"
  \/ Request(s).body = "cut off"
  \/ req[s].hash \in Unstorable \/ req[s].key \in GarbledKeys

(* A caller is told 500 only when the database failed or the request itself could not be
   read or stored: whatever else is sent, in whatever order and next to whatever others,
   every refusal of the domain, the service and the store has a status of its own
   (response.go mapError, dto.go validate, middleware.go idempotency).       *)
OnlyFaultsAreInternal ==
  \A s \in Sessions :
    (answer[s].err # "nil" /\ MapError(answer[s].err).status = 500) => Fault(s)

(* No one but an administrator is shown a balance of another account, or a transaction
   that does not touch the own wallet, on any of the paths a response takes: posted,
   replayed, or read (service/ledger.go markViewer, dto.go toTransactionResponse,
   ledger_repo.go GetTransaction).                                           *)
OnlyOwnBalances ==
  \A s \in Sessions :
    (Succeeded(s, Keyed \union {"get"}) /\ req[s].user \notin Admins) =>
      Response(s).shown = {WalletOf[req[s].user]}

(* The receipt says what was asked for: amount_sen is the requested amount and fee_sen
   the configured fee, whatever the rows' order and whichever fee shard was drawn; the
   receipt of a reversal says what the reversed transaction's does (dto.go
   toTransactionResponse, domain/transaction.go NewTransfer, NewReversal).   *)
ReceiptMatchesRequest ==
  \A s \in Sessions :
    /\ Succeeded(s, Limited) =>
         /\ Response(s).amount = Request(s).amount
         /\ Response(s).fee = IF Request(s).op = "transfer" THEN TransferFee ELSE 0
    /\ Succeeded(s, {"reverse"}) =>
         LET original == ToTransactionResponse(PostResult(Request(s).target), 0)
         IN  Response(s) = original
============================================================================
