-------------------------- MODULE LedgerRefinement --------------------------
(***************************************************************************)
(* LedgerStore implements AtomicLedger: the committed tables, read as      *)
(* balances and settled claims, change only in the ways that one promises. *)
(* Every statement of Post but the COMMIT is a stuttering step there.      *)
(***************************************************************************)
EXTENDS LedgerStore

LinesOf(x) == {<<e.account, e.direction, e.amount>> : e \in RowsOfTxn(x)}
ClaimOf(x) == CHOOSE k \in ClaimKeys : Claimed(k) /\ idem[k].txn = x

Settlement(x) ==
  [lines  |-> LinesOf(x),
   undoes |-> IF transactions[x].reverses = NoTxn THEN {}
              ELSE {ClaimOf(transactions[x].reverses)}]

Atomic == INSTANCE AtomicLedger WITH
  Accounts   <- Accounts,
  Wallets    <- {a \in Accounts : IsWallet(a)},
  GrowsOn    <- [a \in Accounts |-> NormalSide(a)],
  Claims     <- ClaimKeys,
  balance    <- [a \in Accounts |-> accounts[a].balance],
  active     <- {a \in Accounts : accounts[a].status = "ACTIVE"},
  settled    <- [k \in ClaimKeys |->
                   IF Claimed(k) THEN Settlement(idem[k].txn)
                   ELSE [lines |-> {}, undoes |-> {}]],
  announced  <- {k \in ClaimKeys :
                   Claimed(k) /\ \E ev \in outbox : ev.aggregate = idem[k].txn}

(* Post, with all its statements and whatever other sessions do between them, is one
   atomic settlement of its claim, or nothing (ledger_repo.go Post).         *)
PostIsAtomic == Atomic!Spec
============================================================================
