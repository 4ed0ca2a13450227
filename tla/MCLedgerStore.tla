--------------------------- MODULE MCLedgerStore ---------------------------
(***************************************************************************)
(* Small instances of LedgerStore: one cash account, two wallets, a fee    *)
(* account, and an id that no account has.                                 *)
(***************************************************************************)
EXTENDS LedgerRefinement

Cash == 1
Ani  == 2
Budi == 3
Fee  == 4
Nobody == 6

TypeOf == [a \in Accounts |->
             IF a = Cash THEN "SYSTEM_CASH"
             ELSE IF a = Fee THEN "SYSTEM_FEE_REVENUE" ELSE "USER_WALLET"]

Transfer(from, to, amount) == NewTransfer(from, to, Fee, amount, 1).txn

Unbuilt(from, to, debit, credit) ==
  Txn("TRANSFER", <<Entry(from, DirectionDebit, debit), Entry(to, DirectionCredit, credit)>>, NoTxn)

\* Two ways to spend what one topup brings in, of which it covers one, the second with the
\* rows of the topup in the other order; an account that does not exist; and two
\* transactions no builder makes.
SpendingOrders ==
  {NewTopup(Cash, Ani, 3), Transfer(Ani, Budi, 1), NewWithdraw(Ani, Cash, 2),
   Transfer(Ani, Nobody, 1), Unbuilt(Ani, Ani, 1, 1), Unbuilt(Ani, Budi, 2, 1)}

Alike == Permutations(Sessions) \union Permutations(Keys)
============================================================================
