------------------------------- MODULE Domain -------------------------------
(***************************************************************************)
(* internal/domain: accounts, entries and transactions, the four builders  *)
(* and the validation every transaction passes before it reaches the       *)
(* database.  A transaction is a record                                    *)
(*                                                                         *)
(*   [type, entries, reverses, longDesc]                                   *)
(*                                                                         *)
(* with entries a sequence of [account, direction, amount]; longDesc says  *)
(* whether the description exceeds maxDescriptionLen, the only thing the   *)
(* code asks of it.  InitiatedBy and the timestamps decide nothing.        *)
(***************************************************************************)
EXTENDS Money, Sequences, FiniteSetsExt

CONSTANT NoTxn     \* a nil ReversesID

DirectionDebit  == "DEBIT"
DirectionCredit == "CREDIT"
Directions == {DirectionDebit, DirectionCredit}

Opposite(d) == IF d = DirectionDebit THEN DirectionCredit ELSE DirectionDebit

AccountTypes == {"USER_WALLET", "SYSTEM_CASH", "SYSTEM_FEE_REVENUE", "SYSTEM_SUSPENSE"}
AccountStatuses == {"ACTIVE", "FROZEN", "CLOSED"}

NormalBalance(type) ==
  IF type = "SYSTEM_CASH" THEN DirectionDebit ELSE DirectionCredit

TxnTypes == {"TOPUP", "TRANSFER", "WITHDRAW", "REVERSAL"}
TxnStatuses == {"POSTED", "REVERSED"}

Entry(a, d, m) == [account |-> a, direction |-> d, amount |-> m]

\* A delta that ignores which side the account grows on.
BalanceDeltaBySide(e, normal) ==
  IF e.direction = DirectionCredit THEN e.amount ELSE -e.amount

BalanceDelta(e, normal) == IF e.direction = normal THEN e.amount ELSE -e.amount

----------------------------------------------------------------------------
(* Transaction.Validate: a loop over the entries that returns the first     *)
(* error it meets, then the checks on the whole.                           *)

\* debit or credit after the first i entries, in machine arithmetic.
RunningTotal(t, d) ==
  LET total[i \in 0..Len(t.entries)] ==
        IF i = 0 THEN 0
        ELSE IF t.entries[i].direction = d THEN Add(total[i - 1], t.entries[i].amount).val
        ELSE total[i - 1]
  IN  total

\* Two entries on one account are let through.
SeenNever(t, i) == FALSE

Seen(t, i) == \E j \in 1..(i - 1) : t.entries[j].account = t.entries[i].account

\* What the loop makes of entry i when it has come that far.
EntryFault(t, i) ==
  LET e == t.entries[i]
  IN  IF e.amount <= 0 THEN "ErrAmountNotPositive"
      ELSE IF Seen(t, i) THEN "ErrDuplicateAccount"
      ELSE IF e.direction \notin Directions THEN "ErrUnknownDirection"
      ELSE Add(RunningTotal(t, e.direction)[i - 1], e.amount).err

Faults(t) == {i \in 1..Len(t.entries) : EntryFault(t, i) # "nil"}

\* A validation that leaves the balance to the database's trigger.
ValidateUnbalanced(t) ==
  IF Len(t.entries) < 2 THEN "ErrTooFewEntries"
  ELSE IF t.longDesc THEN "ErrDescriptionTooLong"
  ELSE IF Faults(t) # {} THEN EntryFault(t, Min(Faults(t)))
  ELSE IF (t.type = "REVERSAL") # (t.reverses # NoTxn) THEN "ErrInvalidReversalLink"
  ELSE "nil"

Validate(t) ==
  LET n == Len(t.entries)
  IN  IF n < 2 THEN "ErrTooFewEntries"
      ELSE IF t.longDesc THEN "ErrDescriptionTooLong"
      ELSE IF Faults(t) # {} THEN EntryFault(t, Min(Faults(t)))
      ELSE IF RunningTotal(t, DirectionDebit)[n] # RunningTotal(t, DirectionCredit)[n]
           THEN "ErrUnbalanced"
      ELSE IF (t.type = "REVERSAL") # (t.reverses # NoTxn) THEN "ErrInvalidReversalLink"
      ELSE "nil"

\* The ids to lock.  The code sorts them; a set of integers has its order.
AccountIDs(t) == {t.entries[i].account : i \in 1..Len(t.entries)}

----------------------------------------------------------------------------
(* The builders.  NewTransfer and NewReversal may refuse.                  *)

Txn(type, entries, reverses) ==
  [type |-> type, entries |-> entries, reverses |-> reverses, longDesc |-> FALSE]

NoTransaction == Txn("TOPUP", <<>>, NoTxn)

Built(t)   == [txn |-> t, err |-> "nil"]
Refused(e) == [txn |-> NoTransaction, err |-> e]

NewTopup(cash, wallet, amount) ==
  Txn("TOPUP", <<Entry(cash, DirectionDebit, amount),
                 Entry(wallet, DirectionCredit, amount)>>, NoTxn)

NewWithdraw(wallet, cash, amount) ==
  Txn("WITHDRAW", <<Entry(wallet, DirectionDebit, amount),
                    Entry(cash, DirectionCredit, amount)>>, NoTxn)

\* A fee of zero has no entry: an entry's amount is positive.
TransferEntries(from, to, feeAccount, amount, total, fee) ==
  <<Entry(from, DirectionDebit, total), Entry(to, DirectionCredit, amount)>>
    \o (IF fee > 0 THEN <<Entry(feeAccount, DirectionCredit, fee)>> ELSE <<>>)

SelfTransfer(from, to) == from = to

NewTransfer(from, to, feeAccount, amount, fee) ==
  LET total == Add(amount, fee)
  IN  IF SelfTransfer(from, to) THEN Refused("ErrSelfTransfer")
      ELSE IF fee < 0 THEN Refused("ErrAmountNotPositive")
      ELSE IF total.err # "nil" THEN Refused(total.err)
      ELSE Built(Txn("TRANSFER",
                     TransferEntries(from, to, feeAccount, amount, total.val, fee),
                     NoTxn))

\* A reversal that repeats the original's sides.
ReversedEntriesSameSide(entries) == entries

ReversedEntries(entries) ==
  [i \in 1..Len(entries) |-> [entries[i] EXCEPT !.direction = Opposite(@)]]

\* original is a transaction with its id and status.
NewReversal(original) ==
  IF original.status # "POSTED" THEN Refused("ErrAlreadyReversed")
  ELSE IF original.type = "REVERSAL" THEN Refused("ErrNotReversible")
  ELSE Built(Txn("REVERSAL", ReversedEntries(original.entries), original.id))
============================================================================
