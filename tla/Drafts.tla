------------------------------- MODULE Drafts -------------------------------
(***************************************************************************)
(* Transactions nobody has validated yet: a header to which entries are    *)
(* appended one by one, on any accounts, sides and amounts.  What Domain   *)
(* makes of them is compared with exact arithmetic.                        *)
(***************************************************************************)
EXTENDS Domain, FiniteSets

CONSTANTS
  TypeOfAccount,   \* column account_type, by account
  OriginalId,      \* the transaction a reversal names
  MaxEntries       \* the bound on the entries of a draft

ASSUME DraftAssumption == OriginalId # NoTxn

Sides   == Directions \union {"UNKNOWN"}
Amounts == 0..(HalfRange - 1)

VARIABLE draft

DraftInit ==
  \E type \in {"TRANSFER", "REVERSAL"}, reverses \in {NoTxn, OriginalId}, long \in BOOLEAN :
    draft = [Txn(type, <<>>, reverses) EXCEPT !.longDesc = long]

AppendEntry ==
  /\ Len(draft.entries) < MaxEntries
  /\ \E a \in DOMAIN TypeOfAccount, d \in Sides, m \in Amounts :
       draft' = [draft EXCEPT !.entries = Append(@, Entry(a, d, m))]

DraftSpec == DraftInit /\ [][AppendEntry]_draft

----------------------------------------------------------------------------

\* The exact total of one side.
SideAmount(x, d) ==
  MapThenSumSet(LAMBDA i : x.entries[i].amount,
                {i \in DOMAIN x.entries : x.entries[i].direction = d})

NormalOf(e) == NormalBalance(TypeOfAccount[e.account])

\* The exact effect on the assets, or on all other accounts.
Effect(x, assets) ==
  MapThenSumSet(LAMBDA i : BalanceDelta(x.entries[i], NormalOf(x.entries[i])),
                {i \in DOMAIN x.entries :
                   (TypeOfAccount[x.entries[i].account] = "SYSTEM_CASH") = assets})

IsWellFormed(x) ==
  /\ Len(x.entries) >= 2 /\ ~x.longDesc
  /\ \A i \in DOMAIN x.entries : x.entries[i].amount > 0 /\ x.entries[i].direction \in Directions
  /\ Cardinality(AccountIDs(x)) = Len(x.entries)
  /\ SideAmount(x, DirectionDebit) = SideAmount(x, DirectionCredit)
  /\ SideAmount(x, DirectionDebit) \in Int64
  /\ x.type = "REVERSAL" <=> x.reverses # NoTxn

(* The one-pass scan of Validate, with its early returns and its machine sums,
   accepts exactly the well-formed transactions: an overflowing side never passes
   for a balanced one (domain/transaction.go Validate).                           *)
ValidateAcceptsWellFormed == Validate(draft) = "nil" <=> IsWellFormed(draft)

(* The new balance Post computes for an entry, in machine arithmetic and whatever the
   balance and the side on which the account grows, is the exact one or is refused
   (domain/money.go Add, ledger_repo.go Post step 5).                             *)
AddExact ==
  \A i \in DOMAIN draft.entries : i = Len(draft.entries) =>
    \A b \in Int64, normal \in Directions : AddIsExact(b, BalanceDelta(draft.entries[i], normal))

(* What Validate accepts keeps assets = liabilities + revenue, whatever the sides
   on which the accounts grow (domain/transaction.go Validate, domain/entry.go
   BalanceDelta).                                                                 *)
AccountingEquation == Validate(draft) = "nil" => Effect(draft, TRUE) = Effect(draft, FALSE)

\* The draft once it is posted.
AsPosted == [id |-> OriginalId, type |-> draft.type, status |-> "POSTED", entries |-> draft.entries]

(* The reversal of an accepted transaction is accepted too, and undoes it on every
   account (domain/transaction.go NewReversal).                                   *)
ReversalUndoes ==
  (Validate(draft) = "nil" /\ draft.type # "REVERSAL") =>
    LET r == NewReversal(AsPosted)
    IN  /\ r.err = "nil" /\ Validate(r.txn) = "nil"
        /\ \A i \in DOMAIN draft.entries :
             LET e == draft.entries[i]
                 f == r.txn.entries[i]
             IN  f.account = e.account /\ BalanceDelta(f, NormalOf(e)) = -BalanceDelta(e, NormalOf(e))
============================================================================
