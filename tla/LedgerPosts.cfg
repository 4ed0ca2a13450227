SPECIFICATION Spec
CONSTANTS
  HalfRange = 8
  MaxSafeAmount = 7
  NoTxn = NoTxn
  AccountIds = {1, 2, 3, 4, 6}
  Accounts = {1, 2, 3, 4}
  AccountType <- TypeOf
  TxnIds = {t1, t2, t3}
  Users = {1}
  Admins = {1}
  Keys = {k1, k2, k3}
  Hashes = {"h"}
  Unstorable = {}
  Orders <- SpendingOrders
  Sessions = {p, q}
  Freezable = {2}
  MaxEntryId = 6
SYMMETRY Alike
INVARIANTS
  TypeOK RunningBalance BooksBalance WalletNonNegative BackstopsNeverFire
  LockDiscipline ExactlyOnce ReversedOnce NoDeadlock
PROPERTIES NewRowsSortLast FrozenUntouched OneWay PostIsAtomic
