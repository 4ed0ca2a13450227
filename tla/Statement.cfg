SPECIFICATION FairStmtSpec
CONSTANTS
  HalfRange = 8
  MaxSafeAmount = 7
  NoTxn = NoTxn
  AccountIds = {1, 2}
  Accounts = {1, 2}
  AccountType <- TypeOf
  TxnIds = {t1, t2, t3}
  Users = {1}
  Admins = {}
  Keys = {"k1", "k2", "k3"}
  Hashes = {"h"}
  Unstorable = {}
  Orders <- CashOrders
  Posts <- CashPosts
  Sessions = {p, q}
  Freezable = {}
  MaxEntryId = 6
  Mine = 2
  DefaultPageLimit = 1
  MaxPageLimit = 2
  Limits <- AskedLimits
INVARIANTS PagesAreSeamless
PROPERTIES EveryPostReturns ReaderFinishes
