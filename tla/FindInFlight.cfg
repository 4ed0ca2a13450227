SPECIFICATION ApiSpec
CONSTANTS
  HalfRange = 8
  MaxSafeAmount = 7
  NoTxn = NoTxn
  AccountIds = {1, 2, 3, 4, 5}
  Accounts = {1, 2, 3, 4, 5}
  AccountType <- TypeOf
  TxnIds = {t1, t2, t3}
  T2 = t2
  Users = {1, 2, 3}
  Admins = {3}
  Keys = {k1}
  Hashes <- RequestHashes
  Unstorable = {}
  Orders <- NoOrders
  Sessions = {p, q}
  Freezable = {}
  MaxEntryId = 8
  RequestOf <- Requests
  WalletOf <- Wallets
  CashId = 1
  FeeShards = {4, 5}
  MinTransfer = 1
  MaxTransfer = 5
  TransferFee = 1
  BadKey = BadKey
  GarbledKeys = {}
  Traffic <- Topups
PROPERTIES InFlightIsTold
