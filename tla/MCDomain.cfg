SPECIFICATION DraftSpec
CONSTANTS
  HalfRange = 4
  MaxSafeAmount = 3
  NoTxn = NoTxn
  OriginalId = 7
  MaxEntries = 3
  TypeOfAccount <- ThreeAccounts
INVARIANTS AddExact ValidateAcceptsWellFormed AccountingEquation ReversalUndoes
CHECK_DEADLOCK FALSE
