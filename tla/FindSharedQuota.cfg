SPECIFICATION FairSpec
CONSTANTS
  Limiters = {"login", "refresh"}
  Limit <- LimitOf
  Window <- WindowOf
  Emails = {"email:ani"}
  Addresses = {"ip:x"}
  Users = {}
  Backends = {"redis"}
  Traffic <- Called
  MaxLag = 0
  MaxTries = 1
  Faults = FALSE
PROPERTIES SameForBothBackends
