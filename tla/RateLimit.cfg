SPECIFICATION FairSpec
CONSTANTS
  Limiters = {"login", "refresh"}
  Limit <- LimitOf
  Window <- WindowOf
  Emails = {"email:ani"}
  Addresses = {"ip:x"}
  Users = {}
  Backends = {"memory", "redis"}
  Traffic <- Called
  MaxLag = 1
  MaxTries = 2
  Faults = TRUE
INVARIANTS AtMostTwiceTheLimit
PROPERTIES RefusalIsOwn StaleBucketsAreCollected CountersExpire
