SPECIFICATION Spec
CONSTANTS
  r1 = r1
  r2 = r2
  r3 = r3
  Configs <- Environments
  Requests = {r1, r2, r3}
  Probes = {r3}
  MaxConns = 1
  SeedFile = 1
  LastFile = 2
  MaxStarts = 2
INVARIANT ServesOnlyChecked
PROPERTIES InFlightIsFinished StopsAfterSignal
CHECK_DEADLOCK FALSE
