SPECIFICATION Spec
CONSTANTS
  Tsn = {1}
  MaxSeq = 1
  Data = {d1}
  Files = {f1}
  NoData = NoData
  NoTxn = NoTxn
  Servers = {s1, s2}
  Main = s1
  Nobody = Nobody
  Tiny = {}
  Payloads <- Repeats
  FreshNumbers = TRUE
  RestartRoles = {}
  Drift = 0
  MaxQueue = 4
  MaxRequests = 2
  MaxCrashes = 0
  MaxIOErrors = 0
  MaxSweeps = 0
INVARIANTS NoMutualWait
CHECK_DEADLOCK FALSE
