SPECIFICATION Spec
CONSTANTS
  Tsn = {1}
  MaxSeq = 2
  Data = {d1}
  Files = {f1}
  NoData = NoData
  NoTxn = NoTxn
  Servers = {s1, s2}
  Main = s1
  Nobody = Nobody
  Tiny = {}
  Payloads <- Anything
  FreshNumbers = TRUE
  RestartRoles = {"primary", "backup"}
  Drift = 1
  MaxQueue = 3
  MaxRequests = 5
  MaxCrashes = 1
  MaxIOErrors = 0
  MaxSweeps = 0
INVARIANTS Agreement
CHECK_DEADLOCK FALSE
