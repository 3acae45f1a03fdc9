SPECIFICATION Spec
CONSTANTS
  Tsn = {1}
  MaxSeq = 2
  Data = {d1, d2}
  Files = {f1}
  NoData = NoData
  NoTxn = NoTxn
  Servers = {s1, s2}
  Main = s1
  Nobody = Nobody
  Tiny = {}
  Payloads <- Repeats
  FreshNumbers = TRUE
  RestartRoles = {"primary", "backup"}
  Drift = 0
  MaxQueue = 4
  MaxRequests = 5
  MaxCrashes = 1
  MaxIOErrors = 1
  MaxSweeps = 0
INVARIANTS CommitsComplete
PROPERTIES CommitsKept
CHECK_DEADLOCK FALSE
