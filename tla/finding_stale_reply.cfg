SPECIFICATION Spec
CONSTANTS
  Tsn = {1}
  MaxSeq = 3
  Data = {d1}
  Files = {f1}
  NoData = NoData
  NoTxn = NoTxn
  Servers = {s1, s2}
  Main = s1
  Nobody = Nobody
  Tiny = {}
  Payloads <- Anything
  FreshNumbers = TRUE
  RestartRoles = {}
  Drift = 0
  MaxQueue = 4
  MaxRequests = 5
  MaxCrashes = 0
  MaxIOErrors = 0
  MaxSweeps = 3
INVARIANTS BackupFirst
CHECK_DEADLOCK FALSE
