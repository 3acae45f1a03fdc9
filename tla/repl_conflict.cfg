SPECIFICATION ConflictSpec
CONSTANTS
  Tsn = {1, 2, 3, 4}
  MaxSeq = 2
  Data = {d1, d2}
  Files = {f1}
  NoData = NoData
  NoTxn = NoTxn
  Servers = {s1, s2}
  Main = s1
  Nobody = Nobody
  Tiny = {}
  Payloads <- Repeats
  FreshNumbers = TRUE
  RestartRoles = {}
  Drift = 1
  MaxQueue = 4
  MaxRequests = 3
  MaxCrashes = 0
  MaxIOErrors = 0
  MaxSweeps = 0
PROPERTIES SettlesWithoutCrash HandlersReturn
CHECK_DEADLOCK FALSE
