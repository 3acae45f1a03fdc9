SPECIFICATION FairSpec
CONSTANTS
  Tsn = {1, 2, 3}
  MaxSeq = 1
  Data = {}
  Files = {f1}
  NoData = NoData
  NoTxn = NoTxn
  MaxCrashes = 0
  TornSaves = FALSE
PROPERTIES IdleIsCollected
