SPECIFICATION Spec
CONSTANTS
  Tsn = {1}
  MaxSeq = 2
  Data = {d1}
  Files = {f1}
  NoData = NoData
  NoTxn = NoTxn
  MaxCrashes = 0
  TornSaves = FALSE
PROPERTIES SweepSparesActive
