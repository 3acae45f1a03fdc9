SPECIFICATION Spec
CONSTANTS
  Tsn = {1}
  MaxSeq = 1
  Data = {d1}
  Files = {f1}
  NoData = NoData
  NoTxn = NoTxn
  MaxCrashes = 1
  TornSaves = FALSE
INVARIANTS NoGluedLines
