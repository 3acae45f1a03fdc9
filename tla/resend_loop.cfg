SPECIFICATION Spec
CONSTANTS
  Tsn = {1}
  MaxSeq = 4
  Data = {d1}
  Files = {f1}
  NoData = NoData
  NoTxn = NoTxn
INVARIANTS ReturnsCanCommit AsksForMissing
