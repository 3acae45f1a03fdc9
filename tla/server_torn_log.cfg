SPECIFICATION Spec
CONSTANTS
  Tsn = {1, 2}
  MaxSeq = 1
  Data = {d1}
  Files = {f1}
  NoData = NoData
  NoTxn = NoTxn
  MaxCrashes = 2
  TornSaves = TRUE
INVARIANTS ExactlyOnceWithoutCrash CommittedInFile
PROPERTIES ExpiredIsFinal
