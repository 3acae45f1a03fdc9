SPECIFICATION Spec
CONSTANTS
  Tsn = {1}
  MaxSeq = 2
  Data = {d1, d2}
  Files = {f1, f2}
  NoData = NoData
  NoTxn = NoTxn
  MaxCrashes = 2
  TornSaves = FALSE
SYMMETRY Symmetry
INVARIANTS TypeOK ExactlyOnceWithoutCrash AckedDurable
PROPERTIES WriteOnce ImplementsDurableStore
