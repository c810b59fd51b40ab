SPECIFICATION MCSpec
CONSTANTS
  Backends = {1, 2, 3, 4}
  Prepared = 0
  None = 9
  MaxRows = 1
  MaxWaits = 3
  MaxChanges = 2
  RowCap = 2
  RankedCap = 1
  DeadTupWarn = 4
  DeadPctWarn = 20
  EntriesPerPage = 2
  Names = {n1, n2, n3}
  Tuples = {0, 4, 16, 17}
  Sizes = {0, 1, 3, 5}
  Limits = {0, 1, 2, 3}
INVARIANTS
  TypeOK
  VictimsExact
  DeadlockIsReal
  EveryoneAccounted
  LeftOutIsSaid
  CutOffIsNoWorse
PROPERTIES
  RcaReturns
CHECK_DEADLOCK FALSE
