SPECIFICATION Spec
CONSTANTS
  t1 = t1
  t2 = t2
  None = None
  Threads = {t1, t2}
  MaxFiles = 2
  Docs <- SomeDocs
  MaxEdits = 2
SYMMETRY ThreadSymmetry
INVARIANTS
  TypeOK
  StaleOnlyByClash
  WithdrawnNeverFires
CHECK_DEADLOCK FALSE
