SPECIFICATION Spec
CONSTANTS
  t1 = t1
  t2 = t2
  None = None
  Threads = {t1}
  Tools <- ScalarTools
  Interrupts = FALSE
  MaxCalls <- OneCall
INVARIANTS
  EffectsAudited
CHECK_DEADLOCK FALSE
