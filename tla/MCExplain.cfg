SPECIFICATION Spec
CONSTANTS
  t1 = t1
  t2 = t2
  None = None
  Threads = {t1, t2}
  Tools <- IndexAndExplain
  Interrupts = FALSE
  MaxCalls <- OneCall
INVARIANTS
  ExplainOnlyReads
CHECK_DEADLOCK FALSE
