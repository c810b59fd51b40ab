SPECIFICATION Spec
CONSTANTS
  t1 = t1
  t2 = t2
  None = None
  Threads = {t1}
  Tools <- ExecutedTools
  Interrupts = TRUE
  MaxCalls <- OneCall
INVARIANTS
  OkMeansDone
CHECK_DEADLOCK FALSE
