SPECIFICATION FairSpec
CONSTANTS
  c1 = c1
  c2 = c2
  c3 = c3
  p1 = p1
  p2 = p2
  None = None
  Callers = {c1, c2, c3}
  Procs = {p1, p2}
  ProcOf <- TwoThreads
  Statuses = {"unknown"}
  HasFcntl = TRUE
  MaxRows = 1
  MaxArchives = 1
  MaxCalls <- OneEach
INVARIANTS
  TypeOK
  IntentHeld
  StatusIsOwners
PROPERTIES
  LeakShutsGate
  CallReturns
  ImplementsTrail
