SPECIFICATION Spec
CONSTANTS
  t1 = t1
  t2 = t2
  poll = poll
  read = read
  key = key
  None = None
  Threads = {t1, t2}
  Prints = {poll, read}
  Keys = {key}
  KeyOf <- WithPattern
  Ceilings = {2, None}
  MaxToolSeconds = 2
  RunawayMax = 2
  RunawayWindow = 1
  Hour = 1
  Day = 3
  MaxPerHour = 1
  MaxPerDay = 2
  Threshold = 2
  DisableFor = 3
  MaxCalls <- TwoAndOne
  MaxTime = 4
INVARIANTS
  TypeOK
  CallsCounted
  RunawayBounded
  RateLimited
PROPERTIES
  BreakerHolds
CHECK_DEADLOCK FALSE
