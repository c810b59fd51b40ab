SPECIFICATION Spec
CONSTANTS
  server = server
  cli = cli
  primary = primary
  standby = standby
  None = None
  Appliers = {server, cli}
  Targets = {primary, standby}
  Default <- Firsts
  Recorded <- TwoTokens
  MaxTokens = 3
  MaxApplies <- TwoAndOne
INVARIANTS
  TypeOK
  AppliedRan
  OnceUnlessDoubt
  RanAtOrigin
CHECK_DEADLOCK FALSE
