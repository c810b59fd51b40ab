SPECIFICATION Spec
CONSTANTS
  server = server
  cli = cli
  primary = primary
  standby = standby
  None = None
  Appliers = {server, cli}
  Targets = {primary, standby}
  Default <- Firsts
  Recorded <- OneToken
  MaxTokens = 1
  MaxApplies <- OneEach
INVARIANTS
  ExitReflectsInverse
CHECK_DEADLOCK FALSE
