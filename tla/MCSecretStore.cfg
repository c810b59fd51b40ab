SPECIFICATION Spec
CONSTANTS
  e1 = e1
  e2 = e2
  srv = srv
  n1 = n1
  n2 = n2
  n3 = n3
  None = None
  Editors = {e1, e2}
  Servers = {srv}
  Targets = {"prod-db", "replica"}
  Keys = {"PROD_DB", "prod_db", "REPLICA"}
  TargetKey <- KeyOf
  KeyTarget <- TargetFor
  Values = {"first", "last"}
  Passwords = {"old", "new"}
  Unlocks <- UnlockOld
  Legacy <- LegacyOne
  Plain <- ThreeLines
  Inodes = {n1, n2, n3}
  MaxCommands <- OneEach
  MaxEdits <- TwoAndOne
SYMMETRY FileSymmetry
INVARIANTS
  TypeOK
  TornOnlyByClash
  PassedOverOnlyStale
PROPERTIES
  WritesKeepOthers
  MigratedIsStored
  ListedIsStored
CHECK_DEADLOCK FALSE
