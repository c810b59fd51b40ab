SPECIFICATION Spec
CONSTANTS
  c1 = c1
  c2 = c2
  public = public
  tenant = tenant
  idx = idx
  Idx = Idx
  narrow = narrow
  control = control
  cut = cut
  gated = gated
  None = None
  Callers = {c1, c2}
  Values = {"a, b, c", "a..", ""}
  Conf = "4MB"
  ValueText <- ShortValues
  Schemas = {public, tenant}
  SearchPath <- PublicFirst
  Names = {idx, Idx}
  Fold <- LowerCase
  Defs = {narrow, control, cut, gated}
  DefText <- ShortDefs
  Replayable = {narrow, control}
  MaxWrites <- TwoAndOne
INVARIANTS
  TypeOK
  InverseRestores
  UndoRemovesOwn
CHECK_DEADLOCK FALSE
