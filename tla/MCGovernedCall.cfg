SPECIFICATION Spec
CONSTANTS
  t1 = t1
  t2 = t2
  None = None
  Threads = {t1, t2}
  Tools <- ExecutedTools
  Interrupts = TRUE
  MaxCalls <- TwoAndOne
INVARIANTS
  TypeOK
  EffectsAudited
  SuccessIsReal
  TokensSound
  AnswersAgree
PROPERTIES
  ImplementsTrail
CHECK_DEADLOCK FALSE
