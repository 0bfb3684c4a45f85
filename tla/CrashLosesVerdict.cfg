SPECIFICATION Spec
CONSTANTS
  NoVerdict = NoVerdict
  NoHead = NoHead
  Tasks = {t1}
  Heads = {h1}
  Drivers = {d1}
  Syncers = {s1}
  MaxAttempts = 2
  MaxDecisions = 3
  Foreign = FALSE
  Crashes = TRUE
  Faults = FALSE
  Redrive = FALSE
INVARIANT VerdictTakesEffect
CHECK_DEADLOCK FALSE
