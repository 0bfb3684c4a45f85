SPECIFICATION Spec
CONSTANTS
  NoVerdict = NoVerdict
  NoHead = NoHead
  Tasks = {t1}
  Heads = {h1}
  Drivers = {d1}
  Syncers = {s1, s2}
  MaxAttempts = 2
  MaxDecisions = 3
  Foreign = FALSE
  Crashes = FALSE
  Faults = FALSE
  Redrive = FALSE
SYMMETRY SyncerSymmetry
PROPERTIES TerminalVerdictIsFinal
CHECK_DEADLOCK FALSE
