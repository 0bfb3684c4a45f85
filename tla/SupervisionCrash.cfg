SPECIFICATION Spec
CONSTANTS
  NoVerdict = NoVerdict
  NoHead = NoHead
  Tasks = {t1}
  Heads = {h1}
  Drivers = {d1}
  Syncers = {s1}
  MaxAttempts = 2
  MaxDecisions = 2
  Foreign = FALSE
  Crashes = TRUE
  Faults = TRUE
  Redrive = TRUE
INVARIANTS OneOpenGate RefusalStands
PROPERTIES ResumeIsAuthorised TerminalVerdictIsFinal DriverOwnsActiveTask HumanGateHolds
CHECK_DEADLOCK FALSE
