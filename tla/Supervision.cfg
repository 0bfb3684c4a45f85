SPECIFICATION FairSpec
CONSTANTS
  NoVerdict = NoVerdict
  NoHead = NoHead
  Tasks = {t1}
  Heads = {h1}
  Drivers = {d1}
  Syncers = {s1}
  MaxAttempts = 3
  MaxDecisions = 4
  Foreign = FALSE
  Crashes = FALSE
  Faults = FALSE
  Redrive = TRUE
INVARIANTS TypeOK VerdictTakesEffect ReadyHasCheckpoint
PROPERTIES ResumeIsAuthorised SettlesAtOnce AnswerSettles
CHECK_DEADLOCK FALSE
