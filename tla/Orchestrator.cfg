SPECIFICATION FairSpec
CONSTANTS
  Base = base
  NoHead = NoHead
  Heads = {good, bad, wide}
  Passing = {good, wide}
  InBounds = {good, bad}
  Supervised = TRUE
  MaxAttempts = 3
  MaxTrail = 8
CHECK_DEADLOCK FALSE
INVARIANTS TypeOK ReadyIsVerified EvidenceIsOfItsAttempt RetryIsAuthorised RunRowsAreTruthful CheckpointCitesItsEvidence ResultIsBacked
PROPERTY Terminates
