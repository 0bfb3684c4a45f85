SPECIFICATION Spec
CONSTANTS
  Tasks = {t1}
  Conns = {c1, c2}
  Heads = {h1, h2}
  NoHead = NoHead
  MaxEvents = 6
SYMMETRY ConnSymmetry
INVARIANTS TypeOK TrailMatchesRow TrailIsUnbroken
PROPERTY LedgerSpec
CHECK_DEADLOCK FALSE
