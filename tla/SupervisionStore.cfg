SPECIFICATION Spec
CONSTANTS
  Conns = {c1, c2}
  Requests = {r1, r2}
  Refs = {x1, x2}
  NoRef = NoRef
  Comments = {m1}
  NoComment = NoComment
  Statuses = {"PUBLISHED"}
  MaxEvents = 4
  MaxRows = 2
SYMMETRY ConnSymmetry
INVARIANTS TypeOK TrailMatchesRequest PublishedOnce
PROPERTY RecordSpec
CHECK_DEADLOCK FALSE
