CONSTANTS
  Connections = {c1, c2}
  Null = Null
  Statements <- MCStatements
  Lists <- MCLists
  Scopes <- MCScopes
  MaxTasks = 2
  MaxEdits = 1
SPECIFICATION Spec
INVARIANTS
  ValidTaskIsStored
SYMMETRY Symmetry
