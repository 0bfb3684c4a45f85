CONSTANTS
  Tasks = {t1, t2}
  None = None
  src = src
  test = test
  image = image
  Files <- MCFiles
  Binary = {image}
  Sensitive = {test}
  Trees <- MCTrees
  Bases <- MCBases
  Passing <- MCPassing
  Intakes <- MCIntakes
  MaxEvidence = 1
SPECIFICATION Spec
INVARIANTS
  TypeOK
  ReadyIsEarned
  NothingElseBlocks
SYMMETRY Symmetry
