CHECK_DEADLOCK FALSE
SPECIFICATION Spec
CONSTANTS
  Procs = {p1, p2}
  Registrars = {p1}
  MaxNodes = 3
INVARIANTS
  NodeTracked
  FileOutlivesNode
  
PROPERTIES
  CleanupAfterRemoval
  ImplementsNodeLife
