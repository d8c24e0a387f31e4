SPECIFICATION FairSpec
CONSTANTS
  Count = 2
  Parallel = 2
  NTypes = 2
  PollBudget = 1
  Scenarios <- MCInputs
INVARIANTS
  NoUntracked
  OneRequestPerIndex
PROPERTIES
  ImplementsProvision
  Terminates
