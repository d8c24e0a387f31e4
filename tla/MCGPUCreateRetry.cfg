SPECIFICATION Spec
CONSTANTS
  Count = 2
  Parallel = 2
  NTypes = 2
  PollBudget = 0
  Scenarios <- MCFew
INVARIANTS
  RetryOnlyRemaining
