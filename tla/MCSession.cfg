SPECIFICATION FairSpec
CONSTANTS
  Procs = {p1, p2}
  Requesters = {p2}
  MaxSessions = 2
  None = None
INVARIANTS
  LogoutHolds
  Renewable
PROPERTIES
  KeyStays
  PromptNeeded
  ImplementsCredentials
  CommandsEnd
