CONSTANTS
  Alphabet <- MCAlphabet
  Typelike <- MCTypelike
  Headerlike <- MCHeaderlike
  Listings <- MCListings
  Pipelines <- MCPipelines
  LaunchType <- MCLaunchType
SPECIFICATION PSpec
CHECK_DEADLOCK FALSE
INVARIANTS
  PipeKept
  DiskHonoured
  TriedInOrder
  PipeOrFlags
PROPERTIES
  PipeEnds
