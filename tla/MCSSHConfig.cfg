SPECIFICATION FairSpec
CONSTANTS
  Clients = {c1}
  Refreshers = {}
  Daemons = {d1}
  Workspaces = {w1}
  Nodes = {n1}
  UserLines = {l1}
  MaxChanges = 2
INVARIANTS
  UserLinesKept
  HostEntryUpToDate
PROPERTIES
  ConfigsConverge
