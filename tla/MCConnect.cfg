SPECIFICATION FairSpec
CONSTANTS
  i1 = i1  i2 = i2  n1 = n1  box = box  node = node
  Nobody = Nobody
  Instances = {i1, i2}
  Nodes = {n1}
  NameOf <- MCNameOf
  Words = {box, node}
  Tries <- MCTries
  MaxNames = 2
INVARIANTS
  PipedNamesReached
  EntryBeforeSSH
  NotRunAgain
PROPERTIES
  ImplementsNameBatch
  ConnectEnds
CHECK_DEADLOCK FALSE
