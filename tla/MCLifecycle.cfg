SPECIFICATION FairSpec
CONSTANTS
  i1 = i1  i2 = i2  na = na  url = url
  Nobody = Nobody
  Instances = {i1, i2}
  NameOf <- MCNameOf
  Stoppable = {i1}
  Self = i1
  Words = {na, i2, url, "self"}
  Urls = {url}
  Paths = {na}
  NoName = NoName  Line = Line
  NodeNames = {na}
  MaxNames = 2
INVARIANTS
  PipedNamesServed
PROPERTIES
  OthersUntouched
  ImplementsNameBatch
  BatchEnds
