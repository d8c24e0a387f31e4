SPECIFICATION FairSpec
CONSTANTS
  alice = alice  bob = bob  ka = ka  kb = kb  kx = kx
  NoKey = NoKey
  Keys = {ka, kb, kx}
  Users = {alice, bob}
  Ports = {q1}
  Procs = {p1, p2}
  KeyOf <- MCKeyOf
  Preexisting <- MCFiles
  MaxTries = 1
  MaxCommands = 3
INVARIANTS
  StrangersKept
  KnownGrantHasKey
  StrayTagsExcused
  KeyBeforeGrant
PROPERTIES
  SessionsEnd
