\* Two devices, one secret, one catalog row and two edits; three Macs in a Vault with two
\* identities each and two generations of its key.
SPECIFICATION DevicesSpec
CONSTANTS
  d1 = d1  d2 = d2  s1 = s1  k1 = k1
  Devices = {d1, d2}
  Entities = {s1, k1}
  Secrets = {s1}
  Base = {s1}
  Mutations <- MCMutations
  MaxEdits = 2
  MaxCrashes = 1
  MaxResolves = 1
  MaxPartials = 1
  Macs = {g, a, b}
  Genesis = g
  Renewers = {a}
  Members = {g, b}
  MaxIdentities = 2
  MaxGenerations = 2
  MaxMacCrashes = 1
CONSTRAINTS OneBusy TwoTroubles
SYMMETRY Symmetry
PROPERTIES
  DevicesShareCommits
  
CHECK_DEADLOCK FALSE
