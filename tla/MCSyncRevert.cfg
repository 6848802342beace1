\* A capture after a crash publishes documents nobody changed.
SPECIFICATION DevicesSpec
CONSTANTS
  d1 = d1  d2 = d2  s1 = s1  k1 = k1
  Devices = {d1, d2}
  Entities = {s1, k1}
  Secrets = {s1}
  Base = {s1}
  Mutations <- MCMutations
  MaxEdits = 2
  MaxCrashes = 1
  MaxResolves = 1
  MaxPartials = 1
  Macs = {g, a, b}
  Genesis = g
  Renewers = {a}
  Members = {g, b}
  MaxIdentities = 2
  MaxGenerations = 2
  MaxMacCrashes = 1
CONSTRAINTS OneBusy TwoTroubles
SYMMETRY Symmetry
INVARIANTS
  CapturesAreChanges
CHECK_DEADLOCK FALSE
