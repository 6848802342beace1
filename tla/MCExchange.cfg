\* One secret with two versions, a mutation and a reader; two devices that exchange three
\* operations; two connections with two requests and the replication worker.
SPECIFICATION ExchangeSpec
CONSTANTS
  Secrets = {s1}
  Mutations = {m1}
  Settings = {v1, v2}
  Incoming = {9}
  Readers = {r1}
  MaxObjects = 2
  MaxStoreMishaps = 1
  MaxSeals = 4
  NoDoc = NoDoc
  Devices = {1, 2}
  Editors = {1, 2}
  MaxEdits = 2
  MaxOperations = 3
  MaxMerges = 1
  MaxMishaps = 1
  Connections = {c1, c2}
  Worker = w
  Nobody = nobody
  MaxRequests = 2
  MaxCommits = 1
  MaxFaults = 1
CONSTRAINT OneTrouble
SYMMETRY AnyConnections

  
  
PROPERTIES
  VersionsAreKept
CHECK_DEADLOCK FALSE
