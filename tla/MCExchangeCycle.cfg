\* One change of a connection: its observer waits for the state mutex, which the replication
\* worker keeps while it waits for the gate.
SPECIFICATION GateSpec
CONSTANTS
  Secrets = {s1}
  Mutations = {m1}
  Settings = {v1, v2}
  Incoming = {9}
  Readers = {r1}
  MaxObjects = 2
  MaxStoreMishaps = 1
  MaxSeals = 4
  NoDoc = NoDoc
  Devices = {1, 2}
  Editors = {1, 2}
  MaxEdits = 2
  MaxOperations = 3
  MaxMerges = 1
  MaxMishaps = 1
  Connections = {c1, c2}
  Worker = w
  Nobody = nobody
  MaxRequests = 1
  MaxCommits = 1
  MaxFaults = 0
PROPERTIES
  ObserversReturn
CHECK_DEADLOCK FALSE
