\* Three rows of two threads; two activations with three interruptions; two clients of two SSH
\* surfaces that are replaced twice.
SPECIFICATION ServicesSpec
CONSTANTS
  Threads = {t1, t2}
  MaxRows = 3
  MaxReads = 1
  MaxFaults = 2
  Data = {0, 1, 2}
  VaultOf <- TheVaults
  MaxActivations = 2
  MaxBreaks = 3
  None = None
  SshSurfaces = {"s", "t"}
  Snapshots <- TheSnapshots
  SshPeers = {c, d}
  PoolSize = 1
  SignPayloads <- ThePayloads
  HostBindings <- TheBindings
  MaxBindings = 2
  MaxReplaces = 2
  MaxSshRequests = 3
  MaxSshFaults = 1
CONSTRAINT FourEvents
INVARIANTS
  LogSurvivesKills
  SigningIsGuarded
PROPERTIES
  RowsAreCheckpointed
  ActivationsAreWhole
  ReplacementsEnd
CHECK_DEADLOCK FALSE
