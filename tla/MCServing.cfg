\* Four reads of one process; catalogs with an edit and a write while a reader opens; a
\* configuration file with three edits of its owner; two keys.
SPECIFICATION ServingSpec
CONSTANTS
  h1 = h1  p1 = p1  p2 = p2
  r1 = r1  w1 = w1  e1 = e1
  ReadHandles = {h1}
  WriteFds = {h1}
  ReadProcesses = {p1, p2}
  Reads <- OfOneProcess
  Workers = 3
  MaxHead = 1
  Secrets = {"s1", "s2", "s3"}
  Values <- TheContents
  Library <- TheCatalogs
  FirstCatalogs <- Begun
  Readers = {r1}
  Writers = {w1}
  Editors = {e1}
  Nobody = Nobody
  MaxChanges = 2
  MaxOpens = 1
  MaxOwnerEdits = 3
  MaxCommands = 3
  KeyIds = {1, 2}
  MaxImports = 2
CONSTRAINT OneInterrupt
INVARIANTS
  SessionsAreOwn
  
  ServedIsApproved
  KeysSignStrongly
PROPERTIES
  BlockIsAGuest
CHECK_DEADLOCK FALSE
