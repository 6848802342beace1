\* One write handle whose commits overlap, with a second process that shares it; two discovery
\* jobs started and cancelled over two connections; two monitored projects with two changes.
SPECIFICATION WorkersSpec
CONSTANTS
  h1 = h1  p1 = p1  p2 = p2
  Handles = {h1}
  Processes = {p1, p2}
  Calls <- SharedHandle
  MaxWrites = 2
  Starters = {c}
  Cancellers = {d}
  MaxRetainedJobs = 1
  MaxJobs = 2
  Dirs = {"a", "w"}
  Monitored = {"p", "q"}
  RootOf <- TheRoots
  NoRepo = "none"
  MaxGitChanges = 2
  MaxUnwatched = 1
  MaxMail = 2
CONSTRAINT TwoEvents
INVARIANTS
  WritesAreHonest
  
PROPERTIES
  EveryCallReturns
  JobsAreAccounted
  MonitorCatchesUp
CHECK_DEADLOCK FALSE
