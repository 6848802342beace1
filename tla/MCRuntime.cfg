\* Two prompts and two connections of the app; one secret and one surface with a pool thread beside
\* the event loop; two processes with one fault and one request of the user.
SPECIFICATION RuntimeSpec
CONSTANTS
  q1 = q1  q2 = q2
  c1 = c1  c2 = c2
  allow = allow
  Prompts = {q1, q2}
  Conns = {c1, c2}
  Decisions = {allow}
  NoResult = NoResult  NoApp = NoApp  Timeout = Timeout
  Secrets = {s1}
  Surfaces = {1}
  Names = {n1}
  Loop = Loop
  Workers = {w1}
  Absent = Absent  Hidden = Hidden  Composed = Composed
  FirstIno = 3
  MaxChanges = 1
  MaxInos = 2
  Pids = {1, 2}
  Old = Old  Current = Current
  None = None  Foreign = Foreign  Doctor = Doctor
  MaxFaults = 1
  Attempts = 2
  MaxBusy = 2
  MaxPolls = 1
  MaxProbes = 2
  MaxRequests = 1
SYMMETRY Symmetry
CONSTRAINT TwoEvents
INVARIANTS
  InodesNameOneThing
  AnswersAreCurrent
  
PROPERTIES
  PromptsAreMatched
CHECK_DEADLOCK FALSE
