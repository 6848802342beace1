\* Two prompts, answered over two connections of a daemon that may restart.
SPECIFICATION Spec
CONSTANTS
  q1 = q1  q2 = q2  c1 = c1  c2 = c2
  Prompts = {q1, q2}
  Conns = {c1, c2}
  TouchId = {q2}
  Scopes = {"timed"}
  NoResult = NoResult  NoApp = NoApp  Timeout = Timeout
  MaxRestarts = 1
SYMMETRY SymmetricConns
CONSTRAINT OneLate
INVARIANTS
  AnswersFindTheirCall
CHECK_DEADLOCK FALSE
