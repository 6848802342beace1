\* Two requests over one connection.
SPECIFICATION FairSession
CONSTANTS
  r1 = r1  r2 = r2  c1 = c1  a1 = a1  o1 = o1  p1 = p1
  Requests = {r1, r2}
  Conns = {c1}
  Admins <- HooksOnly
  Objects = {o1}
  ObjectOf <- OneObject
  Policies = {p1}
  RulesOf <- MCRulesOf
  BaseRules <- MCBaseRules
  NoResult = NoResult  NoApp = NoApp  Timeout = Timeout
INVARIANTS
  AllowsCameFromTheApp
PROPERTIES
  ImplementsAgent
CHECK_DEADLOCK FALSE
