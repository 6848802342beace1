\* Two requests and one control operation of the agent; four prompts, two of them with
\* Touch ID; the state files of one daemon with two faults.
SPECIFICATION DecisionsSpec
CONSTANTS
  r1 = r1  r2 = r2
  a1 = a1
  o1 = o1
  p1 = p1  p2 = p2
  m1 = m1  m2 = m2  m3 = m3  m4 = m4
  k1 = k1
  Requests = {r1, r2}
  Admins = {a1}
  Objects = {o1}
  ObjectOf <- OneObject
  Policies = {p1, p2}
  RulesOf <- MCRulesOf
  BaseRules <- MCBaseRules
  Msgs = {m1, m2, m3, m4}
  TouchId = {m1, m2}
  Scopes = {"timed"}
  Keys = {k1}
  MaximumTtl = 1
  MaxClock = 1
  MaxWrites = 2
  MaxStateFaults = 2
  NoState = NoState
INVARIANTS
  FlightsAreShared
  AllowsAreExplicit
  PromptsAreDecided
  RemovedStaysRemoved
  GrantsLastTheirTime
PROPERTIES
  StalePromptNeverInstalls
  CheckpointNeverFalls
  DecisionsProceed
CHECK_DEADLOCK FALSE
