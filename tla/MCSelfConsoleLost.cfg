CONSTANTS
  Messages = {m1, m2, m3}
  Polls = {p1}
  MaxFaults = 2
SPECIFICATION Spec
CHECK_DEADLOCK FALSE
INVARIANTS
  AgentCostsNothing
