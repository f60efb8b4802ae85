SPECIFICATION Spec
CONSTANTS
  chat = chat
  planner = planner
  writer = writer
  a1 = a1
  a2 = a2
  r1 = r1
  NoSession = NoSession
  Sessions <- OneSession
  Agents <- TwoAgents
  Admitters <- OneAdmitter
  Requests <- OneRequest
  MaxExecutions = 3
  MaxFaults = 0
SYMMETRY AgentSymmetry
INVARIANTS
  ParentCompleted
PROPERTIES
  OnlyNewcomersLoseParents
CHECK_DEADLOCK FALSE
