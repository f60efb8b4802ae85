SPECIFICATION FairSpec
CONSTANTS
  chat = chat
  planner = planner
  writer = writer
  a1 = a1
  a2 = a2
  r1 = r1
  NoSession = NoSession
  Sessions <- OneSession
  Agents <- OneAgent
  Admitters <- TwoAdmitters
  Requests <- NoRequests
  MaxExecutions = 3
  MaxFaults = 1
INVARIANTS
  SessionTypeOK
  OneActive
  FirstComeFirstServed
PROPERTIES
  ParentFixed
  QueueMoves
CHECK_DEADLOCK FALSE
