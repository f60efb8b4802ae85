SPECIFICATION Spec
CONSTANTS
  chat = chat
  planner = planner
  writer = writer
  a1 = a1
  a2 = a2
  r1 = r1
  NoSession = NoSession
  Sessions <- OneSession
  Agents <- OneAgent
  Admitters <- OneAdmitter
  Requests <- NoRequests
  MaxExecutions = 3
  MaxFaults = 0
PROPERTIES
  ContinuesLatest
CHECK_DEADLOCK FALSE
