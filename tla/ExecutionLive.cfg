SPECIFICATION PartSpec
PROPERTIES
  RunningComesToRest
  RetriesRunOut
  ApprovalsAreDecided
  SubagentsAreSettled
CHECK_DEADLOCK FALSE
