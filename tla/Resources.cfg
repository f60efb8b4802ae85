SPECIFICATION Spec
CONSTANTS
  Affecting <- TwoWrites
  Others <- OneCall
  AtMostOnce <- OnlyPush
  Intervals <- OffOrEverySecond
  MaxAttempts = 2
  MaxLog = 7
  MaxForks = 1
  MaxTurns = 1
  NoStep = NoStep
INVARIANTS
  TypeOK
  CoveredForkMatches
  OneCheckpointPerBoundary
  CountIsSettledSteps
PROPERTIES
  ForkKeepsCoverage
  CapturesOnSchedule
CHECK_DEADLOCK FALSE
