SPECIFICATION Spec
CONSTANTS
  Effects <- OnlyRead
  AtMostOnce <- NoEffect
  Starters <- OnlyRead
  MaxDispatches = 2
  ClaimBound = 2
  MaxOccurrence = 0
  MaxAttempts = 2
PROPERTIES
  ReturnedWorkRefused
CHECK_DEADLOCK FALSE
