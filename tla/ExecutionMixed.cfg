SPECIFICATION Spec
CONSTANTS
  Effects <- TwoEffects
  AtMostOnce <- OnlyPay
  Starters <- OnlyRead
  MaxDispatches = 2
  ClaimBound = 2
  MaxOccurrence = 0
  MaxAttempts = 1
INVARIANTS
  TypeOK
  LiveDispatchIffRunning
  ApprovalGate
  ApprovedBeforeRun
  CancelledIsSettled
PROPERTIES
  RecordedNeverRerun
  ImplementsLifecycle
CHECK_DEADLOCK FALSE
