SPECIFICATION Spec
CONSTANTS
  Effects <- OnlyPay
  AtMostOnce <- OnlyPay
  Starters <- NoEffect
  MaxDispatches = 2
  ClaimBound = 2
  MaxOccurrence = 1
  MaxAttempts = 2
INVARIANTS
  AtMostOnceTold
  NoBlindRepeat
  UnknownNeedsApproval
  OccurrencesContiguous
CHECK_DEADLOCK FALSE
