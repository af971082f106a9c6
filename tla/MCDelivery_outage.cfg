SPECIFICATION Spec
CONSTANTS
  Passing <- DemandMet
  MaxAttempts = 2
  PushAuto = TRUE
  MaxFaults = 0
INVARIANTS
  OutageIsNoAttempt
