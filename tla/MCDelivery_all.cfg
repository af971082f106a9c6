SPECIFICATION FairSpec
CONSTANTS
  Passing <- DemandMet
  MaxAttempts = 2
  PushAuto = TRUE
  MaxFaults = 2
INVARIANTS
  TypeOK
  ProtectedHeld
  GeneratedIsCommitted
  E2eReported
  PushedPasses
PROPERTIES
  Delivers
