SPECIFICATION FairSpec
CONSTANTS
  Settings <- BothWays
  MaxFaults = 2
  MaxResets = 1
INVARIANTS
  TypeOK
  ApprovedIsUsed
  PhasesInOrder
  LineageIntact
PROPERTIES
  ConfirmedIsKept
  Completes
