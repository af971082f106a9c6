SPECIFICATION Spec
CONSTANTS
  Settings <- AttendedOnly
  MaxFaults = 1
  MaxResets = 0
INVARIANTS
  TestsMatchModel
