SPECIFICATION Spec
CONSTANTS
  T = T
  C = C
  H = H
  Findings = {T, C}
  Route <- Routes
  MaxCycles = 1
  MaxAttempts = 1
  CommitAuto = TRUE
  CriticFails = FALSE
  MaxCrashes = 0
INVARIANTS
  WaiversNeverGrow
