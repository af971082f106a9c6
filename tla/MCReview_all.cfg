SPECIFICATION FairSpec
CONSTANTS
  T = T
  C = C
  H = H
  Findings = {T, C, H}
  Route <- Routes
  MaxCycles = 2
  MaxAttempts = 2
  CommitAuto = TRUE
  CriticFails = TRUE
  MaxCrashes = 1
INVARIANTS
  TypeOK
  HumanFindingsParked
  HeadStaysGreen
  UndisturbedDecidesAll
PROPERTIES
  SolvedStaysSolved
  Terminates
