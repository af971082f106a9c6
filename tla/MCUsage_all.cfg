SPECIFICATION Spec
CONSTANTS
  T1 = T1
  T2 = T2
  R1 = R1
  R2 = R2
  S1 = S1
  S2 = S2
  Limit = Limit
  Threads = {T1, T2}
  Requests = {R1, R2}
  Sessions = {S1, S2}
  MaxLines = 2
  MaxFaults = 1
  MaxPolls = 2
  MaxCount = 2
  MaxEvents = 4
SYMMETRY Alike
CHECK_DEADLOCK FALSE
INVARIANTS
  TypeOK
  CountedOnce
  AllCounted
  TotalIsCounter
