SPECIFICATION Spec
CONSTANTS
  E1 = E1
  Orphan = Orphan
  Epics = {E1}
  NoEpic = Orphan
  Stories = {1,2}
  EpicOf <- TwoInOneEpic
  MaxAttempts = 2
  MaxTickets = 0
  CommitAuto = TRUE
  Results = {"pass","fail","hang"}
  MaxCrashes = 1
  MaxOutages = 1
INVARIANTS
  TypeOK
  EscalationsReported
  NothingSkipped
  BaselineAtHead
  DoneGuarded
  TicketsConsistent
