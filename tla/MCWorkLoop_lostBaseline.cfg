SPECIFICATION Spec
CONSTANTS
  E1 = E1
  Orphan = Orphan
  Epics = {E1}
  NoEpic = Orphan
  Stories = {1,2}
  EpicOf <- TwoInOneEpic
  MaxAttempts = 1
  MaxTickets = 0
  CommitAuto = TRUE
  Results = {"pass","fail"}
  MaxCrashes = 1
  MaxOutages = 0
INVARIANTS
  EveryDoneStoryGuarded
