SPECIFICATION FairSpec
CONSTANTS
  E1 = E1
  Orphan = Orphan
  Epics = {E1}
  NoEpic = Orphan
  Stories = {1,2}
  EpicOf <- SecondIsOrphan
  MaxAttempts = 2
  MaxTickets = 1
  CommitAuto = TRUE
  Results = {"pass","fail"}
  MaxCrashes = 1
  MaxOutages = 1
PROPERTIES
  ImplementsBacklog
