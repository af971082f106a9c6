SPECIFICATION FairSpec
CONSTANTS
  Coins = {"coin"}
  Faults = {"jam"}
  Fsms <- AllFsms
  Tables <- AllTables
  UseCases <- Cases
  Declared <- Conserved
  Limit = 3
  MaxFaults = 1
  MaxCredit = 2
INVARIANTS
  TypeOK
  HandedOnIsSound
  LossIsReported
  PlayedIsNotReported
PROPERTIES
  EndsInBudget
