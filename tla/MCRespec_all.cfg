SPECIFICATION FairSpec
CONSTANTS
  A1 = A1
  A2 = A2
  U1 = U1
  U2 = U2
  Atoms = {A1, A2}
  UseCases = {U1, U2}
  Sigs = {"s1", "s2"}
  Owners <- OneAndBoth
  Models <- SixModels
  MaxResets = 2
  MaxCrashes = 1
INVARIANTS
  TypeOK
  NoTwins
  DoneIsCurrent
  ScopeMetIsBuilt
  TableRightAtFirst
PROPERTIES
  Settles
