CONSTANTS
  Programs = {"minimal", "manycore", "hammerblade"}
  Files <- MCFiles
  Words = 2
  Els = 1
  Credits = 2
  Csrs = {"csr"}
  RomWords = 2
  MaxDemands = 2

SPECIFICATION FairSpec

CHECK_DEADLOCK FALSE

INVARIANTS
  LinkTypeOK
  RequestsWhole
  FenceOrders
  StartsOnWholeImage
  VerifyAgrees
  ServedInOrder

PROPERTIES
  Completes
