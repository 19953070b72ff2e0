\* Maintenance in the block that closes the window, below the minimum.
SPECIFICATION Spec
CONSTANTS
  NumAccounts = 2
  NumProjects = 1
  Offerings <- MCOffering
  Updates = {}
  Amounts = {4}
  TokenAmounts = {}
  InitialKHD = 10
  KHDPerPower = 10
  MaintenanceBlocks = 2
  MaxHead = 7
  LastCreate = 2
  MaxInvestments = 1
  MaxEdits = 0
CHECK_DEADLOCK FALSE
INVARIANT
  RefundCovered
