\* Three investments by two accounts, every order of operations and blocks.
SPECIFICATION Spec
CONSTANTS
  NumAccounts = 2
  NumProjects = 1
  Offerings <- MCOffering
  Updates <- MCUpdates
  Amounts = {4, 7}
  TokenAmounts = {2}
  InitialKHD = 10
  KHDPerPower = 10
  MaintenanceBlocks = 2
  MaxHead = 7
  LastCreate = 2
  MaxInvestments = 3
  MaxEdits = 0
\* Behaviours stop at block MaxHead.
CHECK_DEADLOCK FALSE
INVARIANTS
  TypeOK
  EscrowLedger
  TokenLedger
  
PROPERTY
  TerminalForever
