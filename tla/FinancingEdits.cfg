\* One edit of the asset (issuer, options or lists) among two investments, in
\* a public or a private offering, with the fairness of Spec.
SPECIFICATION Spec
CONSTANTS
  NumAccounts = 2
  NumProjects = 1
  Offerings <- MCOfferings
  Updates <- MCUpdates
  Amounts = {4, 7}
  TokenAmounts = {}
  InitialKHD = 10
  KHDPerPower = 10
  MaintenanceBlocks = 2
  MaxHead = 8
  LastCreate = 2
  MaxInvestments = 2
  MaxEdits = 1
\* Behaviours stop at block MaxHead.
CHECK_DEADLOCK FALSE
INVARIANTS
  KHDConserved
  FundedNeverFails
PROPERTIES
  EventuallySettled
