CONSTANTS
  Accounts = {"alice", "bob", "carol", "committee"}
  Controllers <- MCControllers
  Committee = "committee"
  CommitteeReview = 1
  MaxProposalLifetime = 3
  ClaimInterval = 2
  Start <- MCStart
  Transfers <- MCTransfers
  Permissions <- MCPermissions
  Vestings <- MCVestings
  Cashbacks <- MCCashbacks
  Amounts = {1, 2}
  Proposals <- MCProposals
  MaxOperations = 3
  MaxTime = 4
  MaxMissed = 1
SPECIFICATION Spec
INVARIANTS MoneyKept WithinLimit 
PROPERTIES ReviewRespected AllOrNothing
CHECK_DEADLOCK FALSE
