CONSTANTS
  RatioDenom = 4
  Accounts = {"alice", "bob", "carol"}
  MarketFeePercent <- MCFeePercent
  MaxMarketFee <- MCMaxFee
  CancelFee = 1
  MaxSettlementPercent = 50
  SettlementOffset = 10
  Issuer = "carol"
  Publishers = {"p", "q"}
  FeedLifetime = 2
  MinimumFeeds = 1
  SettlementDelay = 1
  MaintenanceInterval = 2
  OrderFee = 1
  ExchangeRate <- MCRate
  Start <- MCStart
  LimitOrders <- MCLimitOrders
  CallUpdates <- MCCallUpdates
  Settlements = {0, 1, 2}
  Bids <- MCBids
  Feeds <- MCFeeds
  SettlePrices <- MCSettlePrices
  MaxOperations = 3
  MaxTime = 3
SPECIFICATION Spec
INVARIANTS BooksBalance Matched CallsBacked BlocksApply
PROPERTIES VolumeLimited
CHECK_DEADLOCK FALSE
