CONSTANTS
  RatioDenom = 4
  Accounts = {"alice", "bob", "carol"}
  MarketFeePercent <- MCFeePercent
  MaxMarketFee <- MCMaxFee
  CancelFee = 1
  MaxSettlementPercent = 50
  SettlementOffset = 10
  Issuer = "carol"
  Publishers = {"p"}
  FeedLifetime = 2
  MinimumFeeds = 1
  SettlementDelay = 1
  MaintenanceInterval = 2
  OrderFee = 1
  ExchangeRate <- MCRate
  Start <- MCQuiet
  LimitOrders = {}
  CallUpdates <- MCOpen
  Settlements = {2}
  Bids <- MCBids
  Feeds <- MCTwoRatios
  SettlePrices <- MCSettlePrices
  MaxOperations = 4
  MaxTime = 3
SPECIFICATION Spec
INVARIANTS CallsBacked
CHECK_DEADLOCK FALSE
