\* A resale, and a feed read after it.
SPECIFICATION FeedSpec
CONSTANTS
  adm = adm
  ann = ann
  bob = bob
  ZERO = ZERO
  MARKET = MARKET
  ESCROW = ESCROW
  CORE = CORE
  Addr = {adm, ann, bob, MARKET, ESCROW}
  Users = {ann, bob}
  Refusing = {MARKET}
  InitEth <- Purses
  Admin = adm
  MaxTokens = 1
  MaxPlans = 1
  MaxTime = 4
  U64Limit = 16
  NewIssuers = {}
  Markets = {}
  Prices = {200}
  Durations = {3}
  PartCounts = {2}
  MaxBundle = 2
  Recipients = {bob}
  PlanPrice = 200
  PlanDuration = 3
  Escrows = {}
  Tills = {}
  AskPrices = {150}
  Values = {150}
  DEPLOY_BLOCK = 1
  LOG_WINDOW = 2
  Limit = 6
  MaxLogs = 5
  Milli = 120
  Micro = 20
  Grain <- Grains
INVARIANTS ResalesShown
\* Every transaction may have been spent: ids, time, wei and the log are bounded.
CHECK_DEADLOCK FALSE
