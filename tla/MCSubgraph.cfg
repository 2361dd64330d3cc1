\* Sales, mints, splits, merges, gifts and resales, over three blocks; a transaction finds
\* at most one event of an earlier one still to be indexed, and three rows in the index;
\* the feed shows two.
SPECIFICATION SubgraphSpec
CONSTANTS
  adm = adm
  ann = ann
  bob = bob
  ZERO = ZERO
  MARKET = MARKET
  ESCROW = ESCROW
  Addr = {adm, ann, bob, MARKET, ESCROW}
  Users = {ann, bob}
  Refusing = {MARKET}
  InitEth <- Purses
  Admin = adm
  MaxTokens = 3
  MaxPlans = 1
  MaxTime = 3
  U64Limit = 8
  NewIssuers = {}
  Markets = {}
  Prices = {10}
  Durations = {2}
  PartCounts = {2}
  MaxBundle = 2
  Recipients = {bob}
  PlanPrice = 10
  PlanDuration = 2
  Escrows = {}
  Tills = {}
  AskPrices = {12}
  Values = {12}
  MintIds = {1}
  Openings = {FALSE}
  MaxLag = 1
  MaxRows = 3
  RecentRows = 2
INVARIANTS IndexAgrees RevenueAccounted
PROPERTIES IssuesReachIndex
\* Every transaction may have been spent: ids, time and wei are bounded.
CHECK_DEADLOCK FALSE
