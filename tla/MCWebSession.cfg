\* Two flows of one tab over stale pages; bob lists and buys elsewhere.
SPECIFICATION SessionSpec
CONSTANTS
  adm = adm
  ann = ann
  bob = bob
  DEAD = dead
  ZERO = ZERO
  MARKET = MARKET
  ESCROW = ESCROW
  Addr = {adm, ann, bob, dead, MARKET, ESCROW}
  Users = {ann, bob}
  Refusing = {MARKET}
  InitEth <- Purses
  Admin = adm
  MaxTokens = 3
  MaxPlans = 1
  MaxTime = 2
  U64Limit = 8
  NewIssuers = {}
  Markets = {}
  Prices = {}
  Durations = {3}
  PartCounts = {2}
  MaxBundle = 2
  Recipients = {}
  PlanPrice = 10
  PlanDuration = 3
  Escrows = {}
  Tills = {}
  AskPrices = {20}
  Values = {21}
  Me = ann
  Rivals = {bob}
  Friends = {dead}
  Asks = {8, 12}
  Names = {"dashboard", "market", "pass"}
  MinSlice = 1
  MaxFlows = 2
  MaxElsewhere = 2
PROPERTIES NoOldListingMoves BoughtAsQuoted FlowsEnd
\* Every transaction and flow may have been spent: time and wei are bounded.
CHECK_DEADLOCK FALSE
