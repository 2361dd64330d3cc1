\* Sales: bought, listed, resold, gifted and split passes; linked to the escrow,
\* to another contract, to an account or to nothing.
SPECIFICATION MarketSpec
CONSTANTS
  adm = adm
  ann = ann
  bob = bob
  till = till
  ZERO = ZERO
  MARKET = MARKET
  ESCROW = ESCROW
  Addr = {adm, ann, bob, till, MARKET, ESCROW}
  Users = {ann, bob}
  Refusing = {MARKET}
  InitEth <- Purses
  Admin = adm
  MaxTokens = 3
  MaxPlans = 1
  MaxTime = 3
  U64Limit = 8
  NewIssuers = {}
  Markets = {}
  Prices = {10}
  Durations = {2}
  PartCounts = {2}
  MaxBundle = 2
  Recipients = {bob, ZERO}
  PlanPrice = 10
  PlanDuration = 2
  Escrows = {ESCROW, till, ann}
  Tills = {till}
  AskPrices = {12}
  Values = {6, 13}
INVARIANTS WealthConserved EscrowBacked
PROPERTIES PriceOnlyFalls PassLeavesForPay
\* Every transaction may have been spent: ids, time and wei are bounded.
CHECK_DEADLOCK FALSE
