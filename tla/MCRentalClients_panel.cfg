\* The panel alone: what it offers once a rental has used up its deposit.
SPECIFICATION ClientsSpec
CONSTANTS
  adm = adm
  ann = ann
  bob = bob
  ZERO = ZERO
  MARKET = MARKET
  ESCROW = ESCROW
  RENTAL = RENTAL
  Addr = {adm, ann, bob, MARKET, ESCROW, RENTAL}
  Users = {ann, bob}
  RentalUsers = {ann, bob}
  Refusing = {MARKET, RENTAL}
  InitEth <- Purses
  RentalPlan <- ThePlan
  Admin = adm
  MaxTokens = 1
  MaxPlans = 1
  MaxTime = 3
  U64Limit = 8
  NewIssuers = {}
  Markets = {}
  Prices = {5}
  Durations = {2}
  PartCounts = {}
  MaxBundle = 0
  Recipients = {ann, bob, RENTAL}
  PlanPrice = 5
  PlanDuration = 2
  Escrows = {}
  Tills = {}
  AskPrices = {8}
  Values = {8}
  Rates = {2}
  Deposits = {3}
  Me = ann
  PanelPass = 0
  OpensBy = 1
  MaxLoads = 1
  MaxRuns = 1
  MaxOutside = 1
  Checkers = {"access", "oracle"}
  MaxSends = 1
  Clients = {"panel"}
INVARIANTS FinishedSettleOffered
\* Every transaction may have been spent: ids, time and wei are bounded.
CHECK_DEADLOCK FALSE
