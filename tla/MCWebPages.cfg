\* Two toasts and one pass of each kind; one held pass, two rules, two days; a rail of
\* up to two cards, of which one fits, and four gestures.  Three passes traded over two
\* windows of the log, a feed of six rows; two loads of the popup and two transactions
\* that come between.
SPECIFICATION WebSpec
CONSTANTS
  ToastIds = {t1, t2}
  Catalogue = {1}
  MaxPasses = 1
  TypedPrices = {"", "0.1"}
  NoPrice = NoPrice
  Days = {10}
  PassIds = {p1}
  RuleIds = {r1, r2}
  Triggers = {1, 2}
  MaxDay = 2
  ExpiryDay <- AllOnDayTwo
  NoToken = NoToken
  Lengths = {0, 1, 2}
  Extent = 3
  Fits = 1
  MaxGestures = 4
  adm = adm
  ann = ann
  bob = bob
  ZERO = ZERO
  MARKET = MARKET
  ESCROW = ESCROW
  CORE = CORE
  Addr = {adm, ann, bob, MARKET, ESCROW}
  Users = {ann, bob}
  Refusing = {MARKET}
  InitEth <- Purses
  Admin = adm
  MaxTokens = 3
  MaxPlans = 1
  MaxTime = 4
  U64Limit = 16
  NewIssuers = {}
  Markets = {}
  Prices = {200}
  Durations = {3}
  PartCounts = {2}
  MaxBundle = 2
  Recipients = {bob}
  PlanPrice = 200
  PlanDuration = 3
  Escrows = {}
  Tills = {}
  AskPrices = {150}
  Values = {150}
  DEPLOY_BLOCK = 1
  LOG_WINDOW = 2
  Limit = 6
  MaxLogs = 6
  Milli = 120
  Micro = 20
  Grain <- Grains
  Pasted = {ann}
  MaxLoads = 2
  MaxElsewhere = 4
INVARIANTS FeedIsHistory HoldersTraced PricesHold
PROPERTIES ToastsSettle NoRuleLost NoRuleRevived NoBuyFromDrag RailSweeps PassesRead
CHECK_DEADLOCK FALSE
