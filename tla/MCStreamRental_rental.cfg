\* Two streams, two users, each of them owner and renter.
SPECIFICATION RentalSpec
CONSTANTS
  adm = adm
  ann = ann
  bob = bob
  ZERO = ZERO
  RENTAL = RENTAL
  Addr = {adm, ann, bob, RENTAL}
  RentalUsers = {ann, bob}
  Refusing = {RENTAL}
  InitEth <- Purses
  RentalPlan <- ShortPlan
  Admin = adm
  MaxTokens = 2
  MaxPlans = 1
  MaxTime = 4
  U64Limit = 8
  NewIssuers = {}
  Markets = {}
  Prices = {1}
  Durations = {}
  PartCounts = {2}
  MaxBundle = 2
  Recipients = {bob, RENTAL}
  Rates = {10, 7}
  Deposits = {10, 15}
INVARIANTS RentalSolvent
PROPERTIES RentalTermsFixed UnusedTimeRefunded CustodyEnds
\* Every transaction may have been spent: ids, time and wei are bounded.
CHECK_DEADLOCK FALSE
