\* A stream opened by one owner, a pass escrowed by the next.
SPECIFICATION CustodySpec
CONSTANTS
  adm = adm
  ann = ann
  bob = bob
  ZERO = ZERO
  RENTAL = RENTAL
  Addr = {adm, ann, bob, RENTAL}
  RentalUsers = {ann, bob}
  Refusing = {RENTAL}
  InitEth <- Purses
  RentalPlan <- ShortPlan
  Admin = adm
  MaxTokens = 1
  MaxPlans = 1
  MaxTime = 4
  U64Limit = 8
  NewIssuers = {}
  Markets = {}
  Prices = {1}
  Durations = {}
  PartCounts = {2}
  MaxBundle = 2
  Recipients = {bob, RENTAL}
  Rates = {10, 7}
  Deposits = {10, 15}
PROPERTIES DepositorGetsPassBack
CHECK_DEADLOCK FALSE
