\* An admin and two companies, one tab and everybody else.
SPECIFICATION ConsoleSpec
CONSTANTS
  adm = adm
  ann = ann
  bob = bob
  ZERO = ZERO
  NoOne = NoOne
  Addr = {adm, ann, bob}
  Requesters = {adm, ann, bob}
  Refusing = {}
  InitEth <- NoEther
  Admin = adm
  MaxTokens = 1
  MaxPlans = 1
  MaxTime = 2
  U64Limit = 8
  NewIssuers = {ann}
  Markets = {}
  Prices = {1}
  Durations = {1}
  PartCounts = {}
  Recipients = {}
  MaxBundle = 0
  REQUEST_PAGE = 2
  MaxLoads = 1
  MaxActions = 1
  MaxElsewhere = 3
INVARIANTS ListComplete
PROPERTIES NobodySkipped ConsoleFlowsEnd
CHECK_DEADLOCK FALSE
