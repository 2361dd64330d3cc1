\* Splitting, merging and giving: four ids, one plan, passes of three seconds, of which
\* those issued last pass the u64 limit; the holder may be made the marketplace,
\* and the admin an issuer of its own.
SPECIFICATION Spec
CONSTANTS
  adm = adm
  ann = ann
  ZERO = ZERO
  Addr = {adm, ann}
  Admin = adm
  MaxTokens = 4
  MaxPlans = 1
  MaxTime = 3
  U64Limit = 6
  NewIssuers = {adm, ZERO}
  Markets = {ann}
  Prices = {2}
  Durations = {3}
  PartCounts = {2, 3}
  Recipients = {ZERO}
  MaxBundle = 2
  Refusing = {}
  InitEth <- Purses
INVARIANTS TypeOK
PROPERTIES PassTermsFixed SplitTilesWindow PaidOnlyBySale ImplementsLedger
\* Every transaction may have been spent: ids, time and wei are bounded.
CHECK_DEADLOCK FALSE
