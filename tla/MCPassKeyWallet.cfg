\* Two deployments, two devices, two calls; a site that is not the wallet's.
SPECIFICATION ClientSpec
CONSTANTS
  w1 = w1
  w2 = w2
  k1 = k1
  NoKey = NoKey
  Wallets = {w1, w2}
  k2 = k2
  Keys = {k1, k2}
  Calls = {"pay", "sweep"}
  Origins = {"here", "elsewhere"}
  EXPECTED_ORIGIN = "here"
  MaxNonce = 2
  MaxSigned = 2
  PageWallet = w1
  PageOrigin = "here"
  NoOp = "pay"
  P256_N = 3
INVARIANTS ActedOnOnce CallsAreSigned VerdictIsContracts
CHECK_DEADLOCK FALSE
