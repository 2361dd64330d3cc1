--------------------------- MODULE MCPassKeyWallet ---------------------------
(* Two deployments bound to at most two devices, and the page of one of them. *)
EXTENDS PasskeyClient

CONSTANTS w1, w2, k1, k2
=============================================================================
