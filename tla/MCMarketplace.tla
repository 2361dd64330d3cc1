--------------------------- MODULE MCMarketplace ---------------------------
(* The market on small instances: an issuer, two traders, the contracts.   *)
EXTENDS Marketplace

CONSTANTS adm, ann, bob, till

(* Traders can pay; the contracts start empty. *)
Purses == [h \in Holders |-> IF h \in {ann, bob} THEN 16 ELSE 0]
=============================================================================
