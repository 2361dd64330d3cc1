--------------------------- MODULE MCStreamRental ---------------------------
(* The rental contract on small instances: an issuer, an owner, a renter.  *)
EXTENDS StreamRental

CONSTANTS adm, ann, bob

Purses == [h \in Holders |-> IF h \in {ann, bob} THEN 21 ELSE 0]
ShortPlan == [price |-> 1, duration |-> 2]
=============================================================================
