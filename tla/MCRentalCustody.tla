--------------------------- MODULE MCRentalCustody ---------------------------
(* Custody on a small instance: an issuer, two users.                      *)
EXTENDS RentalCustody

CONSTANTS adm, ann, bob

Purses == [h \in Holders |-> IF h \in {ann, bob} THEN 21 ELSE 0]
ShortPlan == [price |-> 1, duration |-> 2]
=============================================================================
