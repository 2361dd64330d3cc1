---------------------------- MODULE MCRentalClients ----------------------------
(* All the contracts on a small instance: an issuer, two users.            *)
EXTENDS RentalClients

CONSTANTS adm, ann, bob

Purses == [h \in Holders |-> IF h \in {ann, bob} THEN 16 ELSE 0]
ThePlan == [price |-> 5, duration |-> 2]
=============================================================================
