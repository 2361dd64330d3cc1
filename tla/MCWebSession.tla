---------------------------- MODULE MCWebSession ----------------------------
(* A tab of ann's; bob trades elsewhere.                                    *)
EXTENDS WebSession

CONSTANTS adm, ann, bob

Purses == [h \in Holders |-> IF h \in {ann, bob} THEN 30 ELSE 0]
=============================================================================
