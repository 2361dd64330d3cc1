--------------------------- MODULE MCActivityFeed ---------------------------
(* The log of two traders and a plan, and the pages that read it. *)
EXTENDS ActivityFeed

CONSTANTS adm, ann, bob

(* Amounts below 80 are shown to the wei. *)
Grains == [w \in 1 .. Milli - 1 |-> IF w >= 80 THEN 10 ELSE 1]

(* Each can afford a pass and a resale. *)
Purses == [h \in Holders |-> IF h \in {ann, bob} THEN 500 ELSE 0]
=============================================================================
