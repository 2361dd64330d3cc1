----------------------------- MODULE MCWebPages -----------------------------
(* Store, auto-sell panel, carousel, feed and popup on small instances.    *)
EXTENDS WebPages

CONSTANTS adm, ann, bob

AllOnDayTwo == [p \in PassIds |-> 2]

(* What 200 was paid for is shown exactly, and so are halves of it; 66 is not far off. *)
Grains == [w \in 1 .. Milli - 1 |-> IF w >= 80 THEN 10 ELSE IF w >= 20 THEN 2 ELSE 1]

(* Each can afford a pass and a resale. *)
Purses == [h \in Holders |-> IF h \in {ann, bob} THEN 500 ELSE 0]
=============================================================================
