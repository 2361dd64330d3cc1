----------------------------- MODULE MCSubgraph -----------------------------
(* The indexer behind the market: an issuer and two traders.               *)
EXTENDS Subgraph

CONSTANTS adm, ann, bob

(* Ann can afford a pass and a resale, Bob a resale. *)
Purses == [h \in Holders |-> CASE h = ann -> 10 [] h = bob -> 12 [] OTHER -> 0]
=============================================================================
