----------------------------- MODULE LiquidPass -----------------------------
(***************************************************************************)
(* The whole system of contracts: the core, the resale market with its     *)
(* escrow, and the rental contract, over one set of passes.  Each was      *)
(* written without knowing of the others: a pass may be listed for sale    *)
(* and in custody at once.                                                 *)
(***************************************************************************)
EXTENDS Marketplace, StreamRental

ASSUME SystemAssumption ==
  /\ RENTAL \notin {MARKET, ESCROW} \cup Tills \cup Users
  /\ RentalUsers = Users

systemVars == <<vars, streams>>

LiquidInit == SystemInit /\ streams = [i \in Tokens |-> NoStream]

LiquidNext ==
  \/ MarketNext /\ UNCHANGED streams
  \/ \E caller \in Users :
       RentalStep(caller) /\ UNCHANGED <<escrowVars, marketVars>>

LiquidSpec == LiquidInit /\ [][LiquidNext]_systemVars
=============================================================================
