------------------------------ MODULE LivePrice ------------------------------
(***************************************************************************)
(* The asking price as a card reckons it between two reads of the chain    *)
(* (web/components/LivePrice.tsx): from the listing as it was last read,   *)
(* once a second.                                                          *)
(***************************************************************************)
EXTENDS Integers

(* Mutant: the ramp is taken to begin with the pass. *)
priceAtFromNothing(decay, seconds) ==
  IF decay.openingWei <= 0 \/ seconds >= decay.expiry \/ decay.expiry <= decay.listedAt
  THEN 0
  ELSE (decay.openingWei * (decay.expiry - seconds)) \div decay.expiry

priceAt(decay, seconds) ==
  IF decay.openingWei <= 0 \/ seconds >= decay.expiry \/ decay.expiry <= decay.listedAt
  THEN 0
  ELSE (decay.openingWei * (decay.expiry - seconds)) \div (decay.expiry - decay.listedAt)
=============================================================================
