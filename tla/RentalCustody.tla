--------------------------- MODULE RentalCustody ---------------------------
(***************************************************************************)
(* The rental contract with a history of custody: who put each pass into   *)
(* the contract's hands.  The contract does not record it; what it records *)
(* is who opened the stream.                                               *)
(***************************************************************************)
EXTENDS StreamRental

VARIABLE depositor

custodyVars == <<rentalVars, depositor>>

CustodyInit == RentalInit /\ depositor = [i \in Tokens |-> ZERO]

CustodyNext ==
  /\ RentalNext
  /\ depositor' = [i \in Tokens |->
                     IF owners[i] # RENTAL /\ owners'[i] = RENTAL
                     THEN owners[i] ELSE depositor[i]]

CustodySpec == CustodyInit /\ [][CustodyNext]_custodyVars

(* A pass comes back to the one who escrowed it ("only the real owner can open a
   stream, and only then can they escrow it"). *)
DepositorGetsPassBack ==
  [][\A i \in Tokens :
       owners[i] = RENTAL /\ owners'[i] # RENTAL
         => owners'[i] = depositor[i]]_custodyVars
=============================================================================
